---------------------- MODULE RunDispatchSafetyProofs ----------------------
(***************************************************************************)
(* The safety properties of RunDispatch and its refinement of               *)
(* DiagnosisLane, for every value of the constants.                        *)
(*                                                                         *)
(* All of them follow from what a transaction may do to one row (RowChange).*)
(* Most steps are Quiet: every row changes that way, no run succeeds, and   *)
(* no merchant, result or reservation is touched.  What is left is a        *)
(* reservation, an accepted result, and a change of a merchant's lifecycle. *)
(***************************************************************************)
EXTENDS RunDispatchTypeProofs

USE IdsAssumption, BoundsAssumption, MerchantsAssumption

-----------------------------------------------------------------------------
(* Rows.                                                                    *)

\* A running row is not failed, a reservation has no evidence yet, a dispatched
\* row is bound, its candidate agrees, and it has a lifecycle; what succeeded
\* was bound.
Sound(row) ==
    /\ row.status = "running" =>
         /\ row.dispatch # "FAILED"
         /\ row.dispatch = "DISPATCHING" => Evidence(row) = NoId
         /\ row.dispatch = "DISPATCHED" =>
              row.core # NoId /\ row.cand = row.core /\ row.gen # 0
    /\ row.status = "absent" => Evidence(row) = NoId
    /\ row.status = "succeeded" => row.core # NoId

\* The outcome of the dispatch is known.
Settled(row) == row.dispatch \in {"DISPATCHED", "FAILED"}

RowChange(old, new) ==
    /\ new.merchant = old.merchant /\ new.gen = old.gen
    /\ old.status # "running" => new = old
    /\ old.status = "running" => new.status # "absent"
    /\ Evidence(old) # NoId => Evidence(new) = Evidence(old)
    /\ Settled(old) => Settled(new)
    /\ Sound(new)

RowsSound == \A r \in Runs : Sound(run[r])

LEMMA SameRow ==
    ASSUME NEW row, Sound(row)
    PROVE  RowChange(row, row)
  BY DEF RowChange, Settled, Sound

LEMMA FailedChange ==
    ASSUME NEW row \in Row, row.status = "running", NEW why \in Errors
    PROVE  RowChange(row, Failed(row, why)) /\ Failed(row, why).status = "failed"
  BY DEF RowChange, Settled, Sound, Failed, Evidence, Row

LEMMA DetachedChange ==
    ASSUME NEW row \in Row, Sound(row), row.status = "running", row.dispatch = "DISPATCHED",
           NEW why \in Errors
    PROVE  RowChange(row, Detached(row, why)) /\ Detached(row, why).status = "failed"
  BY DEF RowChange, Settled, Sound, Detached, Failed, Evidence, Row

LEMMA BoundChange ==
    ASSUME NEW row \in Row, row.status = "running", row.core = NoId, row.gen # 0,
           NEW p \in ProviderIds, row.cand \in {NoId, p}
    PROVE  RowChange(row, Bound(row, p)) /\ Bound(row, p).status = "running"
  <1>1. p # NoId
    BY IdsAssumption
  <1>2. /\ Bound(row, p).merchant = row.merchant /\ Bound(row, p).gen = row.gen
        /\ Bound(row, p).core = p /\ Bound(row, p).cand = p
        /\ Bound(row, p).dispatch = "DISPATCHED"
        /\ Bound(row, p).status = "running"
    BY DEF Bound, Row
  <1>. QED  BY <1>1, <1>2 DEF RowChange, Settled, Sound, Evidence

LEMMA UnansweredChange ==
    ASSUME NEW row \in Row, Sound(row), row.status = "running", row.dispatch = "DISPATCHED",
           NEW missing \in BOOLEAN
    PROVE  /\ RowChange(row, Unanswered(row, missing))
           /\ Unanswered(row, missing).status # "succeeded"
  <1>1. "NO_LONGER_AVAILABLE" \in Errors /\ "POLL_STALE" \in Errors
    BY DEF Errors
  <1>2. /\ RowChange(row, [row EXCEPT !.failure = "recent"])
        /\ [row EXCEPT !.failure = "recent"].status = "running"
    BY DEF RowChange, Settled, Sound, Evidence, Row
  <1>3. RowChange(row, row)
    BY SameRow
  <1>. QED  BY <1>1, <1>2, <1>3, DetachedChange DEF Unanswered

LEMMA RefusedChange ==
    ASSUME NEW row \in Row, NEW p \in ProviderIds, Bindable(row, p), NEW why \in Errors
    PROVE  /\ RowChange(row, Failed([row EXCEPT !.cand = p], why))
           /\ Failed([row EXCEPT !.cand = p], why).status = "failed"
  BY DEF Bindable, RowChange, Settled, Sound, Failed, Evidence, Row

\* A late answer binds, fails or leaves the row alone; a current lifecycle has a
\* generation, so what it binds is sound.
LEMMA AnsweredChange ==
    ASSUME TypeInv, RowsSound, NEW r \in Runs, NEW p \in ProviderIds
    PROVE  /\ RowChange(run[r], Answered(r, p))
           /\ Answered(r, p).status = "succeeded" => run[r].status = "succeeded"
  <1>1. run[r] \in Row /\ Sound(run[r]) /\ generation \in [Merchants -> 1..MaxGeneration]
    BY DEF TypeInv, TypeOK, RowsSound
  <1>2. RowChange(run[r], run[r])
    BY <1>1, SameRow
  <1>3. "LIFECYCLE_CHANGED" \in Errors /\ "DUPLICATE_RUN_ID" \in Errors
    BY DEF Errors
  <1>4. ASSUME Bindable(run[r], p), NEW why \in Errors
        PROVE  /\ RowChange(run[r], Failed([run[r] EXCEPT !.cand = p], why))
               /\ Failed([run[r] EXCEPT !.cand = p], why).status = "failed"
    BY <1>1, <1>4, RefusedChange
  <1>5. ASSUME Bindable(run[r], p), LifecycleCurrent(r)
        PROVE  RowChange(run[r], Bound(run[r], p)) /\ Bound(run[r], p).status = "running"
    <2>1. run[r].gen # 0
      BY <1>1, <1>5 DEF LifecycleCurrent, Row
    <2>. QED  BY <1>1, <1>5, <2>1, BoundChange DEF Bindable
  <1>. QED  BY <1>2, <1>3, <1>4, <1>5 DEF Answered

LEMMA RecoveredChange ==
    ASSUME TypeInv, RowsSound, NEW r \in Runs
    PROVE  /\ RowChange(run[r], Recovered(r))
           /\ Recovered(r).status = "succeeded" => run[r].status = "succeeded"
  <1>. DEFINE row == run[r]
  <1>1. row \in Row /\ Sound(row)
    BY DEF TypeInv, TypeOK, RowsSound
  <1>2. RowChange(row, row)
    BY <1>1, SameRow
  <1>3. ASSUME Running(r), row.dispatch = "UNKNOWN", Evidence(row) # NoId
        PROVE  RowChange(row, RecoveredEvidence(r)) /\ RecoveredEvidence(r).status # "succeeded"
    <2>. DEFINE promoted == [row EXCEPT !.cand = row.core, !.dispatch = "DISPATCHED",
                                        !.failure = "none", !.error = "none"]
                given_up == [Failed(row, TerminalError(r)) EXCEPT
                               !.cand = Evidence(row), !.core = NoId, !.failure = "none"]
    <2>1. ASSUME Promotable(r)
          PROVE  RowChange(row, promoted) /\ promoted.status = "running"
      BY <1>1, <1>3, <2>1 DEF Promotable, Running, RowChange, Settled, Sound, Evidence, Row
    <2>2. RowChange(row, given_up) /\ given_up.status = "failed"
      <3>1. /\ given_up.merchant = row.merchant /\ given_up.gen = row.gen
            /\ given_up.core = NoId /\ given_up.cand = Evidence(row)
            /\ given_up.status = "failed"
        BY <1>1 DEF Failed, Row
      <3>. HIDE DEF given_up
      <3>. QED  BY <1>1, <1>3, <3>1 DEF RowChange, Settled, Sound, Evidence, Running
    <2>3. row.status = "running"
      BY <1>3 DEF Running
    <2>. QED  BY <1>2, <2>1, <2>2, <2>3 DEF RecoveredEvidence
  <1>4. ASSUME Running(r), row.core = NoId, row.dispatch = "DISPATCHING"
        PROVE  LET unknown == [row EXCEPT !.dispatch = "UNKNOWN", !.error = "STALE_UNKNOWN"]
               IN RowChange(row, unknown) /\ unknown.status = "running"
    BY <1>1, <1>4 DEF RowChange, Settled, Sound, Running, Evidence, Row
  <1>5. Running(r) => row.status = "running"
    BY DEF Running
  <1>. QED  BY <1>2, <1>3, <1>4, <1>5 DEF Recovered

-----------------------------------------------------------------------------
(* Steps.                                                                   *)

QuietRow(r) ==
    /\ RowChange(run[r], run'[r])
    /\ run'[r].status = "succeeded" => run[r].status = "succeeded"
    /\ call'[r] # "none" => call[r] # "none"

Quiet ==
    /\ UNCHANGED <<active, generation, accepted>>
    /\ \A r \in Runs : QuietRow(r)

\* A step that changes one row, or none, is quiet if it is so for that row.
LEMMA QuietUpdate ==
    ASSUME TypeInv, RowsSound, NEW r \in Runs, NEW row,
           run' = [run EXCEPT ![r] = row], RowChange(run[r], row),
           row.status = "succeeded" => run[r].status = "succeeded",
           \A s \in Runs : call'[s] # "none" => call[s] # "none",
           UNCHANGED <<active, generation, accepted>>
    PROVE  Quiet
  <1>1. run \in [Runs -> Row] /\ \A s \in Runs : Sound(run[s])
    BY DEF TypeInv, TypeOK, RowsSound
  <1>2. run'[r] = row /\ \A s \in Runs \ {r} : run'[s] = run[s]
    BY <1>1
  <1>. QED  BY <1>1, <1>2, SameRow DEF Quiet, QuietRow

LEMMA QuietElsewhere ==
    ASSUME TypeInv, RowsSound, run' = run,
           \A s \in Runs : call'[s] # "none" => call[s] # "none",
           UNCHANGED <<active, generation, accepted>>
    PROVE  Quiet
  BY SameRow DEF Quiet, QuietRow, RowsSound

LEMMA QuietCaller ==
    ASSUME TypeInv, RowsSound, NEW r \in Runs,
           \/ RecordRejection(r) \/ RecordUncertainty(r) \/ RecordAnswer(r)
           \/ AnswerRefused(r) \/ RecordRefusal(r)
    PROVE  Quiet
  <1>1. /\ run[r] \in Row /\ Sound(run[r]) /\ RowChange(run[r], run[r])
        /\ call \in [Runs -> Calls] /\ answer \in [Runs -> Ids]
        /\ call[r] \in {"answered", "refused", "refusedUnknown"} => answer[r] \in ProviderIds
    BY SameRow DEF TypeInv, TypeOK, RowsSound, WorkTyped
  <1>2. /\ UNCHANGED <<active, generation, accepted>>
        /\ \A s \in Runs : call'[s] # "none" => call[s] # "none"
    BY <1>1 DEF RecordRejection, RecordUncertainty, RecordAnswer, AnswerRefused, RecordRefusal,
                tables
  <1>3. CASE RecordRejection(r)
    <2>. DEFINE row == IF AwaitsAnswer(run[r]) THEN Failed(run[r], "REJECTED") ELSE run[r]
    <2>1. "REJECTED" \in Errors
      BY DEF Errors
    <2>2. RowChange(run[r], row) /\ (row.status = "succeeded" => run[r].status = "succeeded")
      BY <1>1, <2>1, FailedChange DEF AwaitsAnswer
    <2>3. run' = [run EXCEPT ![r] = row]
      BY <1>3 DEF RecordRejection, TypeInv, TypeOK
    <2>. HIDE DEF row
    <2>. QED  BY <1>2, <2>2, <2>3, QuietUpdate
  <1>4. CASE RecordUncertainty(r)
    <2>. DEFINE row == IF AwaitsAnswer(run[r])
                         THEN [run[r] EXCEPT !.dispatch = "UNKNOWN", !.error = "OUTCOME_UNKNOWN"]
                         ELSE run[r]
    <2>1. RowChange(run[r], row) /\ (row.status = "succeeded" => run[r].status = "succeeded")
      BY <1>1 DEF RowChange, Settled, Sound, Evidence, AwaitsAnswer, Row
    <2>2. run' = [run EXCEPT ![r] = row]
      BY <1>4 DEF RecordUncertainty, TypeInv, TypeOK
    <2>. HIDE DEF row
    <2>. QED  BY <1>2, <2>1, <2>2, QuietUpdate
  <1>5. CASE RecordAnswer(r)
    <2>1. answer[r] \in ProviderIds /\ run' = [run EXCEPT ![r] = Answered(r, answer[r])]
      BY <1>1, <1>5 DEF RecordAnswer
    <2>. QED  BY <1>2, <2>1, AnsweredChange, QuietUpdate
  <1>6. CASE AnswerRefused(r)
    BY <1>2, <1>6, QuietElsewhere DEF AnswerRefused, tables
  <1>7. CASE RecordRefusal(r)
    <2>. DEFINE row == Failed([run[r] EXCEPT !.cand = answer[r]], "DUPLICATE_RUN_ID")
    <2>1. /\ answer[r] \in ProviderIds
          /\ \/ run' = [run EXCEPT ![r] = run[r]]
             \/ Bindable(run[r], answer[r]) /\ run' = [run EXCEPT ![r] = row]
      BY <1>1, <1>7 DEF RecordRefusal
    <2>2. "DUPLICATE_RUN_ID" \in Errors
      BY DEF Errors
    <2>3. Bindable(run[r], answer[r]) => RowChange(run[r], row) /\ row.status = "failed"
      BY <1>1, <2>1, <2>2, RefusedChange
    <2>. HIDE DEF row
    <2>. QED  BY <1>1, <1>2, <2>1, <2>3, QuietUpdate
  <1>. QED  BY <1>3, <1>4, <1>5, <1>6, <1>7

LEMMA QuietRecovery ==
    ASSUME TypeInv, RowsSound, NEW r \in Runs,
           Recover \/ DispatchAges(r) \/ FailureAges(r)
    PROVE  Quiet
  <1>1. run \in [Runs -> Row] /\ run[r] \in Row /\ Sound(run[r])
    BY DEF TypeInv, TypeOK, RowsSound
  <1>2. UNCHANGED <<active, generation, accepted, call>>
    BY DEF Recover, DispatchAges, FailureAges, network
  <1>3. CASE Recover
    BY <1>2, <1>3, RecoveredChange DEF Recover, Quiet, QuietRow
  <1>4. CASE DispatchAges(r)
    <2>. DEFINE row == [run[r] EXCEPT !.age = "stale"]
    <2>1. RowChange(run[r], row) /\ row.status = run[r].status
      BY <1>1, <1>4 DEF RowChange, Settled, Sound, Evidence, Row, DispatchAges, Running
    <2>2. run' = [run EXCEPT ![r] = row]
      BY <1>1, <1>4 DEF DispatchAges
    <2>. HIDE DEF row
    <2>. QED  BY <1>2, <2>1, <2>2, QuietUpdate
  <1>5. CASE FailureAges(r)
    <2>. DEFINE row == [run[r] EXCEPT !.failure = "overdue"]
    <2>1. RowChange(run[r], row) /\ row.status = run[r].status
      BY <1>1, <1>5 DEF RowChange, Settled, Sound, Evidence, Row, FailureAges, Running
    <2>2. run' = [run EXCEPT ![r] = row]
      BY <1>1, <1>5 DEF FailureAges
    <2>. HIDE DEF row
    <2>. QED  BY <1>2, <2>1, <2>2, QuietUpdate
  <1>. QED  BY <1>3, <1>4, <1>5

LEMMA QuietPoll ==
    ASSUME TypeInv, RowsSound, NEW q \in Pollers, PollStep(q), ~PollAccept(q)
    PROVE  Quiet
  <1>1. /\ run \in [Runs -> Row] /\ \A r \in Runs : Sound(run[r]) /\ run[r] \in Row
        /\ poll[q].pc = "replied" => poll[q].run \in Runs
    BY DEF TypeInv, TypeOK, RowsSound, WorkTyped
  <1>2. UNCHANGED <<active, generation, accepted, call>>
    BY DEF PollStep, PollSelect, PollDone, PollFence, PollAsks, PollError, PollReported,
           tables, network
  <1>3. \A r \in Runs : RowChange(run[r], run[r])
    BY <1>1, SameRow
  <1>4. ASSUME NEW r \in Runs, run[r].status = "running", run[r].dispatch = "DISPATCHED"
        PROVE  /\ RowChange(run[r], Detached(run[r], "LIFECYCLE_CHANGED"))
               /\ Detached(run[r], "LIFECYCLE_CHANGED").status = "failed"
               /\ \A missing \in BOOLEAN : /\ RowChange(run[r], Unanswered(run[r], missing))
                                           /\ Unanswered(run[r], missing).status # "succeeded"
               /\ RowChange(run[r], [run[r] EXCEPT !.failure = "none"])
               /\ [run[r] EXCEPT !.failure = "none"].status = "running"
    <2>1. "LIFECYCLE_CHANGED" \in Errors
      BY DEF Errors
    <2>2. /\ RowChange(run[r], [run[r] EXCEPT !.failure = "none"])
          /\ [run[r] EXCEPT !.failure = "none"].status = "running"
      BY <1>1, <1>4 DEF RowChange, Settled, Sound, Evidence, Row
    <2>. QED  BY <1>1, <1>4, <2>1, <2>2, DetachedChange, UnansweredChange
  <1>5. ASSUME NEW r \in Runs, NEW row, run' = [run EXCEPT ![r] = row], RowChange(run[r], row),
               row.status = "succeeded" => run[r].status = "succeeded"
        PROVE  Quiet
    BY <1>2, <1>5, QuietUpdate
  <1>6. CASE PollSelect(q) \/ PollDone(q) \/ PollAsks(q)
    BY <1>2, <1>6, QuietElsewhere DEF PollSelect, PollDone, PollAsks, tables
  <1>7. ASSUME NEW r \in Runs, PollFence(q, r) PROVE Quiet
    <2>1. \/ run' = [run EXCEPT ![r] = run[r]]
          \/ /\ run[r].status = "running" /\ run[r].dispatch = "DISPATCHED"
             /\ run' = [run EXCEPT ![r] = Detached(run[r], "LIFECYCLE_CHANGED")]
      BY <1>1, <1>7 DEF PollFence, MatchesClaim, Pollable, Running
    <2>. QED  BY <1>3, <1>4, <1>5, <2>1
  <1>8. CASE PollError(q)
    <2>. DEFINE r == poll[q].run
    <2>1. r \in Runs
      BY <1>1, <1>8 DEF PollError
    <2>2. \/ run' = [run EXCEPT ![r] = run[r]]
          \/ /\ run[r].status = "running" /\ run[r].dispatch = "DISPATCHED"
             /\ \/ run' = [run EXCEPT ![r] = Detached(run[r], "LIFECYCLE_CHANGED")]
                \/ \E missing \in BOOLEAN : run' = [run EXCEPT ![r] = Unanswered(run[r], missing)]
      BY <1>1, <1>8, <2>1 DEF PollError, MatchesClaim
    <2>. HIDE DEF r
    <2>. QED  BY <1>3, <1>4, <1>5, <2>1, <2>2
  <1>9. CASE PollReported(q)
    <2>. DEFINE r == poll[q].run
    <2>1. r \in Runs
      BY <1>1, <1>9 DEF PollReported
    <2>2. \/ run' = [run EXCEPT ![r] = run[r]]
          \/ /\ run[r].status = "running" /\ run[r].dispatch = "DISPATCHED"
             /\ \/ run' = [run EXCEPT ![r] = Detached(run[r], "LIFECYCLE_CHANGED")]
                \/ run' = [run EXCEPT ![r] = [run[r] EXCEPT !.failure = "none"]]
      BY <1>1, <1>9, <2>1 DEF PollReported, MatchesClaim
    <2>. HIDE DEF r
    <2>. QED  BY <1>3, <1>4, <1>5, <2>1, <2>2
  <1>. QED  BY <1>6, <1>7, <1>8, <1>9 DEF PollStep

\* An operator's commit acts on an UNKNOWN row that is still what was read.
LEMMA QuietDesk ==
    ASSUME TypeInv, RowsSound, NEW o \in Operators,
           \/ \E r \in Runs : NotCreatedRequest(o, r)
           \/ \E r \in Runs, p \in ProviderIds : BindRequest(o, r, p)
           \/ NotCreatedCommit(o) \/ BindReadback(o) \/ BindCommit(o) \/ CandidateRejected(o)
    PROVE  Quiet
  <1>1. /\ run \in [Runs -> Row] /\ generation \in [Merchants -> 1..MaxGeneration]
        /\ desk[o].kind # "idle" => desk[o].run \in Runs
        /\ desk[o].kind = "verified" =>
             desk[o].id \in ProviderIds /\ desk[o].cand \in {NoId, desk[o].id}
    BY DEF TypeInv, TypeOK, WorkTyped
  <1>2. UNCHANGED <<active, generation, accepted, call>>
    BY DEF NotCreatedRequest, NotCreatedCommit, BindRequest, BindReadback, BindCommit,
           CandidateRejected, tables, network
  <1>3. CASE \/ \E r \in Runs : NotCreatedRequest(o, r)
             \/ \E r \in Runs, p \in ProviderIds : BindRequest(o, r, p)
             \/ BindReadback(o)
    BY <1>2, <1>3, QuietElsewhere DEF NotCreatedRequest, BindRequest, BindReadback, tables
  <1>4. CASE NotCreatedCommit(o) \/ BindCommit(o) \/ CandidateRejected(o)
    <2>. DEFINE r == desk[o].run
    <2>1. r \in Runs /\ run[r] \in Row /\ Sound(run[r]) /\ RowChange(run[r], run[r])
      BY <1>1, <1>4, SameRow DEF NotCreatedCommit, BindCommit, CandidateRejected, RowsSound
    <2>2. ASSUME NEW row, run' = [run EXCEPT ![r] = row], RowChange(run[r], row),
                 row.status = "succeeded" => run[r].status = "succeeded"
          PROVE  Quiet
      BY <1>2, <2>1, <2>2, QuietUpdate
    <2>3. CASE run' = [run EXCEPT ![r] = run[r]]
      BY <2>1, <2>2, <2>3
    <2>4. CASE NotCreatedCommit(o) /\ Reconcilable(run[r])
                 /\ run' = [run EXCEPT ![r] = Failed(run[r], "NOT_CREATED")]
      BY <2>1, <2>2, <2>4, FailedChange DEF Reconcilable, Errors
    <2>5. CASE CandidateRejected(o) /\ Reconcilable(run[r])
                 /\ \E why \in Errors :
                      run' = [run EXCEPT ![r] = [Failed(run[r], why) EXCEPT !.failure = "none"]]
      <3>1. PICK why \in Errors :
               run' = [run EXCEPT ![r] = [Failed(run[r], why) EXCEPT !.failure = "none"]]
        BY <2>5
      <3>2. LET row == [Failed(run[r], why) EXCEPT !.failure = "none"]
            IN RowChange(run[r], row) /\ row.status = "failed"
        BY <2>1, <2>5 DEF Reconcilable, RowChange, Settled, Sound, Failed, Evidence, Row
      <3>. QED  BY <2>2, <3>1, <3>2
    <2>6. CASE BindCommit(o) /\ Reconcilable(run[r]) /\ SameIdentity(run[r], desk[o])
                 /\ LifecycleCurrent(r)
                 /\ run' = [run EXCEPT ![r] =
                              [Bound(run[r], desk[o].id) EXCEPT !.age = "fresh", !.failure = "none"]]
      <3>. DEFINE bound == Bound(run[r], desk[o].id)
                  row   == [bound EXCEPT !.age = "fresh", !.failure = "none"]
      <3>1. run[r].gen # 0
        BY <1>1, <2>1, <2>6 DEF LifecycleCurrent, Row
      <3>2. /\ desk[o].id \in ProviderIds /\ run[r].cand \in {NoId, desk[o].id}
            /\ run[r].core = NoId /\ run[r].status = "running"
        BY <1>1, <2>6 DEF BindCommit, SameIdentity, Reconcilable
      <3>3. RowChange(run[r], bound) /\ bound.status = "running" /\ bound \in Row
        BY <2>1, <3>1, <3>2, BoundChange, BoundType
      <3>4. /\ row.status = bound.status /\ row.core = bound.core /\ row.cand = bound.cand
            /\ row.gen = bound.gen /\ row.merchant = bound.merchant
            /\ row.dispatch = bound.dispatch
        <4>. HIDE DEF bound
        <4>. QED  BY <3>3 DEF Row
      <3>5. RowChange(run[r], row) /\ row.status = "running"
        <4>. HIDE DEF bound, row
        <4>. QED  BY <3>2, <3>3, <3>4 DEF RowChange, Settled, Sound, Evidence
      <3>. QED  BY <2>2, <2>6, <3>5
    <2>7. CASE NotCreatedCommit(o)
      BY <1>1, <2>1, <2>3, <2>4, <2>7 DEF NotCreatedCommit
    <2>8. CASE CandidateRejected(o)
      BY <1>1, <2>1, <2>3, <2>5, <2>8 DEF CandidateRejected, Errors
    <2>9. CASE BindCommit(o)
      BY <1>1, <2>1, <2>3, <2>6, <2>9 DEF BindCommit
    <2>. QED  BY <1>4, <2>7, <2>8, <2>9
  <1>. QED  BY <1>3, <1>4

LEMMA QuietNetwork ==
    ASSUME TypeInv, RowsSound,
           \/ \E r \in Runs, p \in ProviderIds : TriggerCreates(r, p) \/ TriggerRepeats(r, p)
           \/ \E r \in Runs : TriggerRejected(r) \/ TriggerUncertain(r) \/ TriggerLost(r)
           \/ \E p \in ProviderIds : ProviderEnds(p) \/ ProviderForgets(p) \/ TaskBinds(p)
           \/ Crash
           \/ UNCHANGED vars
    PROVE  Quiet
  <1>1. UNCHANGED <<active, generation, run, accepted>>
    BY DEF TriggerCreates, TriggerRepeats, TriggerRejected, TriggerUncertain, TriggerLost,
           ProviderEnds, ProviderForgets, TaskBinds, Crash, tables, vars
  <1>2. call \in [Runs -> Calls]
    BY DEF TypeInv, TypeOK
  <1>3. \A s \in Runs : call'[s] # "none" => call[s] # "none"
    BY <1>2 DEF TriggerCreates, TriggerRepeats, TriggerRejected, TriggerUncertain, TriggerLost,
           ProviderEnds, ProviderForgets, TaskBinds, Crash, tables, vars
  <1>. QED  BY <1>1, <1>3, QuietElsewhere

\* Accepting a result is the only step that makes a run succeed, and it does so
\* only for a running row in the lifecycle of its reservation.
Accepts(r) ==
    /\ UNCHANGED <<active, generation, call>>
    /\ Running(r) /\ LifecycleCurrent(r)
    /\ run' = [run EXCEPT ![r].status = "succeeded"]
    /\ RowChange(run[r], run'[r])
    /\ \A s \in Runs \ {r} : accepted'[s] = accepted[s]

LEMMA AcceptStep ==
    ASSUME TypeInv, RowsSound, NEW q \in Pollers, PollAccept(q)
    PROVE  Quiet \/ \E r \in Runs : Accepts(r)
  <1>. DEFINE r == poll[q].run
  <1>1. r \in Runs /\ run \in [Runs -> Row] /\ run[r] \in Row /\ Sound(run[r])
    BY DEF TypeInv, TypeOK, RowsSound, WorkTyped, PollAccept
  <1>2. UNCHANGED <<active, generation, call>> /\ accepted \in [Runs -> SUBSET {"audit", "plan"}]
    BY DEF TypeInv, TypeOK, PollAccept, network
  <1>3. CASE /\ MatchesClaim(run[r], poll[q].claims[r]) /\ LifecycleCurrent(r)
             /\ run' = [run EXCEPT ![r].status = "succeeded"]
             /\ \E found \in SUBSET {"audit", "plan"} :
                  accepted' = [accepted EXCEPT ![r] = @ \cup found]
    <2>1. run[r].status = "running" /\ run[r].core # NoId
      BY <1>1, <1>3 DEF MatchesClaim, Sound
    <2>2. run'[r] = [run[r] EXCEPT !.status = "succeeded"]
      BY <1>1, <1>3
    <2>3. RowChange(run[r], run'[r])
      BY <1>1, <2>1, <2>2 DEF RowChange, Settled, Sound, Evidence, Row
    <2>. QED  BY <1>1, <1>2, <1>3, <2>1, <2>3 DEF Accepts, Running
  <1>4. CASE run[r].status = "running" /\ accepted' = accepted
             /\ run' = [run EXCEPT ![r].status = "failed", ![r].error = "PROVIDER_FAILED"]
    <2>. DEFINE row == [run[r] EXCEPT !.status = "failed", !.error = "PROVIDER_FAILED"]
    <2>1. RowChange(run[r], row) /\ row.status = "failed"
      BY <1>1, <1>4 DEF RowChange, Settled, Sound, Evidence, Row
    <2>2. run' = [run EXCEPT ![r] = row]
      BY <1>1, <1>4
    <2>. HIDE DEF row
    <2>. QED  BY <1>1, <1>2, <1>4, <2>1, <2>2, QuietUpdate
  <1>5. CASE run' = [run EXCEPT ![r] = run[r]] /\ accepted' = accepted
    BY <1>1, <1>2, <1>5, SameRow, QuietUpdate
  <1>6. CASE MatchesClaim(run[r], poll[q].claims[r]) /\ accepted' = accepted
             /\ run' = [run EXCEPT ![r] = Detached(run[r], "LIFECYCLE_CHANGED")]
    <2>1. /\ RowChange(run[r], Detached(run[r], "LIFECYCLE_CHANGED"))
          /\ Detached(run[r], "LIFECYCLE_CHANGED").status = "failed"
      BY <1>1, <1>6, DetachedChange DEF MatchesClaim, Errors
    <2>. QED  BY <1>1, <1>2, <1>6, <2>1, QuietUpdate
  <1>. QED  BY <1>1, <1>3, <1>4, <1>5, <1>6 DEF PollAccept, MatchesClaim

\* Every step is one of these four.
LEMMA StepKinds ==
    ASSUME TypeInv, RowsSound, [Next]_vars
    PROVE  \/ Quiet
           \/ \E r \in Runs : Accepts(r)
           \/ \E r \in Runs, m \in Merchants : Reserve(r, m)
           \/ \E m \in Merchants : Archive(m) \/ Restore(m)
  <1>1. 1 \in Runs
    BY DEF Runs
  <1>2. CASE \E r \in Runs : \/ RecordRejection(r) \/ RecordUncertainty(r) \/ RecordAnswer(r)
                            \/ AnswerRefused(r) \/ RecordRefusal(r)
    BY <1>2, QuietCaller
  <1>3. CASE Recover \/ \E r \in Runs : DispatchAges(r) \/ FailureAges(r)
    BY <1>1, <1>3, QuietRecovery
  <1>4. CASE \E q \in Pollers : PollStep(q)
    BY <1>4, QuietPoll, AcceptStep
  <1>5. CASE \E o \in Operators : \/ \E r \in Runs : NotCreatedRequest(o, r)
                                  \/ \E r \in Runs, p \in ProviderIds : BindRequest(o, r, p)
                                  \/ NotCreatedCommit(o) \/ BindReadback(o)
                                  \/ BindCommit(o) \/ CandidateRejected(o)
    BY <1>5, QuietDesk
  <1>. QED  BY <1>2, <1>3, <1>4, <1>5, QuietNetwork DEF Next, PollStep

-----------------------------------------------------------------------------
(* The inductive invariant.                                                 *)

RowsInv == RowsSound /\ OneRunningRunPerMerchant /\ ReservationHoldsLifecycle

LEMMA RowsInit == Init => RowsInv
  <1>. SUFFICES ASSUME Init PROVE RowsInv
    OBVIOUS
  <1>1. ASSUME NEW r \in Runs PROVE Sound(run[r])
    <2>1. \/ run[r] = AbsentRow
          \/ run[r].status = "running" /\ run[r].dispatch = "UNKNOWN"
      <3>1. ASSUME NEW m \in Merchants, NEW row \in LegacyRows(m)
            PROVE  row.status = "running" /\ row.dispatch = "UNKNOWN"
        BY <3>1 DEF LegacyRows, LegacyRow
      <3>2. run[r] = AbsentRow \/ \E m \in Merchants : run[r] \in LegacyRows(m)
        BY DEF Init
      <3>. QED  BY <3>1, <3>2
    <2>. QED  BY <2>1 DEF Sound, AbsentRow, Evidence
  <1>2. ReservationHoldsLifecycle
    BY DEF Init, ReservationHoldsLifecycle
  <1>. QED  BY <1>1, <1>2 DEF Init, RowsInv, RowsSound

\* A running row of the next state is the same reservation, already running.
LEMMA StillRunning ==
    ASSUME NEW r \in Runs, RowChange(run[r], run'[r]), Running(r)'
    PROVE  Running(r) /\ run'[r].merchant = run[r].merchant /\ run'[r].gen = run[r].gen
  BY DEF RowChange, Running

LEMMA RowsNext == TypeInv /\ RowsInv /\ [Next]_vars => RowsInv'
  <1>. SUFFICES ASSUME TypeInv, RowsInv, [Next]_vars PROVE RowsInv'
    OBVIOUS
  <1>1. /\ run \in [Runs -> Row] /\ call \in [Runs -> Calls]
        /\ active \in [Merchants -> BOOLEAN] /\ generation \in [Merchants -> 1..MaxGeneration]
        /\ RowsSound /\ OneRunningRunPerMerchant /\ ReservationHoldsLifecycle
    BY DEF TypeInv, TypeOK, RowsInv
  <1>2. ASSUME UNCHANGED <<active, generation>>,
               \A r \in Runs : /\ RowChange(run[r], run'[r])
                               /\ call'[r] # "none" => call[r] # "none"
        PROVE  RowsInv'
    <2>1. RowsSound'
      BY <1>2 DEF RowsSound, RowChange
    <2>2. OneRunningRunPerMerchant'
      BY <1>1, <1>2, StillRunning DEF OneRunningRunPerMerchant
    <2>3. ReservationHoldsLifecycle'
      BY <1>1, <1>2, StillRunning DEF ReservationHoldsLifecycle
    <2>. QED  BY <2>1, <2>2, <2>3 DEF RowsInv
  <1>3. CASE Quiet
    BY <1>2, <1>3 DEF Quiet, QuietRow
  <1>4. ASSUME NEW r \in Runs, Accepts(r) PROVE RowsInv'
    <2>1. \A s \in Runs : RowChange(run[s], run'[s])
      BY <1>1, <1>4, SameRow DEF Accepts, RowsSound
    <2>. QED  BY <1>2, <1>4, <2>1 DEF Accepts
  <1>5. ASSUME NEW r \in Runs, NEW m \in Merchants, Reserve(r, m) PROVE RowsInv'
    <2>1. /\ run'[r].status = "running" /\ run'[r].merchant = m
          /\ run'[r].dispatch = "DISPATCHING" /\ run'[r].gen = generation[m]
          /\ run'[r].core = NoId /\ run'[r].cand = NoId
          /\ \A s \in Runs \ {r} : run'[s] = run[s] /\ call'[s] = call[s]
          /\ active[m] /\ ~HasRunningRun(m) /\ UNCHANGED <<active, generation>>
      BY <1>1, <1>5 DEF Reserve
    <2>2. RowsSound'
      <3>1. Sound(run'[r])
        BY <2>1 DEF Sound, Evidence
      <3>. QED  BY <1>1, <2>1, <3>1 DEF RowsSound
    <2>3. OneRunningRunPerMerchant'
      BY <1>1, <2>1 DEF OneRunningRunPerMerchant, HasRunningRun, Running
    <2>4. ReservationHoldsLifecycle'
      BY <1>1, <2>1 DEF ReservationHoldsLifecycle, Running
    <2>. QED  BY <2>2, <2>3, <2>4 DEF RowsInv
  <1>6. ASSUME NEW m \in Merchants, Archive(m) \/ Restore(m) PROVE RowsInv'
    <2>1. /\ UNCHANGED <<run, call>>
          /\ \A n \in Merchants \ {m} : active'[n] = active[n] /\ generation'[n] = generation[n]
          /\ ~HasRunningRun(m) \/ ~active[m]
      BY <1>1, <1>6 DEF Archive, Restore, network
    <2>2. RowsSound' /\ OneRunningRunPerMerchant'
      BY <1>1, <2>1 DEF RowsSound, OneRunningRunPerMerchant, Running
    <2>3. ASSUME NEW r \in Runs, Running(r), call[r] # "none"
          PROVE  run[r].merchant # m /\ run[r].merchant \in Merchants
      BY <1>1, <2>1, <2>3 DEF ReservationHoldsLifecycle, HasRunningRun, Row
    <2>4. ReservationHoldsLifecycle'
      BY <1>1, <2>1, <2>3 DEF ReservationHoldsLifecycle, Running
    <2>. QED  BY <2>2, <2>4 DEF RowsInv
  <1>. QED  BY <1>1, <1>3, <1>4, <1>5, <1>6, StepKinds

LEMMA RowsInvariant == Spec => [](TypeInv /\ RowsInv)
  <1>1. Init => TypeInv /\ RowsInv
    BY TypeInit, RowsInit
  <1>2. (TypeInv /\ RowsInv) /\ [Next]_vars => (TypeInv /\ RowsInv)'
    BY TypeNext, RowsNext
  <1>. QED  BY <1>1, <1>2, PTL DEF Spec

-----------------------------------------------------------------------------
(* The theorems.                                                            *)

\* OneRunningRunPerMerchant: start_run's check inside its transaction is enough
\* to keep a merchant at one run in progress, whatever interleaves with it.
THEOREM OneRunInProgress == Spec => []OneRunningRunPerMerchant
  <1>1. RowsInv => OneRunningRunPerMerchant
    BY DEF RowsInv
  <1>. QED  BY RowsInvariant, <1>1, PTL

\* ReservationHoldsLifecycle: while a reservation of this release runs, its
\* merchant stays in the lifecycle generation the reservation recorded.
THEOREM ReservationPinsLifecycle == Spec => []ReservationHoldsLifecycle
  <1>1. RowsInv => ReservationHoldsLifecycle
    BY DEF RowsInv
  <1>. QED  BY RowsInvariant, <1>1, PTL

\* EveryRunningRowHasAnOwner: a row in progress is always one that recovery, the
\* poller or an operator acts on.
THEOREM RunningRowsAreOwned == Spec => []EveryRunningRowHasAnOwner
  <1>1. ASSUME TypeInv, RowsInv, NEW r \in Runs, Running(r)
        PROVE  \/ run[r].dispatch = "DISPATCHING" /\ Evidence(run[r]) = NoId
               \/ run[r].dispatch = "DISPATCHED" /\ run[r].core # NoId /\ run[r].gen # 0
               \/ run[r].dispatch = "UNKNOWN" /\ \/ run[r].gen # 0
                                                 \/ TerminalError(r) # "none"
    <2>1. run[r] \in Row /\ Sound(run[r])
      BY <1>1 DEF TypeInv, TypeOK, RowsInv, RowsSound
    <2>2. run[r].gen = 0 => TerminalError(r) # "none"
      BY DEF TerminalError
    <2>. QED  BY <1>1, <2>1, <2>2 DEF Sound, Running, Row, Dispatches
  <1>2. TypeInv /\ RowsInv => EveryRunningRowHasAnOwner
    BY <1>1 DEF EveryRunningRowHasAnOwner
  <1>. QED  BY RowsInvariant, <1>2, PTL

LEMMA FinishedStep ==
    TypeInv /\ RowsInv /\ [Next]_vars =>
      \A r \in Runs : run[r].status \in {"succeeded", "failed"} =>
        run'[r] = run[r] /\ accepted'[r] = accepted[r]
  <1>. SUFFICES ASSUME TypeInv, RowsInv, [Next]_vars,
                       NEW r \in Runs, run[r].status \in {"succeeded", "failed"}
                PROVE  run'[r] = run[r] /\ accepted'[r] = accepted[r]
    OBVIOUS
  <1>1. run \in [Runs -> Row] /\ RowsSound
    BY DEF TypeInv, TypeOK, RowsInv
  <1>2. CASE Quiet
    BY <1>2 DEF Quiet, QuietRow, RowChange
  <1>3. ASSUME NEW s \in Runs, Accepts(s) PROVE run'[r] = run[r] /\ accepted'[r] = accepted[r]
    BY <1>1, <1>3 DEF Accepts, Running
  <1>4. ASSUME NEW s \in Runs, NEW m \in Merchants, Reserve(s, m)
        PROVE  run'[r] = run[r] /\ accepted'[r] = accepted[r]
    BY <1>1, <1>4 DEF Reserve
  <1>5. ASSUME NEW m \in Merchants, Archive(m) \/ Restore(m)
        PROVE  run'[r] = run[r] /\ accepted'[r] = accepted[r]
    BY <1>5 DEF Archive, Restore
  <1>. QED  BY <1>1, <1>2, <1>3, <1>4, <1>5, StepKinds

\* FinishedIsFinal: no late answer, poll, recovery or operator changes a
\* finished run or what it produced.
THEOREM FinishedStaysFinal == Spec => FinishedIsFinal
  BY RowsInvariant, FinishedStep, PTL DEF Spec, FinishedIsFinal

LEMMA EvidenceStep ==
    TypeInv /\ RowsInv /\ [Next]_vars =>
      \A r \in Runs : Evidence(run[r]) # NoId => Evidence(run'[r]) = Evidence(run[r])
  <1>. SUFFICES ASSUME TypeInv, RowsInv, [Next]_vars, NEW r \in Runs, Evidence(run[r]) # NoId
                PROVE  Evidence(run'[r]) = Evidence(run[r])
    OBVIOUS
  <1>1. run \in [Runs -> Row] /\ RowsSound
    BY DEF TypeInv, TypeOK, RowsInv
  <1>2. CASE Quiet
    BY <1>2 DEF Quiet, QuietRow, RowChange
  <1>3. ASSUME NEW s \in Runs, Accepts(s) PROVE Evidence(run'[r]) = Evidence(run[r])
    BY <1>1, <1>3 DEF Accepts, RowChange
  <1>4. ASSUME NEW s \in Runs, NEW m \in Merchants, Reserve(s, m)
        PROVE  Evidence(run'[r]) = Evidence(run[r])
    <2>1. s # r
      BY <1>1, <1>4 DEF Reserve, RowsSound, Sound
    <2>. QED  BY <1>1, <1>4, <2>1 DEF Reserve
  <1>5. ASSUME NEW m \in Merchants, Archive(m) \/ Restore(m)
        PROVE  Evidence(run'[r]) = Evidence(run[r])
    BY <1>5 DEF Archive, Restore
  <1>. QED  BY <1>1, <1>2, <1>3, <1>4, <1>5, StepKinds

\* EvidenceKept: a provider run id on record may move between the two columns,
\* and is never lost or replaced.
THEOREM EvidenceIsKept == Spec => EvidenceKept
  BY RowsInvariant, EvidenceStep, PTL DEF Spec, EvidenceKept

LEMMA AcceptedStep ==
    TypeInv /\ RowsInv /\ [Next]_vars =>
      \A r \in Runs : (run'[r].status = "succeeded") /= (run[r].status = "succeeded")
                         \/ accepted'[r] # accepted[r] =>
        /\ Running(r) /\ run'[r].status = "succeeded"
        /\ active[run[r].merchant] /\ generation[run[r].merchant] = run[r].gen
  <1>. SUFFICES ASSUME TypeInv, RowsInv, [Next]_vars, NEW r \in Runs,
                       \/ run'[r].status = "succeeded" /\ run[r].status # "succeeded"
                       \/ run'[r].status # "succeeded" /\ run[r].status = "succeeded"
                       \/ accepted'[r] # accepted[r]
                PROVE  /\ Running(r) /\ run'[r].status = "succeeded" /\ LifecycleCurrent(r)
    BY DEF LifecycleCurrent
  <1>1. run \in [Runs -> Row] /\ run[r] \in Row /\ RowsSound
    BY DEF TypeInv, TypeOK, RowsInv
  <1>2. ~(run'[r].status # "succeeded" /\ run[r].status = "succeeded")
    BY FinishedStep
  <1>3. CASE Quiet
    BY <1>2, <1>3 DEF Quiet, QuietRow
  <1>4. ASSUME NEW s \in Runs, Accepts(s)
        PROVE  Running(r) /\ run'[r].status = "succeeded" /\ LifecycleCurrent(r)
    <2>1. s = r
      BY <1>1, <1>2, <1>4 DEF Accepts
    <2>. QED  BY <1>1, <1>4, <2>1 DEF Accepts, Row
  <1>5. ASSUME NEW s \in Runs, NEW m \in Merchants PROVE ~Reserve(s, m)
    BY <1>1, <1>2, <1>5 DEF Reserve
  <1>6. ASSUME NEW m \in Merchants PROVE ~(Archive(m) \/ Restore(m))
    BY <1>2, <1>6 DEF Archive, Restore
  <1>. QED  BY <1>1, <1>3, <1>4, <1>5, <1>6, StepKinds DEF RowsInv

\* AcceptedUnderReservedLifecycle: a result enters the tables only together with
\* the run's success, in the merchant lifecycle the run was reserved under.
THEOREM AcceptedInReservedLifecycle == Spec => AcceptedUnderReservedLifecycle
  BY RowsInvariant, AcceptedStep, PTL DEF Spec, AcceptedUnderReservedLifecycle

-----------------------------------------------------------------------------
(* What operators decide.                                                   *)

\* A row changes as a row may, or is taken for a reservation.
LEMMA RowsChange ==
    ASSUME TypeInv, RowsSound, [Next]_vars, NEW r \in Runs
    PROVE  RowChange(run[r], run'[r]) \/ run[r].status = "absent"
  <1>1. run \in [Runs -> Row] /\ Sound(run[r])
    BY DEF TypeInv, TypeOK, RowsSound
  <1>2. CASE Quiet
    BY <1>2 DEF Quiet, QuietRow
  <1>3. ASSUME NEW s \in Runs, Accepts(s) PROVE RowChange(run[r], run'[r])
    BY <1>1, <1>3, SameRow DEF Accepts
  <1>4. ASSUME NEW s \in Runs, NEW m \in Merchants, Reserve(s, m)
        PROVE  RowChange(run[r], run'[r]) \/ run[r].status = "absent"
    BY <1>1, <1>4, SameRow DEF Reserve
  <1>5. ASSUME NEW m \in Merchants, Archive(m) \/ Restore(m) PROVE RowChange(run[r], run'[r])
    BY <1>1, <1>5, SameRow DEF Archive, Restore
  <1>. QED  BY <1>2, <1>3, <1>4, <1>5, StepKinds

\* What an operator's request has found out about the candidate of the row.
Notes(d) ==
    /\ d.kind = "not_created" => d.cand = NoId
    /\ d.kind \in {"missing", "mismatch"} => d.cand = d.id

LedgerInv ==
    /\ \A o \in Operators : Notes(desk[o])
    /\ \A r \in Runs :
          LET entry == ledger[r] IN
          /\ entry.action = "NOT_CREATED" => run[r].status = "failed" /\ Evidence(run[r]) = NoId
          /\ entry.action = "BIND_EXISTING" =>
                /\ entry.id # NoId /\ Evidence(run[r]) = entry.id
                /\ Settled(run[r])

LEMMA NotesStep ==
    ASSUME TypeInv, LedgerInv, [Next]_vars, NEW q \in Operators
    PROVE  Notes(desk'[q])
  <1>1. desk \in [Operators -> Request] /\ Notes(desk[q]) /\ Notes(Idle)
    BY DEF TypeInv, TypeOK, LedgerInv, Notes, Idle
  <1>2. CASE UNCHANGED desk
    BY <1>1, <1>2
  <1>3. ASSUME NEW o \in Operators,
               \/ \E r \in Runs : NotCreatedRequest(o, r)
               \/ \E r \in Runs, p \in ProviderIds : BindRequest(o, r, p)
               \/ NotCreatedCommit(o) \/ BindReadback(o) \/ BindCommit(o) \/ CandidateRejected(o)
        PROVE  Notes(desk'[q])
    <2>1. CASE q # o
      BY <1>1, <1>3, <2>1 DEF NotCreatedRequest, BindRequest, NotCreatedCommit, BindReadback,
                              BindCommit, CandidateRejected
    <2>2. ASSUME NEW r \in Runs, NotCreatedRequest(o, r) PROVE Notes(desk'[o])
      <3>1. desk'[o] = Seen("not_created", r, NoId) /\ run[r].cand = NoId
        BY <1>1, <2>2 DEF NotCreatedRequest, Evidence
      <3>. QED  BY <3>1 DEF Notes, Seen
    <2>3. ASSUME NEW r \in Runs, NEW p \in ProviderIds, BindRequest(o, r, p) PROVE Notes(desk'[o])
      <3>1. desk'[o] = Seen("readback", r, p)
        BY <1>1, <2>3 DEF BindRequest
      <3>. QED  BY <3>1 DEF Notes, Seen
    <2>4. CASE BindReadback(o)
      <3>1. PICK outcome \in {"missing", "verified", "mismatch", "unverifiable"} :
               desk' = [desk EXCEPT ![o] =
                          IF outcome = "verified" \/ (outcome # "unverifiable" /\ desk[o].cand = desk[o].id)
                            THEN [desk[o] EXCEPT !.kind = outcome] ELSE Idle]
        BY <2>4 DEF BindReadback
      <3>2. /\ [desk[o] EXCEPT !.kind = outcome].kind = outcome
            /\ [desk[o] EXCEPT !.kind = outcome].cand = desk[o].cand
            /\ [desk[o] EXCEPT !.kind = outcome].id = desk[o].id
        BY <1>1 DEF Request
      <3>. QED  BY <1>1, <3>1, <3>2 DEF Notes
    <2>5. CASE NotCreatedCommit(o) \/ BindCommit(o) \/ CandidateRejected(o)
      BY <1>1, <2>5 DEF NotCreatedCommit, BindCommit, CandidateRejected
    <2>. QED  BY <1>3, <2>1, <2>2, <2>3, <2>4, <2>5
  <1>4. CASE Crash
    BY <1>1, <1>4 DEF Crash
  <1>. QED
    BY <1>2, <1>3, <1>4
       DEF Next, Archive, Restore, Reserve, TriggerCreates, TriggerRepeats, TriggerRejected,
           TriggerUncertain, TriggerLost, RecordRejection, RecordUncertainty, RecordAnswer,
           AnswerRefused, RecordRefusal, DispatchAges, FailureAges, ProviderEnds, ProviderForgets,
           TaskBinds, Recover, PollSelect, PollDone, PollFence, PollAsks, PollError, PollReported,
           PollAccept, vars

LEMMA LedgerInit == Init => LedgerInv
  BY DEF Init, LedgerInv, Notes, Idle, NotReconciled, Recorded

LEMMA LedgerNext ==
    ASSUME TypeInv, RowsSound, LedgerInv, [Next]_vars
    PROVE  LedgerInv'
  <1>. DEFINE Agrees(entry, row) ==
                /\ entry.action = "NOT_CREATED" => row.status = "failed" /\ Evidence(row) = NoId
                /\ entry.action = "BIND_EXISTING" =>
                      entry.id # NoId /\ Evidence(row) = entry.id /\ Settled(row)
  <1>1. /\ run \in [Runs -> Row] /\ ledger \in [Runs -> LedgerRow] /\ desk \in [Operators -> Request]
        /\ \A r \in Runs : Sound(run[r]) /\ Agrees(ledger[r], run[r])
        /\ \A o \in Operators : Notes(desk[o])
    BY DEF TypeInv, TypeOK, RowsSound, LedgerInv
  <1>2. ASSUME NEW r \in Runs, ledger'[r] = ledger[r] PROVE Agrees(ledger'[r], run'[r])
    <2>1. CASE RowChange(run[r], run'[r])
      BY <1>1, <1>2, <2>1 DEF RowChange
    <2>2. CASE run[r].status = "absent"
      <3>1. Evidence(run[r]) = NoId
        BY <1>1, <2>2 DEF Sound
      <3>. QED  BY <1>1, <1>2, <2>2, <3>1
    <2>. QED  BY <2>1, <2>2, RowsChange
  <1>3. CASE UNCHANGED ledger
    BY <1>2, <1>3, NotesStep DEF LedgerInv
  <1>4. ASSUME NEW o \in Operators, NotCreatedCommit(o) \/ BindCommit(o) \/ CandidateRejected(o)
        PROVE  LedgerInv'
    <2>. DEFINE r == desk[o].run
                d == desk[o]
    <2>1. /\ r \in Runs /\ run[r] \in Row
          /\ d.kind \in {"verified", "missing", "mismatch"} => d.id \in ProviderIds
      BY <1>1, <1>4 DEF TypeInv, WorkTyped, NotCreatedCommit, BindCommit, CandidateRejected
    <2>2. \A s \in Runs : s # r => ledger'[s] = ledger[s]
      BY <1>1, <1>4, <2>1 DEF NotCreatedCommit, BindCommit, CandidateRejected
    <2>3. Agrees(ledger'[r], run'[r])
      <3>1. CASE ledger'[r] = ledger[r]
        BY <1>2, <2>1, <3>1
      <3>2. CASE NotCreatedCommit(o) /\ ledger'[r] # ledger[r]
        <4>1. /\ SameIdentity(run[r], d) /\ d.kind = "not_created"
              /\ ledger'[r] = Recorded("NOT_CREATED", NoId, "FAILED")
              /\ run'[r] = Failed(run[r], "NOT_CREATED")
          BY <1>1, <2>1, <3>2 DEF NotCreatedCommit
        <4>2. run[r].core = NoId /\ run[r].cand = NoId
          BY <1>1, <4>1 DEF SameIdentity, Notes
        <4>3. Failed(run[r], "NOT_CREATED").status = "failed"
              /\ Evidence(Failed(run[r], "NOT_CREATED")) = NoId
          BY <2>1, <4>2 DEF Failed, Evidence, Row
        <4>. QED  BY <4>1, <4>3 DEF Recorded
      <3>3. CASE CandidateRejected(o) /\ ledger'[r] # ledger[r]
        <4>1. /\ SameIdentity(run[r], d) /\ d.kind \in {"missing", "mismatch"}
              /\ ledger'[r] = Recorded("BIND_EXISTING", d.id, "FAILED")
              /\ \E why \in Errors :
                    run'[r] = [Failed(run[r], why) EXCEPT !.failure = "none"]
          BY <1>1, <2>1, <3>3 DEF CandidateRejected, Errors
        <4>2. run[r].core = NoId /\ run[r].cand = d.id /\ d.id # NoId
          BY <1>1, <2>1, <4>1 DEF SameIdentity, Notes
        <4>3. ASSUME NEW why \in Errors
              PROVE  LET row == [Failed(run[r], why) EXCEPT !.failure = "none"]
                     IN Evidence(row) = run[r].cand /\ Settled(row)
          BY <2>1, <4>2 DEF Failed, Evidence, Settled, Row
        <4>. QED  BY <4>1, <4>2, <4>3 DEF Recorded
      <3>4. CASE BindCommit(o) /\ ledger'[r] # ledger[r]
        <4>1. /\ ledger'[r] = Recorded("BIND_EXISTING", d.id, "DISPATCHED")
              /\ run'[r] = [Bound(run[r], d.id) EXCEPT !.age = "fresh", !.failure = "none"]
              /\ d.kind = "verified"
          BY <1>1, <2>1, <3>4 DEF BindCommit
        <4>2. LET row == [Bound(run[r], d.id) EXCEPT !.age = "fresh", !.failure = "none"]
              IN row.core = d.id /\ row.dispatch = "DISPATCHED"
          BY <2>1 DEF Bound, Row
        <4>. QED  BY <2>1, <4>1, <4>2 DEF Recorded, Evidence, Settled
      <3>. QED  BY <1>4, <3>1, <3>2, <3>3, <3>4
    <2>. HIDE DEF r, Agrees
    <2>4. \A s \in Runs : Agrees(ledger'[s], run'[s])
      BY <1>2, <2>2, <2>3
    <2>. QED  BY <2>4, NotesStep DEF LedgerInv, Agrees
  <1>. QED
    BY <1>3, <1>4
       DEF Next, Archive, Restore, Reserve, TriggerCreates, TriggerRepeats, TriggerRejected,
           TriggerUncertain, TriggerLost, RecordRejection, RecordUncertainty, RecordAnswer,
           AnswerRefused, RecordRefusal, DispatchAges, FailureAges, ProviderEnds, ProviderForgets,
           TaskBinds, Recover, PollSelect, PollDone, PollFence, PollAsks, PollError, PollReported,
           PollAccept, NotCreatedRequest, BindRequest, BindReadback, Crash, tables, vars

LEMMA LedgerInvariant == Spec => []LedgerInv
  BY RowsInvariant, LedgerInit, LedgerNext, PTL DEF Spec, RowsInv

\* LedgerMatchesRun: what reconcile_run_dispatch recorded of an operator's
\* decision stays true of the row.
THEOREM LedgerStaysTrue == Spec => []LedgerMatchesRun
  <1>1. LedgerInv => LedgerMatchesRun
    BY DEF LedgerInv, LedgerMatchesRun, Settled
  <1>. QED  BY LedgerInvariant, <1>1, PTL

-----------------------------------------------------------------------------
(* Whose run an id is.                                                      *)

\* Core AI has the run p; it was started with the input of row r, unless ids
\* were repeated or came with rows of an earlier release.
IsFor(p, r) ==
    /\ provider[p].status # "none"
    /\ ~RepeatedAnswers /\ ~Legacy => provider[p].input = r

IdsInv ==
    /\ \A r \in Runs :
          /\ run[r].core # NoId => IsFor(run[r].core, r)
          /\ call[r] \in {"answered", "refused", "refusedUnknown"} => IsFor(answer[r], r)
    /\ \A o \in Operators : desk[o].kind = "verified" => IsFor(desk[o].id, desk[o].run)
    /\ BindingsUnique

\* The row gets an id that nothing holds and that is the row's own.
Binds(r, p) ==
    /\ IsFor(p, r)
    /\ ~BoundElsewhere(p, r) /\ ~HeldByTask(p)
    /\ run'[r].core = p
    /\ \A s \in Runs \ {r} : run'[s] = run[s]
    /\ UNCHANGED <<taskBound, provider>>

\* Core AI's runs only come into being and end.
LEMMA IsForKept ==
    ASSUME TypeInv, [Next]_vars, NEW p \in ProviderIds, NEW r \in Runs, IsFor(p, r)
    PROVE  IsFor(p, r)'
  <1>1. provider \in [ProviderIds -> ProviderRun]
    BY DEF TypeInv, TypeOK
  <1>2. CASE UNCHANGED provider
    BY <1>2 DEF IsFor
  <1>3. ASSUME NEW s \in Runs, NEW x \in ProviderIds, TriggerCreates(s, x) PROVE IsFor(p, r)'
    BY <1>1, <1>3 DEF TriggerCreates, IsFor
  <1>4. ASSUME NEW x \in ProviderIds, TaskBinds(x) PROVE IsFor(p, r)'
    BY <1>1, <1>4 DEF TaskBinds, IsFor
  <1>5. ASSUME NEW x \in ProviderIds, ProviderEnds(x) \/ ProviderForgets(x) PROVE IsFor(p, r)'
    <2>1. PICK s \in {"COMPLETED", "ABORTED", "gone"} :
             provider' = [provider EXCEPT ![x].status = s]
      BY <1>5 DEF ProviderEnds, ProviderForgets
    <2>2. provider'[p].input = provider[p].input
          /\ (provider'[p].status = provider[p].status \/ provider'[p].status = s)
      BY <1>1, <2>1 DEF ProviderRun
    <2>. QED  BY <2>2 DEF IsFor
  <1>. QED
    BY <1>2, <1>3, <1>4, <1>5
       DEF Next, Archive, Restore, Reserve, TriggerRepeats, TriggerRejected, TriggerUncertain,
           TriggerLost, RecordRejection, RecordUncertainty, RecordAnswer, AnswerRefused,
           RecordRefusal, DispatchAges, FailureAges, Recover, PollSelect, PollDone, PollFence,
           PollAsks, PollError, PollReported, PollAccept, NotCreatedRequest, NotCreatedCommit,
           BindRequest, BindReadback, BindCommit, CandidateRejected, Crash, network, vars

\* A row loses its id or keeps it.
LEMMA BindingKept ==
    ASSUME TypeInv, RowsSound, [Next]_vars, NEW r \in Runs, run[r].core # NoId
    PROVE  run'[r].core \in {run[r].core, NoId}
  <1>1. Sound(run[r])
    BY DEF RowsSound
  <1>. QED  BY <1>1, RowsChange DEF RowChange, Sound, Evidence

\* Only an answer and an operator bind a row.
LEMMA Binding ==
    ASSUME TypeInv, RowsSound, IdsInv, [Next]_vars,
           NEW r \in Runs, run[r].core = NoId, run'[r].core # NoId
    PROVE  \E p \in ProviderIds : Binds(r, p)
  <1>1. /\ run \in [Runs -> Row] /\ run[r] \in Row
        /\ \A s \in Runs : run[s].status = "running" /\ run[s].dispatch = "DISPATCHED"
                             => run[s].core # NoId
    BY DEF TypeInv, TypeOK, RowsSound, Sound
  <1>2. run'[r] # run[r]
    OBVIOUS
  <1>3. ASSUME NEW s \in Runs, RecordAnswer(s) PROVE \E p \in ProviderIds : Binds(r, p)
    <2>1. /\ answer[s] \in ProviderIds /\ IsFor(answer[s], s) /\ ~Refused(s, answer[s])
          /\ run' = [run EXCEPT ![s] = Answered(s, answer[s])]
          /\ UNCHANGED <<taskBound, provider>>
      BY <1>3 DEF TypeInv, WorkTyped, RecordAnswer, IdsInv
    <2>2. s = r
      BY <1>1, <1>2, <2>1
    <2>3. ASSUME NEW why
          PROVE  Failed([run[r] EXCEPT !.cand = answer[r]], why).core = run[r].core
      BY <1>1 DEF Failed, Row
    <2>4. /\ Bindable(run[r], answer[r]) /\ LifecycleCurrent(r) /\ ~BoundElsewhere(answer[r], r)
          /\ run'[r] = Bound(run[r], answer[r])
      BY <1>1, <2>1, <2>2, <2>3 DEF Answered
    <2>5. ~HeldByTask(answer[r])
      BY <2>1, <2>2, <2>4 DEF Refused
    <2>6. Bound(run[r], answer[r]).core = answer[r]
      BY <1>1 DEF Bound, Row
    <2>. QED  BY <1>1, <2>1, <2>2, <2>4, <2>5, <2>6 DEF Binds
  <1>4. ASSUME NEW o \in Operators, BindCommit(o) PROVE \E p \in ProviderIds : Binds(r, p)
    <2>. DEFINE s == desk[o].run
                p == desk[o].id
                row == [Bound(run[s], p) EXCEPT !.age = "fresh", !.failure = "none"]
    <2>1. s \in Runs /\ p \in ProviderIds /\ IsFor(p, s) /\ UNCHANGED <<taskBound, provider>>
      BY <1>4 DEF TypeInv, WorkTyped, BindCommit, IdsInv, network
    <2>2. s = r
      BY <1>1, <1>2, <1>4, <2>1 DEF BindCommit
    <2>3. /\ ~BoundElsewhere(p, s) /\ ~HeldByTask(p)
          /\ run' = [run EXCEPT ![s] = row]
      BY <1>1, <1>2, <1>4, <2>1, <2>2 DEF BindCommit
    <2>4. row.core = p
      BY <1>1, <2>2 DEF Bound, Row
    <2>. HIDE DEF s, p, row
    <2>. QED  BY <1>1, <2>1, <2>2, <2>3, <2>4 DEF Binds
  <1>5. ASSUME NEW s \in Runs, \/ RecordRejection(s) \/ RecordUncertainty(s)
                              \/ RecordRefusal(s) \/ DispatchAges(s) \/ FailureAges(s)
        PROVE  FALSE
    <2>1. s = r
      BY <1>1, <1>2, <1>5
         DEF RecordRejection, RecordUncertainty, RecordRefusal, DispatchAges, FailureAges
    <2>2. ASSUME NEW why
          PROVE  /\ Failed(run[r], why).core = run[r].core
                 /\ Failed([run[r] EXCEPT !.cand = answer[r]], why).core = run[r].core
      BY <1>1 DEF Failed, Row
    <2>3. \/ run'[r] = run[r]
          \/ \E why : \/ run'[r] = Failed(run[r], why)
                      \/ run'[r] = Failed([run[r] EXCEPT !.cand = answer[r]], why)
          \/ run'[r] = [run[r] EXCEPT !.dispatch = "UNKNOWN", !.error = "OUTCOME_UNKNOWN"]
          \/ run'[r] = [run[r] EXCEPT !.age = "stale"]
          \/ run'[r] = [run[r] EXCEPT !.failure = "overdue"]
      BY <1>1, <1>5, <2>1
         DEF RecordRejection, RecordUncertainty, RecordRefusal, DispatchAges, FailureAges
    <2>. QED  BY <1>1, <2>2, <2>3 DEF Row
  <1>6. CASE Recover
    <2>1. run'[r] = Recovered(r)
      BY <1>6 DEF Recover
    <2>2. [run[r] EXCEPT !.dispatch = "UNKNOWN", !.error = "STALE_UNKNOWN"].core = run[r].core
      BY <1>1 DEF Row
    <2>3. [Failed(run[r], TerminalError(r)) EXCEPT !.cand = Evidence(run[r]), !.core = NoId,
                                                   !.failure = "none"].core = NoId
      BY <1>1 DEF Failed, Row
    <2>4. RecoveredEvidence(r).core = NoId
      BY <2>3 DEF RecoveredEvidence, Promotable
    <2>. QED  BY <2>1, <2>2, <2>4 DEF Recovered
  <1>7. ASSUME NEW q \in Pollers, PollStep(q) PROVE FALSE
    <2>1. CASE PollSelect(q) \/ PollDone(q) \/ PollAsks(q)
      BY <1>2, <2>1 DEF PollSelect, PollDone, PollAsks, tables
    <2>2. ASSUME NEW s \in Runs, PollFence(q, s) PROVE FALSE
      BY <1>1, <1>2, <2>2 DEF PollFence, MatchesClaim, Pollable, Running
    <2>3. CASE PollError(q) \/ PollReported(q)
      BY <1>1, <1>2, <2>3 DEF PollError, PollReported, MatchesClaim
    <2>4. CASE PollAccept(q)
      BY <1>1, <1>2, <2>4 DEF PollAccept, MatchesClaim
    <2>. QED  BY <1>7, <2>1, <2>2, <2>3, <2>4 DEF PollStep
  <1>8. ASSUME NEW o \in Operators, NotCreatedCommit(o) \/ CandidateRejected(o) PROVE FALSE
    <2>1. ASSUME NEW why
          PROVE  Failed(run[r], why).core = run[r].core
                 /\ [Failed(run[r], why) EXCEPT !.failure = "none"].core = run[r].core
      BY <1>1 DEF Failed, Row
    <2>2. \/ run'[r] = run[r]
          \/ \E why : \/ run'[r] = Failed(run[r], why)
                      \/ run'[r] = [Failed(run[r], why) EXCEPT !.failure = "none"]
      BY <1>1, <1>8 DEF NotCreatedCommit, CandidateRejected
    <2>. QED  BY <2>1, <2>2
  <1>9. ASSUME NEW s \in Runs, NEW m \in Merchants, Reserve(s, m) PROVE FALSE
    BY <1>1, <1>2, <1>9 DEF Reserve
  <1>. QED
    BY <1>2, <1>3, <1>4, <1>5, <1>6, <1>7, <1>8, <1>9
       DEF Next, Archive, Restore, TriggerCreates, TriggerRepeats, TriggerRejected,
           TriggerUncertain, TriggerLost, AnswerRefused, ProviderEnds, ProviderForgets, TaskBinds,
           PollStep, NotCreatedRequest, BindRequest, BindReadback, Crash, tables, vars

\* An answer comes from the trigger of its own row, with a run just created.
LEMMA AnswersStep ==
    ASSUME TypeInv, IdsInv, [Next]_vars, NEW r \in Runs,
           call'[r] \in {"answered", "refused", "refusedUnknown"}
    PROVE  IsFor(answer[r], r)'
  <1>1. /\ call \in [Runs -> Calls] /\ answer \in [Runs -> Ids]
        /\ provider \in [ProviderIds -> ProviderRun]
        /\ call[r] \in {"answered", "refused", "refusedUnknown"} =>
             answer[r] \in ProviderIds /\ IsFor(answer[r], r)
    BY DEF TypeInv, TypeOK, WorkTyped, IdsInv
  <1>2. CASE call[r] \in {"answered", "refused", "refusedUnknown"} /\ answer'[r] = answer[r]
    BY <1>1, <1>2, IsForKept DEF IsFor
  <1>3. ASSUME NEW s \in Runs, NEW p \in ProviderIds, TriggerCreates(s, p), s = r,
               answer' = [answer EXCEPT ![s] = p]
        PROVE  IsFor(answer[r], r)'
    <2>1. answer'[r] = p /\ provider'[p] = [input |-> r, status |-> "active"]
      BY <1>1, <1>3 DEF TriggerCreates
    <2>. QED  BY <2>1 DEF IsFor
  <1>4. ASSUME NEW s \in Runs, NEW p \in ProviderIds, TriggerRepeats(s, p), s = r
        PROVE  IsFor(answer[r], r)'
    <2>1. answer'[r] = p /\ provider'[p].status # "none" /\ RepeatedAnswers
      BY <1>1, <1>4 DEF TriggerRepeats
    <2>. QED  BY <2>1 DEF IsFor
  <1>5. ASSUME NEW s \in Runs, NEW p \in ProviderIds, TriggerCreates(s, p) \/ TriggerRepeats(s, p)
        PROVE  IsFor(answer[r], r)'
    <2>1. CASE call'[r] = call[r] /\ answer'[r] = answer[r]
      BY <1>2, <2>1
    <2>. QED  BY <1>1, <1>3, <1>4, <1>5, <2>1 DEF TriggerCreates, TriggerRepeats
  <1>6. CASE UNCHANGED <<call, answer>>
    BY <1>2, <1>6
  <1>7. ASSUME NEW s \in Runs, \/ TriggerRejected(s) \/ TriggerUncertain(s) \/ AnswerRefused(s)
                              \/ RecordRejection(s) \/ RecordUncertainty(s) \/ RecordAnswer(s)
                              \/ RecordRefusal(s)
        PROVE  call[r] \in {"answered", "refused", "refusedUnknown"} /\ answer'[r] = answer[r]
    BY <1>1, <1>7 DEF TriggerRejected, TriggerUncertain, AnswerRefused, RecordRejection,
                      RecordUncertainty, RecordAnswer, RecordRefusal
  <1>8. ASSUME NEW s \in Runs, NEW m \in Merchants, Reserve(s, m)
        PROVE  call[r] \in {"answered", "refused", "refusedUnknown"} /\ answer'[r] = answer[r]
    BY <1>1, <1>8 DEF Reserve
  <1>9. ~Crash
    BY <1>1 DEF Crash
  <1>. QED
    BY <1>2, <1>5, <1>6, <1>7, <1>8, <1>9
       DEF Next, Archive, Restore, TriggerLost, DispatchAges, FailureAges, ProviderEnds,
           ProviderForgets, TaskBinds, Recover, PollSelect, PollDone, PollFence, PollAsks,
           PollError, PollReported, PollAccept, NotCreatedRequest, NotCreatedCommit, BindRequest,
           BindReadback, BindCommit, CandidateRejected, network, vars

\* An operator's request is verified by reading the run back from Core AI.
LEMMA VerifiedStep ==
    ASSUME TypeInv, IdsInv, [Next]_vars, NEW o \in Operators, desk'[o].kind = "verified"
    PROVE  IsFor(desk[o].id, desk[o].run)'
  <1>1. /\ desk \in [Operators -> Request]
        /\ desk[o].kind \notin {"idle", "not_created"} =>
             desk[o].id \in ProviderIds /\ desk[o].run \in Runs
        /\ desk[o].kind = "verified" => IsFor(desk[o].id, desk[o].run)
    BY DEF TypeInv, TypeOK, WorkTyped, IdsInv
  <1>2. CASE desk'[o] = desk[o]
    BY <1>1, <1>2, IsForKept DEF IsFor
  <1>3. CASE BindReadback(o)
    <2>. DEFINE d == desk[o]
    <2>1. /\ provider[d.id].status # "none" /\ InputMatches(d.id, d.run)
          /\ desk'[o] = [d EXCEPT !.kind = "verified"]
          /\ UNCHANGED provider
      BY <1>1, <1>3 DEF BindReadback, Idle, Request, network
    <2>2. desk'[o].id = d.id /\ desk'[o].run = d.run
      BY <1>1, <2>1 DEF Request
    <2>. QED  BY <2>1, <2>2 DEF IsFor, InputMatches
  <1>4. ASSUME NEW x \in Operators,
               \/ \E r \in Runs : NotCreatedRequest(x, r)
               \/ \E r \in Runs, p \in ProviderIds : BindRequest(x, r, p)
               \/ NotCreatedCommit(x) \/ BindCommit(x) \/ CandidateRejected(x)
        PROVE  desk'[o] = desk[o]
    BY <1>1, <1>4 DEF NotCreatedRequest, BindRequest, NotCreatedCommit, BindCommit,
                      CandidateRejected, Seen, Idle
  <1>5. ASSUME NEW x \in Operators, BindReadback(x), x # o PROVE desk'[o] = desk[o]
    BY <1>1, <1>5 DEF BindReadback
  <1>6. ~Crash
    BY DEF Crash, Idle
  <1>. QED
    BY <1>2, <1>3, <1>4, <1>5, <1>6
       DEF Next, Archive, Restore, Reserve, TriggerCreates, TriggerRepeats, TriggerRejected,
           TriggerUncertain, TriggerLost, RecordRejection, RecordUncertainty, RecordAnswer,
           AnswerRefused, RecordRefusal, DispatchAges, FailureAges, ProviderEnds, ProviderForgets,
           TaskBinds, Recover, PollSelect, PollDone, PollFence, PollAsks, PollError, PollReported,
           PollAccept, vars

\* The tables start with the bindings earlier releases made, of runs Core AI has.
LEMMA IdsInit == Init => IdsInv
  <1>. SUFFICES ASSUME Init PROVE IdsInv
    OBVIOUS
  <1>1. TypeInv
    BY TypeInit
  <1>2. ASSUME NEW r \in Runs, run[r].core # NoId
        PROVE  IsFor(run[r].core, r)
    <2>1. Legacy
      BY <1>2 DEF Init, LegacyRows, AbsentRow
    <2>2. run[r].core \in ProviderIds
      BY <1>1, <1>2 DEF TypeInv, TypeOK, Row, Ids
    <2>3. BoundElsewhere(run[r].core, 0)
      BY DEF BoundElsewhere, Runs
    <2>4. provider[run[r].core] \in LegacyProvider(run[r].core)
      BY <2>2 DEF Init
    <2>5. provider[run[r].core].status # "none"
      <3>1. LegacyProvider(run[r].core) \subseteq
              {[input |-> s, status |-> "active"] : s \in Runs}
                \cup {[input |-> 0, status |-> "active"], [input |-> 0, status |-> "gone"]}
        BY <2>3 DEF LegacyProvider
      <3>. QED  BY <2>4, <3>1
    <2>. QED  BY <2>1, <2>5 DEF IsFor
  <1>3. \A r \in Runs : call[r] = "none"
    BY DEF Init
  <1>4. \A o \in Operators : desk[o].kind # "verified"
    BY DEF Init, Idle
  <1>. QED  BY <1>2, <1>3, <1>4 DEF Init, IdsInv

LEMMA IdsNext ==
    ASSUME TypeInv, RowsSound, IdsInv, [Next]_vars
    PROVE  IdsInv'
  <1>1. /\ run \in [Runs -> Row] /\ taskBound \subseteq ProviderIds /\ BindingsUnique
        /\ \A r \in Runs : run[r].core # NoId =>
             run[r].core \in ProviderIds /\ IsFor(run[r].core, r)
    BY DEF TypeInv, TypeOK, IdsInv, Row, Ids
  <1>2. ASSUME NEW r \in Runs, run'[r].core # NoId PROVE IsFor(run[r].core, r)'
    <2>1. CASE run[r].core # NoId
      BY <1>1, <1>2, <2>1, BindingKept, IsForKept DEF IsFor
    <2>2. CASE run[r].core = NoId
      <3>1. PICK p \in ProviderIds : Binds(r, p)
        BY <1>2, <2>2, Binding
      <3>2. IsFor(p, r)' /\ run'[r].core = p
        BY <3>1, IsForKept DEF Binds
      <3>. QED  BY <3>2 DEF IsFor
    <2>. QED  BY <2>1, <2>2
  <1>3. BindingsUnique'
    <2>1. CASE \E r \in Runs, p \in ProviderIds : Binds(r, p)
      BY <1>1, <2>1 DEF Binds, BindingsUnique, BoundElsewhere, HeldByTask
    <2>2. ASSUME \A r \in Runs : run'[r].core \in {run[r].core, NoId},
                 UNCHANGED taskBound
          PROVE  BindingsUnique'
      BY <1>1, <2>2 DEF BindingsUnique
    <2>3. ASSUME NEW p \in ProviderIds, TaskBinds(p) PROVE BindingsUnique'
      BY <1>1, <2>3 DEF TaskBinds, BindingsUnique, IsFor
    <2>4. UNCHANGED taskBound \/ \E p \in ProviderIds : TaskBinds(p)
      BY DEF Next, Archive, Restore, Reserve, TriggerCreates, TriggerRepeats, TriggerRejected,
             TriggerUncertain, TriggerLost, RecordRejection, RecordUncertainty, RecordAnswer,
             AnswerRefused, RecordRefusal, DispatchAges, FailureAges, ProviderEnds,
             ProviderForgets, Recover, PollSelect, PollDone, PollFence, PollAsks, PollError,
             PollReported, PollAccept, NotCreatedRequest, NotCreatedCommit, BindRequest,
             BindReadback, BindCommit, CandidateRejected, Crash, tables, vars
    <2>. QED  BY <2>1, <2>2, <2>3, <2>4, BindingKept, Binding
  <1>. QED  BY <1>2, <1>3, AnswersStep, VerifiedStep DEF IdsInv

LEMMA IdsInvariant == Spec => [](TypeInv /\ RowsInv /\ IdsInv)
  BY RowsInvariant, IdsInit, IdsNext, PTL DEF Spec, RowsInv

\* BindingsUnique: late answers, operators and task executions may all try to
\* bind one Core AI run; one row at most ever holds it.
THEOREM BindingsStayUnique == Spec => []BindingsUnique
  <1>1. IdsInv => BindingsUnique
    BY DEF IdsInv
  <1>. QED  BY IdsInvariant, <1>1, PTL

\* ResultBelongsToReservation: whoever bound it, a run succeeds with the provider
\* run that its own trigger started.  As in the run that checks it, Core AI gives
\* each run an id of its own, and the tables hold no rows of an earlier release.
THEOREM ResultsBelongToReservations ==
    ASSUME ~RepeatedAnswers, ~Legacy
    PROVE  Spec => []ResultBelongsToReservation
  <1>1. TypeInv /\ RowsInv /\ IdsInv => ResultBelongsToReservation
    BY DEF RowsInv, RowsSound, Sound, IdsInv, IsFor, ResultBelongsToReservation
  <1>. QED  BY IdsInvariant, <1>1, PTL

-----------------------------------------------------------------------------
(* Refinement.                                                              *)

LEMMA LaneInit == Init => Lane!Init
  <1>. SUFFICES ASSUME Init PROVE Lane!Init
    OBVIOUS
  <1>1. TypeInv
    BY TypeInit
  <1>2. run \in [Runs -> Row] /\ generation \in [Merchants -> 1..MaxGeneration]
    BY <1>1 DEF TypeInv, TypeOK
  <1>3. ASSUME NEW r \in Runs
        PROVE  run[r].merchant \in Merchants /\ run[r].gen \in Nat
    BY <1>2 DEF Row
  <1>4. ASSUME NEW r \in Runs PROVE Running(r) \/ run[r].status = "absent"
    <2>1. ASSUME NEW m \in Merchants, NEW row \in LegacyRows(m) PROVE row.status = "running"
      BY <2>1 DEF LegacyRows, LegacyRow
    <2>2. run[r] = AbsentRow \/ \E m \in Merchants : run[r] \in LegacyRows(m)
      BY DEF Init
    <2>. QED  BY <2>1, <2>2 DEF AbsentRow, Running
  <1>5. OneRunningRunPerMerchant /\ active = [m \in Merchants |-> TRUE]
    BY DEF Init
  <1>6. generation \in [Merchants -> Nat]
    BY <1>2
  <1>7. Lane!OneOpenRun
    BY <1>4, <1>5 DEF Lane!OneOpenRun, OneRunningRunPerMerchant, Running
  <1>. QED  BY <1>3, <1>4, <1>5, <1>6, <1>7 DEF Lane!Init

LEMMA LaneNext == TypeInv /\ RowsInv /\ [Next]_vars => [Lane!Next]_(Lane!vars)
  <1>. SUFFICES ASSUME TypeInv, RowsInv, [Next]_vars PROVE [Lane!Next]_(Lane!vars)
    OBVIOUS
  <1>. DEFINE phase == [r \in Runs |-> IF Running(r) THEN "open" ELSE run[r].status]
              owner == [r \in Runs |-> run[r].merchant]
              under == [r \in Runs |-> run[r].gen]
  <1>1. /\ run \in [Runs -> Row] /\ run' \in [Runs -> Row] /\ RowsSound
        /\ \A r \in Runs : run[r].merchant \in Merchants /\ run[r].status # "open"
    BY TypeNext DEF TypeInv, TypeOK, RowsInv, Row, Statuses
  <1>2. CASE Quiet
    <2>1. PICK S \in SUBSET Runs : \A r \in Runs : r \in S <=> Running(r) /\ run'[r].status = "failed"
      <3>1. {r \in Runs : Running(r) /\ run'[r].status = "failed"} \in SUBSET Runs
        OBVIOUS
      <3>. QED  BY <3>1
    <2>2. ASSUME NEW r \in Runs
          PROVE  /\ owner'[r] = owner[r] /\ under'[r] = under[r]
                 /\ phase'[r] = IF r \in S THEN "failed" ELSE phase[r]
      <3>1. run'[r].status \in Statuses
        BY <1>1 DEF Row
      <3>. QED  BY <1>2, <2>1, <3>1 DEF Quiet, QuietRow, RowChange, Running, Statuses
    <2>3. Lane!Fail(S)
      BY <1>2, <2>1, <2>2 DEF Lane!Fail, Quiet
    <2>. QED  BY <2>3 DEF Lane!Next
  <1>3. ASSUME NEW r \in Runs, Accepts(r) PROVE Lane!Next
    <2>1. ASSUME NEW s \in Runs
          PROVE  /\ owner'[s] = owner[s] /\ under'[s] = under[s]
                 /\ phase'[s] = IF s = r THEN "succeeded" ELSE phase[s]
      BY <1>1, <1>3 DEF Accepts, Running, Row
    <2>2. /\ run[r].status = "running" /\ UNCHANGED <<active, generation>>
          /\ active[run[r].merchant] /\ run[r].gen = generation[run[r].merchant]
      BY <1>1, <1>3 DEF Accepts, LifecycleCurrent, Running
    <2>3. Lane!Succeed(r)
      BY <2>1, <2>2 DEF Lane!Succeed, Running
    <2>. QED  BY <2>3 DEF Lane!Next
  <1>4. ASSUME NEW r \in Runs, NEW m \in Merchants, Reserve(r, m) PROVE Lane!Next
    <2>1. /\ run[r].status = "absent" /\ active[m] /\ ~HasRunningRun(m)
          /\ run'[r].status = "running" /\ run'[r].merchant = m /\ run'[r].gen = generation[m]
          /\ \A s \in Runs \ {r} : run'[s] = run[s]
          /\ UNCHANGED <<active, generation>>
      BY <1>1, <1>4 DEF Reserve
    <2>2. ASSUME NEW s \in Runs
          PROVE  /\ owner'[s] = IF s = r THEN m ELSE owner[s]
                 /\ under'[s] = IF s = r THEN generation[m] ELSE under[s]
                 /\ phase'[s] = IF s = r THEN "open" ELSE phase[s]
      BY <2>1 DEF Running
    <2>3. ~Lane!Occupied(m)
      BY <1>1, <2>1 DEF Lane!Occupied, HasRunningRun, Running
    <2>4. Lane!Open(r, m)
      BY <2>1, <2>2, <2>3 DEF Lane!Open, Running
    <2>. QED  BY <2>4 DEF Lane!Next
  <1>5. ASSUME NEW m \in Merchants, Archive(m) \/ Restore(m) PROVE Lane!Next
    <2>1. ~Lane!Occupied(m) \/ ~active[m]
      BY <1>1, <1>5 DEF Lane!Occupied, HasRunningRun, Running, Archive, Restore
    <2>2. UNCHANGED <<phase, owner, under>>
      BY <1>5 DEF Archive, Restore, Running
    <2>3. Lane!Archive(m) \/ Lane!Restore(m)
      BY <1>5, <2>1, <2>2 DEF Lane!Archive, Lane!Restore, Archive, Restore
    <2>. QED  BY <2>3 DEF Lane!Next
  <1>. QED  BY <1>1, <1>2, <1>3, <1>4, <1>5, StepKinds

\* LaneSpec: reservation, answers, recovery, polling, reconciliation and crashes
\* together are one diagnosis lane per merchant, each run ending once and well
\* only in the lifecycle it entered under.
THEOREM ImplementsLane == Spec => LaneSpec
  BY RowsInvariant, LaneInit, LaneNext, PTL DEF Spec, LaneSpec, Lane!Spec
=============================================================================
