----------------------- MODULE RunDispatchTypeProofs -----------------------
(***************************************************************************)
(* The types of RunDispatch, for every number of merchants, runs, pollers   *)
(* and operators and every bound.                                          *)
(***************************************************************************)
EXTENDS RunDispatch, TLAPS

USE IdsAssumption, BoundsAssumption, MerchantsAssumption

-----------------------------------------------------------------------------
(* Rows.  Every transaction but the reservation changes a row by one of a   *)
(* few operators; each of them yields a row again.                          *)

LEMMA FailedType ==
    ASSUME NEW row \in Row, NEW why \in Errors
    PROVE  Failed(row, why) \in Row
  BY DEF Failed, Row, Statuses, Dispatches

LEMMA BoundType ==
    ASSUME NEW row \in Row, NEW p \in ProviderIds
    PROVE  Bound(row, p) \in Row
  BY DEF Bound, Row, Dispatches, Ids, Errors

LEMMA DetachedType ==
    ASSUME NEW row \in Row, NEW why \in Errors
    PROVE  Detached(row, why) \in Row
  BY DEF Detached, Failed, Row, Statuses, Dispatches, Ids

LEMMA EvidenceType ==
    ASSUME NEW row \in Row
    PROVE  Evidence(row) \in Ids
  BY DEF Evidence, Row

LEMMA UnansweredType ==
    ASSUME NEW row \in Row, NEW missing \in BOOLEAN
    PROVE  Unanswered(row, missing) \in Row
  <1>1. "NO_LONGER_AVAILABLE" \in Errors /\ "POLL_STALE" \in Errors
    BY DEF Errors
  <1>2. [row EXCEPT !.failure = "recent"] \in Row
    BY DEF Row
  <1>. QED  BY <1>1, <1>2, DetachedType DEF Unanswered

LEMMA AnsweredType ==
    ASSUME run \in [Runs -> Row], NEW r \in Runs, NEW p \in ProviderIds
    PROVE  Answered(r, p) \in Row
  <1>1. run[r] \in Row
    OBVIOUS
  <1>2. [run[r] EXCEPT !.cand = p] \in Row
    BY <1>1 DEF Row, Ids
  <1>3. "LIFECYCLE_CHANGED" \in Errors /\ "DUPLICATE_RUN_ID" \in Errors
    BY DEF Errors
  <1>. QED  BY <1>1, <1>2, <1>3, FailedType, BoundType DEF Answered

LEMMA RecoveredType ==
    ASSUME run \in [Runs -> Row], NEW r \in Runs
    PROVE  Recovered(r) \in Row
  <1>. DEFINE row == run[r]
  <1>1. row \in Row
    OBVIOUS
  <1>2. [row EXCEPT !.cand = row.core, !.dispatch = "DISPATCHED",
                    !.failure = "none", !.error = "none"] \in Row
    BY <1>1 DEF Row, Dispatches, Errors
  <1>3. TerminalError(r) \in Errors
    BY <1>1 DEF TerminalError, Errors
  <1>4. [Failed(row, TerminalError(r)) EXCEPT !.cand = Evidence(row),
                                              !.core = NoId, !.failure = "none"] \in Row
    <2>1. Failed(row, TerminalError(r)) \in Row
      BY <1>1, <1>3, FailedType
    <2>. QED  BY <1>1, <2>1, EvidenceType DEF Row, Ids
  <1>5. [row EXCEPT !.dispatch = "UNKNOWN", !.error = "STALE_UNKNOWN"] \in Row
    BY <1>1 DEF Row, Dispatches, Errors
  <1>6. RecoveredEvidence(r) \in Row
    BY <1>1, <1>2, <1>4 DEF RecoveredEvidence
  <1>. QED  BY <1>1, <1>5, <1>6 DEF Recovered

-----------------------------------------------------------------------------
(* Type correctness.  A pass, a desk request and a caller only remember     *)
(* provider runs that exist as ids; without that the reads of provider[_]   *)
(* would say nothing.                                                       *)

WorkTyped ==
    /\ \A q \in Pollers :
         /\ \A r \in Runs : poll[q].claims[r] # NoClaim =>
                              poll[q].claims[r].core \in ProviderIds
         /\ poll[q].pc \in {"asking", "replied", "accepting"} =>
              /\ poll[q].run \in Runs
              /\ poll[q].claims[poll[q].run].core \in ProviderIds
    /\ \A o \in Operators :
         /\ desk[o].kind # "idle" => desk[o].run \in Runs
         /\ desk[o].kind \notin {"idle", "not_created"} =>
              /\ desk[o].id \in ProviderIds
              /\ desk[o].cand \in {NoId, desk[o].id}
    /\ \A r \in Runs : call[r] \in {"answered", "refused", "refusedUnknown"} => answer[r] \in ProviderIds

TypeInv == TypeOK /\ WorkTyped

LEMMA TypeInit == Init => TypeInv
  <1>. SUFFICES ASSUME Init PROVE TypeInv
    OBVIOUS
  <1>1. AbsentRow \in Row
    BY DEF AbsentRow, Row, Statuses, Dispatches, Ids, Errors
  <1>2. ASSUME NEW m \in Merchants PROVE LegacyRows(m) \subseteq Row
    <2>1. ASSUME NEW core \in Ids, NEW cand \in Ids, NEW gen \in {0, 1}, NEW why \in Errors
          PROVE  LegacyRow(m, core, cand, gen, why) \in Row
      BY DEF LegacyRow, Row, Statuses, Dispatches
    <2>2. {"none", "DUPLICATE_RUN_ID", "LIFECYCLE_CHANGED", "OUTCOME_UNKNOWN", "STALE_UNKNOWN"}
            \subseteq Errors
      BY DEF Errors
    <2>. QED  BY <2>1, <2>2 DEF LegacyRows, Ids
  <1>3. run \in [Runs -> Row]
    BY <1>1, <1>2 DEF Init
  <1>4. provider \in [ProviderIds -> ProviderRun]
    BY DEF Init, ProviderRun
  <1>5. generation \in [Merchants -> 1..MaxGeneration]
    BY DEF Init
  <1>6. ledger \in [Runs -> LedgerRow]
    BY DEF Init, NotReconciled, Recorded, LedgerRow, Ids
  <1>7. poll \in [Pollers -> Pass]
    BY DEF Init, Pass, NoClaim, Claims, Replies, Ids
  <1>8. desk \in [Operators -> Request]
    BY DEF Init, Idle, Request, Ids
  <1>9. /\ active \in [Merchants -> BOOLEAN]
        /\ accepted \in [Runs -> SUBSET {"audit", "plan"}]
        /\ taskBound \in SUBSET ProviderIds
        /\ call \in [Runs -> Calls]
        /\ answer \in [Runs -> Ids]
        /\ sent \in SUBSET Runs
        /\ crashes \in 0..MaxCrashes
    BY DEF Init, Ids, Calls
  <1>10. WorkTyped
    BY DEF Init, WorkTyped, Idle
  <1>. QED  BY <1>3, <1>4, <1>5, <1>6, <1>7, <1>8, <1>9, <1>10 DEF TypeInv, TypeOK

\* Core AI and the network touch no table but taskBound.
LEMMA TypeNetwork ==
    ASSUME TypeInv, NEW r \in Runs, NEW p \in ProviderIds,
           \/ TriggerCreates(r, p) \/ TriggerRepeats(r, p)
           \/ TriggerRejected(r) \/ TriggerUncertain(r) \/ TriggerLost(r)
           \/ ProviderEnds(p) \/ ProviderForgets(p) \/ TaskBinds(p)
    PROVE  TypeInv'
  <1>1. /\ provider \in [ProviderIds -> ProviderRun]
        /\ call \in [Runs -> Calls] /\ answer \in [Runs -> Ids]
        /\ sent \in SUBSET Runs /\ taskBound \in SUBSET ProviderIds
        /\ \A s \in Runs : call[s] \in {"answered", "refused", "refusedUnknown"} => answer[s] \in ProviderIds
    BY DEF TypeInv, TypeOK, WorkTyped
  <1>2. provider' \in [ProviderIds -> ProviderRun]
    <2>1. ASSUME NEW s \in {"COMPLETED", "ABORTED", "gone"}
          PROVE  [provider EXCEPT ![p].status = s] \in [ProviderIds -> ProviderRun]
      BY <1>1 DEF ProviderRun
    <2>2. ASSUME NEW i \in {0, r}
          PROVE  [provider EXCEPT ![p] = [input |-> i, status |-> "active"]]
                   \in [ProviderIds -> ProviderRun]
      BY <1>1 DEF ProviderRun, Runs
    <2>. QED  BY <1>1, <2>1, <2>2 DEF TriggerCreates, TriggerRepeats, TriggerRejected,
                 TriggerUncertain, TriggerLost, ProviderEnds, ProviderForgets, TaskBinds
  <1>3. /\ call' \in [Runs -> Calls] /\ answer' \in [Runs -> Ids]
        /\ sent' \in SUBSET Runs /\ taskBound' \in SUBSET ProviderIds
        /\ \A s \in Runs : call'[s] \in {"answered", "refused", "refusedUnknown"} => answer'[s] \in ProviderIds
    BY <1>1 DEF Calls, Ids, TriggerCreates, TriggerRepeats, TriggerRejected, TriggerUncertain,
                TriggerLost, ProviderEnds, ProviderForgets, TaskBinds, tables
  <1>4. UNCHANGED <<active, generation, run, accepted, ledger, poll, desk, crashes>>
    BY DEF TriggerCreates, TriggerRepeats, TriggerRejected, TriggerUncertain,
           TriggerLost, ProviderEnds, ProviderForgets, TaskBinds, tables
  <1>. QED  BY <1>2, <1>3, <1>4 DEF TypeInv, TypeOK, WorkTyped

\* The merchant's lifecycle and the caller's own transactions.
LEMMA TypeCaller ==
    ASSUME TypeInv, NEW r \in Runs, NEW m \in Merchants,
           \/ Archive(m) \/ Restore(m) \/ Reserve(r, m)
           \/ RecordRejection(r) \/ RecordUncertainty(r) \/ RecordAnswer(r)
           \/ AnswerRefused(r) \/ RecordRefusal(r)
    PROVE  TypeInv'
  <1>1. /\ run \in [Runs -> Row] /\ run[r] \in Row
        /\ call \in [Runs -> Calls] /\ answer \in [Runs -> Ids] /\ sent \in SUBSET Runs
        /\ active \in [Merchants -> BOOLEAN]
        /\ generation \in [Merchants -> 1..MaxGeneration]
        /\ \A s \in Runs : call[s] \in {"answered", "refused", "refusedUnknown"} => answer[s] \in ProviderIds
    BY DEF TypeInv, TypeOK, WorkTyped
  <1>2. run' \in [Runs -> Row]
    <2>1. CASE Reserve(r, m)
      <3>1. [status |-> "running", merchant |-> m, dispatch |-> "DISPATCHING",
             core |-> NoId, cand |-> NoId, gen |-> generation[m],
             age |-> "fresh", failure |-> "none", error |-> "none"] \in Row
        BY <1>1 DEF Row, Statuses, Dispatches, Ids, Errors
      <3>. QED  BY <1>1, <2>1, <3>1 DEF Reserve
    <2>2. CASE RecordRejection(r)
      <3>1. Failed(run[r], "REJECTED") \in Row
        BY <1>1, FailedType DEF Errors
      <3>. QED  BY <1>1, <2>2, <3>1 DEF RecordRejection
    <2>3. CASE RecordUncertainty(r)
      <3>1. [run[r] EXCEPT !.dispatch = "UNKNOWN", !.error = "OUTCOME_UNKNOWN"] \in Row
        BY <1>1 DEF Row, Dispatches, Errors
      <3>. QED  BY <1>1, <2>3, <3>1 DEF RecordUncertainty
    <2>4. CASE RecordAnswer(r)
      <3>1. Answered(r, answer[r]) \in Row
        BY <1>1, <2>4, AnsweredType DEF RecordAnswer
      <3>. QED  BY <1>1, <2>4, <3>1 DEF RecordAnswer
    <2>5. CASE Archive(m) \/ Restore(m) \/ AnswerRefused(r)
      BY <1>1, <2>5 DEF Archive, Restore, AnswerRefused, tables
    <2>6. CASE RecordRefusal(r)
      <3>1. [run[r] EXCEPT !.cand = answer[r]] \in Row
        BY <1>1, <2>6 DEF RecordRefusal, Row, Ids
      <3>2. Failed([run[r] EXCEPT !.cand = answer[r]], "DUPLICATE_RUN_ID") \in Row
        BY <3>1, FailedType DEF Errors
      <3>. QED  BY <1>1, <2>6, <3>2 DEF RecordRefusal
    <2>. QED  BY <2>1, <2>2, <2>3, <2>4, <2>5, <2>6
  <1>3. /\ active' \in [Merchants -> BOOLEAN]
        /\ generation' \in [Merchants -> 1..MaxGeneration]
    <2>1. CASE Archive(m) \/ Restore(m)
      <3>1. generation[m] + 1 \in 1..MaxGeneration
        BY <1>1, <2>1 DEF Archive, Restore
      <3>2. generation' = [generation EXCEPT ![m] = generation[m] + 1]
        BY <1>1, <2>1 DEF Archive, Restore
      <3>3. active' \in [Merchants -> BOOLEAN]
        BY <1>1, <2>1 DEF Archive, Restore
      <3>. QED  BY <1>1, <3>1, <3>2, <3>3
    <2>2. CASE UNCHANGED <<active, generation>>
      BY <1>1, <2>2
    <2>. QED  BY <2>1, <2>2 DEF Reserve, RecordRejection, RecordUncertainty, RecordAnswer,
                                   AnswerRefused, RecordRefusal, tables
  <1>4. /\ call' \in [Runs -> Calls] /\ answer' \in [Runs -> Ids] /\ sent' \in SUBSET Runs
        /\ \A s \in Runs : call'[s] \in {"answered", "refused", "refusedUnknown"} => answer'[s] \in ProviderIds
    BY <1>1, SMTT(30) DEF Archive, Restore, Reserve, RecordRejection, RecordUncertainty, RecordAnswer,
                AnswerRefused, RecordRefusal, tables, network, Calls, Ids
  <1>5. UNCHANGED <<accepted, ledger, taskBound, provider, poll, desk, crashes>>
    BY DEF Archive, Restore, Reserve, RecordRejection, RecordUncertainty, RecordAnswer,
           AnswerRefused, RecordRefusal, tables, network
  <1>. QED  BY <1>2, <1>3, <1>4, <1>5 DEF TypeInv, TypeOK, WorkTyped

\* Recovery and the passage of time touch nothing but rows.
LEMMA TypeRecovery ==
    ASSUME TypeInv, NEW r \in Runs, Recover \/ DispatchAges(r) \/ FailureAges(r)
    PROVE  TypeInv'
  <1>1. run \in [Runs -> Row] /\ run[r] \in Row
    BY DEF TypeInv, TypeOK
  <1>2. run' \in [Runs -> Row]
    <2>1. [run[r] EXCEPT !.age = "stale"] \in Row /\ [run[r] EXCEPT !.failure = "overdue"] \in Row
      BY <1>1 DEF Row
    <2>. QED  BY <1>1, <2>1, RecoveredType DEF Recover, DispatchAges, FailureAges
  <1>3. UNCHANGED <<active, generation, accepted, ledger, taskBound, call, answer, sent,
                    provider, poll, desk, crashes>>
    BY DEF Recover, DispatchAges, FailureAges, network
  <1>. QED  BY <1>2, <1>3 DEF TypeInv, TypeOK, WorkTyped

PassTyped(pass) ==
    /\ \A r \in Runs : pass.claims[r] # NoClaim => pass.claims[r].core \in ProviderIds
    /\ pass.pc \in {"asking", "replied", "accepting"} =>
         pass.run \in Runs /\ pass.claims[pass.run].core \in ProviderIds

LEMMA NextRowTyped ==
    ASSUME NEW q \in Pollers, poll \in [Pollers -> Pass], PassTyped(poll[q])
    PROVE  NextRow(q) \in Pass /\ PassTyped(NextRow(q))
  <1>. DEFINE c == [poll[q].claims EXCEPT ![poll[q].run] = NoClaim]
  <1>1. NoClaim \in Claims
    BY DEF NoClaim, Claims, Ids
  <1>2. c \in [Runs -> Claims] /\ \A r \in Runs : c[r] # NoClaim => c[r].core \in ProviderIds
    <2>1. poll[q] \in Pass /\ poll[q].claims \in [Runs -> Claims]
      BY DEF Pass
    <2>2. ASSUME NEW r \in Runs PROVE c[r] \in Claims /\ (c[r] = NoClaim \/ c[r] = poll[q].claims[r])
      BY <1>1, <2>1
    <2>3. c \in [Runs -> Claims]
      BY <1>1, <2>1
    <2>. HIDE DEF c
    <2>. QED  BY <2>2, <2>3 DEF PassTyped
  <1>4. NextRow(q) = [pc |-> "batch", claims |-> c, run |-> 0, reply |-> "none"]
    BY DEF NextRow
  <1>. HIDE DEF c
  <1>5. NextRow(q) \in Pass
    BY <1>2, <1>4 DEF Pass, Replies
  <1>. QED  BY <1>2, <1>4, <1>5 DEF PassTyped

\* Only the poller's own pass changes, and it stays well formed.
LEMMA TypePass ==
    ASSUME TypeInv, NEW q \in Pollers, PollStep(q)
    PROVE  poll' \in [Pollers -> Pass] /\ \A w \in Pollers : PassTyped(poll'[w])
  <1>1. /\ run \in [Runs -> Row] /\ poll \in [Pollers -> Pass] /\ poll[q] \in Pass
        /\ provider \in [ProviderIds -> ProviderRun]
        /\ PassTyped(poll[q]) /\ \A w \in Pollers : PassTyped(poll[w])
    BY DEF TypeInv, TypeOK, WorkTyped, PassTyped
  <1>2. ASSUME NEW pass \in Pass, PassTyped(pass), poll' = [poll EXCEPT ![q] = pass]
        PROVE  poll' \in [Pollers -> Pass] /\ \A w \in Pollers : PassTyped(poll'[w])
    BY <1>1, <1>2
  <1>3. CASE PollSelect(q)
    <2>. DEFINE c    == [r \in Runs |-> IF Pollable(r) THEN Claim(run[r]) ELSE NoClaim]
                pass == [poll[q] EXCEPT !.pc = "batch", !.claims = c]
    <2>1. c \in [Runs -> Claims]
      BY <1>1 DEF Claim, Claims, Row, NoClaim, Ids
    <2>2. ASSUME NEW r \in Runs, c[r] # NoClaim PROVE c[r].core \in ProviderIds
      <3>1. Pollable(r) /\ c[r] = Claim(run[r])
        BY <2>2
      <3>2. run[r].core # NoId /\ run[r].core \in Ids
        BY <1>1, <3>1 DEF Pollable, Row
      <3>. QED  BY <3>1, <3>2 DEF Claim, Ids
    <2>3. poll' = [poll EXCEPT ![q] = pass]
      BY <1>1, <1>3 DEF PollSelect
    <2>4. pass \in Pass /\ PassTyped(pass)
      <3>. HIDE DEF c
      <3>. QED  BY <1>1, <2>1, <2>2 DEF Pass, PassTyped
    <2>. QED  BY <1>2, <2>3, <2>4
  <1>4. CASE PollDone(q)
    <2>1. [poll[q] EXCEPT !.pc = "idle"] \in Pass /\ PassTyped([poll[q] EXCEPT !.pc = "idle"])
      BY <1>1 DEF Pass, PassTyped
    <2>2. poll' = [poll EXCEPT ![q] = [poll[q] EXCEPT !.pc = "idle"]]
      BY <1>1, <1>4 DEF PollDone
    <2>. QED  BY <1>2, <2>1, <2>2
  <1>5. ASSUME NEW r \in Runs, PollFence(q, r)
        PROVE  poll' \in [Pollers -> Pass] /\ \A w \in Pollers : PassTyped(poll'[w])
    <2>. DEFINE ask  == [poll[q] EXCEPT !.pc = "asking", !.run = r]
                drop == [poll[q] EXCEPT !.claims[r] = NoClaim]
    <2>1. poll[q].claims[r].core \in ProviderIds
      BY <1>1, <1>5 DEF PollFence, Pending, PassTyped
    <2>2. ask \in Pass /\ PassTyped(ask)
      <3>0. poll[q] \in Pass
        BY <1>1
      <3>. HIDE DEF drop
      <3>1. ask.pc = "asking" /\ ask.claims = poll[q].claims /\ ask.run = r
        BY <3>0 DEF Pass
      <3>2. r \in 0..MaxRuns
        BY DEF Runs
      <3>3. ask \in Pass
        BY <3>0, <3>2 DEF Pass
      <3>. HIDE DEF ask
      <3>. QED  BY <1>1, <2>1, <3>1, <3>3 DEF PassTyped
    <2>3. poll[q].pc = "batch" /\ NoClaim \in Claims
      BY <1>5 DEF PollFence, NoClaim, Claims, Ids
    <2>4. drop \in Pass /\ PassTyped(drop)
      <3>. DEFINE c == [poll[q].claims EXCEPT ![r] = NoClaim]
      <3>1. poll[q].claims \in [Runs -> Claims]
        BY <1>1 DEF Pass
      <3>2. c \in [Runs -> Claims]
        BY <2>3, <3>1
      <3>3. ASSUME NEW s \in Runs PROVE c[s] = NoClaim \/ c[s] = poll[q].claims[s]
        BY <3>1
      <3>4. /\ drop = [poll[q] EXCEPT !.claims = c]
        BY <1>1 DEF Pass
      <3>. HIDE DEF c, drop
      <3>5. drop \in Pass /\ drop.pc = "batch" /\ drop.claims = c
        BY <1>1, <2>3, <3>2, <3>4 DEF Pass
      <3>. QED  BY <1>1, <3>3, <3>5 DEF PassTyped
    <2>5. poll' = [poll EXCEPT ![q] = ask] \/ poll' = [poll EXCEPT ![q] = drop]
      BY <1>1, <1>5 DEF PollFence
    <2>. HIDE DEF ask, drop
    <2>. QED  BY <1>2, <2>2, <2>4, <2>5
  <1>6. CASE PollAsks(q)
    <2>1. poll[q].claims[poll[q].run].core \in ProviderIds /\ poll[q].run \in Runs
      BY <1>1, <1>6 DEF PollAsks, PassTyped
    <2>2. provider[poll[q].claims[poll[q].run].core].status
             \in {"none", "active", "COMPLETED", "ABORTED", "gone"}
      BY <1>1, <2>1 DEF ProviderRun
    <2>3. PICK reply \in Replies :
             poll' = [poll EXCEPT ![q] = [poll[q] EXCEPT !.pc = "replied", !.reply = reply]]
      BY <1>1, <1>6, <2>2 DEF PollAsks, Replies
    <2>4. /\ [poll[q] EXCEPT !.pc = "replied", !.reply = reply] \in Pass
          /\ PassTyped([poll[q] EXCEPT !.pc = "replied", !.reply = reply])
      BY <1>1, <2>1 DEF Pass, PassTyped
    <2>. QED  BY <1>2, <2>3, <2>4
  <1>7. CASE PollError(q) \/ PollReported(q) \/ PollAccept(q)
    <2>. DEFINE accepting == [poll[q] EXCEPT !.pc = "accepting"]
    <2>1. NextRow(q) \in Pass /\ PassTyped(NextRow(q))
      BY <1>1, NextRowTyped
    <2>2. CASE poll' = [poll EXCEPT ![q] = NextRow(q)]
      BY <1>2, <2>1, <2>2
    <2>3. CASE PollReported(q) /\ poll' = [poll EXCEPT ![q] = accepting]
      <3>1. accepting \in Pass /\ PassTyped(accepting)
        BY <1>1, <2>3 DEF PollReported, Pass, PassTyped
      <3>. QED  BY <1>2, <2>3, <3>1
    <2>. QED  BY <1>1, <1>7, <2>2, <2>3 DEF PollError, PollReported, PollAccept
  <1>. QED  BY <1>3, <1>4, <1>5, <1>6, <1>7 DEF PollStep

LEMMA TypePoll ==
    ASSUME TypeInv, NEW q \in Pollers, PollStep(q)
    PROVE  TypeInv'
  <1>1. /\ run \in [Runs -> Row] /\ poll \in [Pollers -> Pass]
        /\ accepted \in [Runs -> SUBSET {"audit", "plan"}]
        /\ PassTyped(poll[q])
    BY DEF TypeInv, TypeOK, WorkTyped, PassTyped
  <1>2. poll' \in [Pollers -> Pass] /\ \A w \in Pollers : PassTyped(poll'[w])
    BY TypePass
  <1>3. ASSUME NEW r \in Runs, NEW row \in Row, run' = [run EXCEPT ![r] = row]
        PROVE  run' \in [Runs -> Row]
    BY <1>1, <1>3
  <1>4. ASSUME NEW r \in Runs
        PROVE  /\ Detached(run[r], "LIFECYCLE_CHANGED") \in Row
               /\ \A missing \in BOOLEAN : Unanswered(run[r], missing) \in Row
               /\ [run[r] EXCEPT !.failure = "none"] \in Row
               /\ [run[r] EXCEPT !.status = "succeeded"] \in Row
               /\ [run[r] EXCEPT !.status = "failed", !.error = "PROVIDER_FAILED"] \in Row
    <2>1. run[r] \in Row
      BY <1>1
    <2>2. "LIFECYCLE_CHANGED" \in Errors /\ "PROVIDER_FAILED" \in Errors
      BY DEF Errors
    <2>. QED  BY <2>1, <2>2, DetachedType, UnansweredType DEF Row, Statuses
  <1>5. run' \in [Runs -> Row] /\ accepted' \in [Runs -> SUBSET {"audit", "plan"}]
    <2>1. CASE PollSelect(q) \/ PollDone(q) \/ PollAsks(q)
      BY <1>1, <2>1 DEF PollSelect, PollDone, PollAsks, tables
    <2>2. ASSUME NEW r \in Runs, PollFence(q, r)
          PROVE  run' \in [Runs -> Row] /\ accepted' = accepted
      BY <1>1, <1>4, <2>2 DEF PollFence
    <2>3. CASE PollError(q)
      <3>1. poll[q].run \in Runs
        BY <1>1, <2>3 DEF PollError, PassTyped
      <3>. QED  BY <1>1, <1>4, <2>3, <3>1 DEF PollError
    <2>4. CASE PollReported(q)
      <3>1. poll[q].run \in Runs
        BY <1>1, <2>4 DEF PollReported, PassTyped
      <3>. QED  BY <1>1, <1>4, <2>4, <3>1 DEF PollReported
    <2>5. CASE PollAccept(q)
      <3>. DEFINE r == poll[q].run
      <3>1. r \in Runs
        BY <1>1, <2>5 DEF PollAccept, PassTyped
      <3>2. \/ run' = [run EXCEPT ![r] = [run[r] EXCEPT !.status = "succeeded"]]
            \/ run' = [run EXCEPT ![r] =
                          [run[r] EXCEPT !.status = "failed", !.error = "PROVIDER_FAILED"]]
            \/ run' = [run EXCEPT ![r] = Detached(run[r], "LIFECYCLE_CHANGED")]
            \/ run' = run
        BY <1>1, <2>5, <3>1 DEF PollAccept
      <3>3. run' \in [Runs -> Row]
        BY <1>1, <1>4, <3>1, <3>2
      <3>4. \/ accepted' = accepted
            \/ \E found \in SUBSET {"audit", "plan"} :
                 accepted' = [accepted EXCEPT ![r] = @ \cup found]
        BY <2>5 DEF PollAccept
      <3>5. accepted' \in [Runs -> SUBSET {"audit", "plan"}]
        BY <1>1, <3>1, <3>4
      <3>. QED  BY <3>3, <3>5
    <2>. QED  BY <1>1, <2>1, <2>2, <2>3, <2>4, <2>5 DEF PollStep
  <1>6. UNCHANGED <<active, generation, ledger, taskBound, call, answer, sent, provider,
                    desk, crashes>>
    BY DEF PollStep, PollSelect, PollDone, PollFence, PollAsks, PollError, PollReported,
           PollAccept, tables, network
  <1>. QED  BY <1>2, <1>5, <1>6 DEF TypeInv, TypeOK, WorkTyped, PassTyped

RequestTyped(d) ==
    /\ d.kind # "idle" => d.run \in Runs
    /\ d.kind \notin {"idle", "not_created"} => d.id \in ProviderIds /\ d.cand \in {NoId, d.id}

\* An operator's request remembers a row and never changes what it asked for.
LEMMA TypeRequest ==
    ASSUME TypeInv, NEW o \in Operators, NEW r \in Runs, NEW p \in ProviderIds,
           \/ NotCreatedRequest(o, r) \/ NotCreatedCommit(o) \/ BindRequest(o, r, p)
           \/ BindReadback(o) \/ BindCommit(o) \/ CandidateRejected(o)
    PROVE  desk' \in [Operators -> Request] /\ \A w \in Operators : RequestTyped(desk'[w])
  <1>1. /\ run[r] \in Row /\ desk \in [Operators -> Request] /\ desk[o] \in Request
        /\ \A w \in Operators : RequestTyped(desk[w])
    BY DEF TypeInv, TypeOK, WorkTyped, RequestTyped
  <1>2. ASSUME NEW d \in Request, RequestTyped(d), desk' = [desk EXCEPT ![o] = d]
        PROVE  desk' \in [Operators -> Request] /\ \A w \in Operators : RequestTyped(desk'[w])
    BY <1>1, <1>2
  <1>3. Idle \in Request /\ RequestTyped(Idle)
    BY DEF Idle, Request, RequestTyped, Ids
  <1>4. CASE NotCreatedCommit(o) \/ BindCommit(o) \/ CandidateRejected(o)
    BY <1>2, <1>3, <1>4 DEF NotCreatedCommit, BindCommit, CandidateRejected
  <1>5. r \in 0..MaxRuns
    BY DEF Runs
  <1>6. CASE NotCreatedRequest(o, r)
    <2>1. Seen("not_created", r, NoId) \in Request /\ RequestTyped(Seen("not_created", r, NoId))
      BY <1>1, <1>5 DEF Seen, Request, RequestTyped, Row, Ids
    <2>. QED  BY <1>2, <1>6, <2>1 DEF NotCreatedRequest
  <1>7. CASE BindRequest(o, r, p)
    <2>1. Seen("readback", r, p) \in Request /\ RequestTyped(Seen("readback", r, p))
      BY <1>1, <1>5, <1>7 DEF BindRequest, Seen, Request, RequestTyped, Row, Ids
    <2>. QED  BY <1>2, <1>7, <2>1 DEF BindRequest
  <1>8. CASE BindReadback(o)
    <2>1. ASSUME NEW kind \in {"missing", "verified", "mismatch"}
          PROVE  /\ [desk[o] EXCEPT !.kind = kind] \in Request
                 /\ RequestTyped([desk[o] EXCEPT !.kind = kind])
      BY <1>1, <1>8 DEF BindReadback, Request, RequestTyped
    <2>2. \/ desk' = [desk EXCEPT ![o] = Idle]
          \/ \E kind \in {"missing", "verified", "mismatch"} :
               desk' = [desk EXCEPT ![o] = [desk[o] EXCEPT !.kind = kind]]
      BY <1>1, <1>8 DEF BindReadback
    <2>. QED  BY <1>2, <1>3, <2>1, <2>2
  <1>. QED  BY <1>4, <1>6, <1>7, <1>8

LEMMA TypeDesk ==
    ASSUME TypeInv, NEW o \in Operators, NEW r \in Runs, NEW p \in ProviderIds,
           \/ NotCreatedRequest(o, r) \/ NotCreatedCommit(o) \/ BindRequest(o, r, p)
           \/ BindReadback(o) \/ BindCommit(o) \/ CandidateRejected(o)
    PROVE  TypeInv'
  <1>1. /\ run \in [Runs -> Row] /\ ledger \in [Runs -> LedgerRow]
        /\ RequestTyped(desk[o])
    BY DEF TypeInv, TypeOK, WorkTyped, RequestTyped
  <1>2. desk' \in [Operators -> Request] /\ \A w \in Operators : RequestTyped(desk'[w])
    BY TypeRequest
  <1>3. CASE NotCreatedRequest(o, r) \/ BindRequest(o, r, p) \/ BindReadback(o)
    BY <1>2, <1>3 DEF NotCreatedRequest, BindRequest, BindReadback, tables, network,
                      TypeInv, TypeOK, WorkTyped, RequestTyped
  <1>4. CASE NotCreatedCommit(o) \/ BindCommit(o) \/ CandidateRejected(o)
    <2>. DEFINE s == desk[o].run
                d == desk[o].id
    <2>1. s \in Runs /\ run[s] \in Row /\ (~NotCreatedCommit(o) => d \in ProviderIds)
      BY <1>1, <1>4 DEF NotCreatedCommit, BindCommit, CandidateRejected, RequestTyped
    <2>2. /\ Failed(run[s], "NOT_CREATED") \in Row
          /\ Failed(run[s], "NO_LONGER_AVAILABLE") \in Row
          /\ Failed(run[s], "IDENTITY_MISMATCH") \in Row
      BY <2>1, FailedType DEF Errors
    <2>3. ASSUME NEW row \in Row
          PROVE  [row EXCEPT !.failure = "none"] \in Row /\ [row EXCEPT !.age = "fresh"] \in Row
      BY DEF Row
    <2>5. ASSUME NotCreatedCommit(o) PROVE run' \in [Runs -> Row] /\ ledger' \in [Runs -> LedgerRow]
      <3>1. Recorded("NOT_CREATED", NoId, "FAILED") \in LedgerRow
        BY DEF Recorded, LedgerRow, Ids
      <3>2. \/ /\ run' = [run EXCEPT ![s] = Failed(run[s], "NOT_CREATED")]
               /\ ledger' = [ledger EXCEPT ![s] = Recorded("NOT_CREATED", NoId, "FAILED")]
            \/ run' = run /\ ledger' = ledger
        BY <1>1, <2>1, <2>5 DEF NotCreatedCommit
      <3>. QED  BY <1>1, <2>1, <2>2, <3>1, <3>2
    <2>6. ASSUME BindCommit(o) PROVE run' \in [Runs -> Row] /\ ledger' \in [Runs -> LedgerRow]
      <3>1. Recorded("BIND_EXISTING", d, "DISPATCHED") \in LedgerRow
        BY <2>1, <2>6 DEF Recorded, LedgerRow, Ids, NotCreatedCommit, BindCommit
      <3>2. d \in ProviderIds
        BY <2>1, <2>6 DEF NotCreatedCommit, BindCommit
      <3>3. [Bound(run[s], d) EXCEPT !.age = "fresh", !.failure = "none"] \in Row
        <4>1. Bound(run[s], d) \in Row
          BY <2>1, <3>2, BoundType
        <4>. QED  BY <4>1 DEF Row
      <3>4. \/ /\ run' = [run EXCEPT ![s] =
                             [Bound(run[s], d) EXCEPT !.age = "fresh", !.failure = "none"]]
               /\ ledger' = [ledger EXCEPT ![s] = Recorded("BIND_EXISTING", d, "DISPATCHED")]
            \/ run' = run /\ ledger' = ledger
        BY <1>1, <2>1, <2>6 DEF BindCommit
      <3>. QED  BY <1>1, <2>1, <3>1, <3>3, <3>4
    <2>7. ASSUME CandidateRejected(o) PROVE run' \in [Runs -> Row] /\ ledger' \in [Runs -> LedgerRow]
      <3>1. Recorded("BIND_EXISTING", d, "FAILED") \in LedgerRow
        BY <2>1, <2>7 DEF Recorded, LedgerRow, Ids, NotCreatedCommit, CandidateRejected
      <3>2. \/ \E row \in Row : /\ run' = [run EXCEPT ![s] = row]
                                 /\ ledger' = [ledger EXCEPT ![s] =
                                                 Recorded("BIND_EXISTING", d, "FAILED")]
            \/ run' = run /\ ledger' = ledger
        BY <1>1, <2>1, <2>2, <2>3, <2>7 DEF CandidateRejected
      <3>. QED  BY <1>1, <2>1, <3>1, <3>2
    <2>8. run' \in [Runs -> Row] /\ ledger' \in [Runs -> LedgerRow]
      BY <1>4, <2>5, <2>6, <2>7
    <2>9. UNCHANGED <<active, generation, accepted, taskBound, call, answer, sent, provider,
                      poll, crashes>>
      BY <1>4 DEF NotCreatedCommit, BindCommit, CandidateRejected, network
    <2>. QED  BY <1>2, <2>8, <2>9 DEF TypeInv, TypeOK, WorkTyped, RequestTyped
  <1>. QED  BY <1>3, <1>4

LEMMA TypeCrash == TypeInv /\ Crash => TypeInv'
  <1>. SUFFICES ASSUME TypeInv, Crash PROVE TypeInv'
    OBVIOUS
  <1>1. call' \in [Runs -> Calls] /\ answer' \in [Runs -> Ids] /\ crashes' \in 0..MaxCrashes
    BY DEF TypeInv, TypeOK, Crash, Calls, Ids
  <1>2. poll' \in [Pollers -> Pass] /\ \A q \in Pollers : PassTyped(poll'[q])
    <2>. DEFINE fresh == [pc |-> "idle", claims |-> [r \in Runs |-> NoClaim],
                          run |-> 0, reply |-> "none"]
    <2>1. NoClaim \in Claims
      BY DEF NoClaim, Claims, Ids
    <2>2. fresh \in Pass /\ PassTyped(fresh)
      BY <2>1 DEF Pass, PassTyped, Replies
    <2>3. poll' = [q \in Pollers |-> fresh]
      BY DEF Crash
    <2>. HIDE DEF fresh
    <2>. QED  BY <2>2, <2>3
  <1>3. desk' \in [Operators -> Request] /\ \A o \in Operators : RequestTyped(desk'[o])
    BY DEF Crash, Idle, Request, RequestTyped, Ids
  <1>4. \A r \in Runs : call'[r] \notin {"answered", "refused", "refusedUnknown"}
    BY DEF Crash
  <1>5. UNCHANGED <<active, generation, run, accepted, ledger, taskBound, sent, provider>>
    BY DEF Crash, tables
  <1>. QED  BY <1>1, <1>2, <1>3, <1>4, <1>5
            DEF TypeInv, TypeOK, WorkTyped, PassTyped, RequestTyped

LEMMA TypeNext == TypeInv /\ [Next]_vars => TypeInv'
  <1>. SUFFICES ASSUME TypeInv, [Next]_vars PROVE TypeInv'
    OBVIOUS
  <1>1. CASE UNCHANGED vars
    BY <1>1 DEF vars, TypeInv, TypeOK, WorkTyped
  <1>2. CASE Next
    <2>1. 1 \in Runs
      BY DEF Runs
    <2>2. PICK p \in ProviderIds : TRUE
      OBVIOUS
    <2>3. PICK m \in Merchants : TRUE
      OBVIOUS
    <2>4. CASE \/ \E n \in Merchants : Archive(n) \/ Restore(n)
               \/ \E r \in Runs, n \in Merchants : Reserve(r, n)
               \/ \E r \in Runs : \/ RecordRejection(r) \/ RecordUncertainty(r) \/ RecordAnswer(r)
                               \/ AnswerRefused(r) \/ RecordRefusal(r)
      BY <2>1, <2>3, <2>4, TypeCaller
    <2>5. CASE \/ \E r \in Runs, i \in ProviderIds : TriggerCreates(r, i) \/ TriggerRepeats(r, i)
               \/ \E r \in Runs : TriggerRejected(r) \/ TriggerUncertain(r) \/ TriggerLost(r)
               \/ \E i \in ProviderIds : ProviderEnds(i) \/ ProviderForgets(i) \/ TaskBinds(i)
      BY <2>1, <2>2, <2>5, TypeNetwork
    <2>6. CASE Recover \/ \E r \in Runs : DispatchAges(r) \/ FailureAges(r)
      BY <2>1, <2>6, TypeRecovery
    <2>7. CASE \E q \in Pollers : PollStep(q)
      BY <2>7, TypePoll
    <2>8. CASE \E o \in Operators : \/ \E r \in Runs : NotCreatedRequest(o, r)
                                    \/ \E r \in Runs, i \in ProviderIds : BindRequest(o, r, i)
                                    \/ NotCreatedCommit(o) \/ BindReadback(o)
                                    \/ BindCommit(o) \/ CandidateRejected(o)
      BY <2>1, <2>2, <2>8, TypeDesk
    <2>. QED  BY <1>2, <2>4, <2>5, <2>6, <2>7, <2>8, TypeCrash DEF Next, PollStep
  <1>. QED  BY <1>1, <1>2

LEMMA TypeInvariant == Spec => []TypeInv
  BY TypeInit, TypeNext, PTL DEF Spec

\* TypeOK: every column, message and remembered claim keeps its domain, for
\* every number of merchants, runs, pollers and operators.
THEOREM TypeCorrect == Spec => []TypeOK
  <1>1. TypeInv => TypeOK
    BY DEF TypeInv
  <1>. QED  BY TypeInvariant, <1>1, PTL
=============================================================================
