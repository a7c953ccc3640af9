---------------------------- MODULE RunDispatch ----------------------------
(***************************************************************************)
(* Diagnosis runs: api/app/runs.py, the run poller and the recovery pass of *)
(* api/app/scheduler.py, and the merchant lifecycle of api/app/merchants.py.*)
(*                                                                         *)
(* A request (or the automatic scan) reserves a row of the runs table, asks *)
(* Core AI to start a provider run, and records the answer.  The three are  *)
(* separate transactions with a network call between them, and the process  *)
(* may die anywhere.  The scheduler recovers reservations nobody answered   *)
(* and polls bound runs; an operator settles what neither can decide.       *)
(* Every action below is one BEGIN IMMEDIATE transaction, one read, or one  *)
(* step of the network.                                                     *)
(***************************************************************************)
EXTENDS Integers, FiniteSets

CONSTANTS
    Merchants,         \* merchants.id
    MaxRuns,           \* bound: rows the runs table may hold
    ProviderIds,       \* run ids Core AI can hand out
    NoId,              \* SQL NULL for a provider run id
    Pollers,           \* scheduler loops; the deployment runs one
    Operators,         \* requests to reconcile-dispatch that may overlap
    MaxGeneration,     \* bound: lifecycle events per merchant
    MaxCrashes,        \* bound: process restarts
    RepeatedAnswers,   \* may Core AI answer a trigger with a run id it gave before?
    Legacy             \* may the tables hold a row of an earlier release?

ASSUME MerchantsAssumption == Merchants # {}
ASSUME IdsAssumption == ProviderIds # {} /\ NoId \notin ProviderIds
ASSUME BoundsAssumption ==
    /\ MaxRuns \in Nat \ {0}
    /\ MaxGeneration \in Nat /\ MaxGeneration >= 3
    /\ MaxCrashes \in Nat
    /\ RepeatedAnswers \in BOOLEAN
    /\ Legacy \in BOOLEAN

VARIABLES
    active,        \* merchants.status = 'active'
    generation,    \* generation of the newest merchant_status_events row
    run,           \* the runs table
    accepted,      \* audit_snapshots and task_plans rows a run produced
    ledger,        \* run_dispatch_reconciliations, at most one row per run
    taskBound,     \* coreai_run_id values held by task_executions
    call,          \* the start_run invocation that owns a reservation
    answer,        \* the run id in the response that invocation holds
    sent,          \* trigger requests Core AI has not settled yet
    provider,      \* Core AI's own runs
    poll,          \* poll_runs_once of each scheduler
    desk,          \* reconcile_run_dispatch requests in progress
    crashes

tables  == <<active, generation, run, accepted, ledger, taskBound>>
network == <<call, answer, sent, provider>>
vars == <<active, generation, run, accepted, ledger, taskBound,
          call, answer, sent, provider, poll, desk, crashes>>

-----------------------------------------------------------------------------
(* Rows and messages.                                                       *)

Runs == 1..MaxRuns
Ids  == ProviderIds \cup {NoId}

Statuses   == {"absent", "running", "succeeded", "failed"}
Dispatches == {"DISPATCHING", "DISPATCHED", "UNKNOWN", "FAILED"}
Errors     == {"none", "REJECTED", "OUTCOME_UNKNOWN", "STALE_UNKNOWN", "DUPLICATE_RUN_ID",
               "LIFECYCLE_CHANGED", "LEGACY_UNVERIFIABLE", "NOT_CREATED",
               "IDENTITY_MISMATCH", "NO_LONGER_AVAILABLE", "POLL_STALE", "PROVIDER_FAILED"}

\* gen is the lifecycle generation the reservation was made under.  The INSERT
\* writes it together with the token, Agent and input hash, so gen = 0 stands
\* for a row without any of them, left by a release that did not record them.
\* age and failure abstract dispatch_started_at and poll_failure_started_at to
\* what the code compares them with: fifteen minutes.
Row == [status   : Statuses,
        merchant : Merchants,
        dispatch : Dispatches,
        core     : Ids,
        cand     : Ids,
        gen      : 0..MaxGeneration,
        age      : {"fresh", "stale"},
        failure  : {"none", "recent", "overdue"},
        error    : Errors]

\* What a poller remembers of a row between its transactions.
Claim(row) == [core |-> row.core, cand |-> row.cand, gen |-> row.gen,
               failing |-> row.failure # "none"]
Claims  == [core : Ids, cand : Ids, gen : 0..MaxGeneration, failing : BOOLEAN]
NoClaim == [core |-> NoId, cand |-> NoId, gen |-> 0, failing |-> FALSE]

Replies == {"none", "unreachable", "missing", "active", "COMPLETED", "ABORTED"}
Idle    == [kind |-> "idle", run |-> 0, id |-> NoId, cand |-> NoId, gen |-> 0]

LedgerRow == [action : {"none", "NOT_CREATED", "BIND_EXISTING"}, id : Ids,
              result : {"none", "DISPATCHED", "FAILED"}]
Calls == {"none", "triggering", "answered", "rejected", "ambiguous",
          "refused", "refusedUnknown", "ended"}
ProviderRun == [input : 0..MaxRuns,
                status : {"none", "active", "COMPLETED", "ABORTED", "gone"}]
Pass == [pc : {"idle", "batch", "asking", "replied", "accepting"},
         claims : [Runs -> Claims], run : 0..MaxRuns, reply : Replies]
Request == [kind : {"idle", "not_created", "readback", "verified", "missing", "mismatch"},
            run : 0..MaxRuns, id : Ids, cand : Ids, gen : 0..MaxGeneration]

TypeOK ==
    /\ active \in [Merchants -> BOOLEAN]
    /\ generation \in [Merchants -> 1..MaxGeneration]
    /\ run \in [Runs -> Row]
    /\ accepted \in [Runs -> SUBSET {"audit", "plan"}]
    /\ ledger \in [Runs -> LedgerRow]
    /\ taskBound \in SUBSET ProviderIds
    /\ call \in [Runs -> Calls]
    /\ answer \in [Runs -> Ids]
    /\ sent \in SUBSET Runs
    /\ provider \in [ProviderIds -> ProviderRun]
    /\ poll \in [Pollers -> Pass]
    /\ desk \in [Operators -> Request]
    /\ crashes \in 0..MaxCrashes

-----------------------------------------------------------------------------
(* Reading the tables.  An operator whose comment begins with "Variant" is  *)
(* a mistake the next definition could have made, kept to show which        *)
(* property would notice it; nothing else uses it.                          *)

Running(r) == run[r].status = "running"

\* Variant: only a bound run counts as in progress.
HasBoundRun(m) ==
    \E r \in Runs : Running(r) /\ run[r].merchant = m /\ run[r].core # NoId

HasRunningRun(m) == \E r \in Runs : Running(r) /\ run[r].merchant = m

\* Variant: an active merchant is enough, whatever happened in between.
MerchantActive(r) == active[run[r].merchant]

\* merchant_lifecycle_token equals the one stored with the reservation.
LifecycleCurrent(r) ==
    /\ active[run[r].merchant]
    /\ generation[run[r].merchant] = run[r].gen

\* Another row of runs holds the id in its unique coreai_run_id column.
BoundElsewhere(p, r) == \E s \in Runs \ {r} : run[s].core = p

\* Variant: no trigger looks at the other table.
HeldByNoTask(p) == FALSE

\* The cross-table triggers refuse a binding that a task execution holds.
HeldByTask(p) == p \in taskBound

\* The provider run a row gives evidence of, if any.
Evidence(row) == IF row.core # NoId THEN row.core ELSE row.cand

-----------------------------------------------------------------------------
(* Merchant lifecycle: PATCH /api/merchants/{id}.                           *)

\* Archiving waits for the merchant's active work; of that work this module
\* holds the running runs, and the other tables can only delay it further.
Archive(m) ==
    /\ active[m]
    /\ ~HasRunningRun(m)
    /\ generation[m] < MaxGeneration
    /\ active' = [active EXCEPT ![m] = FALSE]
    /\ generation' = [generation EXCEPT ![m] = @ + 1]
    /\ UNCHANGED <<run, accepted, ledger, taskBound, network, poll, desk, crashes>>

Restore(m) ==
    /\ ~active[m]
    /\ generation[m] < MaxGeneration
    /\ active' = [active EXCEPT ![m] = TRUE]
    /\ generation' = [generation EXCEPT ![m] = @ + 1]
    /\ UNCHANGED <<run, accepted, ledger, taskBound, network, poll, desk, crashes>>

-----------------------------------------------------------------------------
(* start_run: reserve, trigger, record.                                     *)

\* The first transaction.  The caller's copy of the merchant may be old; the
\* checks read the tables again under the writer lock.
Reserve(r, m) ==
    /\ run[r].status = "absent"
    /\ \A s \in Runs : s < r => run[s].status # "absent"
    /\ active[m]
    /\ ~HasRunningRun(m)
    /\ run' = [run EXCEPT ![r] =
                 [status |-> "running", merchant |-> m, dispatch |-> "DISPATCHING",
                  core |-> NoId, cand |-> NoId, gen |-> generation[m],
                  age |-> "fresh", failure |-> "none", error |-> "none"]]
    /\ call' = [call EXCEPT ![r] = "triggering"]
    /\ sent' = sent \cup {r}
    /\ UNCHANGED <<active, generation, accepted, ledger, taskBound, answer, provider,
                   poll, desk, crashes>>

\* Core AI creates the run.  If the caller still waits it gets the id.
TriggerCreates(r, p) ==
    /\ r \in sent
    /\ provider[p].status = "none"
    /\ sent' = sent \ {r}
    /\ provider' = [provider EXCEPT ![p] = [input |-> r, status |-> "active"]]
    /\ IF call[r] = "triggering"
         THEN /\ call' = [call EXCEPT ![r] = "answered"]
              /\ answer' = [answer EXCEPT ![r] = p]
         ELSE UNCHANGED <<call, answer>>
    /\ UNCHANGED <<tables, poll, desk, crashes>>

\* Core AI answers with the id of a run it already has.
TriggerRepeats(r, p) ==
    /\ RepeatedAnswers
    /\ r \in sent
    /\ call[r] = "triggering"
    /\ provider[p].status # "none"
    /\ sent' = sent \ {r}
    /\ call' = [call EXCEPT ![r] = "answered"]
    /\ answer' = [answer EXCEPT ![r] = p]
    /\ UNCHANGED <<tables, provider, poll, desk, crashes>>

\* A status of _DEFINITE_TRIGGER_REJECTION_STATUSES: no run was created.
TriggerRejected(r) ==
    /\ r \in sent
    /\ call[r] = "triggering"
    /\ sent' = sent \ {r}
    /\ call' = [call EXCEPT ![r] = "rejected"]
    /\ UNCHANGED <<tables, answer, provider, poll, desk, crashes>>

\* Timeout, lost response, 5xx or a response without a valid id: the request
\* may or may not have reached Core AI, and may still reach it later.
TriggerUncertain(r) ==
    /\ call[r] = "triggering"
    /\ call' = [call EXCEPT ![r] = "ambiguous"]
    /\ UNCHANGED <<tables, answer, sent, provider, poll, desk, crashes>>

\* The request, or the response to a caller that no longer waits, is lost.
TriggerLost(r) ==
    /\ r \in sent
    /\ call[r] # "triggering"
    /\ sent' = sent \ {r}
    /\ UNCHANGED <<tables, call, answer, provider, poll, desk, crashes>>

\* Core AI's run ends, or is deleted and answers 404 or 410 from then on.
ProviderEnds(p) ==
    /\ provider[p].status = "active"
    /\ \E s \in {"COMPLETED", "ABORTED"} : provider' = [provider EXCEPT ![p].status = s]
    /\ UNCHANGED <<tables, call, answer, sent, poll, desk, crashes>>

ProviderForgets(p) ==
    /\ provider[p].status \in {"active", "COMPLETED", "ABORTED"}
    /\ provider' = [provider EXCEPT ![p].status = "gone"]
    /\ UNCHANGED <<tables, call, answer, sent, poll, desk, crashes>>

\* A task execution binds the id of its own provider run (task_agent_preparation).
TaskBinds(p) ==
    /\ provider[p].status = "none"
    /\ provider' = [provider EXCEPT ![p] = [input |-> 0, status |-> "active"]]
    /\ taskBound' = taskBound \cup {p}
    /\ UNCHANGED <<active, generation, run, accepted, ledger, call, answer, sent,
                   poll, desk, crashes>>

\* Every update of the answer to a failed trigger is conditional on the row
\* still waiting for it.
AwaitsAnswer(row) == row.status = "running" /\ row.dispatch = "DISPATCHING"

\* Variant: the two state columns are mixed up.
FailedInBoth(row, why) ==
    [row EXCEPT !.status = "failed", !.dispatch = "failed", !.error = why]

Failed(row, why) ==
    [row EXCEPT !.status = "failed", !.dispatch = "FAILED", !.error = why]

RecordRejection(r) ==
    /\ call[r] = "rejected"
    /\ run' = [run EXCEPT ![r] = IF AwaitsAnswer(@) THEN Failed(@, "REJECTED") ELSE @]
    /\ call' = [call EXCEPT ![r] = "ended"]
    /\ UNCHANGED <<active, generation, accepted, ledger, taskBound, answer, sent, provider,
                   poll, desk, crashes>>

RecordUncertainty(r) ==
    /\ call[r] = "ambiguous"
    /\ run' = [run EXCEPT ![r] =
                 IF AwaitsAnswer(@)
                   THEN [@ EXCEPT !.dispatch = "UNKNOWN", !.error = "OUTCOME_UNKNOWN"]
                   ELSE @]
    /\ call' = [call EXCEPT ![r] = "ended"]
    /\ UNCHANGED <<active, generation, accepted, ledger, taskBound, answer, sent, provider,
                   poll, desk, crashes>>

\* Variant: a closed row is bound as well.
UnboundRow(row, p) ==
    row.core = NoId /\ row.cand \in {NoId, p}

\* A late answer may still bind a reservation that recovery marked UNKNOWN,
\* never one that an operator or a rejection has closed.
Bindable(row, p) ==
    /\ row.status = "running"
    /\ row.core = NoId
    /\ row.dispatch \in {"DISPATCHING", "UNKNOWN"}
    /\ row.cand \in {NoId, p}

Bound(row, p) ==
    [row EXCEPT !.core = p, !.cand = p, !.dispatch = "DISPATCHED", !.error = "none"]

Answered(r, p) ==
    IF ~Bindable(run[r], p) THEN run[r]
    ELSE IF ~LifecycleCurrent(r)
      THEN Failed([run[r] EXCEPT !.cand = p], "LIFECYCLE_CHANGED")
    ELSE IF BoundElsewhere(p, r)
      THEN Failed([run[r] EXCEPT !.cand = p], "DUPLICATE_RUN_ID")
    ELSE Bound(run[r], p)

\* The UPDATE that binds fails on a trigger; the query for a duplicate, which
\* reads runs only, has found nothing.
Refused(r, p) ==
    Bindable(run[r], p) /\ LifecycleCurrent(r) /\ ~BoundElsewhere(p, r) /\ HeldByTask(p)

RecordAnswer(r) ==
    /\ call[r] = "answered"
    /\ ~Refused(r, answer[r])
    /\ run' = [run EXCEPT ![r] = Answered(r, answer[r])]
    /\ call' = [call EXCEPT ![r] = "ended"]
    /\ answer' = [answer EXCEPT ![r] = NoId]
    /\ UNCHANGED <<active, generation, accepted, ledger, taskBound, sent, provider,
                   poll, desk, crashes>>

\* The refused transaction is rolled back, which gives the lock away; the call
\* remembers the dispatch state it had read.
AnswerRefused(r) ==
    /\ call[r] = "answered"
    /\ Refused(r, answer[r])
    /\ call' = [call EXCEPT ![r] = IF run[r].dispatch = "UNKNOWN" THEN "refusedUnknown"
                                                               ELSE "refused"]
    /\ UNCHANGED <<tables, answer, sent, provider, poll, desk, crashes>>

\* A second transaction records the duplicate, if the row is as it was read.
RecordRefusal(r) ==
    /\ call[r] \in {"refused", "refusedUnknown"}
    /\ LET seen == IF call[r] = "refused" THEN "DISPATCHING" ELSE "UNKNOWN"
           ok   == Bindable(run[r], answer[r]) /\ run[r].dispatch = seen
       IN run' = [run EXCEPT ![r] =
                    IF ok THEN Failed([@ EXCEPT !.cand = answer[r]], "DUPLICATE_RUN_ID") ELSE @]
    /\ call' = [call EXCEPT ![r] = "ended"]
    /\ answer' = [answer EXCEPT ![r] = NoId]
    /\ UNCHANGED <<active, generation, accepted, ledger, taskBound, sent, provider,
                   poll, desk, crashes>>

-----------------------------------------------------------------------------
(* _recover_stale_run_dispatches: one transaction over the whole table.     *)

Consistent(row) == row.core = NoId \/ row.cand \in {NoId, row.core}

Promotable(r) ==
    /\ run[r].core # NoId
    /\ Consistent(run[r])
    /\ run[r].gen # 0
    /\ LifecycleCurrent(r)

\* Rows are visited in id order, so an earlier row may already have given up
\* its binding when a later row looks for a duplicate.
HeldDuringRecovery(s, r) ==
    IF s < r /\ Running(s) /\ run[s].dispatch = "UNKNOWN" /\ ~Promotable(s)
      THEN NoId ELSE run[s].core

TerminalError(r) ==
    IF run[r].error \in {"DUPLICATE_RUN_ID", "LIFECYCLE_CHANGED"} THEN run[r].error
    ELSE IF ~Consistent(run[r]) \/ run[r].gen = 0 THEN "LEGACY_UNVERIFIABLE"
    ELSE IF ~LifecycleCurrent(r) THEN "LIFECYCLE_CHANGED"
    ELSE IF \E s \in Runs \ {r} : HeldDuringRecovery(s, r) = Evidence(run[r])
      THEN "DUPLICATE_RUN_ID"
    ELSE "none"

\* Variant: terminalizing clears the binding without keeping it as candidate.
EvidenceCleared(r) ==
    IF Promotable(r)
      THEN [run[r] EXCEPT !.cand = run[r].core, !.dispatch = "DISPATCHED",
                          !.failure = "none", !.error = "none"]
    ELSE IF TerminalError(r) # "none"
      THEN [Failed(run[r], TerminalError(r)) EXCEPT !.core = NoId, !.failure = "none"]
    ELSE run[r]

RecoveredEvidence(r) ==
    IF Promotable(r)
      THEN [run[r] EXCEPT !.cand = run[r].core, !.dispatch = "DISPATCHED",
                          !.failure = "none", !.error = "none"]
    ELSE IF TerminalError(r) # "none"
      THEN [Failed(run[r], TerminalError(r)) EXCEPT !.cand = Evidence(run[r]),
                                                     !.core = NoId, !.failure = "none"]
    ELSE run[r]

\* Variant: reservations nobody answered are left alone.
RecoveredIfEvidence(r) ==
    IF Running(r) /\ run[r].dispatch = "UNKNOWN" /\ Evidence(run[r]) # NoId
      THEN RecoveredEvidence(r) ELSE run[r]

Recovered(r) ==
    IF ~Running(r) THEN run[r]
    ELSE IF run[r].dispatch = "UNKNOWN" /\ Evidence(run[r]) # NoId THEN RecoveredEvidence(r)
    ELSE IF run[r].dispatch = "DISPATCHING" /\ run[r].core = NoId /\ run[r].age = "stale"
      THEN [run[r] EXCEPT !.dispatch = "UNKNOWN", !.error = "STALE_UNKNOWN"]
    ELSE run[r]

Recover ==
    /\ run' = [r \in Runs |-> Recovered(r)]
    /\ UNCHANGED <<active, generation, accepted, ledger, taskBound, network,
                   poll, desk, crashes>>

\* Fifteen minutes pass for a reservation, or for a streak of failed polls.
DispatchAges(r) ==
    /\ Running(r) /\ run[r].dispatch = "DISPATCHING" /\ run[r].age = "fresh"
    /\ run' = [run EXCEPT ![r].age = "stale"]
    /\ UNCHANGED <<active, generation, accepted, ledger, taskBound, network,
                   poll, desk, crashes>>

FailureAges(r) ==
    /\ Running(r) /\ run[r].failure = "recent"
    /\ run' = [run EXCEPT ![r].failure = "overdue"]
    /\ UNCHANGED <<active, generation, accepted, ledger, taskBound, network,
                   poll, desk, crashes>>

-----------------------------------------------------------------------------
(* poll_runs_once: read the bound rows, then for each one fence, ask Core   *)
(* AI, and fence again before anything is written.                          *)

\* _terminalize_bound_run: the id moves to the candidate column.
Detached(row, why) ==
    [Failed(row, why) EXCEPT !.cand = IF row.cand # NoId THEN row.cand ELSE row.core,
                             !.core = NoId, !.failure = "none"]

\* Variant: the binding is compared, the status is not.
MatchesBinding(row, c) ==
    row.dispatch = "DISPATCHED" /\ row.core = c.core /\ row.cand = c.cand /\ row.gen = c.gen

\* _run_matches_poll_claim: the row is still the one this pass read.
MatchesClaim(row, c) ==
    /\ row.status = "running"
    /\ row.dispatch = "DISPATCHED"
    /\ row.core = c.core
    /\ row.cand = c.cand
    /\ row.gen = c.gen

Pollable(r) == Running(r) /\ run[r].dispatch = "DISPATCHED" /\ run[r].core # NoId

Pending(q) == {r \in Runs : poll[q].claims[r] # NoClaim}

\* The pass is done with its current row.
NextRow(q) == [pc |-> "batch", claims |-> [poll[q].claims EXCEPT ![poll[q].run] = NoClaim],
               run |-> 0, reply |-> "none"]

PollSelect(q) ==
    /\ poll[q].pc = "idle"
    /\ \E r \in Runs : Pollable(r)
    /\ poll' = [poll EXCEPT ![q].pc = "batch",
                            ![q].claims = [r \in Runs |-> IF Pollable(r) THEN Claim(run[r])
                                                                         ELSE NoClaim]]
    /\ UNCHANGED <<tables, network, desk, crashes>>

PollDone(q) ==
    /\ poll[q].pc = "batch"
    /\ Pending(q) = {}
    /\ poll' = [poll EXCEPT ![q].pc = "idle"]
    /\ UNCHANGED <<tables, network, desk, crashes>>

\* The fence before the provider is asked; a row without a lifecycle claim is
\* detached without asking.
PollFence(q, r) ==
    /\ poll[q].pc = "batch"
    /\ r \in Pending(q)
    /\ LET c    == poll[q].claims[r]
           ours == MatchesClaim(run[r], c)
           ask  == c.gen # 0 /\ ours /\ LifecycleCurrent(r)
       IN /\ poll' = [poll EXCEPT ![q] =
                        IF ask THEN [@ EXCEPT !.pc = "asking", !.run = r]
                               ELSE [@ EXCEPT !.claims[r] = NoClaim]]
          /\ run' = [run EXCEPT ![r] =
                       IF ask \/ ~(ours \/ (c.gen = 0 /\ Pollable(r)))
                         THEN @ ELSE Detached(@, "LIFECYCLE_CHANGED")]
    /\ UNCHANGED <<active, generation, accepted, ledger, taskBound, network, desk, crashes>>

\* GET /api/runs/{id}, outside any transaction.
PollAsks(q) ==
    /\ poll[q].pc = "asking"
    /\ \E reply \in {"unreachable", provider[poll[q].claims[poll[q].run].core].status} :
         poll' = [poll EXCEPT ![q].pc = "replied",
                              ![q].reply = IF reply \in {"none", "gone"} THEN "missing"
                                                                         ELSE reply]
    /\ UNCHANGED <<tables, network, desk, crashes>>

\* Variant: an overdue streak starts over.
StreakRestarted(row, missing) ==
    IF missing THEN Detached(row, "NO_LONGER_AVAILABLE")
    ELSE [row EXCEPT !.failure = "recent"]

\* The first failure starts a streak; a streak of fifteen minutes, or a run
\* Core AI no longer has, ends the row.
Unanswered(row, missing) ==
    IF missing THEN Detached(row, "NO_LONGER_AVAILABLE")
    ELSE IF row.failure = "none" THEN [row EXCEPT !.failure = "recent"]
    ELSE IF row.failure = "overdue" THEN Detached(row, "POLL_STALE")
    ELSE row

\* _handle_run_poll_error.  Equality of the two timestamps is abstracted to
\* both being NULL or neither.
PollError(q) ==
    /\ poll[q].pc = "replied"
    /\ poll[q].reply \in {"unreachable", "missing"}
    /\ LET r       == poll[q].run
           c       == poll[q].claims[r]
           missing == poll[q].reply = "missing"
           ours    == MatchesClaim(run[r], c) /\ ((run[r].failure # "none") = c.failing)
       IN run' = [run EXCEPT ![r] =
                    IF ~ours THEN @
                    ELSE IF ~LifecycleCurrent(r) THEN Detached(@, "LIFECYCLE_CHANGED")
                    ELSE Unanswered(@, missing)]
    /\ poll' = [poll EXCEPT ![q] = NextRow(q)]
    /\ UNCHANGED <<active, generation, accepted, ledger, taskBound, network, desk, crashes>>

\* The second fence ends the streak of failures; an unfinished provider run
\* is left for the next pass.
PollReported(q) ==
    /\ poll[q].pc = "replied"
    /\ poll[q].reply \notin {"unreachable", "missing"}
    /\ LET r     == poll[q].run
           c     == poll[q].claims[r]
           ours  == MatchesClaim(run[r], c)
           clear == ours /\ LifecycleCurrent(r) /\ ((run[r].failure # "none") = c.failing)
       IN /\ run' = [run EXCEPT ![r] =
                       IF clear THEN [@ EXCEPT !.failure = "none"]
                       ELSE IF ours /\ ~LifecycleCurrent(r) THEN Detached(@, "LIFECYCLE_CHANGED")
                       ELSE @]
          /\ poll' = [poll EXCEPT ![q] =
                        IF clear /\ poll[q].reply # "active"
                          THEN [@ EXCEPT !.pc = "accepting"] ELSE NextRow(q)]
    /\ UNCHANGED <<active, generation, accepted, ledger, taskBound, network, desk, crashes>>

\* The last transaction writes the outcome, and with a completed report the
\* audit snapshot and the plan that the report turns out to hold.
PollAccept(q) ==
    /\ poll[q].pc = "accepting"
    /\ LET r    == poll[q].run
           ours == MatchesClaim(run[r], poll[q].claims[r])
           done == poll[q].reply = "COMPLETED"
       IN \/ /\ ours /\ LifecycleCurrent(r) /\ done
             /\ run' = [run EXCEPT ![r].status = "succeeded"]
             /\ \E found \in SUBSET {"audit", "plan"} :
                  accepted' = [accepted EXCEPT ![r] = @ \cup found]
          \/ /\ ours /\ LifecycleCurrent(r) /\ ~done
             /\ run' = [run EXCEPT ![r].status = "failed", ![r].error = "PROVIDER_FAILED"]
             /\ UNCHANGED accepted
          \/ /\ ~(ours /\ LifecycleCurrent(r))
             /\ run' = [run EXCEPT ![r] = IF ours THEN Detached(@, "LIFECYCLE_CHANGED") ELSE @]
             /\ UNCHANGED accepted
    /\ poll' = [poll EXCEPT ![q] = NextRow(q)]
    /\ UNCHANGED <<active, generation, ledger, taskBound, network, desk, crashes>>

-----------------------------------------------------------------------------
(* reconcile_run_dispatch: what an operator decides about an UNKNOWN row.   *)

Reconcilable(row) == row.status = "running" /\ row.dispatch = "UNKNOWN"

Seen(kind, r, p) ==
    [kind |-> kind, run |-> r, id |-> p, cand |-> run[r].cand, gen |-> run[r].gen]

\* _same_dispatch_identity, for a row that was unbound when it was read.
SameIdentity(row, d) == row.core = NoId /\ row.cand = d.cand /\ row.gen = d.gen

Recorded(action, p, outcome) == [action |-> action, id |-> p, result |-> outcome]
NotReconciled == Recorded("none", NoId, "none")

NotCreatedRequest(o, r) ==
    /\ desk[o] = Idle
    /\ Reconcilable(run[r])
    /\ Evidence(run[r]) = NoId
    /\ desk' = [desk EXCEPT ![o] = Seen("not_created", r, NoId)]
    /\ UNCHANGED <<tables, network, poll, crashes>>

NotCreatedCommit(o) ==
    /\ desk[o].kind = "not_created"
    /\ LET r  == desk[o].run
           ok == Reconcilable(run[r]) /\ SameIdentity(run[r], desk[o]) /\ ledger[r] = NotReconciled
       IN /\ run' = [run EXCEPT ![r] = IF ok THEN Failed(@, "NOT_CREATED") ELSE @]
          /\ ledger' = [ledger EXCEPT ![r] =
                          IF ok THEN Recorded("NOT_CREATED", NoId, "FAILED") ELSE @]
    /\ desk' = [desk EXCEPT ![o] = Idle]
    /\ UNCHANGED <<active, generation, accepted, taskBound, network, poll, crashes>>

\* BIND_EXISTING names a provider run; the row must carry the identity to
\* compare it with.
BindRequest(o, r, p) ==
    /\ desk[o] = Idle
    /\ Reconcilable(run[r])
    /\ run[r].core = NoId
    /\ run[r].gen # 0
    /\ run[r].cand \in {NoId, p}
    /\ desk' = [desk EXCEPT ![o] = Seen("readback", r, p)]
    /\ UNCHANGED <<tables, network, poll, crashes>>

\* Variant: any run Core AI created from here will do.
InputKnown(p, r) == provider[p].input # 0

\* The Agent and the exact input, which holds the token of the reservation,
\* are those of the row.
InputMatches(p, r) == provider[p].input = r

\* GET /api/runs/{id}.
BindReadback(o) ==
    /\ desk[o].kind = "readback"
    /\ LET d     == desk[o]
           known == provider[d.id].status \notin {"none", "gone"}
           next  == IF ~known THEN "missing"
                    ELSE IF InputMatches(d.id, d.run) THEN "verified" ELSE "mismatch"
       IN \E outcome \in {next, "unverifiable"} :
            desk' = [desk EXCEPT ![o] =
                       IF outcome = "verified" \/ (outcome # "unverifiable" /\ d.cand = d.id)
                         THEN [@ EXCEPT !.kind = outcome] ELSE Idle]
    /\ UNCHANGED <<tables, network, poll, crashes>>

\* The row is bound only if nothing it was verified against has changed, its
\* merchant's lifecycle included.
BindCommit(o) ==
    /\ desk[o].kind = "verified"
    /\ LET r  == desk[o].run
           p  == desk[o].id
           ok == /\ Reconcilable(run[r])
                 /\ SameIdentity(run[r], desk[o])
                 /\ LifecycleCurrent(r)
                 /\ ~BoundElsewhere(p, r) /\ ~HeldByTask(p)
                 /\ ledger[r] = NotReconciled
       IN /\ run' = [run EXCEPT ![r] =
                       IF ok THEN [Bound(@, p) EXCEPT !.age = "fresh", !.failure = "none"] ELSE @]
          /\ ledger' = [ledger EXCEPT ![r] =
                          IF ok THEN Recorded("BIND_EXISTING", p, "DISPATCHED") ELSE @]
    /\ desk' = [desk EXCEPT ![o] = Idle]
    /\ UNCHANGED <<active, generation, accepted, taskBound, network, poll, crashes>>

\* _terminalize_persisted_candidate: the recorded candidate is gone, or is the
\* run of another input.
CandidateRejected(o) ==
    /\ desk[o].kind \in {"missing", "mismatch"}
    /\ LET r   == desk[o].run
           ok  == Reconcilable(run[r]) /\ SameIdentity(run[r], desk[o]) /\ ledger[r] = NotReconciled
           why == IF desk[o].kind = "missing" THEN "NO_LONGER_AVAILABLE" ELSE "IDENTITY_MISMATCH"
       IN /\ run' = [run EXCEPT ![r] = IF ok THEN [Failed(@, why) EXCEPT !.failure = "none"] ELSE @]
          /\ ledger' = [ledger EXCEPT ![r] =
                          IF ok THEN Recorded("BIND_EXISTING", desk[o].id, "FAILED") ELSE @]
    /\ desk' = [desk EXCEPT ![o] = Idle]
    /\ UNCHANGED <<active, generation, accepted, taskBound, network, poll, crashes>>

-----------------------------------------------------------------------------
\* The process dies: requests and scheduler passes are gone, the tables and
\* what is on its way to Core AI stay.
Crash ==
    /\ crashes < MaxCrashes
    /\ crashes' = crashes + 1
    /\ call' = [r \in Runs |-> IF call[r] = "none" THEN "none" ELSE "ended"]
    /\ answer' = [r \in Runs |-> NoId]
    /\ poll' = [q \in Pollers |-> [pc |-> "idle", claims |-> [r \in Runs |-> NoClaim],
                                   run |-> 0, reply |-> "none"]]
    /\ desk' = [o \in Operators |-> Idle]
    /\ UNCHANGED <<tables, sent, provider>>

-----------------------------------------------------------------------------
(* Rows a migration or an earlier release leaves behind: migration 0004     *)
(* marks a running row UNKNOWN and gives it no identity; earlier releases    *)
(* kept UNKNOWN rows with a binding or a candidate.                         *)

AbsentRow == [status |-> "absent", merchant |-> CHOOSE m \in Merchants : TRUE,
              dispatch |-> "UNKNOWN", core |-> NoId, cand |-> NoId, gen |-> 0,
              age |-> "fresh", failure |-> "none", error |-> "none"]

LegacyRow(m, core, cand, gen, why) ==
    [status |-> "running", merchant |-> m, dispatch |-> "UNKNOWN", core |-> core, cand |-> cand,
     gen |-> gen, age |-> "stale", failure |-> "none", error |-> why]

LegacyRows(m) ==
    IF ~Legacy THEN {} ELSE
    {LegacyRow(m, NoId, NoId, 0, "none")}
      \cup {LegacyRow(m, p, NoId, 0, "none") : p \in ProviderIds}
      \cup {LegacyRow(m, NoId, p, 0, why) : p \in ProviderIds,
                                            why \in {"DUPLICATE_RUN_ID", "LIFECYCLE_CHANGED"}}
      \cup {LegacyRow(m, p, NoId, 1, "OUTCOME_UNKNOWN") : p \in ProviderIds}
      \cup {LegacyRow(m, NoId, p, 1, "STALE_UNKNOWN") : p \in ProviderIds}

\* Core AI still knows the run of an old binding; an old candidate it may know
\* under another input, or have deleted.
LegacyProvider(p) ==
    {[input |-> r, status |-> "active"] : r \in {s \in Runs : Evidence(run[s]) = p}}
      \cup (IF \E r \in Runs : run[r].cand = p
              THEN {[input |-> 0, status |-> "active"], [input |-> 0, status |-> "gone"]}
            ELSE IF BoundElsewhere(p, 0) THEN {}
            ELSE {[input |-> 0, status |-> "none"]})

\* However requests, the automatic scan, late answers and recovery interleave,
\* a merchant never has two diagnosis runs in progress.  No index enforces it.
OneRunningRunPerMerchant ==
    \A r, s \in Runs :
        Running(r) /\ Running(s) /\ run[r].merchant = run[s].merchant => r = s

\* A Core AI run id is held by at most one run or task execution.
BindingsUnique ==
    \A r \in Runs : run[r].core # NoId =>
        /\ run[r].core \notin taskBound
        /\ \A s \in Runs \ {r} : run[s].core # run[r].core

Init ==
    /\ active = [m \in Merchants |-> TRUE]
    /\ generation \in [Merchants -> IF Legacy THEN {1, 3} ELSE {1}]
    /\ run \in [Runs -> {AbsentRow} \cup UNION {LegacyRows(m) : m \in Merchants}]
    /\ \A r, s \in Runs : s < r /\ run[s].status = "absent" => run[r].status = "absent"
    /\ OneRunningRunPerMerchant
    /\ accepted = [r \in Runs |-> {}]
    /\ ledger = [r \in Runs |-> NotReconciled]
    /\ taskBound = {}
    /\ BindingsUnique
    /\ call = [r \in Runs |-> "none"]
    /\ answer = [r \in Runs |-> NoId]
    /\ sent = {}
    /\ provider \in [ProviderIds -> [input : 0..MaxRuns, status : {"none", "active", "gone"}]]
    /\ \A p \in ProviderIds : provider[p] \in LegacyProvider(p)
    /\ poll = [q \in Pollers |-> [pc |-> "idle", claims |-> [r \in Runs |-> NoClaim],
                                  run |-> 0, reply |-> "none"]]
    /\ desk = [o \in Operators |-> Idle]
    /\ crashes = 0

Next ==
    \/ \E m \in Merchants : Archive(m) \/ Restore(m)
    \/ \E r \in Runs, m \in Merchants : Reserve(r, m)
    \/ \E r \in Runs, p \in ProviderIds : TriggerCreates(r, p) \/ TriggerRepeats(r, p)
    \/ \E r \in Runs : \/ TriggerRejected(r)
                       \/ TriggerUncertain(r)
                       \/ TriggerLost(r)
                       \/ RecordRejection(r)
                       \/ RecordUncertainty(r)
                       \/ RecordAnswer(r)
                       \/ AnswerRefused(r)
                       \/ RecordRefusal(r)
                       \/ DispatchAges(r)
                       \/ FailureAges(r)
    \/ \E p \in ProviderIds : ProviderEnds(p) \/ ProviderForgets(p) \/ TaskBinds(p)
    \/ Recover
    \/ \E q \in Pollers : \/ PollSelect(q)
                          \/ PollDone(q)
                          \/ \E r \in Runs : PollFence(q, r)
                          \/ PollAsks(q)
                          \/ PollError(q)
                          \/ PollReported(q)
                          \/ PollAccept(q)
    \/ \E o \in Operators : \/ \E r \in Runs : NotCreatedRequest(o, r)
                            \/ NotCreatedCommit(o)
                            \/ \E r \in Runs, p \in ProviderIds : BindRequest(o, r, p)
                            \/ BindReadback(o)
                            \/ BindCommit(o)
                            \/ CandidateRejected(o)
    \/ Crash

Spec == Init /\ [][Next]_vars

\* The scheduler repeats its tick for ever and time passes; that Core AI ends
\* the runs it started is an assumption on Core AI.  No operator, no caller and
\* no answer to a trigger is relied on.
PollStep(q) ==
    \/ PollSelect(q) \/ PollDone(q) \/ PollAsks(q)
    \/ PollError(q) \/ PollReported(q) \/ PollAccept(q)
    \/ \E r \in Runs : PollFence(q, r)

Fairness ==
    /\ WF_vars(Recover)
    /\ \A r \in Runs : WF_vars(DispatchAges(r)) /\ WF_vars(FailureAges(r))
    /\ \A q \in Pollers : WF_vars(PollStep(q))
    /\ \A p \in ProviderIds : WF_vars(ProviderEnds(p))

FairSpec == Spec /\ Fairness

-----------------------------------------------------------------------------
(* Safety.                                                                  *)

\* A reservation of this release keeps its merchant in the lifecycle generation
\* it was made under for as long as it runs: archiving must wait for it, also
\* while its outcome is UNKNOWN.
ReservationHoldsLifecycle ==
    \A r \in Runs : Running(r) /\ call[r] # "none" =>
        active[run[r].merchant] /\ generation[run[r].merchant] = run[r].gen

\* Every row in progress has someone who will look at it: recovery for a
\* reservation, the poller for a binding with a lifecycle claim, recovery or an
\* operator for an unknown outcome.
EveryRunningRowHasAnOwner ==
    \A r \in Runs : Running(r) =>
        \/ run[r].dispatch = "DISPATCHING" /\ Evidence(run[r]) = NoId
        \/ run[r].dispatch = "DISPATCHED" /\ run[r].core # NoId /\ run[r].gen # 0
        \/ run[r].dispatch = "UNKNOWN" /\ \/ Evidence(run[r]) = NoId
                                          \/ run[r].gen # 0
                                          \/ TerminalError(r) # "none"

\* A run that succeeded did so with the provider run that was triggered with
\* its own input, whoever bound it: the caller, recovery or an operator.  Asked
\* of a Core AI that never repeats a run id.
ResultBelongsToReservation ==
    \A r \in Runs : run[r].status = "succeeded" => provider[run[r].core].input = r

\* What an operator's decision said of the run stays true of it: a run declared
\* never created has no provider run on record, a binding names the provider
\* run the row still shows.
LedgerMatchesRun ==
    \A r \in Runs :
        LET entry == ledger[r] IN
        /\ entry.action = "NOT_CREATED" => /\ run[r].status = "failed"
                                           /\ Evidence(run[r]) = NoId
        /\ entry.action = "BIND_EXISTING" => /\ Evidence(run[r]) = entry.id
                                             /\ run[r].dispatch # "UNKNOWN"

-----------------------------------------------------------------------------
(* What a step may never do.                                                *)

\* A run ends once.  A late answer to its trigger, a second poller, recovery or
\* an operator leaves a finished row and what it produced untouched.
FinishedIsFinal ==
    [][\A r \in Runs : run[r].status \in {"succeeded", "failed"} =>
          run'[r] = run[r] /\ accepted'[r] = accepted[r]]_vars

\* Evidence of a provider run, once on record, is never lost or replaced; it
\* only moves between the two columns.
EvidenceKept ==
    [][\A r \in Runs : Evidence(run[r]) # NoId => Evidence(run'[r]) = Evidence(run[r])]_vars

\* A result enters the tables only while the merchant is active in the very
\* lifecycle the run was reserved under, and only with the run's success.
AcceptedUnderReservedLifecycle ==
    [][\A r \in Runs : (run'[r].status = "succeeded") /= (run[r].status = "succeeded")
                         \/ accepted'[r] # accepted[r] =>
          /\ Running(r) /\ run'[r].status = "succeeded"
          /\ active[run[r].merchant] /\ generation[run[r].merchant] = run[r].gen]_vars

\* The docstring of _handle_run_poll_error: a failure streak that lasted too
\* long makes the run enter operator reconciliation.
StalePollEntersReconciliation ==
    [][\A q \in Pollers, r \in Runs :
          PollError(q) /\ poll[q].run = r /\ poll[q].reply = "unreachable"
            /\ Running(r) /\ run[r].failure = "overdue" =>
          run'[r].failure = "overdue" \/ Reconcilable(run'[r])]_vars

-----------------------------------------------------------------------------
(* The abstract specification: a row in progress occupies the lane, and the *)
(* rest of the row, the network, the poller and the desk are hidden.        *)

Lane == INSTANCE DiagnosisLane WITH
            phase <- [r \in Runs |-> IF Running(r) THEN "open" ELSE run[r].status],
            owner <- [r \in Runs |-> run[r].merchant],
            under <- [r \in Runs |-> run[r].gen]

\* Every behaviour of reservation, answer, poll, recovery, reconciliation and
\* crash is one of a single lane per merchant that ends each run once.
LaneSpec == Lane!Spec

-----------------------------------------------------------------------------
(* What must eventually happen.                                             *)

\* No reservation waits for its answer for ever, whatever became of the caller.
ReservationsResolve ==
    \A r \in Runs : (Running(r) /\ run[r].dispatch = "DISPATCHING")
                      ~> ~(Running(r) /\ run[r].dispatch = "DISPATCHING")

\* A bound run ends, even if Core AI stops answering or forgets the run, so it
\* cannot block its merchant's next diagnosis for ever.
BoundRunsEnd ==
    \A r \in Runs : (Running(r) /\ run[r].core # NoId) ~> ~Running(r)
=============================================================================
