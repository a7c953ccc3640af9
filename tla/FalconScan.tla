----------------------------- MODULE FalconScan -----------------------------
(***************************************************************************)
(* Paid Local Falcon scans of the active keyword version: the second half   *)
(* of api/app/seo_targets.py, composed with KeywordCycle.                   *)
(*                                                                         *)
(* An operator approves the cohort of the active version and confirms the   *)
(* spending; the confirmation becomes a durable batch of one item per       *)
(* keyword.  The scheduler leases the batch to a worker, which asks Local   *)
(* Falcon for one keyword at a time, a transaction before and a transaction *)
(* after each request.  A lease that is not renewed for ten minutes is      *)
(* given up and never taken again; an operator settles what is then in      *)
(* doubt.  Acknowledged scans are read back by the scheduler and by the     *)
(* sync endpoint, while the worker may still be submitting.                 *)
(***************************************************************************)
EXTENDS KeywordCycle

CONSTANTS
    Requests,      \* confirmation request ids
    NoRequestId,   \* no confirmation
    MaxBatches,    \* bound: rows of merchant_local_falcon_scan_batches
    Workers,       \* processes that submit; an old one may outlive a deployment
    NoWorker,      \* dispatch_token IS NULL
    MaxPaid        \* bound: requests for one item that are counted

Batches == 1..MaxBatches

ASSUME ScanAssumption ==
    /\ Requests # {} /\ NoRequestId \notin Requests
    /\ NoWorker \notin Workers
    /\ MaxBatches \in Nat \ {0} /\ MaxPaid \in Nat /\ MaxPaid >= 2

VARIABLES
    approved,      \* merchant_local_falcon_approvals, by keyword artifact
    measured,      \* places with a row in merchant_local_falcon_reports
    batch,         \* merchant_local_falcon_scan_batches
    item,          \* merchant_local_falcon_scan_items
    paid,          \* how often Local Falcon took a request for an item
    worker,        \* _submit_claimed_local_falcon_batch of each process
    sync,          \* sync_local_falcon_reports in progress: its lifecycle fence
    synced         \* status of the row of merchant_local_falcon_syncs

scanVars == <<approved, measured, batch, item, paid, worker, sync, synced>>
vars == <<active, generation, place, moves, artifact, head, request, run, poll, crashes,
          approved, measured, batch, item, paid, worker, sync, synced>>

-----------------------------------------------------------------------------
(* Rows.                                                                    *)

\* age abstracts dispatch_started_at, compared with ten minutes while submitting.
BatchRow == [status : {"absent", "submitting", "submitted", "partial", "unknown",
                       "completed", "failed"},
             art : 0..MaxArtifacts, id : Requests \cup {NoRequestId},
             token : Workers \cup {NoWorker}, age : {"fresh", "stale"}]
NoBatch == [status |-> "absent", art |-> 0, id |-> NoRequestId, token |-> NoWorker, age |-> "fresh"]

\* An item has a report key exactly when it is submitted or completed.
ItemStates == {"absent", "pending", "submitting", "submitted", "completed", "unknown", "failed"}
Acked == {"submitted", "completed"}

\* k is the item in hand; accepted whether submitted_count is positive.
WorkerState == [b : 0..MaxBatches,
                at : {"idle", "claimed", "next", "alive", "asking", "acknowledged", "error"},
                todo : SUBSET Positions, k : Positions, accepted : BOOLEAN]
Idle == [b |-> 0, at |-> "idle", todo |-> {}, k |-> 1, accepted |-> FALSE]

\* gen 0 when no sync is in progress.
SyncState == [gen : 0..MaxGeneration, place : Places \cup {NoPlace}]
NoSync == [gen |-> 0, place |-> NoPlace]

ScanTypeOK ==
    /\ approved \subseteq Artifacts
    /\ measured \subseteq Places
    /\ batch \in [Batches -> BatchRow]
    /\ item \in [Batches -> [Positions -> ItemStates]]
    /\ paid \in [Batches -> [Positions -> 0..MaxPaid]]
    /\ worker \in [Workers -> WorkerState]
    /\ sync \in SyncState
    /\ synced \in {"absent", "synced", "failed"}

\* The types of the tables, the requests and the processes of both halves.
TypeOK == CycleTypeOK /\ ScanTypeOK

-----------------------------------------------------------------------------
(* Reading the tables.                                                      *)

UnresolvedStates == {"submitting", "submitted", "partial", "unknown"}
Unresolved == {b \in Batches : batch[b].status \in UnresolvedStates}

Items(b, S) == {k \in Positions : item[b][k] \in S}
Real(b)     == Items(b, ItemStates \ {"absent"})

PaidEligible(p) ==
    /\ head[p].active # 0 /\ HeadValid(p)
    /\ Eligible(artifact[head[p].active])
    /\ Cohort(artifact[head[p].active].payload) # {}

-----------------------------------------------------------------------------
(* Approval and confirmation.                                               *)

\* The checks that _approve_local_falcon_cohort_locked makes once the head exists.
Approvable(a) ==
    /\ active /\ place # NoPlace
    /\ RunningKeywords = {}
    /\ PaidEligible(place) /\ head[place].active = a

\* The head exists: reading the page the operator approves from made it.
Approve(a) ==
    /\ Approvable(a)
    /\ approved' = approved \cup {a}
    /\ UNCHANGED <<cycleVars, measured, batch, item, paid, worker, sync, synced>>

FreeBatches == {b \in Batches : batch[b].status = "absent"}
Known(q) == \E b \in Batches : batch[b].id = q

\* Variant: what was approved once may be paid for, whatever is active now.
ConfirmableOnceApproved(a) ==
    /\ active /\ a \in approved
    /\ RunningKeywords = {} /\ Unresolved = {}
    /\ place = artifact[a].place /\ PaidEligible(place)
    /\ place \in measured

\* The checks of _create_local_falcon_scan_batch_locked.
Confirmable(a) ==
    /\ active /\ a \in approved
    /\ RunningKeywords = {} /\ Unresolved = {}
    /\ place = artifact[a].place /\ head[place].active = a /\ PaidEligible(place)
    /\ place \in measured

\* A request id that is known answers with its batch, or with 409, and writes nothing.
CreateBatch(q, a) ==
    /\ ~Known(q) /\ Confirmable(a) /\ FreeBatches # {}
    /\ LET b == First(FreeBatches) IN
        /\ batch' = [batch EXCEPT ![b] = [NoBatch EXCEPT !.status = "submitting", !.art = a, !.id = q]]
        /\ item' = [item EXCEPT ![b] = [k \in Positions |->
                      IF k \in Cohort(artifact[a].payload) THEN "pending" ELSE "absent"]]
    /\ UNCHANGED <<cycleVars, approved, measured, paid, worker, sync, synced>>

-----------------------------------------------------------------------------
(* submit_local_falcon_batches_once.                                        *)

Leased(w) ==
    LET b == worker[w].b IN batch[b].status = "submitting" /\ batch[b].token = w

Waiting == {b \in Batches : batch[b].status = "submitting" /\ batch[b].token = NoWorker}

\* _claim_local_falcon_scan_batch; the token is new for each claim, and no batch is
\* claimed twice, so the worker's name stands for it.
ClaimBatch(w) ==
    /\ worker[w].at = "idle" /\ Waiting # {} /\ active
    /\ batch' = [batch EXCEPT ![First(Waiting)].token = w, ![First(Waiting)].age = "fresh"]
    /\ worker' = [worker EXCEPT ![w] = [Idle EXCEPT !.b = First(Waiting), !.at = "claimed"]]
    /\ UNCHANGED <<cycleVars, approved, measured, item, paid, sync, synced>>

Stop(w) == worker' = [worker EXCEPT ![w] = Idle]

\* The batch and its pending items are read once.
LoadItems(w) ==
    /\ worker[w].at = "claimed"
    /\ IF Leased(w)
         THEN worker' = [worker EXCEPT ![w].at = "next",
                                       ![w].todo = Items(worker[w].b, {"pending"}),
                                       ![w].accepted = Items(worker[w].b, Acked) # {}]
         ELSE Stop(w)
    /\ UNCHANGED <<cycleVars, approved, measured, batch, item, paid, sync, synced>>

\* _heartbeat_local_falcon_dispatch, before each item.
Heartbeat(w) ==
    /\ worker[w].at = "next" /\ worker[w].todo # {}
    /\ IF Leased(w)
         THEN /\ batch' = [batch EXCEPT ![worker[w].b].age = "fresh"]
              /\ worker' = [worker EXCEPT ![w].at = "alive", ![w].k = First(worker[w].todo)]
         ELSE Stop(w) /\ UNCHANGED batch
    /\ UNCHANGED <<cycleVars, approved, measured, item, paid, sync, synced>>

MarkItem(w) ==
    LET b == worker[w].b
        k == worker[w].k IN
    /\ worker[w].at = "alive"
    /\ IF Leased(w) /\ item[b][k] = "pending"
         THEN /\ item' = [item EXCEPT ![b][k] = "submitting"]
              /\ worker' = [worker EXCEPT ![w].at = "asking", ![w].todo = @ \ {k}]
         ELSE Stop(w) /\ UNCHANGED item
    /\ UNCHANGED <<cycleVars, approved, measured, batch, paid, sync, synced>>

\* run_scan: Local Falcon takes the request, or not; the worker gets a valid
\* report key only if it did, and an error in every other case.
AskLocalFalcon(w, taken, answer) ==
    LET b == worker[w].b
        k == worker[w].k IN
    /\ worker[w].at = "asking"
    /\ answer = "acknowledged" => taken
    /\ IF taken THEN paid[b][k] < MaxPaid /\ paid' = [paid EXCEPT ![b][k] = @ + 1]
                ELSE UNCHANGED paid
    /\ worker' = [worker EXCEPT ![w].at = answer]
    /\ UNCHANGED <<cycleVars, approved, measured, batch, item, sync, synced>>

AfterError(accepted) == IF accepted THEN "partial" ELSE "unknown"

\* An error: item and batch in one transaction, both under the lease, which is kept.
RecordError(w) ==
    LET b == worker[w].b
        k == worker[w].k IN
    /\ worker[w].at = "error"
    /\ IF Leased(w) /\ item[b][k] = "submitting"
         THEN /\ item' = [item EXCEPT ![b][k] = "unknown"]
              /\ batch' = [batch EXCEPT ![b].status = AfterError(worker[w].accepted), ![b].age = "fresh"]
         ELSE UNCHANGED <<item, batch>>
    /\ Stop(w)
    /\ UNCHANGED <<cycleVars, approved, measured, paid, sync, synced>>

\* A report key that comes after the lease was given up is dropped: the item is
\* unknown by then.
RecordKey(w) ==
    LET b == worker[w].b
        k == worker[w].k IN
    /\ worker[w].at = "acknowledged"
    /\ IF Leased(w) /\ item[b][k] = "submitting"
         THEN /\ item' = [item EXCEPT ![b][k] = "submitted"]
              /\ worker' = [worker EXCEPT ![w].at = "next", ![w].accepted = TRUE]
         ELSE Stop(w) /\ UNCHANGED item
    /\ UNCHANGED <<cycleVars, approved, measured, batch, paid, sync, synced>>

FinishBatch(w) ==
    /\ worker[w].at = "next" /\ worker[w].todo = {}
    /\ batch' = IF Leased(w) THEN [batch EXCEPT ![worker[w].b].status = "submitted", ![worker[w].b].age = "fresh"]
                            ELSE batch
    /\ Stop(w)
    /\ UNCHANGED <<cycleVars, approved, measured, item, paid, sync, synced>>

-----------------------------------------------------------------------------
(* _mark_stale_local_falcon_dispatches_unknown, of every pass.              *)

BatchAges(b) ==
    /\ batch[b].status = "submitting" /\ batch[b].token # NoWorker /\ batch[b].age = "fresh"
    /\ batch' = [batch EXCEPT ![b].age = "stale"]
    /\ UNCHANGED <<cycleVars, approved, measured, item, paid, worker, sync, synced>>

Stale(b) == batch[b].status = "submitting" /\ batch[b].token # NoWorker /\ batch[b].age = "stale"

\* Whether Local Falcon took the request of an item in hand cannot be known.
InDoubt(b) == [k \in Positions |-> IF item[b][k] = "submitting" THEN "unknown" ELSE item[b][k]]

\* Variant: what was interrupted is queued again.
Requeue(b) ==
    /\ Stale(b)
    /\ item' = [item EXCEPT ![b] =
                  [k \in Positions |-> IF item[b][k] = "submitting" THEN "pending" ELSE item[b][k]]]
    /\ batch' = [batch EXCEPT ![b].token = NoWorker, ![b].age = "fresh"]
    /\ UNCHANGED <<cycleVars, approved, measured, paid, worker, sync, synced>>

\* The lease is checked again in the transaction, so a heartbeat after the
\* candidates were read keeps it.
GiveUpBatch(b) ==
    /\ Stale(b)
    /\ item' = [item EXCEPT ![b] = InDoubt(b)]
    /\ batch' = [batch EXCEPT ![b].status = AfterError(Items(b, Acked) # {}), ![b].token = NoWorker,
                               ![b].age = "fresh"]
    /\ UNCHANGED <<cycleVars, approved, measured, paid, worker, sync, synced>>

-----------------------------------------------------------------------------
(* Readback.                                                                *)

\* Variant: the batch is complete once nothing of it is waiting for a report.
NothingAwaited(items) == {k \in Positions : items[k] = "submitted"} = {}

AllCompleted(items) == {k \in Positions : items[k] \notin {"absent", "completed"}} = {}

\* _read_acknowledged_local_falcon_snapshots, of the scheduler and of a sync: an item
\* that is submitted is only ever changed here, where the update names its status
\* and key again, so the report's read and the update are one step.  A report that
\* is not ready or not the right one changes no status.
Readback(b, k) ==
    /\ item[b][k] = "submitted"
    /\ item' = [item EXCEPT ![b][k] = "completed"]
    /\ batch' = IF AllCompleted(item'[b]) THEN [batch EXCEPT ![b].status = "completed", ![b].age = "fresh"] ELSE batch
    /\ measured' = measured \cup {artifact[batch[b].art].place}
    /\ UNCHANGED <<cycleVars, approved, paid, worker, sync, synced>>

\* sync_local_falcon_reports begins, for a version that may be paid for.
SyncStart ==
    /\ sync = NoSync /\ active /\ place # NoPlace /\ PaidEligible(place)
    /\ sync' = [gen |-> generation, place |-> place]
    /\ UNCHANGED <<cycleVars, approved, measured, batch, item, paid, worker, synced>>

Awaited == {x \in Batches \X Positions : item[x[1]][x[2]] = "submitted"}

SameLifecycle == active /\ generation = sync.gen

\* One transaction: the reports found, among them those of items acknowledged
\* since the sync began; the batches all of whose items are then completed; and the
\* outcome.  Or nothing, when the lifecycle moved on.
SyncFinish(found, done) ==
    /\ sync # NoSync
    /\ sync' = NoSync
    /\ IF SameLifecycle
         THEN /\ measured' = IF found THEN measured \cup {sync.place} ELSE measured
              /\ item' = [b \in Batches |-> [k \in Positions |->
                    IF <<b, k>> \in done THEN "completed" ELSE item[b][k]]]
              /\ batch' = [b \in Batches |->
                    IF batch[b].status \in UnresolvedStates \ {"unknown"} /\ AllCompleted(item'[b])
                      THEN [batch[b] EXCEPT !.status = "completed", !.age = "fresh"] ELSE batch[b]]
              /\ synced' = "synced"
         ELSE UNCHANGED <<measured, item, batch, synced>>
    /\ UNCHANGED <<cycleVars, approved, paid, worker>>

\* _record_local_falcon_failure, under the same fence.
SyncFails ==
    /\ sync # NoSync
    /\ sync' = NoSync
    /\ synced' = IF SameLifecycle THEN "failed" ELSE synced
    /\ UNCHANGED <<cycleVars, approved, measured, batch, item, paid, worker>>

-----------------------------------------------------------------------------
(* reconcile_local_falcon_scan_batch.  Binding a report by hand is disabled *)
(* (LOCAL_FALCON_MANUAL_REPORT_BINDING_ENABLED), so two actions remain.     *)

Closed(b, states) ==
    /\ item' = [item EXCEPT ![b] =
                  [k \in Positions |-> IF item[b][k] \in states THEN "failed" ELSE item[b][k]]]
    /\ batch' = [batch EXCEPT ![b].status = "failed", ![b].token = NoWorker]
    /\ UNCHANGED <<cycleVars, approved, measured, paid, worker, sync, synced>>

InDoubtOrPart(b) == batch[b].status \in {"unknown", "partial"}

\* An unresolved batch nothing of which was accepted, or one still in the queue.
NotSubmitted(b) ==
    /\ active
    /\ \/ InDoubtOrPart(b)
       \/ batch[b].status = "submitting" /\ batch[b].token = NoWorker
            /\ Real(b) = Items(b, {"pending"})
    /\ Items(b, {"submitting"} \cup Acked) = {}

ConfirmNotSubmitted(b) == NotSubmitted(b) /\ Closed(b, {"unknown", "pending"})

\* Variant: what is in doubt is closed with the rest.
CloseDoubtful(b) == active /\ InDoubtOrPart(b) /\ Closed(b, {"pending"})

CloseWithoutRetry(b) ==
    /\ active /\ InDoubtOrPart(b)
    /\ Items(b, {"unknown", "submitting", "submitted"}) = {}
    /\ Closed(b, {"pending"})

-----------------------------------------------------------------------------
(* What _state offers an operator.                                          *)

CanRegenerate == place # NoPlace /\ Unresolved = {} /\ RunningKeywords = {}

CanApprove ==
    /\ place # NoPlace /\ PaidEligible(place)
    /\ RunningKeywords = {} /\ Unresolved = {}

CanGenerate == CanApprove /\ place \in measured

\* Variant: every batch in doubt can be withdrawn.
CanConfirmInDoubt(b) == InDoubtOrPart(b)

\* can_confirm_not_submitted of _local_falcon_scan_batch_json.
CanConfirmNotSubmitted(b) ==
    \/ batch[b].status = "submitting" /\ batch[b].token = NoWorker
         /\ Real(b) = Items(b, {"pending"})
    \/ InDoubtOrPart(b) /\ Real(b) = Items(b, {"pending", "unknown"})

-----------------------------------------------------------------------------
(* The specification.                                                       *)

Init ==
    /\ CycleInit
    /\ approved = {} /\ measured \in {{}, Places}
    /\ batch = [b \in Batches |-> NoBatch]
    /\ item = [b \in Batches |-> [k \in Positions |-> "absent"]]
    /\ paid = [b \in Batches |-> [k \in Positions |-> 0]]
    /\ worker = [w \in Workers |-> Idle]
    /\ sync = NoSync /\ synced = "absent"

\* Every request, poller and worker dies.  Local Falcon may have taken, or may yet
\* take, the request a worker was sending.
Crash ==
    /\ CrashCycle
    /\ \E W \in SUBSET {w \in Workers : worker[w].at = "asking"} :
         paid' = [b \in Batches |-> [k \in Positions |->
                    IF \E w \in W : worker[w].b = b /\ worker[w].k = k /\ paid[b][k] < MaxPaid
                      THEN paid[b][k] + 1 ELSE paid[b][k]]]
    /\ worker' = [w \in Workers |-> Idle]
    /\ sync' = NoSync
    /\ UNCHANGED <<approved, measured, batch, item, synced>>

CycleStep == CycleNext(Unresolved = {}) /\ UNCHANGED scanVars

WorkerStep(w) ==
    \/ LoadItems(w) \/ Heartbeat(w) \/ MarkItem(w)
    \/ \E taken \in BOOLEAN, answer \in {"acknowledged", "error"} : AskLocalFalcon(w, taken, answer)
    \/ RecordError(w) \/ RecordKey(w) \/ FinishBatch(w)

Next ==
    \/ CycleStep
    \/ \E a \in Artifacts : Approve(a) \/ \E q \in Requests : CreateBatch(q, a)
    \/ \E w \in Workers : ClaimBatch(w) \/ WorkerStep(w)
    \/ \E b \in Batches :
         \/ BatchAges(b) \/ GiveUpBatch(b)
         \/ \E k \in Positions : Readback(b, k)
         \/ ConfirmNotSubmitted(b) \/ CloseWithoutRetry(b)
    \/ SyncStart \/ SyncFails \/ \E found \in BOOLEAN, done \in SUBSET Awaited : SyncFinish(found, done)
    \/ Crash
    \/ PollDiesTriggering /\ worker' = [w \in Workers |-> Idle] /\ sync' = NoSync
         /\ UNCHANGED <<approved, measured, batch, item, paid, synced>>

Spec == Init /\ [][Next]_vars

-----------------------------------------------------------------------------
(* Properties.                                                              *)

\* No keyword that an operator confirmed once is paid for twice, whatever is
\* retried, given up or answered late: Local Falcon takes at most one request for
\* an item, and a confirmation has one batch.
PaidOnce ==
    /\ \A b \in Batches, k \in Positions : paid[b][k] <= 1
    /\ \A b, c \in Batches : batch[b].id = batch[c].id /\ batch[b].id # NoRequestId => b = c

\* What is being paid for is what the merchant's page shows: while a batch is
\* unresolved no keyword set is in the making, although each of the two starts from
\* a check of the other's rows; its version stays the active one of its place; and
\* its items are the cohort of that version.
ScansUseActiveVersion ==
    \A b \in Unresolved :
        LET a == batch[b].art IN
        /\ RunningKeywords = {}
        /\ IsReadySet(a)
        /\ head[artifact[a].place].active = a
        /\ Real(b) = Cohort(artifact[a].payload)

\* The active version of every place passes the check that each reader of it makes:
\* ready, of that place, and of a source that fits the reason it was activated for.
\* Otherwise every page and approval of the merchant answers 409.
HeadTrusted == \A p \in Places : HeadValid(p)

\* The state of a batch, which decides who may settle it, says what its items say,
\* although worker, stale pass, readback, sync and operators each write both.
BatchSummarizesItems ==
    \A b \in Batches :
        CASE batch[b].status = "absent"     -> Real(b) = {}
          [] batch[b].status = "submitting" -> Items(b, {"unknown", "failed"}) = {}
                                               /\ Cardinality(Items(b, {"submitting"})) <= 1
          [] batch[b].status = "submitted"  -> Real(b) = Items(b, Acked)
          [] batch[b].status = "partial"    -> Items(b, Acked) # {} /\ Items(b, {"submitting"}) = {}
          [] batch[b].status = "unknown"    -> Items(b, Acked \cup {"submitting"}) = {}
          [] batch[b].status = "completed"  -> Real(b) = Items(b, {"completed"})
          [] OTHER                          -> Real(b) = Items(b, {"completed", "failed"})

\* A button that the page of an active merchant offers is honoured by its endpoint,
\* which decides by other queries; only a report of an earlier release's cycle can
\* still refuse a regeneration.
OffersAreHonoured ==
    active =>
        /\ CanRegenerate /\ Running = RunningKeywords => Running = {}
        /\ CanApprove => Approvable(head[place].active)
        /\ CanGenerate /\ head[place].active \in approved => Confirmable(head[place].active)
        /\ \A b \in Unresolved : CanConfirmNotSubmitted(b) => NotSubmitted(b)

\* The batches, leases and processes keep the promise of ScanLedger: a confirmed
\* keyword is asked for once, its acknowledgement is never given up, a doubtful one
\* is only dropped when nothing was accepted, and one confirmation is open at a time.
BatchOf(q) == {b \in Batches : batch[b].id = q}

LedgerState(s) ==
    CASE s = "absent" -> "none"          [] s = "pending" -> "queued"
      [] s = "submitting" -> "asked"     [] s = "unknown" -> "doubtful"
      [] s = "submitted" -> "acknowledged" [] s = "completed" -> "measured"
      [] OTHER -> "dropped"

Ledger == INSTANCE ScanLedger WITH
    Keys <- Positions,
    open <- IF Unresolved = {} THEN NoRequestId ELSE batch[First(Unresolved)].id,
    scan <- [q \in Requests |-> [k \in Positions |->
               IF BatchOf(q) = {} THEN "none" ELSE LedgerState(item[First(BatchOf(q))][k])]]

KeepsLedger == Ledger!Spec
=============================================================================
