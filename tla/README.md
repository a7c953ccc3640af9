# Verification of the SEO operations console

TLA+ models of the backend (`api/app`), the TLC instances that check them and the
TLAPS proofs of what holds for every instance. Every definition names, in
`PROJECT.json` under `map`, the lines of `src/` it is translated from.

## The system

A FastAPI process (one uvicorn worker, `docs/HANDOFF.md:17`) over one SQLite file.
Request handlers run in a thread pool; a scheduler task runs beside them every
thirty seconds and calls its jobs in threads. Every write is a `BEGIN IMMEDIATE`
transaction, so transactions are atomic and serial; every call to Core AI (the
Agent platform), to FBR (Google Business Profile data) and to Local Falcon happens
*between* transactions. What is hard in this program is therefore not data races but
protocols of the form *reserve - call out - record*, with other handlers, the
scheduler, operators, lost answers and process restarts in between.

### Components

| component | state it keeps | operations | interacts with | what makes it correct |
|---|---|---|---|---|
| diagnosis runs (`runs.py`, `scheduler.py` 79-409) | `runs`, `run_dispatch_reconciliations` | start, recover, poll, reconcile | Core AI, merchants, audit snapshots, task plans | one run in progress per merchant; a run ends once; its result is that of its own input and lifecycle; nothing waits for ever without an owner |
| merchants (`merchants.py`) | `merchants`, `merchant_status_events` | create, patch, archive, restore, delete | everything with active work | archived only when idle; generations only grow |
| task preparation (`tasks.py`, `task_agent_preparation.py`, `scheduler.py` 410-796, `task_workflows.py`, `task_assignment.py`) | `tasks`, `task_executions`, `task_events` | patch, assign, prepare, review, retry, cancel, poll, recover | Core AI (LLM calls and Agents), plans | one active execution per task; no result is lost silently or accepted against a task that changed; ambiguous outcomes are never retried blindly |
| task plans (`task_plans.py`, `task_plan_contract.py`) | `task_plans`, `task_plan_revisions`, plan tasks | persist, edit draft, approve, reject, refresh | runs, tasks | one draft per plan; approval materializes exactly one revision; started work is never rewritten |
| GBP sync (`merchant_profiles.py`, `fbr_gbp.py`) | links, profiles, binding events, command ledger | link, relink, manual and due sync | FBR, performance sync | a sync only writes for the link it claimed, and never an older answer over a newer one |
| performance sync (`performance_sync.py`, `performance_store.py`) | sync jobs, batches, observations | plan, lease, fetch, publish, retry, finalize, sweep | FBR, GBP sync | a group of a job is fetched by one attempt at a time; whatever dies, the job ends |
| SEO keywords (`seo_targets.py`) | artifacts, heads | refresh, regenerate, poll, activate, restore | FBR, Core AI, Local Falcon | the active version of a place is trusted, and changes only by compare-and-set |
| Local Falcon (`seo_targets.py`, `local_falcon.py`) | approvals, batches, items, reports | approve, confirm, submit, give up, read back, sync, settle | Local Falcon | a confirmed keyword is paid for once, and for the version the page shows |
| Agent workbench (`agent_workbench.py`, `runs.py` 31-48) | agents, their runs, sync state with a lease | register, disable, enable, record, claim, list, commit | Core AI, everything that starts a run | "complete" is proved by lists before an agent is called idle; rows never go back |
| database (`db.py`, `migrations.py`, `task_migrations.py`) | schema | migrate | all | one migrator; old rows stay valid |
| Core AI client, configuration, sessions (`coreai.py`, `config.py`, `auth.py`, `main.py`) | - | HTTP, validation | all | a definite rejection is told from an unknown outcome |
| web console (`web/src`) | page state | polling, forms | API | - |

The behaviours that make these hard are listed, at the line where they bite, in
`PROJECT.json` under `hazards`.

## Plan

1. `RunDispatch`, its abstraction `DiagnosisLane`, and proofs of both. **Done.**
2. `TaskPreparation`: tasks and executions, synchronous LLM preparation and Agent
   preparation, recovery, review, retry, cancellation; the abstraction `TaskWorkflow`;
   proofs of every safety property and of the refinement. **Done.**
3. `TaskPlan`: revisions, materialization and the content check at start-up, with the
   progress of tasks as far as a plan sees it; proofs. **Done.**
4. `KeywordCycle` and `FalconScan`: versions, approval, confirmation, submission and
   readback of paid scans; the abstraction `ScanLedger`, "each confirmed keyword is asked
   for once"; proofs of every safety property and of the refinement. **Done.**
5. `ProfileSync` and `PerformanceSync`: leases, claims, relinking, jobs and their
   attempts, two processes around a deployment; proofs of both safety properties. **Done.**
6. `AgentWorkbench`: the mirror of an agent's runs, discovery by partial lists, leases;
   proofs of its three safety properties. **Done**, without the verification of metadata
   and the coverage of history.
7. Theorems about every safety property that a run checks, and about the three
   refinements. **Done** (see Proofs).
8. Left: deleting a merchant, composed with all of these; the verification lease of
   `agent_workbench.py`; the arithmetic of `performance_periods` against a reference
   definition.

Recursive operators are kept out of modules with proofs. Bounds are CONSTANTS with named
assumptions; each run asks one question with the smallest instance in which the
interesting case happens.

## Modules

### RunDispatch

A row of `runs` is a record: `status`, `merchant`, `dispatch` (`dispatch_state`), `core`
(`coreai_run_id`), `cand` (`provider_candidate_run_id`), `gen`
(`merchant_lifecycle_generation`), `age` and `failure` (the two timestamps, as what the
code compares them with: fifteen minutes), and `error`. The reservation writes token,
Agent, input hash and lifecycle together, so `gen = 0` stands for a row without any of
them. The lifecycle token of a merchant is `active` and `generation`; the event hash is a
function of those, so comparing generations is comparing tokens.

| action | code |
|---|---|
| `Archive`, `Restore` | `patch_merchant` |
| `Reserve` | first transaction of `start_run`, for requests and for `auto_scan_once` alike |
| `TriggerCreates`, `TriggerRepeats`, `TriggerRejected`, `TriggerUncertain`, `TriggerLost` | what can happen to the POST to Core AI, and what the caller learns of it |
| `RecordRejection`, `RecordUncertainty` | the conditional updates after a failed trigger |
| `RecordAnswer`, `AnswerRefused`, `RecordRefusal` | the transaction(s) after an answer, with the second one that records a duplicate after a trigger of the schema has refused the first |
| `Recover` | `_recover_stale_run_dispatches`, one transaction over all rows |
| `DispatchAges`, `FailureAges` | the clock |
| `PollSelect`, `PollFence`, `PollAsks`, `PollError`, `PollReported`, `PollAccept`, `PollDone` | `poll_runs_once`: the read, the fence, the GET, the error handler, the second fence, the accepting transaction |
| `NotCreatedRequest`/`Commit`, `BindRequest`, `BindReadback`, `BindCommit`, `CandidateRejected` | `reconcile_run_dispatch`: its read, its GET, and its transactions |
| `ProviderEnds`, `ProviderForgets`, `TaskBinds` | Core AI, and the other holder of provider run ids |
| `Crash` | the process dies; tables and network stay |

The caller's part of a reservation is `call`, the requests still on their way to Core AI
are `sent`: a request can create a provider run after its caller has timed out, died, or
been overruled by recovery. Recovery visits rows in id order, and an earlier row may give
up its binding before a later row looks for duplicates (`HeldDuringRecovery`).

Initial states hold no rows, or (`Legacy`) one or more rows of earlier releases: running
rows a migration marked UNKNOWN (`migrations.py:588`), and UNKNOWN rows with a binding or
a candidate as `api/tests/test_runs_api.py` 1330-1480 builds them.

Abstracted: the prompt and the evidence in it, report text, snapshot and plan contents,
the checks that only refuse a request before it changes anything (Agent safety, GBP
evidence), operator names and reasons. Two timestamps are equal in the model if both are
NULL or neither is; `dispatch_started_at` is left out of the poll claim. Both admit more
behaviours than the code has. The clock is taken to be monotone.

Operators whose comment begins with "Variant" are plausible mistakes next to the
definition that avoids them; `PROJECT.json` (`mutants`) names the property that notices
each of them.

### DiagnosisLane

The abstract specification: a merchant has one lane; a run enters an empty lane of an
active merchant, ends once, ends well only in the lifecycle it entered under, and an
occupied lane keeps its merchant from being archived. `RunDispatch` implements it under
the mapping `Lane`: a running row is an open run, the rest of the row, the network, the
poller and the desk are hidden.

### TaskPreparation

One merchant, its tasks and their executions. A task row carries status, version,
lifecycle generation, definition, assignee and the ids that link it to executions,
upstream tasks and its replacement; an execution row carries what it was claimed for.
Requests (`handler`), scheduler passes (`poll`) and open pages (`desk`) remember what they
read, because between any two transactions of theirs anybody may write.

| action | code |
|---|---|
| plan and merchant steps | `patch_merchant`; what a revision may do to one task: create, redefine, drop, replace |
| request steps | `execute_task` with its claim, the LLM call and the recording transaction; `start_agent_preparation` with trigger and binding |
| `Ages`, `Recover` | the clock, `recover_stale_task_executions_once` |
| scheduler steps | `poll_task_executions_once` and `poll_agent_preparation`: the rows read first, the fence, the GET, the accepting transaction |
| operator steps | patch, assign, cancel, retry, approve, return, replace, always with the version on the page |
| `Crash` | the process dies; tables and network stay |

A revision redefines, creates and drops all its tasks in one transaction; here each task
changes by itself, which admits more behaviours. The whole transaction is in `TaskPlan`.
The tables hold one merchant because a task never refers to another's.

### TaskWorkflow

The abstract specification: `_PREPARE_ONLY_TRANSITIONS` as a transition relation, a
definition that changes only while its task is pending, a hand-over to a replacement, and
archiving only when nothing is prepared or waits for review. `TaskPreparation` implements
it under the identity on these parts of its rows (`ImplementsWorkflow`).

### TaskPlan

One plan: its row, its revisions, its tasks with their edges, and the pages operators
look at. A definition is `text` (everything but the dependencies) and `ups`.

| action | code |
|---|---|
| `PersistAgentPlan`, `CreateTask` | where a plan comes from: a completed run, or an operator's task |
| `See`, `ReplaceDraft`, `Approve`, `Reject` | the routes of `task_plans.py`; the page gives the revision number that must be the newest |
| `Materialized`, `Refreshed` | `materialize_plan_revision` and `refresh_plan_lifecycle`, called inside the transactions |
| `Start`, `PreparationEnds`, `ReviewTask`, `RetryTask`, `CancelTask` | the handlers of `TaskPreparation`, as a plan sees them |
| `Archive`, `Restore` | `patch_merchant` |

`ContentValid` is the content check of `task_migrations.py` that `init_db` runs at every
start. It raises when it fails, so that `RestartSucceeds` says: no sequence of legal calls
leads to a database the application cannot be started with. The routes compare a number
*and* a checksum; a payload never changes (part of `HistoryIsKept`), so the number stands
for both. Left out: the schedule (a delay), the Agent bindings a draft is checked against
(a refusal before anything changes), removal reasons, events, and the plans the migration
builds from older rows.

### KeywordCycle

The keyword versions of one merchant. An artifact is a row with its status, how it was
made, its dispatch state, the place it is for and the set of keywords in it; a set is the
scores of its local keywords, from which rank, cohort and trust follow as in the code.

| action | code |
|---|---|
| `PlaceChanges`, `Archive`, `Restore` | the selected GBP location, `patch_merchant` |
| `ReadState` | reading the page, which creates the head of a place |
| `Claim`, `PersistFbr`, `FailClaim`, `MarkDispatching`, `MarkRefused`, `Trigger*`, `FailDispatchUnknown`, `RecordDispatched` | the refresh and regenerate requests, a transaction or a call each |
| `GiveUpStaleDispatch`, `Poll*` | a pass of the scheduler: the row and the answers first, then one transaction by what they were |
| `Activate` | an operator restores or adopts a version |
| `PollTriggersNext`, `PollCannotTrigger`, `PollMissesKeywords`, `PollAborts`, `PollDiesTriggering` | the audit and ranking stages of a cycle an earlier release left running, whose trigger is called with the transaction open |

### FalconScan

Extends `KeywordCycle` with approvals, scan batches and their items. `paid` counts the
requests Local Falcon took, which no table of the program knows; a worker's answer is
valid only if the request was taken, an error proves nothing.

| action | code |
|---|---|
| `Approve`, `CreateBatch` | the two locked endpoints |
| `ClaimBatch`, `LoadItems`, `Heartbeat`, `MarkItem`, `AskLocalFalcon`, `RecordKey`, `RecordError`, `FinishBatch` | `submit_local_falcon_batches_once`, one transaction or call each |
| `BatchAges`, `GiveUpBatch` | ten minutes without a heartbeat, and the pass that gives a lease up |
| `Readback`, `SyncStart`, `SyncFinish`, `SyncFails` | the scheduler's readback and the sync endpoint |
| `ConfirmNotSubmitted`, `CloseWithoutRetry` | the two ways an operator may settle a batch |
| `Crash` | every request, poller and worker dies; a request on its way may still be taken |

`ScanLedger` is the abstract specification: a confirmation opens, its keywords are asked
for one at a time and at most once, an acknowledgement is never dropped. `FalconScan`
implements it with the unresolved batch as the open confirmation (`KeepsLedger`).
A repeated report key hits a unique index outside any handler, which ends the worker; the
model has that as a worker that stops. Binding a report by hand is switched off
(`seo_targets.py:85`), so that a batch with an accepted and an unknown item has no way out
(the design, `docs/superpowers`, describes the manual way).

### ProfileSync

The link of one merchant to FBR, the copy of its profiles, relink commands, and the sync
with its claim, compare-and-set and fenced write. `known` holds the processes whose
remembered `updated_at` is still that of the link row: any other write of the row takes
them out. The binding and the place are read apart, as in the code.

### PerformanceSync

Extends `ProfileSync` with jobs, groups (location and month) and attempts. Time is counted
in lease times: an age says how long ago a pass read its clock. A loop takes its turns in
order (sync, plan, process); `Deploy` starts the loop of a new process while the old one
finishes its turn, `Crash` forgets what a process held.

| action | code |
|---|---|
| `SeedScopes`, `PlanJob`, `PlanBatch`, `NothingToPlan` | binding scopes, `plan_sync_job`: a job, then its batches one by one |
| `BeginPass`, `Sweep`, `LeaseBatch`, `EndPass` | `process_metric_sync_batches_once` |
| `Fetch`, `NoPlace`, `FetchFails`, `Confirm`, `Publish`, `Terminate`, `Succeed`, `Finalize` | one batch in hand, a transaction or a call each |
| `Tick`, `Deploy`, `Crash`, `FbrChanges` | clock and processes |

The operator's backfill calls the same planner and is not modelled by itself. What the
model shows beside its properties: a job whose plan is made by two processes can be
`succeeded` while a second batch is still to be planned, and the sweep then leaves the
state as it is; after a relink the batches of a job whose profiles are gone are blocked
without a retry; data fetched earlier may be published later by another job.

### AgentWorkbench

One registered agent and its runs in Core AI. A run has a place in the order of starting,
so that "the newest runs" of a bounded list are defined; `Listed` is what a request shows.

| action | code |
|---|---|
| `Start`, `Progress`, `Deviates` | Core AI |
| `Store`, `Record`, `RecordLost` | a trigger's answer, `_record_started_run_after_commit` and what it calls |
| `Register`, `Disable`, `Enable` | the registry; a retired agent is a disabled one that is never enabled |
| `Claim`, `Ask`, `AskFails`, `Abandon`, `Commit` | `sync_registered_agent_runs_once`: the claim, each request under a renewed lease, the one transaction at the end |
| `Deploy`, `Stop`, `LeaseExpires`, `*ComesDue` | processes and the clock |

`Quality`, `Complete`, `NextFast` and `NextDiscovery` are the judgement of
`commit_discovery_cycle` about what the lists prove. `steady` is auxiliary: the runs that
were at work when a cycle began and have not ended or been resumed since. Which rows are
young enough for a fast cycle is left open at a claim, and all are at a commit.

What the model shows beside its properties: a run that resumes between the RUNNING and the
PAUSED request, and is not on the unfiltered list, is missed by a discovery that counts as
complete; a recorded run that ends outside every list stays unconfirmed, and the agent is
then never complete; a successful fast cycle that stays incomplete leaves its poll time in
the past, so the next one follows at once.

### MC modules

Each holds the model values and small sets of one system. `NotCrowded` (`MCRunDispatch`,
`MCTaskPreparation`) bounds how many pollers, requests or pages are busy at one moment to
`MaxBusy`, whichever they are; what a reserved row, a late answer or recovery may do is
not bounded by it. `FewEvents` (`MCFalconScan`) bounds how many things that nothing forces
happen in one behaviour. Symmetry is used in safety runs only.

## Runs

| run | instance | question |
|---|---|---|
| `run_dispatch` | 1 merchant, 2 rows, 2 ids, 1 poller, 1 operator, 1 restart | types, one running run, the reservation pins its lifecycle, the result is that of the run's own input |
| `run_dispatch_races` | 1 id, 2 pollers, 2 operators | can a finished run change, does the ledger stay true? The deployment has one scheduler; nothing in the code depends on it |
| `run_dispatch_legacy` | 2 merchants, old rows, 1 id, Core AI repeats ids | is an id bound twice, can recovery lose one, is a result accepted in another lifecycle; refinement of `DiagnosisLane` |
| `run_dispatch_live` | fair scheduler, 1 restart, old rows | do reservations resolve and bound runs end? |
| `run_dispatch_stale_poll` | expected violation | the docstring of `_handle_run_poll_error` |
| `task_preparation` | 1 task, 2 attempts, 2 requests, 2 pollers, 2 operators, 1 restart, an old run | task and execution agree; attempts end once and are not repeated blindly; decisions are about what was seen |
| `task_preparation_plan` | 2 tasks, LLM calls only | dependencies, replacement, refinement of `TaskWorkflow` |
| `task_preparation_live` | 2 definitions, fair scheduler, 1 restart | does the review match the task, does a preparation end? |
| `task_plan` | 2 keys, 2 texts, 3 revisions, 1 operator with a page that may be old | can the application be restarted, does started work match the approval, can history be rewritten? |
| `falcon_scan` | 2 places, 3 keywords of which 2 are the cohort, 3 artifacts, 2 batches, 1 worker, 2 events | is a keyword paid for twice, is what is paid for the active version, do batches say what their items say, does the page keep its offers; refinement of `ScanLedger` |
| `fbr_sync` | 2 loops and 1 request, 3 FBR merchants, 1 location, 2 months, 2 attempts, 2 incidents | does the copy follow the binding, is a group fetched by one attempt, does the work come to rest? |
| `agent_workbench` | 2 processes, 2 runs (one ends unseen), lists of length 1, 1 incident | is "complete" proved, can a row go back, is every listed run mirrored in the end? |

Why the bounds are enough. Two rows of `runs`: each property relates a row to its
merchant, or two rows. Three generations (active, archived, restored) are the shortest
history in which a merchant is active again under another lifecycle. Two attempts: what
goes wrong between attempts goes wrong between one and the next. `MaxVersion` stops new
claims and edits in time to leave room (`HasRoom`) for finishing what has been claimed, so
the bound never keeps an answer from being recorded. Three revisions: one approved, one
dropping or changing what it made, one bringing it back. Two keys are the smallest plan
with an edge and with a cycle that is not a self-dependency. One operator is enough for
stale pages, as a page is not refreshed by its owner's own edits. A cohort of two is the
smallest batch in which one item is accepted and another is in doubt; one worker is enough
for a late one, because a lease once given up is not taken again, and two processes for the
others, because the earlier holder of a lease stalls while the later one works. A list of
length one is the smallest that leaves a run out of two. `MaxIncidents` counts what nobody
schedules (restarts, deployments, failures, operators), so each run has every such thing by
itself, `fbr_sync` every pair of them. Deadlock checking is off: with bounded rows, versions and generations the system may stop.

`run_dispatch_stale_poll` shows a disagreement between a docstring and the code: after
fifteen minutes of failed polls the docstring lets the run "enter operator
reconciliation", the code fails it (`scheduler.py:224`), and a failed run is not
reconcilable (`runs.py:936`).

`ResultBelongsToReservation` is asked of a Core AI that never repeats a run id
(`RepeatedAnswers = FALSE`): an answer with the id of another reservation's run that no
row holds any more cannot be told from a fresh one until the report arrives.

### Fairness

`RunDispatch!FairSpec` assumes weak fairness of recovery, of the steps of a scheduler pass
and of the clock, which `scheduler_loop` justifies (it repeats every thirty seconds and
survives exceptions), and that Core AI ends the runs it started. Nothing is assumed of
operators, of callers or of the network, so an UNKNOWN reservation without evidence may
wait for ever; that is what the code intends.

`TaskPreparation!FairSpec` assumes weak fairness of the clock, of recovery and of the steps
of a pass once begun, and strong fairness of a pass taking up a given row, because a pass
serves its rows in turn while others come and go. Nothing is assumed of Core AI: local
deadlines end a preparation even when Core AI calls its run active for ever.

`PerformanceSync!FairSpec` assumes that each loop goes on, that a request once begun is
carried through, and that time passes; a loop that dies is started again, and
`fbr_scheduler_loop` survives exceptions. Failures are incidents, of which an instance has
a bounded number: `WorkEnds` says that the work comes to rest after the last.

`AgentWorkbench!FairSpec` assumes that the loop of the newest process goes on and that
leases expire and discoveries come due. Nothing is assumed of the runs or of a replaced
process; fast cycles need not happen, as discoveries find everything they would.

## Proofs

`RunDispatchTypeProofs` proves `TypeCorrect == Spec => []TypeOK`. `TypeOK` is not
inductive: the poller and the desk look up provider runs by ids they remembered, so
`WorkTyped` adds that what they remember are ids.

`RunDispatchSafetyProofs` proves the rest from one relation on rows, `RowChange`:
a transaction keeps a row's merchant and generation, leaves finished rows alone, keeps
the evidence of a provider run, and yields a `Sound` row (a dispatched row is bound, its
candidate agrees and it has a lifecycle). `StepKinds` sorts the steps: quiet ones, in
which every row changes that way and nothing succeeds; accepting a result; reserving; and
lifecycle events. The inductive invariant is `TypeInv /\ RowsInv`, where `RowsInv` is
`RowsSound` with the two safety invariants; `RowsSound` is needed because detaching a row
keeps the candidate column and drops the binding, which loses evidence unless they agree.
Two more invariants are proved on top of it:

- `LedgerInv`, for `LedgerMatchesRun`: a recorded decision stays true because it is made of
  a row whose outcome it settles, and no `RowChange` unsettles one. What an open request of
  an operator has found out so far (`Notes`) has to be part of it: the commit writes the
  ledger from what the request remembers, not from the row;
- `IdsInv`, for `BindingsUnique` and `ResultBelongsToReservation`: every id that a row
  holds, an answer carries or an operator has verified is of a run Core AI has, started
  with that row's own input (`IsFor`). The bound id is unique because both transactions
  that bind look at every other row and at the tasks.

Proved for every value of the constants: `TypeCorrect`, `OneRunInProgress`,
`ReservationPinsLifecycle`, `RunningRowsAreOwned`, `FinishedStaysFinal`, `EvidenceIsKept`,
`AcceptedInReservedLifecycle`, `LedgerStaysTrue`, `BindingsStayUnique`, and the refinement
`ImplementsLane`. The assumptions are those of `RunDispatch`: at least one merchant, one id
and one row, and three generations. `ResultsBelongToReservations` assumes in addition what
its run does, a Core AI that never repeats an id and tables without rows of an earlier
release: of those nobody knows which input the bound run was started with.

`TaskPreparationTypeProofs` proves the types (`TypesAreKept`) together with `ActorsInv`: a
request, poll or page that is under way is about rows that exist.
`TaskPreparationSafetyProofs` proves the rest for any number of tasks, executions,
requests, scheduler loops, operators and restarts. All actions change the two tables in
eight ways only: nothing, `Touches` (a revision or an operator writes a task), `Adds`,
`Replaces`, `Starts`, `Finishes`, `Reviews` and `Progresses` (a task or an execution moves,
or both); every invariant of the tables is proved once for each way. The inductive
invariant `IInv` is `TypeInv` with

- `TablesInv`: the state invariants that the runs check, `HistoryInv` (attempts are
  numbered in the order they are made, and one in progress is the last, not reviewed and of
  the definition the task still has), `SpentInv` (`NoBlindRepeat` with the reason: after an
  attempt that cannot be repeated only a cancellation moves the task) and `LinkInv`;
- `RequestInv`: until its claim a request knows the assignee *for the version it names*,
  from then on the kind of its execution. Without the version the claim could not be
  trusted, as the assignee is looked up in an earlier transaction;
- `PollInv`: only the poll of an Agent's run can find that it succeeded;
- `DeskInv`: while the version on a page is the task's, so are status and attempts. This is
  why the version check is enough for `DecisionsStayInformed`: whatever makes, ends or
  reviews an attempt also raises the version of its task.

`AttemptsStayFinal` and `DecisionsStayInformed` are action properties proved from `IInv`,
and `PreparationImplementsWorkflow` maps each of the eight ways to a step of
`TaskWorkflow` or a stutter.

`TaskPlanProofs` proves `TypeCorrect`, `RestartAlwaysSucceeds`, `TasksMatchApproval` and
the action property `HistoryStays` for any number of keys, texts, operators and
revisions, assuming there is at least one of each of the first two and room for a
revision. `ContentValid` says nothing of a plan that does not exist yet, and is stated with
sets; the inductive invariant `IInv` says the same row by row, for every state: `RowsMatch`
(numbers and decisions), `StateMatches` (the stored state of the plan is the one its
revisions and tasks imply), `MadeByRevision` (a task and the revision that made it) and
`MatchesApproved` (a task and the approved revision). Each action has a lemma. The long one
is `ApproveKeeps`: materialization treats a key in four ways, and it is `Anchored`, checked
again in the approving transaction, that makes started tasks agree with the new revision.
That a payload is free of cycles (`Waves`) is used only as a predicate.

`AgentWorkbenchProofs` proves the types and the three safety properties of `AgentWorkbench`
for any number of processes, runs and incidents and any length of lists. `CyclesKept` and
the `...Effect` lemmas say once what each step does to the cycles in progress; each
property then has an invariant of its own:

- `ServedIsConfirmed` from `CompleteInv` (complete rows are confirmed): an unconfirmed row
  no list has puts at least one status in doubt, whatever its own status is;
- `RowsGoForward` from `BehindInv` (nothing here is ahead of Core AI) and `HolderInv` (the
  holder of the lease has seen nothing older than a confirmed row). Answers may be old;
  that nobody else commits between a holder's answers and its commit is what makes them
  safe, and `LeaseExpires` is in the model, so this rests on the fence alone;
- `DiscoveryMissesNothing` from `OrderInv` (which lists have been asked for) and `ShownInv`:
  a run at work that the exact lists so far do not show has moved to a status whose list is
  still to come.

`FalconScanProofs` proves everything that `falcon_scan` checks, for any number of places,
versions, confirmations, batches and workers, in four layers.

`PaidOnce`: that an item is not paid for twice is not inductive. `IInv` adds that an item in the queue was never asked for (`WaitingUnpaid`), and that who is
about to ask is alone and the first (`AskedAlone`). All steps but four keep it because they
neither return anything to the queue (`Forward`) nor begin to ask (`Quiet`); the four are a
confirmation, which writes a row that did not exist and so had no items, `MarkItem`,
`AskLocalFalcon`, and `Crash`, after which a request may still be taken. Neither the lease
nor its ten minutes appears in the argument: giving up turns what is in hand to unknown,
and that is never queued again.

`BatchSummarizesItems`: `ItemsInv` says what each status means for the items (`Summary`,
which adds that something is left to do while a batch is open), that nobody has touched a
batch that waits for a worker (`QueueInv`), that what a worker remembers is true as long as
it holds the lease (`HandInv`), and that one batch is open (`OneOpen`). `HandInv` is the
heart: a worker writes the status of a batch at its end from what it has counted, and the
pass that gives a batch up takes the lease, so that it counts for nothing afterwards.
`ItemsNext` proves the invariant and sorts all steps into seven ways in which items and
batches change (`ItemStep`).

`HeadTrusted` and `ScansUseActiveVersion`: `VersionsInv` says of the keyword versions which
requests, polls and runs are of which rows; a request that has asked Core AI outside any
transaction owns its row because the row is running and names it. A row that is ready never
changes, so that a head that was checked when it was moved stays trusted. `VersionsStep`
sums the steps of `KeywordCycle` up, with a parameter that says whether a keyword set may
begin and a head may move: no batch is open. `PagesInv` joins both halves. While a batch is
open nothing begins and no head moves; and `CreateBatch`, which opens one, checks that
nothing runs and that the version is the active one, in the transaction that writes it.
`OffersAreHonoured` needs the types only.

`KeepsLedger`: `Tells` states what the refinement mapping shows of each batch, using that a
confirmation has one batch and one batch is open, so that the first one is the only one. Each
of the seven ways is then a step of `ScanLedger` or a stutter. That an operator's closing
moves a scan at all (`Next` of the ledger asks for it) rests on the last clause of `Summary`.

The proofs led to two changes of the models. `Verdict` of `KeywordCycle` was a CASE whose
guards overlapped, which leaves the choice open where the code returns at the first match;
it is now nested as the early returns are. `Redefine` and `Claim` of `TaskPreparation` are
written without a nested `@`, with the same meaning.

`PerformanceSyncProofs` proves both safety properties of `PerformanceSync` and `ProfileSync`:

- `AttemptsInTurn` from `SuccessorsOwed`: a pass between settling an attempt and writing its
  successor is the only one that owes it, the attempt is retryable and the successor is not
  there. That others lease, settle and publish in between is covered by `RowsMove`; a
  successor would be written over an attempt in progress if `Terminate` did not ask for the
  lease;
- `CopyFollowsBinding` from `NothingNewerStored`: a sync that has read and whose claim still
  stands has not read an older state of FBR than the copy shows.

Only model-checked:

- what the recursive `Waves` of `TaskPlan` computes: that needs induction over data, which
  the installed provers cannot apply;
- the liveness properties `ReservationsResolve`, `BoundRunsEnd`, `PreparationsResolve`,
  `WorkEnds` and `ListedRunsAreMirrored`, which are out of the prover's reach, as is ENABLED.

The theorems hold for every value of the bounds and know nothing of the constraints
`NotCrowded` and `FewEvents`, so that for the safety properties neither hides anything.

## Not modelled

- The workbench's verification of an agent's metadata with its own lease, the coverage of
  its history, counts, warnings and receipts; `upsert_projected_run` and
  `resolve_local_association`, which nothing in the application calls.
- Observations and their supersession in `performance_store.py`, and the read-only queries
  and periods over them: no step of a protocol depends on what they say.
- Report parsing and plan extraction, prompts, exports, wording: functions without state.
- Creating, renaming and deleting a merchant: single statements.
- The schema changes of the migrations, which run once, before anything else; the content
  check that runs at every start is in `TaskPlan`.
- Sessions, configuration, HTTP and the web console.
- `scheduler.py:931`: an exception that one row causes in every tick would keep what follows
  it in the tick from running. Each module has its own passes, so this needs the
  composition of all of them.

`components` in `PROJECT.json` has the same by part. Types of `TaskPreparation` and
`FalconScan` are stated (`TypeOK`) for the reader and are not among the checked properties.
