-------------------------- MODULE TaskPreparation --------------------------
(***************************************************************************)
(* Tasks and their preparation: api/app/tasks.py, task_assignment.py,       *)
(* task_agent_preparation.py, task_agent_protocol.py and the task jobs of   *)
(* api/app/scheduler.py.                                                    *)
(*                                                                         *)
(* A request claims a pending task (version + 1, PREPARING, an execution    *)
(* row) and then either waits for an LLM call to answer or triggers an      *)
(* Agent whose run the scheduler polls.  Operators patch, assign, cancel,   *)
(* retry, review and replace tasks meanwhile, always for the version they   *)
(* have seen; plans redefine pending tasks; the process may die between any *)
(* two transactions, and the scheduler gives up what nobody finishes.       *)
(* Every action is one transaction, one read, or one answer of Core AI.     *)
(***************************************************************************)
EXTENDS Integers, FiniteSets

CONSTANTS
    MaxTasks,          \* bound: rows of tasks
    MaxExecutions,     \* bound: rows of task_executions
    Definitions,       \* what definition_checksum tells apart
    ProviderIds,       \* run ids Core AI can hand out
    NoId,              \* SQL NULL for a provider run id
    Handlers,          \* execute requests that may overlap
    Pollers,           \* scheduler loops; the deployment runs one
    Operators,         \* operators at their desks
    Owners,            \* kinds of assignee that are in use
    MaxVersion,        \* bound: tasks.version
    MaxGeneration,     \* bound: lifecycle events of the merchant
    MaxCrashes,        \* bound: process restarts
    Legacy             \* may a run of an earlier release be in progress?

ASSUME IdsAssumption == ProviderIds # {} /\ NoId \notin ProviderIds
ASSUME DefinitionsAssumption == Definitions # {}
ASSUME OwnersAssumption == Owners \subseteq {"none", "human", "agent"} /\ "none" \in Owners
ASSUME BoundsAssumption ==
    /\ MaxTasks \in Nat \ {0}
    /\ MaxExecutions \in Nat \ {0}
    /\ MaxVersion \in Nat /\ MaxGeneration \in Nat \ {0} /\ MaxCrashes \in Nat
    /\ Legacy \in BOOLEAN

VARIABLES
    active,        \* merchants.status = 'active', of the one merchant
    generation,    \* generation of its newest merchant_status_events row
    task,          \* tasks, task_dependencies and task_assignments
    exec,          \* task_executions
    runBound,      \* coreai_run_id values held by diagnosis runs
    handler,       \* execute_task and start_agent_preparation in progress
    poll,          \* poll_task_executions_once of each scheduler
    desk,          \* the TaskDetail each operator has open
    crashes

merchant == <<active, generation>>
vars == <<active, generation, task, exec, runBound, handler, poll, desk, crashes>>

-----------------------------------------------------------------------------
(* Rows.                                                                    *)

Tasks == 1..MaxTasks
Execs == 1..MaxExecutions
Ids   == ProviderIds \cup {NoId}

TaskStatuses == {"absent", "PENDING", "PREPARING", "AWAITING_APPROVAL",
                 "NEEDS_ATTENTION", "DONE", "CANCELLED"}
ExecStatuses == {"absent", "DISPATCHING", "RUNNING", "SUCCEEDED", "FAILED", "UNKNOWN"}
InProgress   == {"DISPATCHING", "RUNNING"}

\* by and of are replaced_by_task_id and replaces_task_id.
TaskRow == [status : TaskStatuses, version : Nat, def : Definitions,
            ups : SUBSET Tasks, owner : {"none", "human", "agent"},
            by : 0..MaxTasks, of : 0..MaxTasks]

\* def, gen and call are the parts of request_json that something depends on:
\* the definition checksum, the merchant lifecycle, and whether the request
\* names an LLM call at all.  LEGACY is an Agent run of a release before the
\* preparation protocol.  A row's id stands for its dispatch_token.
ExecRow == [status : ExecStatuses, task : 0..MaxTasks, kind : {"LLM_CALL", "AGENT", "LEGACY"},
            def : Definitions, gen : 0..MaxGeneration, call : BOOLEAN, core : Ids,
            reviewed : {"no", "approved", "returned"}, old : BOOLEAN]

Request == [pc : {"idle", "routing", "preflight", "checked", "claiming",
                  "calling", "triggering", "ended"},
            task : 0..MaxTasks, version : Nat, call : BOOLEAN, gen : 0..MaxGeneration,
            exec : 0..MaxExecutions, id : Ids,
            outcome : {"none", "result", "rejected", "ambiguous", "started"}]
IdleRequest == [pc |-> "idle", task |-> 0, version |-> 0, call |-> FALSE, gen |-> 0,
                exec |-> 0, id |-> NoId, outcome |-> "none"]

Pass == [pc : {"idle", "selected", "asking", "decided"}, exec : 0..MaxExecutions,
         version : Nat, gen : 0..MaxGeneration,
         verdict : {"none", "SUCCEEDED", "FAILED", "UNKNOWN"}]
IdlePass == [pc |-> "idle", exec |-> 0, version |-> 0, gen |-> 0, verdict |-> "none"]

View == [task : 0..MaxTasks, version : Nat, status : TaskStatuses, exec : 0..MaxExecutions]
NoView == [task |-> 0, version |-> 0, status |-> "absent", exec |-> 0]

\* The types of the tables, and of what each actor remembers of them.
TypeOK ==
    /\ active \in BOOLEAN
    /\ generation \in 1..MaxGeneration
    /\ task \in [Tasks -> TaskRow]
    /\ exec \in [Execs -> ExecRow]
    /\ runBound \in SUBSET ProviderIds
    /\ handler \in [Handlers -> Request]
    /\ poll \in [Pollers -> Pass]
    /\ desk \in [Operators -> View]
    /\ crashes \in 0..MaxCrashes

-----------------------------------------------------------------------------
(* Reading the tables.  An operator whose comment begins with "Variant" is  *)
(* a mistake the next definition could have made, kept to show which        *)
(* property would notice it; nothing else uses it.                          *)

\* _PREPARE_ONLY_TRANSITIONS.
Transitions ==
    [s \in TaskStatuses |->
        CASE s = "PENDING"           -> {"PREPARING", "NEEDS_ATTENTION", "CANCELLED"}
          [] s = "PREPARING"         -> {"AWAITING_APPROVAL", "NEEDS_ATTENTION", "CANCELLED"}
          [] s = "AWAITING_APPROVAL" -> {"DONE", "PENDING", "NEEDS_ATTENTION", "CANCELLED"}
          [] s = "NEEDS_ATTENTION"   -> {"PENDING", "CANCELLED"}
          [] OTHER                   -> {}]

\* latest_execution.
IsLatest(e, t) ==
    /\ exec[e].task = t
    /\ \A f \in Execs : exec[f].task = t => f <= e

\* Variant: a dispatch that has no run id yet is overlooked.
HasRunningExecution(t) == \E e \in Execs : exec[e].task = t /\ exec[e].status = "RUNNING"

\* _active_execution.
HasActiveExecution(t) ==
    \E e \in Execs : exec[e].task = t /\ exec[e].status \in InProgress

\* The wider set that assignment and Agent dispatch look for, anywhere in the
\* history of the task.
HasUnsettledExecution(t) ==
    \E e \in Execs : exec[e].task = t /\ exec[e].status \in InProgress \cup {"UNKNOWN"}

\* Variant: an upstream task only has to be over.
UpstreamOver(t) == \A u \in task[t].ups : task[u].status \in {"DONE", "CANCELLED"}

\* _first_incomplete_dependency; the other blockers are the merchant's status
\* and the schedule, which is a delay, and an inactive revision.
UpstreamDone(t) == \A u \in task[t].ups : task[u].status = "DONE"

\* The stored request is the one the task would make now.
EnvelopeCurrent(e) ==
    /\ exec[e].kind = "LLM_CALL" => exec[e].call
    /\ exec[e].def = task[exec[e].task].def

\* Variant: any failed attempt may be made again.
FailedPreparation(e) ==
    exec[e].status \in {"FAILED", "UNKNOWN"} /\ exec[e].reviewed = "no"

\* _safe_retryable_preparation: only an attempt that cannot have left a run
\* behind, which an Agent attempt can.
SafeRetryable(e) ==
    /\ exec[e].kind = "LLM_CALL"
    /\ exec[e].core = NoId
    /\ exec[e].reviewed = "no"
    /\ EnvelopeCurrent(e)
    /\ exec[e].status \in {"FAILED", "UNKNOWN"}

\* _validated_reviewable_preparation.
Reviewable(e) ==
    /\ exec[e].kind \in {"LLM_CALL", "AGENT"}
    /\ exec[e].status = "SUCCEEDED"
    /\ exec[e].reviewed = "no"
    /\ (exec[e].kind = "AGENT") <=> (exec[e].core # NoId)
    /\ EnvelopeCurrent(e)

\* The unique triggers over runs and task_executions.
IdTaken(p) == p \in runBound \/ \E e \in Execs : exec[e].core = p

\* merchant_has_active_work, as far as tasks go.
\* Variant: only what runs at this moment is work.
HasRunningWork == \E t \in Tasks : HasActiveExecution(t)

HasTaskWork ==
    \/ \E t \in Tasks : task[t].status \in {"PREPARING", "AWAITING_APPROVAL"}
    \/ \E e \in Execs :
          \/ exec[e].status \in InProgress
          \/ /\ exec[e].status = "SUCCEEDED" /\ exec[e].reviewed = "no"
             /\ task[exec[e].task].status \notin {"DONE", "CANCELLED"}

\* The row after a transition.
Moved(t, s) == [task[t] EXCEPT !.status = s, !.version = @ + 1]

\* What operators and claims may still do without passing the bound; the two
\* versions left over are those of finishing what has been claimed.
HasRoom(t) == task[t].version + 2 <= MaxVersion

-----------------------------------------------------------------------------
(* The merchant, other runs, and the plan: what happens around a task.      *)

Archive ==
    /\ active
    /\ ~HasTaskWork
    /\ generation < MaxGeneration
    /\ active' = FALSE
    /\ generation' = generation + 1
    /\ UNCHANGED <<task, exec, runBound, handler, poll, desk, crashes>>

Restore ==
    /\ ~active
    /\ generation < MaxGeneration
    /\ active' = TRUE
    /\ generation' = generation + 1
    /\ UNCHANGED <<task, exec, runBound, handler, poll, desk, crashes>>

\* start_run binds a run id of its own; its trigger looks at this table too.
RunBinds(p) ==
    /\ ~IdTaken(p)
    /\ runBound' = runBound \cup {p}
    /\ UNCHANGED <<merchant, task, exec, handler, poll, desk, crashes>>

NewTask(d, ups, of) ==
    [status |-> "PENDING", version |-> 1, def |-> d, ups |-> ups, owner |-> "none",
     by |-> 0, of |-> of]

IsNextTask(t) ==
    /\ task[t].status = "absent"
    /\ \A u \in Tasks : u < t => task[u].status # "absent"

\* A revision materializes a task it adds, or an operator creates one.
Create(t, d, ups) ==
    /\ active
    /\ IsNextTask(t)
    /\ ups \subseteq {u \in Tasks : u < t}
    /\ task' = [task EXCEPT ![t] = NewTask(d, ups, 0)]
    /\ UNCHANGED <<merchant, exec, runBound, handler, poll, desk, crashes>>

\* Variant: every unfinished task that nothing runs for.
Quiet(t) ==
    task[t].status \notin {"absent", "DONE", "CANCELLED"} /\ ~HasActiveExecution(t)

\* Only pending tasks are the revision's to rewrite.
Mutable(t) == task[t].status = "PENDING"

\* A revision redefines a task with its edges, or drops it.
Redefine(t, d, ups) ==
    /\ active
    /\ Mutable(t)
    /\ HasRoom(t)
    /\ ups \subseteq {u \in Tasks : u < t}
    /\ task' = [task EXCEPT ![t] =
                  [task[t] EXCEPT !.def = d, !.ups = ups, !.version = @ + 1]]
    /\ UNCHANGED <<merchant, exec, runBound, handler, poll, desk, crashes>>

Drop(t) ==
    /\ active
    /\ Mutable(t)
    /\ HasRoom(t)
    /\ task' = [task EXCEPT ![t] = Moved(t, "CANCELLED")]
    /\ UNCHANGED <<merchant, exec, runBound, handler, poll, desk, crashes>>

-----------------------------------------------------------------------------
(* POST /tasks/{id}/execute.                                                *)

\* A client that has read the current version sends the request, and
\* get_execution_coreai looks up the assignee: an Agent's task gets no LLM call.
Open(h, t) ==
    /\ handler[h].pc = "idle"
    /\ task[t].status # "absent"
    /\ handler' = [handler EXCEPT ![h] =
                     [IdleRequest EXCEPT !.pc = "routing", !.task = t,
                                         !.version = task[t].version,
                                         !.call = task[t].owner # "agent"]]
    /\ UNCHANGED <<merchant, task, exec, runBound, poll, desk, crashes>>

\* execute_task looks up the assignee again, still outside any transaction.
Route(h) ==
    /\ handler[h].pc = "routing"
    /\ handler' = [handler EXCEPT ![h].pc =
                     IF task[handler[h].task].owner = "agent" THEN "preflight" ELSE "claiming"]
    /\ UNCHANGED <<merchant, task, exec, runBound, poll, desk, crashes>>

\* The reads before the Agent's configuration is fetched.
Preflight(h) ==
    LET t == handler[h].task IN
    /\ handler[h].pc = "preflight"
    /\ task[t].owner = "agent"
    /\ task[t].version = handler[h].version
    /\ task[t].status = "PENDING"
    /\ handler' = [handler EXCEPT ![h].pc = "checked", ![h].gen = generation]
    /\ UNCHANGED <<merchant, task, exec, runBound, poll, desk, crashes>>

\* 409, 502 or 503: a check failed, the Agent has no binding or is not the one
\* that was bound, Core AI could not be asked about it.
Refuse(h) ==
    /\ handler[h].pc \in {"routing", "preflight", "checked", "claiming"}
    /\ handler' = [handler EXCEPT ![h] = IdleRequest]
    /\ UNCHANGED <<merchant, task, exec, runBound, poll, desk, crashes>>

\* Variant: the merchant is not looked at.
ClaimableAnywhere(h) ==
    LET t == handler[h].task IN
    /\ task[t].version = handler[h].version
    /\ task[t].status = "PENDING"
    /\ task[t].by = 0
    /\ UpstreamDone(t)
    /\ ~HasActiveExecution(t)

\* What both kinds of claim check again under the writer lock.
Claimable(h) ==
    LET t == handler[h].task IN
    /\ active
    /\ task[t].version = handler[h].version
    /\ task[t].status = "PENDING"
    /\ task[t].by = 0
    /\ UpstreamDone(t)
    /\ ~HasActiveExecution(t)

NewExecution(h, kind) ==
    LET t == handler[h].task IN
    [status |-> "DISPATCHING", task |-> t, kind |-> kind, def |-> task[t].def,
     gen |-> generation, call |-> handler[h].call, core |-> NoId,
     reviewed |-> "no", old |-> FALSE]

IsNextExecution(e) ==
    /\ exec[e].status = "absent"
    /\ \A f \in Execs : f < e => exec[f].status # "absent"

\* The claim: task, execution row, and what the request remembers of both.
Claim(h, e, kind, pc) ==
    LET t == handler[h].task IN
    /\ IsNextExecution(e)
    /\ Claimable(h)
    /\ HasRoom(t)
    /\ task' = [task EXCEPT ![t] = Moved(t, "PREPARING")]
    /\ exec' = [exec EXCEPT ![e] = NewExecution(h, kind)]
    /\ handler' = [handler EXCEPT ![h] =
                     [handler[h] EXCEPT !.pc = pc, !.version = @ + 1, !.gen = generation,
                                        !.exec = e]]
    /\ UNCHANGED <<merchant, runBound, poll, desk, crashes>>

ClaimCall(h, e) ==
    /\ handler[h].pc = "claiming"
    /\ Claim(h, e, "LLM_CALL", "calling")

ClaimAgent(h, e) ==
    /\ handler[h].pc = "checked"
    /\ task[handler[h].task].owner = "agent"
    /\ generation = handler[h].gen
    /\ ~HasUnsettledExecution(handler[h].task)
    /\ Claim(h, e, "AGENT", "triggering")

\* The LLM call returns a result that normalize_execution_output accepts or
\* rejects, is rejected itself, or leaves its outcome open (timeout, 5xx).
CallEnds(h) ==
    /\ handler[h].pc = "calling"
    /\ \E o \in {"result", "rejected", "ambiguous"} :
          handler' = [handler EXCEPT ![h].pc = "ended", ![h].outcome = o]
    /\ UNCHANGED <<merchant, task, exec, runBound, poll, desk, crashes>>

\* The Agent trigger answers with a run id, or fails in any way: whatever it
\* was, the outcome counts as ambiguous.
TriggerEnds(h) ==
    /\ handler[h].pc = "triggering"
    /\ \/ \E p \in ProviderIds :
             handler' = [handler EXCEPT ![h].pc = "ended", ![h].outcome = "started",
                                        ![h].id = p]
       \/ handler' = [handler EXCEPT ![h].pc = "ended", ![h].outcome = "ambiguous"]
    /\ UNCHANGED <<merchant, task, exec, runBound, poll, desk, crashes>>

\* Nothing that the claim rested on has changed.
ClaimHolds(h) ==
    /\ active
    /\ generation = handler[h].gen
    /\ task[handler[h].task].version = handler[h].version

\* The row is still the one this request dispatched.
Dispatched(h) ==
    /\ task[handler[h].task].status = "PREPARING"
    /\ exec[handler[h].exec].status = "DISPATCHING"

\* The end of an execution, with that of its task's preparation.
EndPreparation(e, s) ==
    LET t == exec[e].task IN
    /\ exec' = [exec EXCEPT ![e].status = s]
    /\ task' = [task EXCEPT ![t] =
                  Moved(t, IF s = "SUCCEEDED" THEN "AWAITING_APPROVAL" ELSE "NEEDS_ATTENTION")]

Finished(h) == handler' = [handler EXCEPT ![h] = IdleRequest]

\* The completing transaction of execute_task, and _finish_failed_dispatch.
Complete(h) ==
    /\ handler[h].pc = "ended"
    /\ handler[h].outcome # "started"
    /\ ClaimHolds(h)
    /\ Dispatched(h)
    /\ EndPreparation(handler[h].exec,
                      CASE handler[h].outcome = "result"   -> "SUCCEEDED"
                        [] handler[h].outcome = "rejected" -> "FAILED"
                        [] OTHER                           -> "UNKNOWN")
    /\ Finished(h)
    /\ UNCHANGED <<merchant, runBound, poll, desk, crashes>>

\* 409: what was computed is discarded, and the row is left to recovery.
Discard(h) ==
    /\ handler[h].pc = "ended"
    /\ handler[h].outcome # "started"
    /\ ~(ClaimHolds(h) /\ Dispatched(h))
    /\ Finished(h)
    /\ UNCHANGED <<merchant, task, exec, runBound, poll, desk, crashes>>

\* Binding does not ask whether the merchant is active, only whether it is in
\* the same lifecycle.
Bindable(h) ==
    /\ generation = handler[h].gen
    /\ task[handler[h].task].version = handler[h].version
    /\ Dispatched(h)
    /\ ~IdTaken(handler[h].id)

Bind(h) ==
    /\ handler[h].pc = "ended"
    /\ handler[h].outcome = "started"
    /\ Bindable(h)
    /\ exec' = [exec EXCEPT ![handler[h].exec] =
                  [@ EXCEPT !.status = "RUNNING", !.core = handler[h].id]]
    /\ Finished(h)
    /\ UNCHANGED <<merchant, task, runBound, poll, desk, crashes>>

\* The transaction is rolled back and the run id forgotten; the failure is
\* recorded in another one.
BindRefused(h) ==
    /\ handler[h].pc = "ended"
    /\ handler[h].outcome = "started"
    /\ ~Bindable(h)
    /\ handler' = [handler EXCEPT ![h].outcome = "ambiguous", ![h].id = NoId]
    /\ UNCHANGED <<merchant, task, exec, runBound, poll, desk, crashes>>

-----------------------------------------------------------------------------
(* The scheduler.                                                           *)

\* Fifteen minutes pass since dispatch_started_at.
Ages(e) ==
    /\ exec[e].status \in InProgress
    /\ ~exec[e].old
    /\ exec' = [exec EXCEPT ![e].old = TRUE]
    /\ UNCHANGED <<merchant, task, runBound, handler, poll, desk, crashes>>

\* What recovery wants of a dispatch before it gives it up.
Recoverable(e) ==
    LET t == exec[e].task IN
    /\ exec[e].status = "DISPATCHING"
    /\ exec[e].core = NoId
    /\ exec[e].old
    /\ task[t].status = "PREPARING"
    /\ active
    /\ EnvelopeCurrent(e)
    /\ exec[e].kind = "AGENT" => exec[e].gen = generation

\* _recover_stale_task_dispatches, for one of its candidates.
Recover(e) ==
    /\ Recoverable(e)
    /\ EndPreparation(e, "UNKNOWN")
    /\ UNCHANGED <<merchant, runBound, handler, poll, desk, crashes>>

\* poll_task_executions_once reads the running executions...
PollSelect(w, e) ==
    /\ poll[w].pc = "idle"
    /\ exec[e].status = "RUNNING"
    /\ exec[e].core # NoId
    /\ poll' = [poll EXCEPT ![w] = [IdlePass EXCEPT !.pc = "selected", !.exec = e]]
    /\ UNCHANGED <<merchant, task, exec, runBound, handler, desk, crashes>>

\* ...and for each of them, when its turn comes, the task it belongs to.
Claimed(e) ==
    /\ active
    /\ task[exec[e].task].status = "PREPARING"
    /\ exec[e].kind = "AGENT" => exec[e].gen = generation

PollRead(w) ==
    LET e == poll[w].exec
        t == exec[e].task
    IN  /\ poll[w].pc = "selected"
        /\ poll' = [poll EXCEPT ![w] =
                      IF Claimed(e)
                        THEN [@ EXCEPT !.pc = "asking", !.version = task[t].version,
                                       !.gen = generation]
                        ELSE IdlePass]
        /\ UNCHANGED <<merchant, task, exec, runBound, handler, desk, crashes>>

\* _task_execution_poll_is_stale: fifteen minutes of asking are enough.
Overdue(row) == IF row.old THEN "UNKNOWN" ELSE "none"

\* Variant: a run that is still active is waited for.
PatientVerdict(row, answer) ==
    CASE answer = "COMPLETED" -> IF row.kind = "AGENT" THEN "SUCCEEDED" ELSE "UNKNOWN"
      [] answer = "malformed" -> IF row.kind = "AGENT" THEN "FAILED" ELSE "UNKNOWN"
      [] answer = "ABORTED"   -> "FAILED"
      [] answer \in {"mismatch", "missing"} -> "UNKNOWN"
      [] answer \in {"active", "error"} -> "none"

\* What the poller makes of Core AI's answer.  "mismatch" is another Agent,
\* input or configuration, which only a poll of an Agent preparation notices;
\* a run of an earlier release is never reviewable, and has no deadline while
\* Core AI calls it active.
Verdict(row, answer) ==
    CASE answer = "COMPLETED" -> IF row.kind = "AGENT" THEN "SUCCEEDED" ELSE "UNKNOWN"
      [] answer = "malformed" -> IF row.kind = "AGENT" THEN "FAILED" ELSE "UNKNOWN"
      [] answer = "ABORTED"   -> "FAILED"
      [] answer = "missing"   -> "UNKNOWN"
      [] answer = "mismatch"  -> IF row.kind = "AGENT" THEN "UNKNOWN" ELSE Overdue(row)
      [] answer = "active"    -> IF row.kind = "AGENT" THEN Overdue(row) ELSE "none"
      [] answer = "error"     -> Overdue(row)

PollAsk(w) ==
    /\ poll[w].pc = "asking"
    /\ \E answer \in {"COMPLETED", "malformed", "ABORTED", "mismatch", "missing",
                      "active", "error"} :
          LET v == Verdict(exec[poll[w].exec], answer) IN
          poll' = [poll EXCEPT ![w] =
                     IF v = "none" THEN IdlePass
                                   ELSE [@ EXCEPT !.pc = "decided", !.verdict = v]]
    /\ UNCHANGED <<merchant, task, exec, runBound, handler, desk, crashes>>

\* Variant: the second look is at the task only.
StillPreparing(w) == task[exec[poll[w].exec].task].status = "PREPARING"

\* Nothing has changed since the poller read the task.
PollHolds(w) ==
    LET e == poll[w].exec IN
    /\ exec[e].status = "RUNNING"
    /\ task[exec[e].task].status = "PREPARING"
    /\ task[exec[e].task].version = poll[w].version
    /\ active
    /\ generation = poll[w].gen

\* The second transaction; if anything has changed it changes nothing, and the
\* next pass asks again.
PollCommit(w) ==
    /\ poll[w].pc = "decided"
    /\ IF PollHolds(w) THEN EndPreparation(poll[w].exec, poll[w].verdict)
                       ELSE UNCHANGED <<task, exec>>
    /\ poll' = [poll EXCEPT ![w] = IdlePass]
    /\ UNCHANGED <<merchant, runBound, handler, desk, crashes>>

-----------------------------------------------------------------------------
(* Operators.  Each decision carries the version, and a review also the     *)
(* execution and the checksum of its result, that the operator has seen.    *)

See(o, t) ==
    /\ desk[o] = NoView
    /\ task[t].status # "absent"
    /\ \E e \in 0..MaxExecutions :
          /\ IF e = 0 THEN \A f \in Execs : exec[f].task # t ELSE IsLatest(e, t)
          /\ desk' = [desk EXCEPT ![o] = [task |-> t, version |-> task[t].version,
                                          status |-> task[t].status, exec |-> e]]
    /\ UNCHANGED <<merchant, task, exec, runBound, handler, poll, crashes>>

\* Variant: the status is compared, the version is not.
SeenStatus(o) == desk[o].task # 0 /\ active /\ task[desk[o].task].status = desk[o].status

\* fetch_active_merchant and the comparison of expected_version.
Seen(o) == desk[o].task # 0 /\ active /\ task[desk[o].task].version = desk[o].version

\* The page is reloaded, after a 409 for instance.
Reload(o) ==
    /\ desk[o] # NoView
    /\ desk' = [desk EXCEPT ![o] = NoView]
    /\ UNCHANGED <<merchant, task, exec, runBound, handler, poll, crashes>>

\* What every decision does besides changing the task.
Decided(o) ==
    /\ desk' = [desk EXCEPT ![o] = NoView]
    /\ UNCHANGED <<merchant, runBound, handler, poll, crashes>>

\* patch_task: labels, note and free-text assignee, in any status.
Patch(o) ==
    LET t == desk[o].task IN
    /\ Seen(o)
    /\ HasRoom(t)
    /\ task' = [task EXCEPT ![t].version = @ + 1]
    /\ UNCHANGED exec
    /\ Decided(o)

\* assignment_lock_reason.
Assignable(t) ==
    /\ task[t].by = 0
    /\ task[t].status \in {"PENDING", "NEEDS_ATTENTION"}
    /\ ~HasUnsettledExecution(t)

\* Variant: an assignment is not a change of the task.
AssignedInPlace(t, who) == [task[t] EXCEPT !.owner = who]

Assigned(t, who) == [task[t] EXCEPT !.owner = who, !.version = @ + 1]

\* set_assignment; assigning the present assignee again changes nothing.
Assign(o, who) ==
    LET t == desk[o].task IN
    /\ Seen(o)
    /\ HasRoom(t)
    /\ Assignable(t)
    /\ who # task[t].owner
    /\ task' = [task EXCEPT ![t] = Assigned(t, who)]
    /\ UNCHANGED exec
    /\ Decided(o)

\* cancel_task.
Cancel(o) ==
    LET t == desk[o].task IN
    /\ Seen(o)
    /\ HasRoom(t)
    /\ ~HasActiveExecution(t)
    /\ "CANCELLED" \in Transitions[task[t].status]
    /\ task' = [task EXCEPT ![t] = Moved(t, "CANCELLED")]
    /\ UNCHANGED exec
    /\ Decided(o)

\* retry_preparation: a new attempt is authorized, not started.
Retry(o) ==
    LET t == desk[o].task IN
    /\ Seen(o)
    /\ HasRoom(t)
    /\ task[t].by = 0
    /\ task[t].status = "NEEDS_ATTENTION"
    /\ ~HasActiveExecution(t)
    /\ \E e \in Execs : IsLatest(e, t) /\ SafeRetryable(e)
    /\ task' = [task EXCEPT ![t] = Moved(t, "PENDING")]
    /\ UNCHANGED exec
    /\ Decided(o)

\* approve_task_execution and return_task_execution.
Review(o, decision, target) ==
    LET t == desk[o].task
        e == desk[o].exec
    IN  /\ Seen(o)
        /\ HasRoom(t)
        /\ task[t].status = "AWAITING_APPROVAL"
        /\ e # 0
        /\ IsLatest(e, t)
        /\ Reviewable(e)
        /\ exec' = [exec EXCEPT ![e].reviewed = decision]
        /\ task' = [task EXCEPT ![t] = Moved(t, target)]
        /\ Decided(o)

Approve(o) == Review(o, "approved", "DONE")
Return(o)  == Review(o, "returned", "PENDING")

\* _validate_replacement.
Replaceable(t) ==
    /\ task[t].by = 0
    /\ \/ task[t].status = "CANCELLED"
       \/ /\ task[t].status = "NEEDS_ATTENTION"
          /\ \E e \in Execs : IsLatest(e, t) /\ SafeRetryable(e)

\* Variant: the link alone says that the task is over.
Linked(t, u) == [task[t] EXCEPT !.by = u, !.version = @ + 1]

HandedOver(t, u) == [Moved(t, "CANCELLED") EXCEPT !.by = u]

\* create_task with replaces_task_id.
Replace(o, u, d) ==
    LET t == desk[o].task IN
    /\ Seen(o)
    /\ HasRoom(t)
    /\ Replaceable(t)
    /\ IsNextTask(u)
    /\ task' = [task EXCEPT ![t] = HandedOver(t, u),
                            ![u] = NewTask(d, {}, t)]
    /\ UNCHANGED exec
    /\ Decided(o)

-----------------------------------------------------------------------------

\* The process dies; the tables, and what operators have on their screens, stay.
Crash ==
    /\ crashes < MaxCrashes
    /\ crashes' = crashes + 1
    /\ handler' = [h \in Handlers |-> IdleRequest]
    /\ poll' = [w \in Pollers |-> IdlePass]
    /\ UNCHANGED <<merchant, task, exec, runBound, desk>>

AbsentTask(d) == [NewTask(d, {}, 0) EXCEPT !.status = "absent"]
AbsentExec(d) == [status |-> "absent", task |-> 0, kind |-> "LLM_CALL", def |-> d,
                  gen |-> 0, call |-> FALSE, core |-> NoId, reviewed |-> "no", old |-> FALSE]

\* A run of an earlier release in progress: its task is PREPARING and its
\* request is not of the preparation protocol.
LegacyRow(d, p) == [AbsentExec(d) EXCEPT !.status = "RUNNING", !.task = 1, !.kind = "LEGACY",
                                         !.core = p]

Init ==
    /\ active = TRUE
    /\ generation = 1
    /\ runBound = {}
    /\ handler = [h \in Handlers |-> IdleRequest]
    /\ poll = [w \in Pollers |-> IdlePass]
    /\ desk = [o \in Operators |-> NoView]
    /\ crashes = 0
    /\ \E d \in Definitions :
          \/ /\ task = [t \in Tasks |-> AbsentTask(d)]
             /\ exec = [e \in Execs |-> AbsentExec(d)]
          \/ /\ Legacy
             /\ task = [t \in Tasks |-> IF t = 1 THEN [NewTask(d, {}, 0) EXCEPT !.status = "PREPARING"]
                                                 ELSE AbsentTask(d)]
             /\ \E p \in ProviderIds :
                   exec = [e \in Execs |-> IF e = 1 THEN LegacyRow(d, p) ELSE AbsentExec(d)]

MerchantNext == Archive \/ Restore \/ \E p \in ProviderIds : RunBinds(p)

PlanNext ==
    \E t \in Tasks :
        \/ \E d \in Definitions, ups \in SUBSET Tasks : Create(t, d, ups) \/ Redefine(t, d, ups)
        \/ Drop(t)

HandlerNext(h) ==
    \/ \E t \in Tasks : Open(h, t)
    \/ Route(h) \/ Preflight(h) \/ Refuse(h)
    \/ \E e \in Execs : ClaimCall(h, e) \/ ClaimAgent(h, e)
    \/ CallEnds(h) \/ TriggerEnds(h)
    \/ Complete(h) \/ Discard(h) \/ Bind(h) \/ BindRefused(h)

PollNext(w) ==
    \/ \E e \in Execs : PollSelect(w, e)
    \/ PollRead(w) \/ PollAsk(w) \/ PollCommit(w)

DeskNext(o) ==
    \/ \E t \in Tasks : See(o, t)
    \/ Reload(o) \/ Patch(o)
    \/ \E who \in Owners : Assign(o, who)
    \/ Cancel(o) \/ Retry(o) \/ Approve(o) \/ Return(o)
    \/ \E u \in Tasks, d \in Definitions : Replace(o, u, d)

Next ==
    \/ MerchantNext
    \/ PlanNext
    \/ \E h \in Handlers : HandlerNext(h)
    \/ \E e \in Execs : Ages(e) \/ Recover(e)
    \/ \E w \in Pollers : PollNext(w)
    \/ \E o \in Operators : DeskNext(o)
    \/ Crash

Spec == Init /\ [][Next]_vars

-----------------------------------------------------------------------------
(* Safety.                                                                  *)

\* A task is PREPARING exactly while one of its executions is in progress, and
\* then only one is.  Claims, completions, recovery and polls change the two
\* tables together; cancellation, assignment and archiving ask only one of them.
PreparingIffActive ==
    \A t \in Tasks :
        LET running == {e \in Execs : exec[e].task = t /\ exec[e].status \in InProgress} IN
        IF task[t].status = "PREPARING" THEN \E e \in Execs : running = {e}
                                        ELSE running = {}

\* From the claim of a preparation to the review of its result the merchant
\* stays in the lifecycle the claim was made in: claims and archiving exclude
\* each other through the tables, not through the lifecycle tokens.
PreparationPinsLifecycle ==
    \A e \in Execs :
        LET t == exec[e].task IN
        /\ exec[e].kind # "LEGACY"
        /\ \/ exec[e].status \in InProgress
           \/ exec[e].status = "SUCCEEDED" /\ task[t].status = "AWAITING_APPROVAL" /\ IsLatest(e, t)
        => active /\ exec[e].gen = generation

\* What awaits approval can be reviewed: its newest attempt succeeded, for the
\* definition the task has, and nobody has reviewed it.  What is DONE was
\* approved so.  Revisions, late answers and recovery could each break this.
ReviewsMatchTasks ==
    \A t \in Tasks :
        /\ task[t].status = "AWAITING_APPROVAL" =>
              \E e \in Execs : IsLatest(e, t) /\ Reviewable(e)
        /\ task[t].status = "DONE" =>
              \E e \in Execs : /\ IsLatest(e, t)
                               /\ exec[e].status = "SUCCEEDED"
                               /\ exec[e].reviewed = "approved"
                               /\ exec[e].def = task[t].def

\* A task that has been started had every upstream task DONE, and still has.
\* Revisions may add edges, but only to tasks they may rewrite.
StartedAfterUpstream ==
    \A t \in Tasks :
        task[t].status \in {"PREPARING", "AWAITING_APPROVAL", "NEEDS_ATTENTION", "DONE"}
            => \A u \in task[t].ups : task[u].status = "DONE"

\* An execution in progress is of the kind its task's assignee asks for, and an
\* LLM call names the call.  The request looks the assignee up twice, both times
\* before its transaction; the version is what ties the three together.
ExecutorMatchesAssignee ==
    \A e \in Execs :
        exec[e].status \in InProgress =>
            /\ exec[e].kind = "LLM_CALL" =>
                  exec[e].call /\ task[exec[e].task].owner # "agent"
            /\ exec[e].kind = "AGENT" => task[exec[e].task].owner = "agent"

\* An attempt that may have left a run behind, and was not seen to succeed, is
\* the last of its task: "never retried", through assignment, cancellation and
\* replacement too.
NoBlindRepeat ==
    \A e \in Execs :
        /\ exec[e].kind \in {"AGENT", "LEGACY"}
        /\ exec[e].status \in {"FAILED", "UNKNOWN"}
        => IsLatest(e, exec[e].task)

\* A replaced task stays stopped, and the two links are inverse to each other.
ReplacedStaysStopped ==
    \A t, u \in Tasks :
        /\ task[t].by # 0 => task[t].status = "CANCELLED"
        /\ task[t].by = u <=> task[u].of = t

-----------------------------------------------------------------------------
(* Action properties.                                                       *)

\* Attempts are history: one that has ended keeps its end, its run id and the
\* review it got, whoever answers late.
AttemptsAreFinal ==
    [][\A e \in Execs :
          exec[e].status \in {"SUCCEEDED", "FAILED", "UNKNOWN"} =>
              /\ exec'[e].status = exec[e].status
              /\ exec'[e].core = exec[e].core
              /\ exec[e].reviewed # "no" => exec'[e].reviewed = exec[e].reviewed]_vars

\* A decision is about what the operator has seen: the task is in the status,
\* and at the attempt, that the screen showed.
DecisionsAreInformed ==
    [][\A o \in Operators :
          desk'[o] # desk[o] /\ task' # task =>
              LET t == desk[o].task IN
              /\ task[t].status = desk[o].status
              /\ IF desk[o].exec = 0 THEN \A e \in Execs : exec[e].task # t
                                     ELSE IsLatest(desk[o].exec, t)]_vars

-----------------------------------------------------------------------------
(* Liveness.                                                                *)

\* The scheduler keeps running (its loop catches every exception), visits every
\* row of its lists, and the clock advances.  Requests, operators, the plan and
\* Core AI owe nothing.
Fairness ==
    /\ \A e \in Execs : WF_vars(Ages(e)) /\ WF_vars(Recover(e))
    /\ \A w \in Pollers :
          /\ \A e \in Execs : SF_vars(PollSelect(w, e))
          /\ WF_vars(PollRead(w)) /\ WF_vars(PollAsk(w)) /\ WF_vars(PollCommit(w))

FairSpec == Spec /\ Fairness

\* No preparation is waited for without end, though the process may die, the
\* answer may be discarded and Core AI may call a run active for ever.  (A run
\* of an earlier release is waited for as long as Core AI calls it active.)
PreparationsResolve ==
    \A e \in Execs :
        (exec[e].status \in InProgress /\ exec[e].kind # "LEGACY")
            ~> exec[e].status \notin InProgress

-----------------------------------------------------------------------------
(* What all this promises: the workflow template.                           *)

Workflow == INSTANCE TaskWorkflow WITH
    status <- [t \in Tasks |-> task[t].status],
    def    <- [t \in Tasks |-> task[t].def]

ImplementsWorkflow == Workflow!Spec
=============================================================================
