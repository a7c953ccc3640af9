--------------------- MODULE TaskPreparationSafetyProofs ---------------------
(***************************************************************************)
(* What the tables of tasks and executions promise together, for any number *)
(* of tasks, executions, requests, scheduler loops, operators and restarts. *)
(***************************************************************************)
EXTENDS TaskPreparationTypeProofs

-----------------------------------------------------------------------------
(* The ways in which a step changes the two tables.  Every action is one of *)
(* them, so that an invariant of the tables is proved once for each way and *)
(* not for each action.                                                     *)

OnlyTask(t) == \A u \in Tasks : u # t => task'[u] = task[u]
OnlyExec(e) == \A f \in Execs : f # e => exec'[f] = exec[f]

Retryable(t) == \E e \in Execs : IsLatest(e, t) /\ SafeRetryable(e)

\* Revisions and operators write a task that exists, and no execution.
Touches(t) ==
    /\ active /\ UNCHANGED <<active, generation, exec>> /\ OnlyTask(t)
    /\ task[t].status # "absent"
    /\ task'[t].version = task[t].version + 1
    /\ task'[t].by = task[t].by /\ task'[t].of = task[t].of
    /\ task'[t].owner = task[t].owner \/ ~HasUnsettledExecution(t)
    /\ \/ task'[t].def = task[t].def /\ task'[t].ups = task[t].ups
       \/ task[t].status = "PENDING" /\ task'[t].status = "PENDING"
    /\ \/ task'[t].status = task[t].status
       \/ /\ task[t].status \in {"PENDING", "AWAITING_APPROVAL", "NEEDS_ATTENTION"}
          /\ task'[t].status = "CANCELLED"
       \/ /\ task[t].status = "NEEDS_ATTENTION" /\ task'[t].status = "PENDING"
          /\ Retryable(t)

\* A task comes to exist, as the replacement of another one unless of is 0.
IsNew(u, of) ==
    /\ task[u].status = "absent"
    /\ task'[u].status = "PENDING"
    /\ task'[u].by = 0 /\ task'[u].of = of

Adds(u) ==
    /\ active /\ UNCHANGED <<active, generation, exec>> /\ OnlyTask(u)
    /\ IsNew(u, 0)

Replaces(t, u) ==
    /\ active /\ UNCHANGED <<active, generation, exec>>
    /\ \A v \in Tasks : v # t /\ v # u => task'[v] = task[v]
    /\ task[t].status \in {"NEEDS_ATTENTION", "CANCELLED"} /\ task[t].by = 0
    /\ task'[t].status = "CANCELLED" /\ task'[t].by = u /\ task'[t].of = task[t].of
    /\ task'[t].version = task[t].version + 1
    /\ task'[t].def = task[t].def /\ task'[t].ups = task[t].ups
    /\ task'[t].owner = task[t].owner
    /\ IsNew(u, t)

\* A task moves on with one of its executions.
MovesOn(t, s) ==
    /\ active /\ UNCHANGED <<active, generation>> /\ OnlyTask(t)
    /\ task'[t].status = s /\ task'[t].version = task[t].version + 1
    /\ task'[t].def = task[t].def /\ task'[t].ups = task[t].ups
    /\ task'[t].owner = task[t].owner
    /\ task'[t].by = task[t].by /\ task'[t].of = task[t].of

\* An execution keeps what it was made with.
SameOrigin(e) ==
    /\ exec'[e].task = exec[e].task /\ exec'[e].kind = exec[e].kind
    /\ exec'[e].def = exec[e].def /\ exec'[e].gen = exec[e].gen
    /\ exec'[e].call = exec[e].call

Starts(t, e) ==
    /\ task[t].status = "PENDING" /\ MovesOn(t, "PREPARING")
    /\ UpstreamDone(t) /\ ~HasActiveExecution(t)
    /\ IsNextExecution(e) /\ OnlyExec(e)
    /\ exec'[e].status = "DISPATCHING" /\ exec'[e].task = t
    /\ exec'[e].def = task[t].def /\ exec'[e].gen = generation
    /\ exec'[e].core = NoId /\ exec'[e].reviewed = "no"
    /\ \/ exec'[e].kind = "LLM_CALL" /\ exec'[e].call /\ task[t].owner # "agent"
       \/ exec'[e].kind = "AGENT" /\ task[t].owner = "agent"

Finishes(t, e) ==
    /\ exec[e].status \in InProgress /\ exec[e].task = t /\ task[t].status = "PREPARING"
    /\ OnlyExec(e) /\ SameOrigin(e)
    /\ exec'[e].core = exec[e].core /\ exec'[e].reviewed = exec[e].reviewed
    /\ \/ exec'[e].status = "SUCCEEDED" /\ MovesOn(t, "AWAITING_APPROVAL")
          /\ \/ exec[e].kind = "LLM_CALL" /\ exec[e].status = "DISPATCHING"
             \/ exec[e].kind = "AGENT" /\ exec[e].status = "RUNNING"
       \/ exec'[e].status \in {"FAILED", "UNKNOWN"} /\ MovesOn(t, "NEEDS_ATTENTION")

Reviews(t, e) ==
    /\ task[t].status = "AWAITING_APPROVAL"
    /\ IsLatest(e, t) /\ Reviewable(e)
    /\ OnlyExec(e) /\ SameOrigin(e)
    /\ exec'[e].status = exec[e].status /\ exec'[e].core = exec[e].core
    /\ \/ exec'[e].reviewed = "approved" /\ MovesOn(t, "DONE")
       \/ exec'[e].reviewed = "returned" /\ MovesOn(t, "PENDING")

\* A run is bound to the execution, or fifteen minutes have passed.
Progresses(e) ==
    /\ UNCHANGED <<active, generation, task>>
    /\ exec[e].status \in InProgress /\ OnlyExec(e) /\ SameOrigin(e)
    /\ exec'[e].reviewed = exec[e].reviewed
    /\ \/ exec'[e].status = exec[e].status /\ exec'[e].core = exec[e].core
       \/ exec'[e].status = "RUNNING" /\ exec'[e].core # NoId

\* The tables stay; the merchant may be archived or restored.
Stays ==
    /\ UNCHANGED <<task, exec>>
    /\ \/ UNCHANGED <<active, generation>>
       \/ active /\ ~HasTaskWork
       \/ ~active

TableStep ==
    \/ Stays
    \/ \E t \in Tasks : Touches(t) \/ Adds(t)
    \/ \E t, u \in Tasks : Replaces(t, u)
    \/ \E t \in Tasks, e \in Execs : Starts(t, e) \/ Finishes(t, e) \/ Reviews(t, e)
    \/ \E e \in Execs : Progresses(e)

-----------------------------------------------------------------------------
(* What requests and polls remember about the tables.                       *)

\* Until its claim a request knows the assignee for the version it names; from
\* then on, the kind of its execution.
RequestFits(r) ==
    /\ r.pc \in {"routing", "preflight", "checked", "claiming"} =>
          /\ task[r.task].status # "absent"
          /\ r.version <= task[r.task].version
          /\ r.version = task[r.task].version =>
                /\ r.call <=> task[r.task].owner # "agent"
                /\ r.pc = "claiming" => task[r.task].owner # "agent"
    /\ r.pc \in Holding => exec[r.exec].status # "absent"
    /\ r.pc = "calling" => exec[r.exec].kind = "LLM_CALL"
    /\ r.pc = "triggering" => exec[r.exec].kind = "AGENT"
    /\ r.pc = "ended" /\ r.outcome = "result" => exec[r.exec].kind = "LLM_CALL"
    /\ r.pc = "ended" /\ r.outcome = "started" =>
          exec[r.exec].kind = "AGENT" /\ r.id # NoId

RequestInv == \A h \in Handlers : RequestFits(handler[h])

\* Only a poll of an Agent's run can find that it succeeded.
PollInv ==
    \A w \in Pollers :
        poll[w].pc = "decided" /\ poll[w].verdict = "SUCCEEDED" =>
            exec[poll[w].exec].kind = "AGENT"

\* While the version an operator has seen is the task's, so are the status and
\* the attempts.
Shown(e, t) == IF e = 0 THEN \A f \in Execs : exec[f].task # t ELSE IsLatest(e, t)

ViewFits(v) ==
    v.task # 0 =>
        /\ task[v.task].status # "absent"
        /\ v.version <= task[v.task].version
        /\ v.version = task[v.task].version =>
              v.status = task[v.task].status /\ Shown(v.exec, v.task)

DeskInv == \A o \in Operators : ViewFits(desk[o])

-----------------------------------------------------------------------------
(* Every action is such a step.                                             *)

LEMMA MovedFields ==
    ASSUME TypeInv, NEW t \in Tasks, NEW s \in TaskStatuses
    PROVE  /\ Moved(t, s).status = s /\ Moved(t, s).version = task[t].version + 1
           /\ Moved(t, s).def = task[t].def /\ Moved(t, s).ups = task[t].ups
           /\ Moved(t, s).owner = task[t].owner
           /\ Moved(t, s).by = task[t].by /\ Moved(t, s).of = task[t].of
  BY TaskRowOf DEF Moved, TaskRow

\* One row of tasks is written.
LEMMA WritesTask ==
    ASSUME TypeInv, NEW t \in Tasks, NEW row, task' = [task EXCEPT ![t] = row]
    PROVE  task'[t] = row /\ OnlyTask(t)
  BY DEF OnlyTask, TypeInv, TypeOK

LEMMA WritesExec ==
    ASSUME TypeInv, NEW e \in Execs, NEW row, exec' = [exec EXCEPT ![e] = row]
    PROVE  exec'[e] = row /\ OnlyExec(e)
  BY DEF OnlyExec, TypeInv, TypeOK

LEMMA MovesTask ==
    ASSUME TypeInv, active, UNCHANGED <<active, generation>>, NEW t \in Tasks,
           NEW s \in TaskStatuses, task' = [task EXCEPT ![t] = Moved(t, s)]
    PROVE  MovesOn(t, s)
  <1>1. task'[t] = Moved(t, s) /\ OnlyTask(t)
    BY WritesTask
  <1>. QED  BY <1>1, MovedFields DEF MovesOn

LEMMA PlanStep == TypeInv /\ PlanNext => TableStep
  <1>. SUFFICES ASSUME TypeInv, PlanNext PROVE TableStep
    OBVIOUS
  <1>1. ASSUME NEW t \in Tasks, NEW d \in Definitions, NEW ups \in SUBSET Tasks, Create(t, d, ups)
        PROVE  Adds(t)
    <2>1. task'[t] = NewTask(d, ups, 0) /\ OnlyTask(t)
      BY <1>1, WritesTask DEF Create
    <2>. QED  BY <1>1, <2>1 DEF Create, IsNextTask, Adds, IsNew, NewTask, merchant
  <1>2. ASSUME NEW t \in Tasks, NEW d \in Definitions, NEW ups \in SUBSET Tasks,
               Redefine(t, d, ups)
        PROVE  Touches(t)
    <2>. DEFINE row == [task[t] EXCEPT !.def = d, !.ups = ups, !.version = @ + 1]
    <2>1. task' = [task EXCEPT ![t] = row]
      BY <1>2 DEF Redefine
    <2>2. /\ row.version = task[t].version + 1 /\ row.status = task[t].status
          /\ row.by = task[t].by /\ row.of = task[t].of /\ row.owner = task[t].owner
      BY TaskRowOf DEF TaskRow
    <2>. HIDE DEF row
    <2>3. task'[t] = row /\ OnlyTask(t)
      BY <2>1, WritesTask
    <2>. QED  BY <1>2, <2>2, <2>3 DEF Redefine, Mutable, Touches, merchant
  <1>3. ASSUME NEW t \in Tasks, Drop(t) PROVE Touches(t)
    <2>1. task'[t] = Moved(t, "CANCELLED") /\ OnlyTask(t)
      BY <1>3, WritesTask DEF Drop
    <2>. QED  BY <1>3, <2>1, MovedFields DEF Drop, Mutable, Touches, merchant, TaskStatuses
  <1>. QED  BY <1>1, <1>2, <1>3 DEF PlanNext, TableStep

LEMMA DeskStep ==
    ASSUME TypeInv, PreparingIffActive, DeskInv, NEW o \in Operators, DeskNext(o)
    PROVE  TableStep
  <1>. DEFINE t == desk[o].task
              e == desk[o].exec
  <1>1. ASSUME (\E u \in Tasks : See(o, u)) \/ Reload(o) PROVE Stays
    BY <1>1 DEF See, Reload, Stays, merchant
  <1>2. ASSUME Seen(o), Decided(o)
        PROVE  t \in Tasks /\ active /\ UNCHANGED <<active, generation>>
               /\ task[t].status # "absent"
    BY <1>2, DeskOf DEF Seen, Decided, merchant, DeskInv, ViewFits
  <1>3. ASSUME Patch(o) PROVE t \in Tasks /\ Touches(t)
    <2>0. t \in Tasks /\ active /\ UNCHANGED <<active, generation, exec>>
          /\ task[t].status # "absent"
      BY <1>2, <1>3 DEF Patch
    <2>. DEFINE row == [task[t] EXCEPT !.version = @ + 1]
    <2>1. task' = [task EXCEPT ![t] = row]
      BY <1>3 DEF Patch
    <2>2. /\ row.version = task[t].version + 1 /\ row.status = task[t].status
          /\ row.by = task[t].by /\ row.of = task[t].of /\ row.owner = task[t].owner
          /\ row.def = task[t].def /\ row.ups = task[t].ups
      BY <2>0, TaskRowOf DEF TaskRow
    <2>3. task'[t] = row /\ OnlyTask(t)
      <3>. HIDE DEF row, t
      <3>. QED  BY <2>0, <2>1, WritesTask
    <2>. HIDE DEF row, t
    <2>. QED  BY <2>0, <2>2, <2>3 DEF Touches
  <1>4. ASSUME NEW who \in Owners, Assign(o, who) PROVE t \in Tasks /\ Touches(t)
    <2>0. t \in Tasks /\ active /\ UNCHANGED <<active, generation, exec>>
          /\ task[t].status # "absent"
      BY <1>2, <1>4 DEF Assign
    <2>. DEFINE row == [task[t] EXCEPT !.owner = who, !.version = @ + 1]
    <2>1. task' = [task EXCEPT ![t] = row] /\ ~HasUnsettledExecution(t)
      BY <1>4 DEF Assign, Assigned, Assignable
    <2>2. /\ row.version = task[t].version + 1 /\ row.status = task[t].status
          /\ row.by = task[t].by /\ row.of = task[t].of
          /\ row.def = task[t].def /\ row.ups = task[t].ups
      BY <2>0, TaskRowOf DEF TaskRow
    <2>3. task'[t] = row /\ OnlyTask(t)
      <3>. HIDE DEF row, t
      <3>. QED  BY <2>0, <2>1, WritesTask
    <2>. HIDE DEF row, t
    <2>. QED  BY <2>0, <2>1, <2>2, <2>3 DEF Touches
  <1>5. ASSUME Cancel(o) PROVE t \in Tasks /\ Touches(t)
    <2>0. t \in Tasks /\ active /\ UNCHANGED <<active, generation, exec>>
          /\ task[t].status # "absent"
      BY <1>2, <1>5 DEF Cancel
    <2>1. task' = [task EXCEPT ![t] = Moved(t, "CANCELLED")] /\ ~HasActiveExecution(t)
          /\ "CANCELLED" \in Transitions[task[t].status]
      BY <1>5 DEF Cancel
    <2>2. task[t].status \in {"PENDING", "AWAITING_APPROVAL", "NEEDS_ATTENTION"}
      <3>1. task[t].status \in {"PENDING", "PREPARING", "AWAITING_APPROVAL", "NEEDS_ATTENTION"}
        BY <2>0, <2>1, TaskRowOf DEF Transitions, TaskStatuses
      <3>2. task[t].status # "PREPARING"
        BY <2>0, <2>1 DEF PreparingIffActive, HasActiveExecution
      <3>. QED  BY <3>1, <3>2
    <2>3. MovesOn(t, "CANCELLED")
      BY <2>0, <2>1, MovesTask DEF TaskStatuses
    <2>. HIDE DEF t
    <2>. QED  BY <2>0, <2>2, <2>3 DEF MovesOn, Touches
  <1>6. ASSUME Retry(o) PROVE t \in Tasks /\ Touches(t)
    <2>0. t \in Tasks /\ active /\ UNCHANGED <<active, generation, exec>>
          /\ task[t].status = "NEEDS_ATTENTION" /\ Retryable(t)
      BY <1>2, <1>6 DEF Retry, Retryable
    <2>1. task' = [task EXCEPT ![t] = Moved(t, "PENDING")]
      BY <1>6 DEF Retry
    <2>2. MovesOn(t, "PENDING")
      BY <2>0, <2>1, MovesTask DEF TaskStatuses
    <2>. HIDE DEF t
    <2>. QED  BY <2>0, <2>2 DEF MovesOn, Touches
  <1>7. ASSUME NEW decision, NEW target \in TaskStatuses, Review(o, decision, target),
               \/ decision = "approved" /\ target = "DONE"
               \/ decision = "returned" /\ target = "PENDING"
        PROVE  t \in Tasks /\ e \in Execs /\ Reviews(t, e)
    <2>0. t \in Tasks /\ active /\ UNCHANGED <<active, generation>> /\ e \in Execs
      BY <1>2, <1>7, DeskOf DEF Review
    <2>1. /\ task' = [task EXCEPT ![t] = Moved(t, target)]
          /\ task[t].status = "AWAITING_APPROVAL" /\ IsLatest(e, t) /\ Reviewable(e)
      BY <1>7 DEF Review
    <2>2. MovesOn(t, target)
      BY <2>0, <2>1, MovesTask
    <2>. DEFINE row == [exec[e] EXCEPT !.reviewed = decision]
    <2>3. exec' = [exec EXCEPT ![e] = row]
      BY <1>7 DEF Review
    <2>4. exec[e] \in ExecRow
      BY <2>0, PendingRowOf
    <2>5. /\ row.status = exec[e].status /\ row.core = exec[e].core /\ row.reviewed = decision
          /\ row.task = exec[e].task /\ row.kind = exec[e].kind /\ row.def = exec[e].def
          /\ row.gen = exec[e].gen /\ row.call = exec[e].call
      BY <2>4 DEF ExecRow
    <2>6. exec'[e] = row /\ OnlyExec(e)
      <3>. HIDE DEF row, e
      <3>. QED  BY <2>0, <2>3, WritesExec
    <2>. HIDE DEF row, e, t
    <2>. QED  BY <1>7, <2>0, <2>1, <2>2, <2>5, <2>6 DEF Reviews, SameOrigin
  <1>8. ASSUME NEW u \in Tasks, NEW d \in Definitions, Replace(o, u, d)
        PROVE  t \in Tasks /\ Replaces(t, u)
    <2>0. t \in Tasks /\ active /\ UNCHANGED <<active, generation, exec>>
          /\ task[t].status # "absent"
      BY <1>2, <1>8 DEF Replace
    <2>1. /\ task' = [task EXCEPT ![t] = HandedOver(t, u), ![u] = NewTask(d, {}, t)]
          /\ task[u].status = "absent"
          /\ task[t].by = 0 /\ task[t].status \in {"NEEDS_ATTENTION", "CANCELLED"}
      BY <1>8 DEF Replace, Replaceable, IsNextTask
    <2>2. task'[t] = HandedOver(t, u) /\ task'[u] = NewTask(d, {}, t)
          /\ \A v \in Tasks : v # t /\ v # u => task'[v] = task[v]
      BY <2>0, <2>1 DEF TypeInv, TypeOK
    <2>3. "CANCELLED" \in TaskStatuses
      BY DEF TaskStatuses
    <2>. DEFINE m == Moved(t, "CANCELLED")
    <2>4. /\ m \in TaskRow /\ m.status = "CANCELLED" /\ m.version = task[t].version + 1
          /\ m.def = task[t].def /\ m.ups = task[t].ups /\ m.owner = task[t].owner
          /\ m.of = task[t].of
      BY <2>0, <2>3, MovedFields, MovedType
    <2>. HIDE DEF m
    <2>5. [m EXCEPT !.by = u].by = u /\ [m EXCEPT !.by = u].status = m.status
          /\ [m EXCEPT !.by = u].version = m.version /\ [m EXCEPT !.by = u].def = m.def
          /\ [m EXCEPT !.by = u].ups = m.ups /\ [m EXCEPT !.by = u].owner = m.owner
          /\ [m EXCEPT !.by = u].of = m.of
      BY <2>4 DEF TaskRow
    <2>6. HandedOver(t, u) = [m EXCEPT !.by = u]
      BY DEF HandedOver, m
    <2>7. IsNew(u, t)
      BY <2>1, <2>2 DEF IsNew, NewTask
    <2>. HIDE DEF t
    <2>. QED  BY <2>0, <2>1, <2>2, <2>4, <2>5, <2>6, <2>7 DEF Replaces
  <1>9. ASSUME Approve(o) \/ Return(o) PROVE \E v \in Tasks, f \in Execs : Reviews(v, f)
    BY <1>7, <1>9 DEF Approve, Return, TaskStatuses
  <1>. QED  BY <1>1, <1>3, <1>4, <1>5, <1>6, <1>8, <1>9 DEF DeskNext, TableStep

\* Ending a preparation that is in progress, by whoever is entitled to.
LEMMA EndStep ==
    ASSUME TypeInv, PreparingIffActive, active, UNCHANGED <<active, generation>>,
           NEW e \in Execs, exec[e].status \in InProgress, NEW s \in Ended,
           EndPreparation(e, s),
           s = "SUCCEEDED" => \/ exec[e].kind = "LLM_CALL" /\ exec[e].status = "DISPATCHING"
                              \/ exec[e].kind = "AGENT" /\ exec[e].status = "RUNNING"
    PROVE  exec[e].task \in Tasks /\ Finishes(exec[e].task, e)
  <1>. DEFINE t == exec[e].task
              goal == IF s = "SUCCEEDED" THEN "AWAITING_APPROVAL" ELSE "NEEDS_ATTENTION"
              row == [exec[e] EXCEPT !.status = s]
  <1>1. t \in Tasks /\ exec[e] \in ExecRow
    BY PendingRowOf DEF InProgress
  <1>2. task[t].status = "PREPARING"
    BY <1>1 DEF PreparingIffActive
  <1>3. MovesOn(t, goal)
    <2>1. task' = [task EXCEPT ![t] = Moved(t, goal)] /\ goal \in TaskStatuses
      BY DEF EndPreparation, TaskStatuses
    <2>. HIDE DEF t, goal
    <2>. QED  BY <1>1, <2>1, MovesTask
  <1>4. /\ row.status = s /\ row.core = exec[e].core /\ row.reviewed = exec[e].reviewed
        /\ row.task = exec[e].task /\ row.kind = exec[e].kind /\ row.def = exec[e].def
        /\ row.gen = exec[e].gen /\ row.call = exec[e].call
    BY <1>1 DEF ExecRow
  <1>5. exec'[e] = row /\ OnlyExec(e)
    <2>1. exec' = [exec EXCEPT ![e] = row]
      BY DEF EndPreparation
    <2>. HIDE DEF row
    <2>. QED  BY <2>1, WritesExec
  <1>6. \/ goal = "AWAITING_APPROVAL" /\ s = "SUCCEEDED"
        \/ goal = "NEEDS_ATTENTION" /\ s \in {"FAILED", "UNKNOWN"}
    <2>1. CASE s = "SUCCEEDED"
      BY <2>1
    <2>2. CASE s # "SUCCEEDED"
      BY <2>2 DEF Ended
    <2>. QED  BY <2>1, <2>2
  <1>. HIDE DEF row, goal
  <1>. QED  BY <1>1, <1>2, <1>3, <1>4, <1>5, <1>6 DEF Finishes, SameOrigin

LEMMA ClaimStep ==
    ASSUME TypeInv, NEW h \in Handlers, NEW e \in Execs, NEW kind \in {"LLM_CALL", "AGENT"},
           NEW pc, handler[h].pc # "idle", Claim(h, e, kind, pc),
           \/ kind = "LLM_CALL" /\ handler[h].call /\ task[handler[h].task].owner # "agent"
           \/ kind = "AGENT" /\ task[handler[h].task].owner = "agent"
    PROVE  handler[h].task \in Tasks /\ Starts(handler[h].task, e)
  <1>. DEFINE t == handler[h].task
              row == NewExecution(h, kind)
  <1>1. t \in Tasks
    BY RequestOf
  <1>2. /\ active /\ UNCHANGED <<active, generation>> /\ task[t].status = "PENDING"
        /\ UpstreamDone(t) /\ ~HasActiveExecution(t) /\ IsNextExecution(e)
    BY DEF Claim, Claimable, merchant
  <1>3. MovesOn(t, "PREPARING")
    BY <1>1, <1>2, MovesTask DEF Claim, TaskStatuses
  <1>4. exec'[e] = row /\ OnlyExec(e)
    BY WritesExec DEF Claim
  <1>5. /\ row.status = "DISPATCHING" /\ row.task = t /\ row.def = task[t].def
        /\ row.gen = generation /\ row.core = NoId /\ row.reviewed = "no"
        /\ row.kind = kind /\ row.call = handler[h].call
    BY DEF NewExecution
  <1>. HIDE DEF row
  <1>. QED  BY <1>1, <1>2, <1>3, <1>4, <1>5 DEF Starts

LEMMA RequestStep ==
    ASSUME TypeInv, PreparingIffActive, RequestInv, NEW h \in Handlers, HandlerNext(h)
    PROVE  TableStep
  <1>1. ASSUME \/ \E t \in Tasks : Open(h, t)
               \/ Route(h) \/ Preflight(h) \/ Refuse(h)
               \/ CallEnds(h) \/ TriggerEnds(h) \/ Discard(h) \/ BindRefused(h)
        PROVE  Stays
    BY <1>1 DEF Open, Route, Preflight, Refuse, CallEnds, TriggerEnds, Discard, BindRefused,
                Stays, merchant
  <1>2. ASSUME NEW e \in Execs, ClaimCall(h, e)
        PROVE  \E t \in Tasks : Starts(t, e)
    <2>1. handler[h].pc = "claiming" /\ Claim(h, e, "LLM_CALL", "calling")
      BY <1>2 DEF ClaimCall
    <2>2. task[handler[h].task].version = handler[h].version
      BY <2>1 DEF Claim, Claimable
    <2>3. handler[h].call /\ task[handler[h].task].owner # "agent"
      BY <2>1, <2>2 DEF RequestInv, RequestFits
    <2>. QED  BY <2>1, <2>3, ClaimStep
  <1>3. ASSUME NEW e \in Execs, ClaimAgent(h, e)
        PROVE  \E t \in Tasks : Starts(t, e)
    <2>1. handler[h].pc = "checked" /\ Claim(h, e, "AGENT", "triggering")
          /\ task[handler[h].task].owner = "agent"
      BY <1>3 DEF ClaimAgent
    <2>. QED  BY <2>1, ClaimStep
  <1>4. ASSUME Complete(h) PROVE \E t \in Tasks, e \in Execs : Finishes(t, e)
    <2>. DEFINE e == handler[h].exec
    <2>1. e \in Execs /\ exec[e].status = "DISPATCHING" /\ exec[e].status \in InProgress
          /\ active /\ UNCHANGED <<active, generation>>
      BY <1>4, RequestOf DEF Complete, Dispatched, ClaimHolds, Holding, InProgress, merchant
    <2>2. PICK s \in Ended : /\ EndPreparation(e, s)
                             /\ s = "SUCCEEDED" => handler[h].outcome = "result"
      BY <1>4 DEF Complete, Ended
    <2>3. s = "SUCCEEDED" => exec[e].kind = "LLM_CALL"
      BY <1>4, <2>2 DEF Complete, RequestInv, RequestFits, Holding
    <2>. HIDE DEF e
    <2>. QED  BY <2>1, <2>2, <2>3, EndStep
  <1>5. ASSUME Bind(h) PROVE \E e \in Execs : Progresses(e)
    <2>. DEFINE e == handler[h].exec
                row == [exec[e] EXCEPT !.status = "RUNNING", !.core = handler[h].id]
    <2>1. e \in Execs /\ exec[e].status \in InProgress /\ UNCHANGED <<active, generation, task>>
      BY <1>5, RequestOf DEF Bind, Bindable, Dispatched, Holding, InProgress, merchant
    <2>2. handler[h].id # NoId
      BY <1>5 DEF Bind, RequestInv, RequestFits
    <2>3. exec[e] \in ExecRow
      BY <2>1, PendingRowOf
    <2>4. /\ row.status = "RUNNING" /\ row.core = handler[h].id
          /\ row.reviewed = exec[e].reviewed
          /\ row.task = exec[e].task /\ row.kind = exec[e].kind /\ row.def = exec[e].def
          /\ row.gen = exec[e].gen /\ row.call = exec[e].call
      BY <2>3 DEF ExecRow
    <2>5. exec' = [exec EXCEPT ![e] = row]
      BY <1>5 DEF Bind
    <2>. HIDE DEF row, e
    <2>6. exec'[e] = row /\ OnlyExec(e)
      BY <2>1, <2>5, WritesExec
    <2>. QED  BY <2>1, <2>2, <2>4, <2>6 DEF Progresses, SameOrigin
  <1>. QED  BY <1>1, <1>2, <1>3, <1>4, <1>5 DEF HandlerNext, TableStep

LEMMA RecoveryStep ==
    ASSUME TypeInv, PreparingIffActive, NEW e \in Execs, Ages(e) \/ Recover(e)
    PROVE  TableStep
  <1>1. ASSUME Ages(e) PROVE Progresses(e)
    <2>. DEFINE row == [exec[e] EXCEPT !.old = TRUE]
    <2>1. exec' = [exec EXCEPT ![e] = row] /\ exec[e].status \in InProgress
          /\ UNCHANGED <<active, generation, task>>
      BY <1>1 DEF Ages, merchant
    <2>2. exec[e] \in ExecRow
      BY PendingRowOf
    <2>3. /\ row.status = exec[e].status /\ row.core = exec[e].core
          /\ row.reviewed = exec[e].reviewed
          /\ row.task = exec[e].task /\ row.kind = exec[e].kind /\ row.def = exec[e].def
          /\ row.gen = exec[e].gen /\ row.call = exec[e].call
      BY <2>2 DEF ExecRow
    <2>. HIDE DEF row
    <2>4. exec'[e] = row /\ OnlyExec(e)
      BY <2>1, WritesExec
    <2>. QED  BY <2>1, <2>3, <2>4 DEF Progresses, SameOrigin
  <1>2. ASSUME Recover(e) PROVE \E t \in Tasks : Finishes(t, e)
    <2>1. /\ active /\ UNCHANGED <<active, generation>> /\ exec[e].status \in InProgress
          /\ "UNKNOWN" \in Ended /\ EndPreparation(e, "UNKNOWN")
      BY <1>2 DEF Recover, Recoverable, InProgress, Ended, merchant
    <2>. QED  BY <2>1, EndStep
  <1>. QED  BY <1>1, <1>2 DEF TableStep

LEMMA PassStep ==
    ASSUME TypeInv, PreparingIffActive, PollInv, NEW w \in Pollers, PollNext(w)
    PROVE  TableStep
  <1>1. ASSUME \/ \E e \in Execs : PollSelect(w, e)
               \/ PollRead(w) \/ PollAsk(w)
               \/ PollCommit(w) /\ ~PollHolds(w)
        PROVE  Stays
    BY <1>1 DEF PollSelect, PollRead, PollAsk, PollCommit, Stays, merchant
  <1>2. ASSUME PollCommit(w), PollHolds(w) PROVE \E t \in Tasks, e \in Execs : Finishes(t, e)
    <2>. DEFINE e == poll[w].exec
                s == poll[w].verdict
    <2>1. /\ e \in Execs /\ s \in Ended /\ EndPreparation(e, s)
          /\ exec[e].status = "RUNNING" /\ exec[e].status \in InProgress
          /\ active /\ UNCHANGED <<active, generation>>
      BY <1>2, PassOf DEF PollCommit, PollHolds, InProgress, merchant
    <2>2. s = "SUCCEEDED" => exec[e].kind = "AGENT"
      BY <1>2 DEF PollCommit, PollInv
    <2>. HIDE DEF e, s
    <2>. QED  BY <2>1, <2>2, EndStep
  <1>. QED  BY <1>1, <1>2 DEF PollNext, TableStep

LEMMA StepKinds ==
    ASSUME TypeInv, PreparingIffActive, RequestInv, PollInv, DeskInv, [Next]_vars
    PROVE  TableStep
  <1>1. ASSUME MerchantNext \/ Crash \/ UNCHANGED vars PROVE Stays
    BY <1>1 DEF MerchantNext, Archive, Restore, RunBinds, Crash, Stays, merchant, vars
  <1>. QED
    BY <1>1, PlanStep, RequestStep, RecoveryStep, PassStep, DeskStep DEF Next, TableStep

-----------------------------------------------------------------------------
(* What requests, polls and operators remember stays true, or is about an   *)
(* earlier version.                                                         *)

\* No row is forgotten, an execution keeps its task and kind, and a task keeps
\* its version only if it and the set of its executions stay the same.
Forward ==
    /\ \A e \in Execs :
          exec[e].status # "absent" =>
              /\ exec'[e].status # "absent"
              /\ exec'[e].task = exec[e].task /\ exec'[e].kind = exec[e].kind
    /\ \A t \in Tasks :
          task[t].status # "absent" =>
              /\ task'[t].status # "absent"
              /\ \/ task'[t].version > task[t].version
                 \/ /\ task'[t] = task[t]
                    /\ \A e \in Execs : exec'[e].task = t <=> exec[e].task = t

LEMMA Versions ==
    ASSUME TypeInv
    PROVE  \A t \in Tasks : task[t].version \in Nat /\ task[t].version + 1 > task[t].version
  <1>1. \A t \in Tasks : task[t].version \in Nat
    BY TaskRowOf
  <1>. QED  BY <1>1

LEMMA TableForward ==
    ASSUME TypeInv, TableStep
    PROVE  Forward
  <1>1. CASE Stays
    BY <1>1 DEF Stays, Forward
  <1>2. ASSUME NEW t \in Tasks, Touches(t) PROVE Forward
    <2>1. task'[t].status # "absent"
      BY <1>2 DEF Touches
    <2>2. exec' = exec /\ task'[t].version > task[t].version
          /\ \A u \in Tasks : u # t => task'[u] = task[u]
      BY <1>2, Versions DEF Touches, OnlyTask
    <2>. QED  BY <2>1, <2>2 DEF Forward
  <1>3. ASSUME NEW t \in Tasks, Adds(t) PROVE Forward
    BY <1>3 DEF Adds, IsNew, OnlyTask, Forward
  <1>4. ASSUME NEW t \in Tasks, NEW u \in Tasks, Replaces(t, u) PROVE Forward
    <2>1. exec' = exec /\ task'[t].version > task[t].version /\ task'[t].status # "absent"
          /\ task[u].status = "absent"
          /\ \A v \in Tasks : v # t /\ v # u => task'[v] = task[v]
      BY <1>4, Versions DEF Replaces, IsNew
    <2>. QED  BY <2>1 DEF Forward
  <1>5. ASSUME NEW t \in Tasks, NEW e \in Execs, Starts(t, e) PROVE Forward
    <2>1. /\ task'[t].version > task[t].version /\ task'[t].status # "absent"
          /\ \A u \in Tasks : u # t => task'[u] = task[u]
      BY <1>5, Versions DEF Starts, MovesOn, OnlyTask
    <2>2. /\ exec[e].status = "absent" /\ exec[e].task \notin Tasks /\ exec'[e].task = t
          /\ \A f \in Execs : f # e => exec'[f] = exec[f]
      BY <1>5, PendingRowOf DEF Starts, IsNextExecution, OnlyExec
    <2>. QED  BY <2>1, <2>2 DEF Forward
  <1>6. ASSUME NEW t \in Tasks, NEW e \in Execs, Finishes(t, e) \/ Reviews(t, e) PROVE Forward
    <2>1. /\ task'[t].version > task[t].version /\ task'[t].status # "absent"
          /\ \A u \in Tasks : u # t => task'[u] = task[u]
      BY <1>6, Versions DEF Finishes, Reviews, MovesOn, OnlyTask
    <2>2. /\ exec'[e].task = exec[e].task /\ exec'[e].kind = exec[e].kind
          /\ exec[e].status # "absent" => exec'[e].status # "absent"
          /\ \A f \in Execs : f # e => exec'[f] = exec[f]
      BY <1>6 DEF Finishes, Reviews, SameOrigin, OnlyExec
    <2>. QED  BY <2>1, <2>2 DEF Forward
  <1>7. ASSUME NEW e \in Execs, Progresses(e) PROVE Forward
    <2>1. /\ exec'[e].task = exec[e].task /\ exec'[e].kind = exec[e].kind
          /\ exec[e].status # "absent" => exec'[e].status # "absent"
          /\ \A f \in Execs : f # e => exec'[f] = exec[f]
          /\ task' = task
      BY <1>7 DEF Progresses, SameOrigin, OnlyExec
    <2>. QED  BY <2>1 DEF Forward
  <1>. QED  BY <1>1, <1>2, <1>3, <1>4, <1>5, <1>6, <1>7 DEF TableStep

LEMMA StillFits ==
    ASSUME TypeInv, TypeInv', Forward, NEW r \in Request, RequestFits(r),
           r.pc # "idle" => r.task \in Tasks, r.pc \in Holding => r.exec \in Execs
    PROVE  RequestFits(r)'
  <1>1. r.version \in Nat
    BY DEF Request
  <1>2. CASE r.pc \in {"routing", "preflight", "checked", "claiming"}
    <2>1. /\ r.task \in Tasks /\ task[r.task].status # "absent"
          /\ r.version <= task[r.task].version
          /\ r.version = task[r.task].version =>
                /\ r.call <=> task[r.task].owner # "agent"
                /\ r.pc = "claiming" => task[r.task].owner # "agent"
      BY <1>2 DEF RequestFits
    <2>2. task[r.task].version \in Nat /\ task'[r.task].version \in Nat
      BY <2>1 DEF TypeInv, TypeOK, TaskRow
    <2>3. task'[r.task].status # "absent"
      BY <2>1 DEF Forward
    <2>4. CASE task'[r.task].version > task[r.task].version
      BY <1>1, <1>2, <2>1, <2>2, <2>3, <2>4 DEF RequestFits, Holding
    <2>5. CASE task'[r.task] = task[r.task]
      BY <1>2, <2>1, <2>5 DEF RequestFits, Holding
    <2>. QED  BY <2>1, <2>4, <2>5 DEF Forward
  <1>3. CASE r.pc \in Holding
    BY <1>3 DEF Holding, RequestFits, Forward
  <1>4. CASE r.pc = "idle"
    BY <1>4 DEF Holding, RequestFits
  <1>. QED  BY <1>2, <1>3, <1>4 DEF Request, Holding

\* It is enough that the request that moves fits.
LEMMA OneRequest ==
    ASSUME TypeInv, TypeInv', Forward, RequestInv, NEW h \in Handlers, NEW r,
           handler' = [handler EXCEPT ![h] = r], RequestFits(r)'
    PROVE  RequestInv'
  <1>1. handler'[h] = r /\ \A g \in Handlers : g # h => handler'[g] = handler[g]
    BY DEF TypeInv, TypeOK
  <1>2. ASSUME NEW g \in Handlers, g # h PROVE RequestFits(handler[g])'
    <2>. DEFINE q == handler[g]
    <2>1. q \in Request /\ RequestFits(q) /\ (q.pc # "idle" => q.task \in Tasks)
          /\ (q.pc \in Holding => q.exec \in Execs) /\ q = handler'[g]
      BY <1>1, <1>2, RequestOf DEF RequestInv
    <2>. QED  BY <2>1, StillFits DEF RequestFits
  <1>. QED  BY <1>1, <1>2 DEF RequestInv

LEMMA NoRequest ==
    ASSUME TypeInv, TypeInv', Forward, RequestInv, UNCHANGED handler
    PROVE  RequestInv'
  <1>1. ASSUME NEW g \in Handlers PROVE RequestFits(handler[g])'
    <2>. DEFINE q == handler[g]
    <2>1. q \in Request /\ RequestFits(q) /\ (q.pc # "idle" => q.task \in Tasks)
          /\ (q.pc \in Holding => q.exec \in Execs) /\ q = handler'[g]
      BY RequestOf DEF RequestInv
    <2>. QED  BY <2>1, StillFits DEF RequestFits
  <1>. QED  BY <1>1 DEF RequestInv

LEMMA IdleFits == RequestFits(IdleRequest)'
  BY DEF RequestFits, IdleRequest, Holding

LEMMA RequestKept ==
    ASSUME TypeInv, TypeInv', Forward, RequestInv, NEW h \in Handlers, HandlerNext(h)
    PROVE  RequestInv'
  <1>0. handler[h] \in Request /\ RequestFits(handler[h])
        /\ (handler[h].pc # "idle" => handler[h].task \in Tasks)
        /\ (handler[h].pc \in Holding => handler[h].exec \in Execs)
    BY RequestOf DEF RequestInv
  <1>1. ASSUME NEW t \in Tasks, Open(h, t) PROVE RequestInv'
    <2>0. PICK r : r = [IdleRequest EXCEPT !.pc = "routing", !.task = t,
                 !.version = task[t].version,
                 !.call = task[t].owner # "agent"]
      OBVIOUS
    <2>1. handler' = [handler EXCEPT ![h] = r] /\ UNCHANGED <<task, exec>>
          /\ task[t].status # "absent"
      BY <2>0, <1>1 DEF Open
    <2>2. r.pc = "routing" /\ r.task = t /\ r.version = task[t].version
          /\ (r.call <=> task[t].owner # "agent")
      BY <2>0 DEF IdleRequest
    <2>3. task[t].version \in Nat
      BY TaskRowOf
    <2>4. RequestFits(r)'
      BY <2>1, <2>2, <2>3 DEF RequestFits, Holding
    <2>. QED  BY <2>1, <2>4, OneRequest
  <1>2. ASSUME Route(h) PROVE RequestInv'
    <2>. DEFINE c == IF task[handler[h].task].owner = "agent" THEN "preflight" ELSE "claiming"
    <2>0. PICK r : r = [handler[h] EXCEPT !.pc = c]
      OBVIOUS
    <2>1. handler' = [handler EXCEPT ![h] = r] /\ UNCHANGED <<task, exec>>
          /\ handler[h].pc = "routing"
      BY <2>0, <1>2 DEF Route
    <2>2. r.pc = c /\ r.task = handler[h].task /\ r.version = handler[h].version
          /\ r.call = handler[h].call
      BY <2>0, <1>0 DEF Request
    <2>3. c = "preflight" \/ (c = "claiming" /\ task[handler[h].task].owner # "agent")
      OBVIOUS
    <2>. HIDE DEF c
    <2>4. RequestFits(r)'
      BY <1>0, <2>1, <2>2, <2>3 DEF RequestFits, Holding
    <2>. QED  BY <2>1, <2>4, OneRequest
  <1>3. ASSUME Preflight(h) PROVE RequestInv'
    <2>0. PICK r : r = [handler[h] EXCEPT !.pc = "checked", !.gen = generation]
      OBVIOUS
    <2>1. handler' = [handler EXCEPT ![h] = r] /\ UNCHANGED <<task, exec>>
          /\ handler[h].pc = "preflight"
      BY <2>0, <1>3 DEF Preflight, TypeInv, TypeOK
    <2>2. r.pc = "checked" /\ r.task = handler[h].task /\ r.version = handler[h].version
          /\ r.call = handler[h].call
      BY <2>0, <1>0 DEF Request
    <2>4. RequestFits(r)'
      BY <1>0, <2>1, <2>2 DEF RequestFits, Holding
    <2>. QED  BY <2>1, <2>4, OneRequest
  <1>4. ASSUME Refuse(h) \/ Discard(h) \/ Complete(h) \/ Bind(h) PROVE RequestInv'
    <2>1. handler' = [handler EXCEPT ![h] = IdleRequest]
      BY <1>4 DEF Refuse, Discard, Complete, Bind, Finished
    <2>. QED  BY <2>1, IdleFits, OneRequest
  <1>5. ASSUME NEW e \in Execs, NEW kind, NEW pc, Claim(h, e, kind, pc),
               <<kind, pc>> \in {<<"LLM_CALL", "calling">>, <<"AGENT", "triggering">>}
        PROVE  RequestInv'
    <2>0. PICK r : r = [handler[h] EXCEPT !.pc = pc, !.version = @ + 1, !.gen = generation,
                 !.exec = e]
      OBVIOUS
    <2>1. handler' = [handler EXCEPT ![h] = r]
      BY <2>0, <1>5 DEF Claim
    <2>2. r.pc = pc /\ r.exec = e
      BY <2>0, <1>0 DEF Request
    <2>3. exec'[e] = NewExecution(h, kind)
      BY <1>5, WritesExec DEF Claim
    <2>4. exec'[e].status # "absent" /\ exec'[e].kind = kind
      BY <2>3 DEF NewExecution
    <2>5. RequestFits(r)'
      BY <1>5, <2>2, <2>4 DEF RequestFits, Holding
    <2>. QED  BY <2>1, <2>5, OneRequest
  <1>6. ASSUME CallEnds(h) PROVE RequestInv'
    <2>1. PICK o \in {"result", "rejected", "ambiguous"} :
             handler' = [handler EXCEPT ![h].pc = "ended", ![h].outcome = o]
      BY <1>6 DEF CallEnds
    <2>0. PICK r : r = [handler[h] EXCEPT !.pc = "ended", !.outcome = o]
      OBVIOUS
    <2>2. handler' = [handler EXCEPT ![h] = r] /\ UNCHANGED exec /\ handler[h].pc = "calling"
      BY <2>0, <1>6, <2>1 DEF CallEnds, TypeInv, TypeOK
    <2>3. r.pc = "ended" /\ r.outcome = o /\ r.exec = handler[h].exec
      BY <2>0, <1>0 DEF Request
    <2>4. RequestFits(r)'
      BY <1>0, <2>2, <2>3 DEF RequestFits, Holding
    <2>. QED  BY <2>2, <2>4, OneRequest
  <1>7. ASSUME TriggerEnds(h) PROVE RequestInv'
    <2>1. UNCHANGED exec /\ handler[h].pc = "triggering"
          /\ exec[handler[h].exec].status # "absent" /\ exec[handler[h].exec].kind = "AGENT"
      BY <1>0, <1>7 DEF TriggerEnds, RequestFits, Holding
    <2>2. ASSUME NEW p \in ProviderIds,
                 handler' = [handler EXCEPT ![h].pc = "ended", ![h].outcome = "started",
                                            ![h].id = p]
          PROVE  RequestInv'
      <3>0. PICK r : r = [handler[h] EXCEPT !.pc = "ended", !.outcome = "started", !.id = p]
        OBVIOUS
      <3>1. handler' = [handler EXCEPT ![h] = r]
        BY <3>0, <2>2 DEF TypeInv, TypeOK
      <3>2. r.pc = "ended" /\ r.outcome = "started" /\ r.exec = handler[h].exec /\ r.id = p
        BY <3>0, <1>0 DEF Request
      <3>3. p # NoId
        BY Bounds
      <3>4. RequestFits(r)'
        BY <2>1, <3>2, <3>3 DEF RequestFits, Holding
      <3>. QED  BY <3>1, <3>4, OneRequest
    <2>3. ASSUME handler' = [handler EXCEPT ![h].pc = "ended", ![h].outcome = "ambiguous"]
          PROVE  RequestInv'
      <3>0. PICK r : r = [handler[h] EXCEPT !.pc = "ended", !.outcome = "ambiguous"]
        OBVIOUS
      <3>1. handler' = [handler EXCEPT ![h] = r]
        BY <3>0, <2>3 DEF TypeInv, TypeOK
      <3>2. r.pc = "ended" /\ r.outcome = "ambiguous" /\ r.exec = handler[h].exec
        BY <3>0, <1>0 DEF Request
      <3>3. RequestFits(r)'
        BY <2>1, <3>2 DEF RequestFits, Holding
      <3>. QED  BY <3>1, <3>3, OneRequest
    <2>. QED  BY <1>7, <2>2, <2>3 DEF TriggerEnds
  <1>8. ASSUME BindRefused(h) PROVE RequestInv'
    <2>0. PICK r : r = [handler[h] EXCEPT !.outcome = "ambiguous", !.id = NoId]
      OBVIOUS
    <2>1. handler' = [handler EXCEPT ![h] = r] /\ UNCHANGED exec /\ handler[h].pc = "ended"
      BY <2>0, <1>8 DEF BindRefused, TypeInv, TypeOK
    <2>2. r.pc = "ended" /\ r.outcome = "ambiguous" /\ r.exec = handler[h].exec
      BY <2>0, <1>0, <2>1 DEF Request
    <2>3. RequestFits(r)'
      BY <1>0, <2>1, <2>2 DEF RequestFits, Holding
    <2>. QED  BY <2>1, <2>3, OneRequest
  <1>9. ASSUME NEW e \in Execs, ClaimCall(h, e) \/ ClaimAgent(h, e) PROVE RequestInv'
    <2>1. CASE ClaimCall(h, e)
      <3>1. Claim(h, e, "LLM_CALL", "calling")
        BY <2>1 DEF ClaimCall
      <3>. QED  BY <1>5, <3>1
    <2>2. CASE ClaimAgent(h, e)
      <3>1. Claim(h, e, "AGENT", "triggering")
        BY <2>2 DEF ClaimAgent
      <3>. QED  BY <1>5, <3>1
    <2>. QED  BY <1>9, <2>1, <2>2
  <1>. QED
    BY <1>1, <1>2, <1>3, <1>4, <1>6, <1>7, <1>8, <1>9 DEF HandlerNext

LEMMA RequestInvStep ==
    ASSUME TypeInv, TypeInv', Forward, RequestInv, [Next]_vars
    PROVE  RequestInv'
  <1>1. ASSUME NEW w \in Pollers, PollNext(w) PROVE UNCHANGED handler
    BY <1>1 DEF PollNext, PollSelect, PollRead, PollAsk, PollCommit
  <1>2. ASSUME NEW o \in Operators, DeskNext(o) PROVE UNCHANGED handler
    BY <1>2 DEF DeskNext, See, Reload, Patch, Assign, Cancel, Retry, Approve, Return, Review,
                Replace, Decided
  <1>3. ASSUME MerchantNext \/ PlanNext \/ UNCHANGED vars
               \/ \E e \in Execs : Ages(e) \/ Recover(e)
        PROVE  UNCHANGED handler
    BY <1>3 DEF MerchantNext, Archive, Restore, RunBinds, PlanNext, Create, Redefine, Drop,
                Ages, Recover, vars
  <1>4. CASE Crash
    <2>1. handler' = [h \in Handlers |-> IdleRequest]
      BY <1>4 DEF Crash
    <2>. QED  BY <2>1, IdleFits DEF RequestInv
  <1>. QED  BY <1>1, <1>2, <1>3, <1>4, NoRequest, RequestKept DEF Next

LEMMA PollInvStep ==
    ASSUME TypeInv, TypeInv', Forward, PollInv, [Next]_vars
    PROVE  PollInv'
  <1>. DEFINE Sound(p) == p.pc = "decided" /\ p.verdict = "SUCCEEDED" =>
                            exec'[p.exec].kind = "AGENT"
  <1>1. \A w \in Pollers : Sound(poll[w])
    BY PassOf DEF PollInv, Forward
  <1>2. CASE UNCHANGED poll
    BY <1>1, <1>2 DEF PollInv
  <1>3. CASE poll' = [w \in Pollers |-> IdlePass]
    BY <1>3 DEF PollInv, IdlePass
  <1>4. ASSUME NEW w \in Pollers, NEW p, poll' = [poll EXCEPT ![w] = p], Sound(p) PROVE PollInv'
    <2>1. \A v \in Pollers : poll'[v] = IF v = w THEN p ELSE poll[v]
      BY <1>4 DEF TypeInv, TypeOK
    <2>. QED  BY <1>1, <1>4, <2>1 DEF PollInv
  <1>5. Sound(IdlePass)
    BY DEF IdlePass
  <1>6. ASSUME NEW w \in Pollers, PollNext(w) PROVE PollInv'
    <2>0. poll[w] \in Pass
      BY PassOf
    <2>1. ASSUME NEW e \in Execs, PollSelect(w, e) PROVE PollInv'
      <3>1. poll' = [poll EXCEPT ![w] = [IdlePass EXCEPT !.pc = "selected", !.exec = e]]
        BY <2>1 DEF PollSelect
      <3>2. [IdlePass EXCEPT !.pc = "selected", !.exec = e].pc = "selected"
        BY DEF IdlePass
      <3>. QED  BY <1>4, <3>1, <3>2
    <2>2. ASSUME PollRead(w) PROVE PollInv'
      <3>. DEFINE r == [poll[w] EXCEPT !.pc = "asking",
                                       !.version = task[exec[poll[w].exec].task].version,
                                       !.gen = generation]
      <3>1. poll' = [poll EXCEPT ![w] = r] \/ poll' = [poll EXCEPT ![w] = IdlePass]
        BY <2>2 DEF PollRead
      <3>2. r.pc = "asking"
        BY <2>0 DEF Pass
      <3>. HIDE DEF r
      <3>. QED  BY <1>4, <1>5, <3>1, <3>2
    <2>3. ASSUME PollAsk(w) PROVE PollInv'
      <3>1. PICK answer \in {"COMPLETED", "malformed", "ABORTED", "mismatch", "missing",
                             "active", "error"} :
               LET v == Verdict(exec[poll[w].exec], answer) IN
               poll' = [poll EXCEPT ![w] =
                          IF v = "none" THEN IdlePass
                                        ELSE [poll[w] EXCEPT !.pc = "decided", !.verdict = v]]
        BY <2>3 DEF PollAsk
      <3>. DEFINE v == Verdict(exec[poll[w].exec], answer)
                  r == [poll[w] EXCEPT !.pc = "decided", !.verdict = v]
      <3>2. poll' = [poll EXCEPT ![w] = r] \/ poll' = [poll EXCEPT ![w] = IdlePass]
        BY <3>1
      <3>3. r.verdict = v /\ r.exec = poll[w].exec
        BY <2>0 DEF Pass
      <3>4. v = "SUCCEEDED" => exec[poll[w].exec].kind = "AGENT"
        BY VerdictType
      <3>5. exec' = exec
        BY <2>3 DEF PollAsk
      <3>. HIDE DEF r, v
      <3>6. Sound(r)
        BY <3>3, <3>4, <3>5
      <3>. HIDE DEF Sound
      <3>. QED  BY <1>4, <1>5, <3>2, <3>6
    <2>4. ASSUME PollCommit(w) PROVE PollInv'
      <3>1. poll' = [poll EXCEPT ![w] = IdlePass]
        BY <2>4 DEF PollCommit
      <3>. QED  BY <1>4, <1>5, <3>1
    <2>. QED  BY <1>6, <2>1, <2>2, <2>3, <2>4 DEF PollNext
  <1>7. ASSUME NEW h \in Handlers, HandlerNext(h) PROVE UNCHANGED poll
    BY <1>7 DEF HandlerNext, Open, Route, Preflight, Refuse, ClaimCall, ClaimAgent, Claim,
                CallEnds, TriggerEnds, Complete, Discard, Bind, BindRefused
  <1>8. ASSUME NEW o \in Operators, DeskNext(o) PROVE UNCHANGED poll
    BY <1>8 DEF DeskNext, See, Reload, Patch, Assign, Cancel, Retry, Approve, Return, Review,
                Replace, Decided
  <1>9. ASSUME MerchantNext \/ PlanNext \/ UNCHANGED vars
               \/ \E e \in Execs : Ages(e) \/ Recover(e)
        PROVE  UNCHANGED poll
    BY <1>9 DEF MerchantNext, Archive, Restore, RunBinds, PlanNext, Create, Redefine, Drop,
                Ages, Recover, vars
  <1>. QED  BY <1>2, <1>3, <1>6, <1>7, <1>8, <1>9 DEF Next, Crash

\* A page that fitted before the step fits after it.
LEMMA StillShown ==
    ASSUME TypeInv, TypeInv', Forward, NEW v \in View, ViewFits(v)
    PROVE  ViewFits(v)'
  <1>. SUFFICES ASSUME v.task # 0 PROVE ViewFits(v)'
    BY DEF ViewFits
  <1>1. /\ v.task \in Tasks /\ v.version \in Nat
        /\ task[v.task].version \in Nat /\ task'[v.task].version \in Nat
    <2>1. v.task \in Tasks /\ v.version \in Nat
      BY Bounds DEF View
    <2>. QED  BY <2>1 DEF TypeInv, TypeOK, TaskRow
  <1>2. /\ task[v.task].status # "absent" /\ v.version <= task[v.task].version
        /\ v.version = task[v.task].version =>
              v.status = task[v.task].status /\ Shown(v.exec, v.task)
    BY DEF ViewFits
  <1>3. task'[v.task].status # "absent"
    BY <1>1, <1>2 DEF Forward
  <1>4. CASE task'[v.task].version > task[v.task].version
    BY <1>1, <1>2, <1>3, <1>4 DEF ViewFits
  <1>5. CASE /\ task'[v.task] = task[v.task]
             /\ \A e \in Execs : exec'[e].task = v.task <=> exec[e].task = v.task
    <2>1. v.exec = 0 \/ v.exec \in Execs
      BY Bounds DEF View
    <2>2. Shown(v.exec, v.task) => Shown(v.exec, v.task)'
      BY <1>5, <2>1 DEF Shown, IsLatest
    <2>. QED  BY <1>2, <1>3, <1>5, <2>2 DEF ViewFits
  <1>. QED  BY <1>1, <1>2, <1>4, <1>5 DEF Forward

LEMMA OneView ==
    ASSUME TypeInv, TypeInv', Forward, DeskInv, NEW o \in Operators, NEW v,
           desk' = [desk EXCEPT ![o] = v], ViewFits(v)'
    PROVE  DeskInv'
  <1>1. desk'[o] = v /\ \A q \in Operators : q # o => desk'[q] = desk[q]
    BY DEF TypeInv, TypeOK
  <1>2. ASSUME NEW q \in Operators, q # o PROVE ViewFits(desk[q])'
    <2>. DEFINE y == desk[q]
    <2>1. y \in View /\ ViewFits(y) /\ y = desk'[q]
      BY <1>1, <1>2 DEF DeskInv, TypeInv, TypeOK
    <2>. QED  BY <2>1, StillShown DEF ViewFits, Shown, IsLatest
  <1>. QED  BY <1>1, <1>2 DEF DeskInv

LEMMA NoViewFits == ViewFits(NoView)'
  BY DEF ViewFits, NoView

LEMMA DeskInvStep ==
    ASSUME TypeInv, TypeInv', Forward, DeskInv, [Next]_vars
    PROVE  DeskInv'
  <1>1. CASE UNCHANGED desk
    <2>1. ASSUME NEW q \in Operators PROVE ViewFits(desk[q])'
      <3>. DEFINE y == desk[q]
      <3>1. y \in View /\ ViewFits(y) /\ y = desk'[q]
        BY <1>1 DEF DeskInv, TypeInv, TypeOK
      <3>. QED  BY <3>1, StillShown DEF ViewFits, Shown, IsLatest
    <2>. QED  BY <2>1 DEF DeskInv
  <1>2. ASSUME NEW o \in Operators, NEW t \in Tasks, See(o, t) PROVE DeskInv'
    <2>1. PICK e \in 0..MaxExecutions :
             /\ IF e = 0 THEN \A f \in Execs : exec[f].task # t ELSE IsLatest(e, t)
             /\ desk' = [desk EXCEPT ![o] = [task |-> t, version |-> task[t].version,
                                             status |-> task[t].status, exec |-> e]]
      BY <1>2 DEF See
    <2>2. PICK v : v = [task |-> t, version |-> task[t].version,
                        status |-> task[t].status, exec |-> e]
      OBVIOUS
    <2>3. UNCHANGED <<task, exec>> /\ task[t].status # "absent" /\ task[t].version \in Nat
      BY <1>2, TaskRowOf DEF See
    <2>4. ViewFits(v)'
      BY <2>1, <2>2, <2>3 DEF ViewFits, Shown, IsLatest
    <2>. QED  BY <2>1, <2>2, <2>4, OneView
  <1>3. ASSUME NEW o \in Operators, desk' = [desk EXCEPT ![o] = NoView] PROVE DeskInv'
    BY <1>3, NoViewFits, OneView
  <1>4. ASSUME NEW o \in Operators, DeskNext(o)
        PROVE  desk' = [desk EXCEPT ![o] = NoView] \/ \E t \in Tasks : See(o, t)
    BY <1>4 DEF DeskNext, Reload, Patch, Assign, Cancel, Retry, Approve, Return, Review,
                Replace, Decided
  <1>5. ASSUME NEW h \in Handlers, HandlerNext(h) PROVE UNCHANGED desk
    BY <1>5 DEF HandlerNext, Open, Route, Preflight, Refuse, ClaimCall, ClaimAgent, Claim,
                CallEnds, TriggerEnds, Complete, Discard, Bind, BindRefused
  <1>6. ASSUME NEW w \in Pollers, PollNext(w) PROVE UNCHANGED desk
    BY <1>6 DEF PollNext, PollSelect, PollRead, PollAsk, PollCommit
  <1>7. ASSUME MerchantNext \/ PlanNext \/ UNCHANGED vars \/ Crash
               \/ \E e \in Execs : Ages(e) \/ Recover(e)
        PROVE  UNCHANGED desk
    BY <1>7 DEF MerchantNext, Archive, Restore, RunBinds, PlanNext, Create, Redefine, Drop,
                Ages, Recover, Crash, vars
  <1>. QED  BY <1>1, <1>2, <1>3, <1>4, <1>5, <1>6, <1>7 DEF Next

-----------------------------------------------------------------------------
(* Preparations and their attempts.                                         *)

\* PreparingIffActive, one pair of attempts at a time.
OneActive ==
    /\ \A t \in Tasks : task[t].status = "PREPARING" <=> HasActiveExecution(t)
    /\ \A e, f \in Execs :
          /\ exec[e].status \in InProgress /\ exec[f].status \in InProgress
          /\ exec[e].task = exec[f].task
          => e = f

LEMMA ActiveForms == TypeInv => (PreparingIffActive <=> OneActive)
  <1>. SUFFICES ASSUME TypeInv PROVE PreparingIffActive <=> OneActive
    OBVIOUS
  <1>1. ASSUME PreparingIffActive PROVE OneActive
    <2>1. ASSUME NEW t \in Tasks PROVE task[t].status = "PREPARING" <=> HasActiveExecution(t)
      BY <1>1 DEF PreparingIffActive, HasActiveExecution
    <2>2. ASSUME NEW e \in Execs, NEW f \in Execs,
                 exec[e].status \in InProgress, exec[f].status \in InProgress,
                 exec[e].task = exec[f].task
          PROVE  e = f
      <3>. DEFINE t == exec[e].task
                  running == {g \in Execs : exec[g].task = t /\ exec[g].status \in InProgress}
      <3>1. t \in Tasks
        BY <2>2, PendingRowOf DEF InProgress
      <3>2. e \in running /\ f \in running
        BY <2>2
      <3>3. \E g \in Execs : running = {g}
        BY <1>1, <3>1, <3>2 DEF PreparingIffActive
      <3>. HIDE DEF running
      <3>. QED  BY <3>2, <3>3
    <2>. QED  BY <2>1, <2>2 DEF OneActive
  <1>2. ASSUME OneActive PROVE PreparingIffActive
    <2>1. ASSUME NEW t \in Tasks
          PROVE  LET running == {e \in Execs : exec[e].task = t /\ exec[e].status \in InProgress}
                 IN  IF task[t].status = "PREPARING" THEN \E e \in Execs : running = {e}
                                                     ELSE running = {}
      <3>. DEFINE running == {e \in Execs : exec[e].task = t /\ exec[e].status \in InProgress}
      <3>1. CASE task[t].status = "PREPARING"
        <4>1. PICK e \in Execs : exec[e].task = t /\ exec[e].status \in InProgress
          BY <1>2, <3>1 DEF OneActive, HasActiveExecution
        <4>2. running = {e}
          BY <1>2, <4>1 DEF OneActive
        <4>. QED  BY <3>1, <4>2
      <3>2. CASE task[t].status # "PREPARING"
        <4>1. running = {}
          BY <1>2, <3>2 DEF OneActive, HasActiveExecution
        <4>. QED  BY <3>2, <4>1
      <3>. QED  BY <3>1, <3>2
    <2>. QED  BY <2>1 DEF PreparingIffActive
  <1>. QED  BY <1>1, <1>2

\* Attempts are numbered in the order they are made, and one in progress is the
\* last of its task, not reviewed, of the definition the task has, and bound to
\* a run exactly if it is RUNNING.
HistoryInv ==
    \A e \in Execs :
        /\ exec[e].status # "absent" =>
              /\ task[exec[e].task].status # "absent"
              /\ \A f \in Execs : f < e => exec[f].status # "absent"
        /\ exec[e].status \in InProgress =>
              /\ IsLatest(e, exec[e].task)
              /\ exec[e].reviewed = "no"
              /\ exec[e].def = task[exec[e].task].def
              /\ exec[e].status = "RUNNING" <=> exec[e].core # NoId

\* Which task each attempt is of.
SameAttempts == \A e \in Execs : exec'[e].task = exec[e].task

LEMMA LatestStays ==
    ASSUME SameAttempts
    PROVE  \A e \in Execs : \A t : IsLatest(e, t)' <=> IsLatest(e, t)
  BY DEF SameAttempts, IsLatest

LEMMA AttemptsStay ==
    ASSUME NEW t, NEW e, Finishes(t, e) \/ Reviews(t, e) \/ Progresses(e)
    PROVE  SameAttempts
  BY DEF Finishes, Reviews, Progresses, OnlyExec, SameOrigin, SameAttempts

\* A new attempt is made after all others.
LEMMA NewIsLatest ==
    ASSUME TypeInv, HistoryInv, NEW t \in Tasks, NEW e \in Execs, Starts(t, e)
    PROVE  /\ exec[e].status = "absent" /\ exec[e].task \notin Tasks
           /\ \A f \in Execs : f # e => exec'[f] = exec[f]
           /\ IsLatest(e, t)'
           /\ \A f \in Execs : \A u \in Tasks : u # t => (IsLatest(f, u)' <=> IsLatest(f, u))
  <1>1. /\ exec[e].status = "absent" /\ exec[e].task \notin Tasks /\ exec'[e].task = t
        /\ \A f \in Execs : f # e => exec'[f] = exec[f]
        /\ \A f \in Execs : f < e => exec[f].status # "absent"
    BY PendingRowOf DEF Starts, IsNextExecution, OnlyExec
  <1>2. \A f \in Execs : e < f => exec[f].status = "absent"
    BY <1>1 DEF HistoryInv
  <1>3. \A f \in Execs : e < f => exec[f].task \notin Tasks
    BY <1>2, PendingRowOf
  <1>4. \A f \in Execs : f = e \/ f < e \/ e < f
    BY Bounds
  <1>5. IsLatest(e, t)'
    BY <1>1, <1>3, <1>4, Bounds DEF IsLatest
  <1>6. ASSUME NEW f \in Execs, NEW u \in Tasks, u # t PROVE IsLatest(f, u)' <=> IsLatest(f, u)
    BY <1>1, <1>6 DEF IsLatest
  <1>. QED  BY <1>1, <1>5, <1>6

LEMMA ActiveStep ==
    ASSUME TypeInv, HistoryInv, OneActive, TableStep
    PROVE  OneActive'
  <1>1. ASSUME UNCHANGED exec, \A t \in Tasks : task'[t].status = "PREPARING" <=> task[t].status = "PREPARING"
        PROVE  OneActive'
    BY <1>1 DEF OneActive, HasActiveExecution
  <1>2. CASE Stays
    BY <1>1, <1>2 DEF Stays
  <1>3. ASSUME NEW t \in Tasks, Touches(t) PROVE OneActive'
    BY <1>1, <1>3 DEF Touches, OnlyTask
  <1>4. ASSUME NEW t \in Tasks, Adds(t) PROVE OneActive'
    BY <1>1, <1>4 DEF Adds, OnlyTask, IsNew
  <1>5. ASSUME NEW t \in Tasks, NEW u \in Tasks, Replaces(t, u) PROVE OneActive'
    BY <1>1, <1>5 DEF Replaces, IsNew
  <1>6. ASSUME NEW t \in Tasks, NEW e \in Execs, Starts(t, e) PROVE OneActive'
    <2>1. /\ \A u \in Tasks : u # t => task'[u] = task[u]
          /\ task'[t].status = "PREPARING" /\ ~HasActiveExecution(t)
          /\ exec'[e].status \in InProgress /\ exec'[e].task = t
          /\ exec[e].task \notin Tasks /\ exec[e].status \notin InProgress
          /\ \A f \in Execs : f # e => exec'[f] = exec[f]
      BY <1>6, NewIsLatest DEF Starts, MovesOn, OnlyTask, InProgress
    <2>2. \A u \in Tasks : task'[u].status = "PREPARING" <=> HasActiveExecution(u)'
      BY <2>1 DEF OneActive, HasActiveExecution
    <2>3. \A f, g \in Execs :
             /\ exec'[f].status \in InProgress /\ exec'[g].status \in InProgress
             /\ exec'[f].task = exec'[g].task
             => f = g
      BY <2>1 DEF OneActive, HasActiveExecution
    <2>. QED  BY <2>2, <2>3 DEF OneActive
  <1>7. ASSUME NEW t \in Tasks, NEW e \in Execs, Finishes(t, e) PROVE OneActive'
    <2>1. /\ \A u \in Tasks : u # t => task'[u] = task[u]
          /\ task'[t].status # "PREPARING"
          /\ exec[e].status \in InProgress /\ exec[e].task = t
          /\ exec'[e].status \notin InProgress /\ exec'[e].task = t
          /\ \A f \in Execs : f # e => exec'[f] = exec[f]
      BY <1>7 DEF Finishes, SameOrigin, MovesOn, OnlyTask, OnlyExec, InProgress
    <2>. QED  BY <2>1 DEF OneActive, HasActiveExecution
  <1>8. ASSUME NEW t \in Tasks, NEW e \in Execs, Reviews(t, e) PROVE OneActive'
    <2>1. /\ \A u \in Tasks : u # t => task'[u] = task[u]
          /\ task'[t].status # "PREPARING" /\ task[t].status # "PREPARING"
          /\ exec'[e].status = exec[e].status /\ exec'[e].task = exec[e].task
          /\ \A f \in Execs : f # e => exec'[f] = exec[f]
      BY <1>8 DEF Reviews, SameOrigin, MovesOn, OnlyTask, OnlyExec
    <2>2. \A f \in Execs : exec'[f].status = exec[f].status /\ exec'[f].task = exec[f].task
      BY <2>1
    <2>. QED  BY <2>1, <2>2 DEF OneActive, HasActiveExecution
  <1>9. ASSUME NEW e \in Execs, Progresses(e) PROVE OneActive'
    <2>1. /\ task' = task /\ exec'[e].task = exec[e].task
          /\ exec'[e].status \in InProgress /\ exec[e].status \in InProgress
          /\ \A f \in Execs : f # e => exec'[f] = exec[f]
      BY <1>9 DEF Progresses, SameOrigin, OnlyExec, InProgress
    <2>2. \A f \in Execs : /\ exec'[f].status \in InProgress <=> exec[f].status \in InProgress
                            /\ exec'[f].task = exec[f].task
      BY <2>1
    <2>. QED  BY <2>1, <2>2 DEF OneActive, HasActiveExecution
  <1>. QED  BY <1>2, <1>3, <1>4, <1>5, <1>6, <1>7, <1>8, <1>9 DEF TableStep

\* What each kind of step leaves of the executions and of the other tasks.
LEMMA StartsRows ==
    ASSUME NEW t \in Tasks, NEW e \in Execs, Starts(t, e)
    PROVE  /\ \A u \in Tasks : u # t => task'[u] = task[u]
           /\ \A f \in Execs : f # e => exec'[f] = exec[f]
           /\ task[t].status = "PENDING" /\ task'[t].status = "PREPARING"
           /\ task'[t].def = task[t].def /\ task'[t].ups = task[t].ups
           /\ task'[t].owner = task[t].owner
           /\ task'[t].by = task[t].by /\ task'[t].of = task[t].of
           /\ active /\ active' = active /\ generation' = generation
           /\ exec'[e].status = "DISPATCHING" /\ exec'[e].task = t
  BY DEF Starts, MovesOn, OnlyTask, OnlyExec

LEMMA FinishesRows ==
    ASSUME NEW t \in Tasks, NEW e \in Execs, Finishes(t, e)
    PROVE  /\ \A u \in Tasks : u # t => task'[u] = task[u]
           /\ \A f \in Execs : f # e => exec'[f] = exec[f]
           /\ task[t].status = "PREPARING"
           /\ task'[t].def = task[t].def /\ task'[t].ups = task[t].ups
           /\ task'[t].owner = task[t].owner
           /\ task'[t].by = task[t].by /\ task'[t].of = task[t].of
           /\ active /\ active' = active /\ generation' = generation
           /\ exec[e].task = t /\ exec[e].status \in InProgress
           /\ SameOrigin(e) /\ exec'[e].core = exec[e].core /\ exec'[e].reviewed = exec[e].reviewed
           /\ \/ exec'[e].status = "SUCCEEDED" /\ task'[t].status = "AWAITING_APPROVAL"
              \/ exec'[e].status \in {"FAILED", "UNKNOWN"} /\ task'[t].status = "NEEDS_ATTENTION"
  BY DEF Finishes, MovesOn, OnlyTask, OnlyExec

LEMMA ReviewsRows ==
    ASSUME NEW t \in Tasks, NEW e \in Execs, Reviews(t, e)
    PROVE  /\ \A u \in Tasks : u # t => task'[u] = task[u]
           /\ \A f \in Execs : f # e => exec'[f] = exec[f]
           /\ task[t].status = "AWAITING_APPROVAL"
           /\ task'[t].def = task[t].def /\ task'[t].ups = task[t].ups
           /\ task'[t].owner = task[t].owner
           /\ task'[t].by = task[t].by /\ task'[t].of = task[t].of
           /\ active /\ active' = active /\ generation' = generation
           /\ exec[e].task = t /\ exec[e].status = "SUCCEEDED" /\ exec[e].reviewed = "no"
           /\ IsLatest(e, t) /\ exec[e].def = task[t].def
           /\ SameOrigin(e) /\ exec'[e].core = exec[e].core /\ exec'[e].status = exec[e].status
           /\ \/ exec'[e].reviewed = "approved" /\ task'[t].status = "DONE"
              \/ exec'[e].reviewed = "returned" /\ task'[t].status = "PENDING"
  BY DEF Reviews, Reviewable, EnvelopeCurrent, IsLatest, MovesOn, OnlyTask, OnlyExec

LEMMA ProgressesRows ==
    ASSUME NEW e \in Execs, Progresses(e)
    PROVE  /\ \A f \in Execs : f # e => exec'[f] = exec[f]
           /\ task' = task /\ active' = active /\ generation' = generation
           /\ exec[e].status \in InProgress /\ exec'[e].status \in InProgress
           /\ SameOrigin(e) /\ exec'[e].reviewed = exec[e].reviewed
           /\ \/ exec'[e].status = exec[e].status /\ exec'[e].core = exec[e].core
              \/ exec'[e].status = "RUNNING" /\ exec'[e].core # NoId
  BY DEF Progresses, OnlyExec, InProgress

\* What one attempt in progress is.
UnderWay(e) ==
    /\ IsLatest(e, exec[e].task)
    /\ exec[e].reviewed = "no"
    /\ exec[e].def = task[exec[e].task].def
    /\ exec[e].status = "RUNNING" <=> exec[e].core # NoId

LEMMA OnlyExecsMatter ==
    ASSUME TypeInv, TypeInv', HistoryInv, Forward,
           \A e \in Execs : exec'[e].status = "absent" <=> exec[e].status = "absent",
           \A e \in Execs : exec'[e].status \in InProgress => UnderWay(e)'
    PROVE  HistoryInv'
  <1>1. ASSUME NEW e \in Execs, exec'[e].status # "absent"
        PROVE  /\ task'[exec'[e].task].status # "absent"
               /\ \A f \in Execs : f < e => exec'[f].status # "absent"
    <2>1. exec[e].status # "absent" /\ exec[e].task \in Tasks /\ exec'[e].task = exec[e].task
      BY <1>1, PendingRowOf DEF Forward
    <2>2. task[exec[e].task].status # "absent" /\ \A f \in Execs : f < e => exec[f].status # "absent"
      BY <2>1 DEF HistoryInv
    <2>. QED  BY <2>1, <2>2 DEF Forward
  <1>. QED  BY <1>1 DEF HistoryInv, UnderWay

LEMMA HistoryStep ==
    ASSUME TypeInv, TypeInv', OneActive, HistoryInv, TableStep
    PROVE  HistoryInv'
  <1>0. Forward
    BY TableForward
  <1>a. ASSUME NEW e \in Execs, exec[e].status \in InProgress
        PROVE  /\ UnderWay(e) /\ exec[e].task \in Tasks
               /\ task[exec[e].task].status = "PREPARING"
    BY <1>a, PendingRowOf DEF HistoryInv, UnderWay, OneActive, HasActiveExecution, InProgress
  <1>b. ASSUME UNCHANGED exec, \A u \in Tasks : task[u].status = "PREPARING" => task'[u].def = task[u].def
        PROVE  HistoryInv'
    <2>1. ASSUME NEW e \in Execs, exec[e].status \in InProgress PROVE UnderWay(e)'
      BY <1>a, <1>b, <2>1 DEF UnderWay, IsLatest
    <2>. QED  BY <1>0, <1>b, <2>1, OnlyExecsMatter
  <1>1. CASE Stays
    BY <1>b, <1>1 DEF Stays
  <1>2. ASSUME NEW t \in Tasks, Touches(t) PROVE HistoryInv'
    BY <1>b, <1>2 DEF Touches, OnlyTask
  <1>3. ASSUME NEW t \in Tasks, Adds(t) PROVE HistoryInv'
    BY <1>b, <1>3 DEF Adds, IsNew, OnlyTask
  <1>4. ASSUME NEW t \in Tasks, NEW u \in Tasks, Replaces(t, u) PROVE HistoryInv'
    BY <1>b, <1>4 DEF Replaces, IsNew
  <1>5. ASSUME NEW t \in Tasks, NEW e \in Execs, Starts(t, e) PROVE HistoryInv'
    <2>1. /\ exec[e].status = "absent" /\ \A f \in Execs : f # e => exec'[f] = exec[f]
          /\ IsLatest(e, t)'
          /\ \A f \in Execs : \A u \in Tasks : u # t => (IsLatest(f, u)' <=> IsLatest(f, u))
      BY <1>5, NewIsLatest
    <2>2. \A f \in Execs : f < e => exec[f].status # "absent"
      BY <1>5 DEF Starts, IsNextExecution
    <2>3. UnderWay(e)'
      BY <1>5, <2>1, StartsRows DEF UnderWay, Starts
    <2>4. ASSUME NEW f \in Execs, f # e, exec'[f].status \in InProgress PROVE UnderWay(f)'
      <3>1. UnderWay(f) /\ exec[f].task \in Tasks /\ exec'[f] = exec[f]
            /\ task[exec[f].task].status = "PREPARING"
        BY <1>a, <2>1, <2>4
      <3>2. exec[f].task # t
        BY <3>1, <1>5, StartsRows
      <3>3. task'[exec[f].task] = task[exec[f].task]
        BY <3>1, <3>2, <1>5, StartsRows
      <3>4. IsLatest(f, exec[f].task)'
        BY <2>1, <3>1, <3>2 DEF UnderWay
      <3>. QED  BY <3>1, <3>3, <3>4 DEF UnderWay, IsLatest
    <2>5. ASSUME NEW f \in Execs, exec'[f].status # "absent"
          PROVE  /\ task'[exec'[f].task].status # "absent"
                 /\ \A g \in Execs : g < f => exec'[g].status # "absent"
      <3>1. CASE f = e
        <4>1. task'[exec'[f].task].status # "absent"
          BY <1>5, <3>1, StartsRows
        <4>2. \A g \in Execs : g < f => exec'[g].status # "absent"
          BY <2>1, <2>2, <3>1, Bounds
        <4>. QED  BY <4>1, <4>2
      <3>2. CASE f # e
        <4>1. exec[f].status # "absent" /\ exec'[f] = exec[f] /\ exec[f].task \in Tasks
          BY <2>1, <2>5, <3>2, PendingRowOf
        <4>2. task'[exec'[f].task].status # "absent"
          BY <1>0, <4>1 DEF HistoryInv, Forward
        <4>3. \A g \in Execs : g < f => exec'[g].status # "absent"
          BY <1>0, <4>1 DEF HistoryInv, Forward
        <4>. QED  BY <4>2, <4>3
      <3>. QED  BY <3>1, <3>2
    <2>. QED  BY <2>3, <2>4, <2>5 DEF HistoryInv, UnderWay
  <1>6. ASSUME NEW t \in Tasks, NEW e \in Execs,
               \/ Finishes(t, e)
               \/ Reviews(t, e)
        PROVE  HistoryInv'
    <2>1. /\ \A u \in Tasks : task'[u].def = task[u].def
          /\ \A f \in Execs : f # e => exec'[f] = exec[f]
          /\ exec'[e].status \notin InProgress
          /\ exec'[e].status # "absent" /\ exec[e].status # "absent"
      BY <1>6, FinishesRows, ReviewsRows DEF InProgress
    <2>2. SameAttempts
      BY <1>6, AttemptsStay
    <2>3. ASSUME NEW f \in Execs, exec'[f].status \in InProgress PROVE UnderWay(f)'
      BY <1>a, <2>1, <2>2, <2>3, LatestStays DEF UnderWay
    <2>. QED  BY <1>0, <2>1, <2>3, OnlyExecsMatter
  <1>7. ASSUME NEW e \in Execs, Progresses(e) PROVE HistoryInv'
    <2>1. SameAttempts
      BY <1>7, AttemptsStay
    <2>2. ASSUME NEW f \in Execs, exec'[f].status \in InProgress PROVE UnderWay(f)'
      <3>1. exec[f].status \in InProgress
        BY <1>7, <2>2, ProgressesRows
      <3>2. UnderWay(f)
        BY <1>a, <3>1
      <3>3. exec'[f].task = exec[f].task /\ exec'[f].def = exec[f].def
            /\ exec'[f].reviewed = exec[f].reviewed
            /\ (exec'[f].status = "RUNNING" <=> exec'[f].core # NoId)
        BY <1>7, <3>2, ProgressesRows DEF SameOrigin, UnderWay
      <3>. QED  BY <1>7, <2>1, <3>2, <3>3, LatestStays, ProgressesRows DEF UnderWay
    <2>3. \A f \in Execs : exec'[f].status = "absent" <=> exec[f].status = "absent"
      BY <1>7, ProgressesRows DEF InProgress
    <2>. QED  BY <1>0, <2>2, <2>3, OnlyExecsMatter
  <1>. QED  BY <1>1, <1>2, <1>3, <1>4, <1>5, <1>6, <1>7 DEF TableStep

-----------------------------------------------------------------------------
(* Attempts, their executors and the merchant's lifecycle.                  *)

\* NoBlindRepeat, with why: only an operator's cancellation moves the task on.
Spent(e) ==
    /\ exec[e].kind \in {"AGENT", "LEGACY"}
    /\ exec[e].status \in {"FAILED", "UNKNOWN"}

SpentInv ==
    \A e \in Execs :
        Spent(e) => /\ IsLatest(e, exec[e].task)
                    /\ task[exec[e].task].status \in {"NEEDS_ATTENTION", "CANCELLED"}

LEMMA LatestUnique ==
    ASSUME NEW t, NEW e \in Execs, NEW f \in Execs, IsLatest(e, t), IsLatest(f, t)
    PROVE  e = f
  BY Bounds DEF IsLatest

LEMMA SpentStep ==
    ASSUME TypeInv, TypeInv', OneActive, HistoryInv, SpentInv, TableStep
    PROVE  SpentInv'
  <1>0. ASSUME NEW e \in Execs, Spent(e)
        PROVE  /\ IsLatest(e, exec[e].task) /\ exec[e].task \in Tasks
               /\ task[exec[e].task].status \in {"NEEDS_ATTENTION", "CANCELLED"}
    BY <1>0, PendingRowOf DEF SpentInv, Spent
  <1>a. ASSUME UNCHANGED exec,
               \A e \in Execs : Spent(e) =>
                   task'[exec[e].task].status \in {"NEEDS_ATTENTION", "CANCELLED"}
        PROVE  SpentInv'
    BY <1>0, <1>a DEF SpentInv, Spent, IsLatest
  <1>1. CASE Stays
    BY <1>0, <1>a, <1>1 DEF Stays
  <1>2. ASSUME NEW t \in Tasks, Touches(t) PROVE SpentInv'
    <2>1. ASSUME NEW e \in Execs, Spent(e)
          PROVE  task'[exec[e].task].status \in {"NEEDS_ATTENTION", "CANCELLED"}
      <3>1. CASE exec[e].task # t
        BY <1>0, <1>2, <2>1, <3>1 DEF Touches, OnlyTask
      <3>2. CASE exec[e].task = t
        <4>1. ~Retryable(t)
          <5>1. \A f \in Execs : IsLatest(f, t) => f = e
            BY <1>0, <2>1, <3>2, LatestUnique
          <5>. QED  BY <2>1, <5>1 DEF Retryable, SafeRetryable, Spent
        <4>. QED  BY <1>0, <1>2, <2>1, <3>2, <4>1 DEF Touches
      <3>. QED  BY <3>1, <3>2
    <2>. QED  BY <1>a, <1>2, <2>1 DEF Touches
  <1>3. ASSUME NEW t \in Tasks, Adds(t) PROVE SpentInv'
    BY <1>0, <1>a, <1>3 DEF Adds, IsNew, OnlyTask
  <1>4. ASSUME NEW t \in Tasks, NEW u \in Tasks, Replaces(t, u) PROVE SpentInv'
    BY <1>0, <1>a, <1>4 DEF Replaces, IsNew
  <1>5. ASSUME NEW t \in Tasks, NEW e \in Execs, Starts(t, e) PROVE SpentInv'
    <2>1. ASSUME NEW f \in Execs, Spent(f)'
          PROVE  /\ IsLatest(f, exec[f].task)' /\ exec'[f] = exec[f]
                 /\ task'[exec[f].task].status \in {"NEEDS_ATTENTION", "CANCELLED"}
      <3>1. f # e
        BY <1>5, <2>1, StartsRows DEF Spent
      <3>2. exec'[f] = exec[f] /\ Spent(f)
        BY <1>5, <2>1, <3>1, StartsRows DEF Spent
      <3>3. exec[f].task # t /\ exec[f].task \in Tasks
        BY <1>0, <1>5, <3>2, StartsRows
      <3>4. IsLatest(f, exec[f].task)'
        <4>1. IsLatest(f, exec[f].task)
          BY <1>0, <3>2
        <4>2. \A u \in Tasks : u # t => (IsLatest(f, u)' <=> IsLatest(f, u))
          BY <1>5, NewIsLatest
        <4>. QED  BY <3>2, <3>3, <4>1, <4>2 DEF IsLatest
      <3>. QED  BY <1>0, <1>5, <3>2, <3>3, <3>4, StartsRows
    <2>. QED  BY <2>1 DEF SpentInv, IsLatest
  <1>6. ASSUME NEW t \in Tasks, NEW e \in Execs, Finishes(t, e) PROVE SpentInv'
    <2>1. SameAttempts
      BY <1>6, AttemptsStay
    <2>2. IsLatest(e, t)
      BY <1>6, FinishesRows DEF HistoryInv
    <2>3. ASSUME NEW f \in Execs, Spent(f)'
          PROVE  /\ IsLatest(f, exec[f].task)
                 /\ task'[exec[f].task].status \in {"NEEDS_ATTENTION", "CANCELLED"}
      <3>1. CASE f = e
        BY <1>6, <2>2, <2>3, <3>1, FinishesRows DEF Spent
      <3>2. CASE f # e
        <4>1. Spent(f)
          BY <1>6, <2>3, <3>2, FinishesRows DEF Spent
        <4>2. exec[f].task # t
          BY <1>0, <1>6, <4>1, FinishesRows
        <4>. QED  BY <1>0, <1>6, <4>1, <4>2, FinishesRows
      <3>. QED  BY <3>1, <3>2
    <2>. QED  BY <2>1, <2>3, LatestStays DEF SpentInv, SameAttempts
  <1>7. ASSUME NEW t \in Tasks, NEW e \in Execs, Reviews(t, e) PROVE SpentInv'
    <2>1. SameAttempts
      BY <1>7, AttemptsStay
    <2>2. ASSUME NEW f \in Execs, Spent(f)'
          PROVE  /\ IsLatest(f, exec[f].task)
                 /\ task'[exec[f].task].status \in {"NEEDS_ATTENTION", "CANCELLED"}
      <3>1. Spent(f)
        BY <1>7, <2>2, ReviewsRows DEF Spent, SameOrigin
      <3>2. exec[f].task # t
        BY <1>0, <1>7, <3>1, ReviewsRows
      <3>. QED  BY <1>0, <1>7, <3>1, <3>2, ReviewsRows
    <2>. QED  BY <2>1, <2>2, LatestStays DEF SpentInv, SameAttempts
  <1>8. ASSUME NEW e \in Execs, Progresses(e) PROVE SpentInv'
    <2>1. SameAttempts
      BY <1>8, AttemptsStay
    <2>2. \A f \in Execs : Spent(f)' => Spent(f)
      BY <1>8, ProgressesRows DEF Spent, SameOrigin, InProgress
    <2>. QED  BY <1>0, <1>8, <2>1, <2>2, LatestStays, ProgressesRows DEF SpentInv, SameAttempts
  <1>. QED  BY <1>1, <1>2, <1>3, <1>4, <1>5, <1>6, <1>7, <1>8 DEF TableStep

LEMMA ExecutorStep ==
    ASSUME TypeInv, TypeInv', HistoryInv, ExecutorMatchesAssignee, TableStep
    PROVE  ExecutorMatchesAssignee'
  <1>. DEFINE Matches(e) == /\ exec[e].kind = "LLM_CALL" =>
                                  exec[e].call /\ task[exec[e].task].owner # "agent"
                            /\ exec[e].kind = "AGENT" => task[exec[e].task].owner = "agent"
  <1>0. ASSUME NEW e \in Execs, exec[e].status \in InProgress
        PROVE  exec[e].task \in Tasks /\ task[exec[e].task].status # "absent" /\ Matches(e)
    BY <1>0, PendingRowOf DEF HistoryInv, ExecutorMatchesAssignee, InProgress
  <1>a. ASSUME UNCHANGED exec,
               \A e \in Execs : exec[e].status \in InProgress =>
                   task'[exec[e].task].owner = task[exec[e].task].owner
        PROVE  ExecutorMatchesAssignee'
    BY <1>0, <1>a DEF ExecutorMatchesAssignee
  <1>1. CASE Stays
    BY <1>a, <1>1 DEF Stays
  <1>2. ASSUME NEW t \in Tasks, Touches(t) PROVE ExecutorMatchesAssignee'
    <2>1. ASSUME NEW e \in Execs, exec[e].status \in InProgress
          PROVE  task'[exec[e].task].owner = task[exec[e].task].owner
      <3>1. CASE exec[e].task = t
        BY <1>2, <2>1, <3>1 DEF Touches, HasUnsettledExecution
      <3>2. CASE exec[e].task # t
        BY <1>0, <1>2, <2>1, <3>2 DEF Touches, OnlyTask
      <3>. QED  BY <3>1, <3>2
    <2>. QED  BY <1>a, <1>2, <2>1 DEF Touches
  <1>3. ASSUME NEW t \in Tasks, Adds(t) PROVE ExecutorMatchesAssignee'
    BY <1>0, <1>a, <1>3 DEF Adds, IsNew, OnlyTask
  <1>4. ASSUME NEW t \in Tasks, NEW u \in Tasks, Replaces(t, u) PROVE ExecutorMatchesAssignee'
    <2>1. ASSUME NEW e \in Execs, exec[e].status \in InProgress
          PROVE  task'[exec[e].task].owner = task[exec[e].task].owner
      BY <1>0, <1>4, <2>1 DEF Replaces, IsNew
    <2>. QED  BY <1>a, <1>4, <2>1 DEF Replaces
  <1>5. ASSUME NEW t \in Tasks, NEW e \in Execs, Starts(t, e) PROVE ExecutorMatchesAssignee'
    <2>1. Matches(e)'
      BY <1>5, StartsRows DEF Starts
    <2>2. ASSUME NEW f \in Execs, f # e, exec'[f].status \in InProgress PROVE Matches(f)'
      BY <1>0, <1>5, <2>2, StartsRows
    <2>. QED  BY <2>1, <2>2 DEF ExecutorMatchesAssignee
  <1>6. ASSUME NEW t \in Tasks, NEW e \in Execs, Finishes(t, e) PROVE ExecutorMatchesAssignee'
    <2>1. ASSUME NEW f \in Execs, exec'[f].status \in InProgress PROVE Matches(f)'
      <3>1. f # e
        BY <1>6, <2>1, FinishesRows DEF InProgress
      <3>. QED  BY <1>0, <1>6, <2>1, <3>1, FinishesRows
    <2>. QED  BY <2>1 DEF ExecutorMatchesAssignee
  <1>7. ASSUME NEW t \in Tasks, NEW e \in Execs, Reviews(t, e) PROVE ExecutorMatchesAssignee'
    <2>1. ASSUME NEW f \in Execs, exec'[f].status \in InProgress PROVE Matches(f)'
      <3>1. f # e
        BY <1>7, <2>1, ReviewsRows DEF InProgress
      <3>. QED  BY <1>0, <1>7, <2>1, <3>1, ReviewsRows
    <2>. QED  BY <2>1 DEF ExecutorMatchesAssignee
  <1>8. ASSUME NEW e \in Execs, Progresses(e) PROVE ExecutorMatchesAssignee'
    <2>1. ASSUME NEW f \in Execs, exec'[f].status \in InProgress PROVE Matches(f)'
      <3>1. exec[f].status \in InProgress
        BY <1>8, <2>1, ProgressesRows
      <3>2. exec'[f].task = exec[f].task /\ exec'[f].kind = exec[f].kind
            /\ exec'[f].call = exec[f].call /\ task' = task
        BY <1>8, ProgressesRows DEF SameOrigin
      <3>. QED  BY <1>0, <3>1, <3>2
    <2>. QED  BY <2>1 DEF ExecutorMatchesAssignee
  <1>. QED  BY <1>1, <1>2, <1>3, <1>4, <1>5, <1>6, <1>7, <1>8 DEF TableStep

\* Whom PreparationPinsLifecycle is about.
Pinned(e) ==
    /\ exec[e].kind # "LEGACY"
    /\ \/ exec[e].status \in InProgress
       \/ /\ exec[e].status = "SUCCEEDED" /\ task[exec[e].task].status = "AWAITING_APPROVAL"
          /\ IsLatest(e, exec[e].task)

LEMMA PinsStep ==
    ASSUME TypeInv, TypeInv', OneActive, HistoryInv, PreparationPinsLifecycle, TableStep
    PROVE  PreparationPinsLifecycle'
  <1>0. ASSUME NEW e \in Execs, Pinned(e)
        PROVE  exec[e].task \in Tasks /\ active /\ exec[e].gen = generation
    BY <1>0, PendingRowOf DEF Pinned, PreparationPinsLifecycle, InProgress
  <1>a. ASSUME active, UNCHANGED <<active, generation>>,
               \A e \in Execs : Pinned(e)' =>
                   \/ Pinned(e) /\ exec'[e].gen = exec[e].gen
                   \/ exec'[e].gen = generation
        PROVE  PreparationPinsLifecycle'
    BY <1>0, <1>a DEF Pinned, PreparationPinsLifecycle
  <1>1. CASE Stays
    <2>1. CASE UNCHANGED <<active, generation>>
      BY <1>1, <2>1 DEF Stays, PreparationPinsLifecycle, IsLatest
    <2>2. CASE (active /\ ~HasTaskWork) \/ ~active
      <3>1. \A e \in Execs : ~Pinned(e)
        BY <1>0, <2>2 DEF Pinned, HasTaskWork
      <3>2. \A e \in Execs : ~Pinned(e)'
        BY <1>1, <3>1 DEF Stays, Pinned, IsLatest
      <3>. QED  BY <3>2 DEF Pinned, PreparationPinsLifecycle
    <2>. QED  BY <1>1, <2>1, <2>2 DEF Stays
  <1>2. ASSUME NEW t \in Tasks, Touches(t) PROVE PreparationPinsLifecycle'
    <2>1. ASSUME NEW e \in Execs, Pinned(e)' PROVE Pinned(e) /\ exec'[e] = exec[e]
      <3>1. exec' = exec /\ \A u \in Tasks : task'[u].status = "AWAITING_APPROVAL" =>
                                             task[u].status = "AWAITING_APPROVAL"
        BY <1>2 DEF Touches, OnlyTask
      <3>. QED  BY <2>1, <3>1, PendingRowOf DEF Pinned, IsLatest
    <2>. QED  BY <1>2, <1>a, <2>1 DEF Touches
  <1>3. ASSUME NEW t \in Tasks, Adds(t) PROVE PreparationPinsLifecycle'
    <2>1. ASSUME NEW e \in Execs, Pinned(e)' PROVE Pinned(e) /\ exec'[e] = exec[e]
      <3>1. exec' = exec /\ \A u \in Tasks : task'[u].status = "AWAITING_APPROVAL" =>
                                             task[u].status = "AWAITING_APPROVAL"
        BY <1>3 DEF Adds, IsNew, OnlyTask
      <3>. QED  BY <2>1, <3>1, PendingRowOf DEF Pinned, IsLatest
    <2>. QED  BY <1>3, <1>a, <2>1 DEF Adds
  <1>4. ASSUME NEW t \in Tasks, NEW u \in Tasks, Replaces(t, u) PROVE PreparationPinsLifecycle'
    <2>1. ASSUME NEW e \in Execs, Pinned(e)' PROVE Pinned(e) /\ exec'[e] = exec[e]
      <3>1. exec' = exec /\ \A v \in Tasks : task'[v].status = "AWAITING_APPROVAL" =>
                                             task[v].status = "AWAITING_APPROVAL"
        BY <1>4 DEF Replaces, IsNew
      <3>. QED  BY <2>1, <3>1, PendingRowOf DEF Pinned, IsLatest
    <2>. QED  BY <1>4, <1>a, <2>1 DEF Replaces
  <1>5. ASSUME NEW t \in Tasks, NEW e \in Execs, Starts(t, e) PROVE PreparationPinsLifecycle'
    <2>1. exec'[e].gen = generation
      BY <1>5 DEF Starts
    <2>2. ASSUME NEW f \in Execs, f # e, Pinned(f)' PROVE Pinned(f) /\ exec'[f] = exec[f]
      <3>1. exec'[f] = exec[f] /\ exec[f].task \in Tasks
        <4>1. exec'[f] = exec[f]
          BY <1>5, <2>2, StartsRows
        <4>2. exec[f].status # "absent"
          BY <2>2, <4>1 DEF Pinned, InProgress
        <4>. QED  BY <4>1, <4>2, PendingRowOf
      <3>2. CASE exec[f].status \in InProgress
        BY <2>2, <3>1, <3>2 DEF Pinned
      <3>3. CASE exec[f].status \notin InProgress
        <4>1. /\ exec'[f].kind # "LEGACY" /\ exec'[f].status = "SUCCEEDED"
              /\ task'[exec[f].task].status = "AWAITING_APPROVAL" /\ IsLatest(f, exec[f].task)'
          BY <2>2, <3>1, <3>3 DEF Pinned, IsLatest
        <4>2. exec[f].task # t
          BY <1>5, <4>1, StartsRows
        <4>3. task'[exec[f].task] = task[exec[f].task]
          BY <1>5, <3>1, <4>2, StartsRows
        <4>4. IsLatest(f, exec[f].task)
          <5>1. \A u \in Tasks : u # t => (IsLatest(f, u)' <=> IsLatest(f, u))
            BY <1>5, NewIsLatest
          <5>. QED  BY <3>1, <4>1, <4>2, <5>1 DEF IsLatest
        <4>. QED  BY <3>1, <4>1, <4>3, <4>4 DEF Pinned
      <3>. QED  BY <3>2, <3>3
    <2>. QED  BY <1>5, <1>a, <2>1, <2>2, StartsRows
  <1>6. ASSUME NEW t \in Tasks, NEW e \in Execs, Finishes(t, e) PROVE PreparationPinsLifecycle'
    <2>1. SameAttempts
      BY <1>6, AttemptsStay
    <2>2. IsLatest(e, t)
      BY <1>6, FinishesRows DEF HistoryInv
    <2>3. ASSUME NEW f \in Execs, Pinned(f)' PROVE Pinned(f) /\ exec'[f].gen = exec[f].gen
      <3>1. CASE f = e
        BY <1>6, <2>3, <3>1, FinishesRows DEF Pinned, SameOrigin
      <3>2. CASE f # e
        <4>1. exec'[f] = exec[f]
          BY <1>6, <3>2, FinishesRows
        <4>2. CASE exec[f].status \in InProgress
          BY <2>3, <4>1, <4>2 DEF Pinned
        <4>3. CASE exec[f].status \notin InProgress
          <5>1. /\ exec[f].kind # "LEGACY" /\ exec[f].status = "SUCCEEDED"
                /\ task'[exec[f].task].status = "AWAITING_APPROVAL"
                /\ IsLatest(f, exec[f].task) /\ exec[f].task \in Tasks
            BY <2>1, <2>3, <4>1, <4>3, LatestStays, PendingRowOf DEF Pinned
          <5>2. exec[f].task # t
            BY <2>2, <3>2, <5>1, LatestUnique
          <5>3. task'[exec[f].task] = task[exec[f].task]
            BY <1>6, <5>1, <5>2, FinishesRows
          <5>. QED  BY <4>1, <5>1, <5>3 DEF Pinned
        <4>. QED  BY <4>2, <4>3
      <3>. QED  BY <3>1, <3>2
    <2>. QED  BY <1>6, <1>a, <2>3, FinishesRows
  <1>7. ASSUME NEW t \in Tasks, NEW e \in Execs, Reviews(t, e) PROVE PreparationPinsLifecycle'
    <2>1. SameAttempts
      BY <1>7, AttemptsStay
    <2>2. ASSUME NEW f \in Execs, Pinned(f)' PROVE Pinned(f) /\ exec'[f].gen = exec[f].gen
      <3>1. f # e
        BY <1>7, <2>2, ReviewsRows DEF Pinned, SameOrigin, InProgress
      <3>2. exec'[f] = exec[f]
        BY <1>7, <3>1, ReviewsRows
      <3>3. CASE exec[f].status \in InProgress
        BY <2>2, <3>2, <3>3 DEF Pinned
      <3>4. CASE exec[f].status \notin InProgress
        <4>1. /\ exec[f].kind # "LEGACY" /\ exec[f].status = "SUCCEEDED"
              /\ task'[exec[f].task].status = "AWAITING_APPROVAL"
              /\ IsLatest(f, exec[f].task) /\ exec[f].task \in Tasks
          BY <2>1, <2>2, <3>2, <3>4, LatestStays, PendingRowOf DEF Pinned
        <4>2. task'[exec[f].task] = task[exec[f].task]
          BY <1>7, <4>1, ReviewsRows
        <4>. QED  BY <3>2, <4>1, <4>2 DEF Pinned
      <3>. QED  BY <3>3, <3>4
    <2>. QED  BY <1>7, <1>a, <2>2, ReviewsRows
  <1>8. ASSUME NEW e \in Execs, Progresses(e) PROVE PreparationPinsLifecycle'
    <2>1. SameAttempts
      BY <1>8, AttemptsStay
    <2>2. ASSUME NEW f \in Execs, Pinned(f)' PROVE Pinned(f) /\ exec'[f].gen = exec[f].gen
      <3>1. CASE f = e
        BY <1>8, <2>2, <3>1, ProgressesRows DEF Pinned, SameOrigin
      <3>2. CASE f # e
        BY <1>8, <2>1, <2>2, <3>2, LatestStays, ProgressesRows DEF Pinned
      <3>. QED  BY <3>1, <3>2
    <2>3. ASSUME NEW f \in Execs, Pinned(f)' PROVE active /\ exec[f].gen = generation
      BY <1>0, <2>2, <2>3
    <2>. QED
      BY <1>8, <2>2, <2>3, ProgressesRows DEF Pinned, PreparationPinsLifecycle
  <1>. QED  BY <1>1, <1>2, <1>3, <1>4, <1>5, <1>6, <1>7, <1>8 DEF TableStep

-----------------------------------------------------------------------------
(* Reviews, upstream tasks and replacements.                                *)

\* ReviewsMatchTasks, of one task.
ReviewMatches(t) ==
    /\ task[t].status = "AWAITING_APPROVAL" =>
          \E e \in Execs : IsLatest(e, t) /\ Reviewable(e)
    /\ task[t].status = "DONE" =>
          \E e \in Execs : /\ IsLatest(e, t)
                           /\ exec[e].status = "SUCCEEDED"
                           /\ exec[e].reviewed = "approved"
                           /\ exec[e].def = task[t].def

\* A task that stays in its status, with its definition and its attempts.
LEMMA ReviewStillMatches ==
    ASSUME NEW t \in Tasks, ReviewMatches(t),
           task'[t].status = task[t].status, task'[t].def = task[t].def,
           \A e \in Execs : exec'[e].task = t <=> exec[e].task = t,
           \A e \in Execs : exec[e].task = t => exec'[e] = exec[e]
    PROVE  ReviewMatches(t)'
  <1>1. \A e \in Execs : IsLatest(e, t)' <=> IsLatest(e, t)
    BY DEF IsLatest
  <1>2. ASSUME NEW e \in Execs, IsLatest(e, t), Reviewable(e) PROVE Reviewable(e)'
    BY <1>2 DEF IsLatest, Reviewable, EnvelopeCurrent
  <1>3. \A e \in Execs : IsLatest(e, t) => exec'[e] = exec[e]
    BY DEF IsLatest
  <1>4. ASSUME task'[t].status = "AWAITING_APPROVAL"
        PROVE  \E e \in Execs : IsLatest(e, t)' /\ Reviewable(e)'
    BY <1>1, <1>2, <1>4 DEF ReviewMatches
  <1>5. ASSUME task'[t].status = "DONE"
        PROVE  \E e \in Execs : /\ IsLatest(e, t)'
                                /\ exec'[e].status = "SUCCEEDED"
                                /\ exec'[e].reviewed = "approved"
                                /\ exec'[e].def = task'[t].def
    BY <1>1, <1>3, <1>5 DEF ReviewMatches
  <1>. QED  BY <1>4, <1>5 DEF ReviewMatches

LEMMA ReviewsStep ==
    ASSUME TypeInv, TypeInv', OneActive, HistoryInv, ExecutorMatchesAssignee,
           ReviewsMatchTasks, TableStep
    PROVE  ReviewsMatchTasks'
  <1>0. \A t \in Tasks : ReviewMatches(t)
    BY DEF ReviewsMatchTasks, ReviewMatches
  <1>. SUFFICES ASSUME NEW v \in Tasks PROVE ReviewMatches(v)'
    BY DEF ReviewsMatchTasks, ReviewMatches
  <1>a. ASSUME UNCHANGED exec, task'[v].status = task[v].status, task'[v].def = task[v].def
        PROVE  ReviewMatches(v)'
    BY <1>0, <1>a, ReviewStillMatches
  <1>b. ASSUME task'[v].status \notin {"AWAITING_APPROVAL", "DONE"} PROVE ReviewMatches(v)'
    BY <1>b DEF ReviewMatches
  <1>1. CASE Stays
    BY <1>a, <1>1 DEF Stays
  <1>2. ASSUME NEW t \in Tasks, Touches(t) PROVE ReviewMatches(v)'
    <2>1. CASE v = t
      BY <1>a, <1>b, <1>2, <2>1 DEF Touches
    <2>2. CASE v # t
      BY <1>a, <1>2, <2>2 DEF Touches, OnlyTask
    <2>. QED  BY <2>1, <2>2
  <1>3. ASSUME NEW t \in Tasks, Adds(t) PROVE ReviewMatches(v)'
    BY <1>a, <1>b, <1>3 DEF Adds, IsNew, OnlyTask
  <1>4. ASSUME NEW t \in Tasks, NEW u \in Tasks, Replaces(t, u) PROVE ReviewMatches(v)'
    BY <1>a, <1>b, <1>4 DEF Replaces, IsNew
  <1>5. ASSUME NEW t \in Tasks, NEW e \in Execs, Starts(t, e) PROVE ReviewMatches(v)'
    <2>1. CASE v = t
      BY <1>b, <1>5, <2>1, StartsRows
    <2>2. CASE v # t
      <3>1. exec[e].task # v /\ exec'[e].task # v
        BY <1>5, <2>2, NewIsLatest, StartsRows
      <3>. QED  BY <1>0, <1>5, <2>2, <3>1, StartsRows, ReviewStillMatches
    <2>. QED  BY <2>1, <2>2
  <1>6. ASSUME NEW t \in Tasks, NEW e \in Execs, Finishes(t, e) PROVE ReviewMatches(v)'
    <2>1. CASE v # t
      <3>1. exec[e].task # v /\ exec'[e].task # v
        BY <1>6, <2>1, FinishesRows DEF SameOrigin
      <3>. QED  BY <1>0, <1>6, <2>1, <3>1, FinishesRows, ReviewStillMatches
    <2>2. CASE v = t /\ task'[t].status # "AWAITING_APPROVAL"
      BY <1>b, <1>6, <2>2, FinishesRows
    <2>3. CASE v = t /\ task'[t].status = "AWAITING_APPROVAL"
      <3>1. /\ exec'[e].status = "SUCCEEDED"
            /\ \/ exec[e].kind = "LLM_CALL" /\ exec[e].status = "DISPATCHING"
               \/ exec[e].kind = "AGENT" /\ exec[e].status = "RUNNING"
        BY <1>6, <2>3 DEF Finishes, MovesOn
      <3>2. UnderWay(e) /\ exec[e].task = t /\ exec[e].status \in InProgress
        BY <1>6, FinishesRows DEF HistoryInv, UnderWay
      <3>3. exec[e].kind = "LLM_CALL" => exec[e].call
        BY <3>2 DEF ExecutorMatchesAssignee
      <3>4. IsLatest(e, t)'
        BY <1>6, <3>2, AttemptsStay, LatestStays DEF UnderWay
      <3>5. /\ exec'[e].task = t /\ exec'[e].kind = exec[e].kind /\ exec'[e].call = exec[e].call
            /\ exec'[e].def = task'[t].def /\ exec'[e].reviewed = "no"
            /\ exec'[e].core = exec[e].core
        BY <1>6, <3>2, FinishesRows DEF SameOrigin, UnderWay
      <3>6. Reviewable(e)'
        BY <3>1, <3>2, <3>3, <3>5 DEF Reviewable, EnvelopeCurrent, UnderWay
      <3>. QED  BY <2>3, <3>4, <3>6 DEF ReviewMatches
    <2>. QED  BY <2>1, <2>2, <2>3
  <1>7. ASSUME NEW t \in Tasks, NEW e \in Execs, Reviews(t, e) PROVE ReviewMatches(v)'
    <2>1. CASE v # t
      <3>1. exec[e].task # v /\ exec'[e].task # v
        BY <1>7, <2>1, ReviewsRows DEF SameOrigin
      <3>. QED  BY <1>0, <1>7, <2>1, <3>1, ReviewsRows, ReviewStillMatches
    <2>2. CASE v = t /\ task'[t].status # "DONE"
      BY <1>b, <1>7, <2>2, ReviewsRows
    <2>3. CASE v = t /\ task'[t].status = "DONE"
      <3>1. IsLatest(e, t)'
        BY <1>7, ReviewsRows, AttemptsStay, LatestStays
      <3>2. /\ exec'[e].status = "SUCCEEDED" /\ exec'[e].reviewed = "approved"
            /\ exec'[e].def = task'[t].def
        BY <1>7, <2>3, ReviewsRows DEF SameOrigin
      <3>. QED  BY <2>3, <3>1, <3>2 DEF ReviewMatches
    <2>. QED  BY <2>1, <2>2, <2>3
  <1>8. ASSUME NEW e \in Execs, Progresses(e) PROVE ReviewMatches(v)'
    <2>1. CASE exec[e].task = v
      <3>1. task[v].status = "PREPARING" /\ task' = task
        BY <1>8, <2>1, ProgressesRows DEF OneActive, HasActiveExecution
      <3>. QED  BY <1>b, <3>1
    <2>2. CASE exec[e].task # v
      <3>1. exec'[e].task # v
        BY <1>8, <2>2, ProgressesRows DEF SameOrigin
      <3>. QED  BY <1>0, <1>8, <2>2, <3>1, ProgressesRows, ReviewStillMatches
    <2>. QED  BY <2>1, <2>2
  <1>. QED  BY <1>1, <1>2, <1>3, <1>4, <1>5, <1>6, <1>7, <1>8 DEF TableStep

LEMMA DoneStays ==
    ASSUME TableStep, NEW v \in Tasks, task[v].status = "DONE"
    PROVE  task'[v].status = "DONE"
  <1>1. CASE Stays
    BY <1>1 DEF Stays
  <1>2. ASSUME NEW t \in Tasks, Touches(t) \/ Adds(t) PROVE task'[v].status = "DONE"
    BY <1>2 DEF Touches, Adds, IsNew, OnlyTask
  <1>3. ASSUME NEW t \in Tasks, NEW u \in Tasks, Replaces(t, u) PROVE task'[v].status = "DONE"
    BY <1>3 DEF Replaces, IsNew
  <1>4. ASSUME NEW t \in Tasks, NEW e \in Execs, Starts(t, e) \/ Finishes(t, e) \/ Reviews(t, e)
        PROVE  task'[v].status = "DONE"
    BY <1>4, StartsRows, FinishesRows, ReviewsRows
  <1>5. ASSUME NEW e \in Execs, Progresses(e) PROVE task'[v].status = "DONE"
    BY <1>5, ProgressesRows
  <1>. QED  BY <1>1, <1>2, <1>3, <1>4, <1>5 DEF TableStep

Started == {"PREPARING", "AWAITING_APPROVAL", "NEEDS_ATTENTION", "DONE"}

\* A task keeps the edges it was started with.
LEMMA StartedBefore ==
    ASSUME TableStep, NEW v \in Tasks, task'[v].status \in Started
    PROVE  /\ task'[v].ups = task[v].ups
           /\ task[v].status \in Started \/ UpstreamDone(v)
  <1>1. CASE Stays
    BY <1>1 DEF Stays
  <1>2. ASSUME NEW t \in Tasks, Touches(t) \/ Adds(t)
        PROVE  task'[v].ups = task[v].ups /\ task[v].status \in Started
    BY <1>2 DEF Touches, Adds, IsNew, OnlyTask, Started
  <1>3. ASSUME NEW t \in Tasks, NEW u \in Tasks, Replaces(t, u)
        PROVE  task'[v].ups = task[v].ups /\ task[v].status \in Started
    BY <1>3 DEF Replaces, IsNew, Started
  <1>4. ASSUME NEW t \in Tasks, NEW e \in Execs, Starts(t, e)
        PROVE  /\ task'[v].ups = task[v].ups
               /\ task[v].status \in Started \/ UpstreamDone(v)
    BY <1>4, StartsRows DEF Starts
  <1>5. ASSUME NEW t \in Tasks, NEW e \in Execs, Finishes(t, e) \/ Reviews(t, e)
        PROVE  task'[v].ups = task[v].ups /\ task[v].status \in Started
    BY <1>5, FinishesRows, ReviewsRows DEF Started
  <1>6. ASSUME NEW e \in Execs, Progresses(e)
        PROVE  task'[v].ups = task[v].ups /\ task[v].status \in Started
    BY <1>6, ProgressesRows
  <1>. QED  BY <1>1, <1>2, <1>3, <1>4, <1>5, <1>6 DEF TableStep

LEMMA UpstreamStep ==
    ASSUME TypeInv, StartedAfterUpstream, TableStep
    PROVE  StartedAfterUpstream'
  <1>. SUFFICES ASSUME NEW v \in Tasks, task'[v].status \in Started, NEW u \in task'[v].ups
                PROVE  task'[u].status = "DONE"
    BY DEF StartedAfterUpstream, Started
  <1>1. u \in task[v].ups /\ (task[v].status \in Started \/ UpstreamDone(v))
    BY StartedBefore
  <1>2. u \in Tasks
    BY <1>1, TaskRowOf
  <1>3. task[u].status = "DONE"
    BY <1>1 DEF StartedAfterUpstream, Started, UpstreamDone
  <1>. QED  BY <1>2, <1>3, DoneStays

\* A task that does not exist is not linked.
LinkInv ==
    /\ ReplacedStaysStopped
    /\ \A t \in Tasks : task[t].status = "absent" => task[t].by = 0 /\ task[t].of = 0

LEMMA LinkStep ==
    ASSUME TypeInv, LinkInv, TableStep
    PROVE  LinkInv'
  <1>a. ASSUME \A t \in Tasks : /\ task'[t].by = task[t].by /\ task'[t].of = task[t].of
                                /\ task[t].status = "CANCELLED" => task'[t].status = "CANCELLED"
                                /\ task'[t].status = "absent" => task[t].status = "absent"
        PROVE  LinkInv'
    BY <1>a DEF LinkInv, ReplacedStaysStopped
  <1>1. CASE Stays
    BY <1>a, <1>1 DEF Stays
  <1>2. ASSUME NEW t \in Tasks, Touches(t) PROVE LinkInv'
    BY <1>a, <1>2 DEF Touches, OnlyTask
  <1>3. ASSUME NEW t \in Tasks, Adds(t) PROVE LinkInv'
    BY <1>a, <1>3 DEF Adds, IsNew, OnlyTask, LinkInv
  <1>4. ASSUME NEW t \in Tasks, NEW u \in Tasks, Replaces(t, u) PROVE LinkInv'
    <2>1. /\ task[t].by = 0 /\ task[u].by = 0 /\ task[u].of = 0 /\ t # u
          /\ \A v \in Tasks : v # 0
      BY <1>4, Bounds DEF Replaces, IsNew, LinkInv
    <2>2. /\ \A v \in Tasks : task'[v].by = IF v = t THEN u ELSE task[v].by
          /\ \A v \in Tasks : task'[v].of = IF v = u THEN t ELSE task[v].of
      BY <1>4, <2>1 DEF Replaces, IsNew
    <2>3. \A v, w \in Tasks : task[v].by = w <=> task[w].of = v
      BY DEF LinkInv, ReplacedStaysStopped
    <2>4. \A v, w \in Tasks : task'[v].by = w <=> task'[w].of = v
      BY <2>1, <2>2, <2>3
    <2>5. \A v \in Tasks : task'[v].by # 0 => task'[v].status = "CANCELLED"
      BY <1>4 DEF Replaces, IsNew, LinkInv, ReplacedStaysStopped
    <2>6. \A v \in Tasks : task'[v].status = "absent" => task'[v].by = 0 /\ task'[v].of = 0
      BY <1>4 DEF Replaces, IsNew, LinkInv
    <2>. QED  BY <2>4, <2>5, <2>6 DEF LinkInv, ReplacedStaysStopped
  <1>5. ASSUME NEW t \in Tasks, NEW e \in Execs, Starts(t, e) \/ Finishes(t, e) \/ Reviews(t, e)
        PROVE  LinkInv'
    BY <1>a, <1>5, StartsRows, FinishesRows, ReviewsRows
  <1>6. ASSUME NEW e \in Execs, Progresses(e) PROVE LinkInv'
    BY <1>a, <1>6, ProgressesRows
  <1>. QED  BY <1>1, <1>2, <1>3, <1>4, <1>5, <1>6 DEF TableStep

-----------------------------------------------------------------------------
(* The inductive invariant.                                                 *)

TablesInv ==
    /\ PreparingIffActive
    /\ HistoryInv
    /\ SpentInv
    /\ ExecutorMatchesAssignee
    /\ PreparationPinsLifecycle
    /\ ReviewsMatchTasks
    /\ StartedAfterUpstream
    /\ LinkInv

IInv == TypeInv /\ TablesInv /\ RequestInv /\ PollInv /\ DeskInv

LEMMA TablesInit == Init => TablesInv
  <1>. SUFFICES ASSUME Init PROVE TablesInv
    OBVIOUS
  <1>0. TypeInv
    BY TypeInit
  <1>1. PICK d \in Definitions :
          \/ /\ task = [t \in Tasks |-> AbsentTask(d)]
             /\ exec = [e \in Execs |-> AbsentExec(d)]
          \/ /\ task = [t \in Tasks |-> IF t = 1 THEN [NewTask(d, {}, 0) EXCEPT !.status = "PREPARING"]
                                                ELSE AbsentTask(d)]
             /\ \E p \in ProviderIds :
                   exec = [e \in Execs |-> IF e = 1 THEN LegacyRow(d, p) ELSE AbsentExec(d)]
    BY DEF Init
  <1>2. \A t \in Tasks : /\ task[t].ups = {} /\ task[t].by = 0 /\ task[t].of = 0 /\ task[t].def = d
                         /\ (task[t].status = "absent" \/ (t = 1 /\ task[t].status = "PREPARING"))
    <2>1. /\ AbsentTask(d).ups = {} /\ AbsentTask(d).by = 0 /\ AbsentTask(d).of = 0
          /\ AbsentTask(d).def = d /\ AbsentTask(d).status = "absent"
      BY DEF AbsentTask, NewTask
    <2>2. PICK q : q = [NewTask(d, {}, 0) EXCEPT !.status = "PREPARING"]
      OBVIOUS
    <2>3. q.ups = {} /\ q.by = 0 /\ q.of = 0 /\ q.def = d /\ q.status = "PREPARING"
      BY <2>2 DEF NewTask
    <2>4. ASSUME NEW t \in Tasks PROVE task[t] = AbsentTask(d) \/ (t = 1 /\ task[t] = q)
      BY <1>1, <2>2
    <2>5. PICK a : a = AbsentTask(d)
      OBVIOUS
    <2>. QED  BY <2>1, <2>3, <2>4, <2>5
  <1>3. \A e \in Execs :
           \/ exec[e].status = "absent" /\ exec[e].task = 0
           \/ /\ e = 1 /\ exec[e].status = "RUNNING" /\ exec[e].task = 1 /\ exec[e].kind = "LEGACY"
              /\ exec[e].core # NoId /\ exec[e].reviewed = "no" /\ exec[e].def = d
    <2>1. AbsentExec(d).status = "absent" /\ AbsentExec(d).task = 0
      BY DEF AbsentExec
    <2>2. ASSUME NEW p \in ProviderIds
          PROVE  /\ LegacyRow(d, p).status = "RUNNING" /\ LegacyRow(d, p).task = 1
                 /\ LegacyRow(d, p).kind = "LEGACY" /\ LegacyRow(d, p).core = p
                 /\ LegacyRow(d, p).reviewed = "no" /\ LegacyRow(d, p).def = d /\ p # NoId
      BY IdsAssumption DEF LegacyRow, AbsentExec
    <2>. QED  BY <1>1, <2>1, <2>2
  <1>4. task[1].status = "PREPARING" <=> exec[1].status = "RUNNING"
    <2>1. 1 \in Tasks /\ 1 \in Execs
      BY Bounds
    <2>2. AbsentTask(d).status = "absent" /\ AbsentExec(d).status = "absent"
          /\ [NewTask(d, {}, 0) EXCEPT !.status = "PREPARING"].status = "PREPARING"
          /\ \A p \in ProviderIds : LegacyRow(d, p).status = "RUNNING"
      BY DEF AbsentTask, NewTask, AbsentExec, LegacyRow
    <2>. QED  BY <1>1, <2>1, <2>2
  <1>5. PreparingIffActive
    <2>1. OneActive
      BY <1>2, <1>3, <1>4, Bounds DEF OneActive, HasActiveExecution, InProgress
    <2>. QED  BY <1>0, <2>1, ActiveForms
  <1>6. HistoryInv
    <2>1. ASSUME NEW e \in Execs, exec[e].status # "absent"
          PROVE  /\ e = 1 /\ exec[e].task = 1 /\ task[1].status = "PREPARING" /\ task[1].def = d
                 /\ exec[e].status = "RUNNING" /\ exec[e].core # NoId
                 /\ exec[e].reviewed = "no" /\ exec[e].def = d
      BY <1>2, <1>3, <1>4, <2>1, Bounds
    <2>2. ASSUME NEW e \in Execs, exec[e].status # "absent" PROVE IsLatest(e, exec[e].task)
      BY <1>3, <2>1, <2>2 DEF IsLatest
    <2>3. \A f \in Execs : ~(f < 1)
      BY DEF Execs
    <2>. QED  BY <2>1, <2>2, <2>3 DEF HistoryInv, InProgress
  <1>7. SpentInv
    BY <1>3 DEF SpentInv, Spent
  <1>8. ExecutorMatchesAssignee /\ PreparationPinsLifecycle
    BY <1>3 DEF ExecutorMatchesAssignee, PreparationPinsLifecycle, InProgress
  <1>9. ReviewsMatchTasks /\ StartedAfterUpstream
    BY <1>2 DEF ReviewsMatchTasks, StartedAfterUpstream
  <1>10. LinkInv
    BY <1>2, Bounds DEF LinkInv, ReplacedStaysStopped
  <1>. QED  BY <1>5, <1>6, <1>7, <1>8, <1>9, <1>10 DEF TablesInv

LEMMA IInvInit == Init => IInv
  <1>. SUFFICES ASSUME Init PROVE IInv
    OBVIOUS
  <1>1. TypeInv /\ TablesInv
    BY TypeInit, TablesInit
  <1>2. \A h \in Handlers : handler[h] = IdleRequest
    BY DEF Init
  <1>3. RequestFits(IdleRequest)
    BY DEF RequestFits, IdleRequest, Holding
  <1>4. \A w \in Pollers : poll[w].pc = "idle"
    BY DEF Init, IdlePass
  <1>5. \A o \in Operators : desk[o] = NoView
    BY DEF Init
  <1>6. ViewFits(NoView)
    BY DEF ViewFits, NoView
  <1>. QED  BY <1>1, <1>2, <1>3, <1>4, <1>5, <1>6 DEF IInv, RequestInv, PollInv, DeskInv

LEMMA IInvSteps == IInv /\ [Next]_vars => TableStep
  BY StepKinds DEF IInv, TablesInv

LEMMA IInvStep == IInv /\ [Next]_vars => IInv'
  <1>. SUFFICES ASSUME IInv, [Next]_vars PROVE IInv'
    OBVIOUS
  <1>1. TypeInv /\ TypeInv'
    BY TypeStep DEF IInv
  <1>2. TableStep /\ Forward
    BY <1>1, IInvSteps, TableForward
  <1>3. OneActive /\ HistoryInv
    BY <1>1, ActiveForms DEF IInv, TablesInv
  <1>4. RequestInv' /\ PollInv' /\ DeskInv'
    BY <1>1, <1>2, RequestInvStep, PollInvStep, DeskInvStep DEF IInv
  <1>5. PreparingIffActive'
    <2>1. OneActive'
      BY <1>1, <1>2, <1>3, ActiveStep
    <2>2. TypeInv' => (PreparingIffActive' <=> OneActive')
      BY ActiveForms, PTL
    <2>. QED  BY <1>1, <2>1, <2>2
  <1>6. HistoryInv' /\ SpentInv'
    BY <1>1, <1>2, <1>3, HistoryStep, SpentStep DEF IInv, TablesInv
  <1>7. ExecutorMatchesAssignee' /\ PreparationPinsLifecycle' /\ ReviewsMatchTasks'
    BY <1>1, <1>2, <1>3, ExecutorStep, PinsStep, ReviewsStep DEF IInv, TablesInv
  <1>8. StartedAfterUpstream' /\ LinkInv'
    BY <1>1, <1>2, UpstreamStep, LinkStep DEF IInv, TablesInv
  <1>. QED  BY <1>1, <1>4, <1>5, <1>6, <1>7, <1>8 DEF IInv, TablesInv

LEMMA IInvAlways == Spec => []IInv
  BY IInvInit, IInvStep, PTL DEF Spec

\* PreparingIffActive: a task is PREPARING exactly while one of its executions
\* is in progress, and never two are.
THEOREM PreparingExactlyOne == Spec => []PreparingIffActive
  <1>1. IInv => PreparingIffActive
    BY DEF IInv, TablesInv
  <1>. QED  BY <1>1, IInvAlways, PTL

\* ExecutorMatchesAssignee: what is in progress is done by the kind of assignee
\* the task has, although the request looked that up before its claim.
THEOREM ExecutorsMatch == Spec => []ExecutorMatchesAssignee
  <1>1. IInv => ExecutorMatchesAssignee
    BY DEF IInv, TablesInv
  <1>. QED  BY <1>1, IInvAlways, PTL

\* PreparationPinsLifecycle: no claim outlives the lifecycle of the merchant it
\* was made in, until its result has been reviewed.
THEOREM LifecycleIsPinned == Spec => []PreparationPinsLifecycle
  <1>1. IInv => PreparationPinsLifecycle
    BY DEF IInv, TablesInv
  <1>. QED  BY <1>1, IInvAlways, PTL

\* ReviewsMatchTasks: what awaits approval can be approved, and what is DONE
\* was approved for the definition the task has.
THEOREM ReviewsAreOfTasks == Spec => []ReviewsMatchTasks
  <1>1. IInv => ReviewsMatchTasks
    BY DEF IInv, TablesInv
  <1>. QED  BY <1>1, IInvAlways, PTL

\* StartedAfterUpstream: nothing is started before its upstream tasks are DONE,
\* and none of those is ever taken back.
THEOREM UpstreamComesFirst == Spec => []StartedAfterUpstream
  <1>1. IInv => StartedAfterUpstream
    BY DEF IInv, TablesInv
  <1>. QED  BY <1>1, IInvAlways, PTL

\* NoBlindRepeat: an Agent's attempt that was not seen to succeed is the last of
\* its task.
THEOREM NeverRepeatedBlindly == Spec => []NoBlindRepeat
  <1>1. IInv => NoBlindRepeat
    BY DEF IInv, TablesInv, SpentInv, Spent, NoBlindRepeat
  <1>. QED  BY <1>1, IInvAlways, PTL

\* ReplacedStaysStopped: a replaced task stays cancelled, and the two links of
\* a replacement agree.
THEOREM ReplacementsAreFinal == Spec => []ReplacedStaysStopped
  <1>1. IInv => ReplacedStaysStopped
    BY DEF IInv, TablesInv, LinkInv
  <1>. QED  BY <1>1, IInvAlways, PTL

-----------------------------------------------------------------------------
(* What a step may never do.                                                *)

LEMMA FinalStep ==
    ASSUME TypeInv, TableStep, NEW v \in Execs, exec[v].status \in Ended
    PROVE  /\ exec'[v].status = exec[v].status /\ exec'[v].core = exec[v].core
           /\ exec[v].reviewed # "no" => exec'[v].reviewed = exec[v].reviewed
  <1>1. ASSUME UNCHANGED exec
        PROVE  /\ exec'[v].status = exec[v].status /\ exec'[v].core = exec[v].core
               /\ exec[v].reviewed # "no" => exec'[v].reviewed = exec[v].reviewed
    BY <1>1
  <1>2. CASE Stays
    BY <1>1, <1>2 DEF Stays
  <1>3. ASSUME NEW t \in Tasks, NEW u \in Tasks, Touches(t) \/ Adds(t) \/ Replaces(t, u)
        PROVE  UNCHANGED exec
    BY <1>3 DEF Touches, Adds, Replaces
  <1>4. ASSUME NEW t \in Tasks, NEW e \in Execs, Starts(t, e) \/ Finishes(t, e)
        PROVE  exec'[v] = exec[v]
    <2>1. v # e
      BY <1>4 DEF Starts, IsNextExecution, Finishes, InProgress, Ended
    <2>. QED  BY <1>4, <2>1, StartsRows, FinishesRows
  <1>5. ASSUME NEW t \in Tasks, NEW e \in Execs, Reviews(t, e)
        PROVE  /\ exec'[v].status = exec[v].status /\ exec'[v].core = exec[v].core
               /\ exec[v].reviewed # "no" => exec'[v].reviewed = exec[v].reviewed
    BY <1>5, ReviewsRows
  <1>6. ASSUME NEW e \in Execs, Progresses(e) PROVE exec'[v] = exec[v]
    <2>1. v # e
      BY <1>6, ProgressesRows DEF InProgress, Ended
    <2>. QED  BY <1>6, <2>1, ProgressesRows
  <1>. QED  BY <1>1, <1>2, <1>3, <1>4, <1>5, <1>6 DEF TableStep

\* AttemptsAreFinal: no late answer, poll or review changes how an attempt ended,
\* which run it had, or what its review was.
THEOREM AttemptsStayFinal == Spec => AttemptsAreFinal
  <1>1. IInv /\ [Next]_vars =>
          \A e \in Execs :
             exec[e].status \in {"SUCCEEDED", "FAILED", "UNKNOWN"} =>
                /\ exec'[e].status = exec[e].status
                /\ exec'[e].core = exec[e].core
                /\ exec[e].reviewed # "no" => exec'[e].reviewed = exec[e].reviewed
    BY IInvSteps, FinalStep DEF IInv, Ended
  <1>. QED  BY <1>1, IInvAlways, PTL DEF Spec, AttemptsAreFinal

LEMMA InformedStep ==
    ASSUME TypeInv, DeskInv, [Next]_vars, NEW o \in Operators, desk'[o] # desk[o], task' # task
    PROVE  LET t == desk[o].task IN
           /\ task[t].status = desk[o].status
           /\ IF desk[o].exec = 0 THEN \A e \in Execs : exec[e].task # t
                                  ELSE IsLatest(desk[o].exec, t)
  <1>1. PICK p \in Operators : DeskNext(p)
    <2>1. ASSUME NEW w \in Pollers, PollNext(w) PROVE UNCHANGED desk
      BY <2>1 DEF PollNext, PollSelect, PollRead, PollAsk, PollCommit
    <2>2. ASSUME NEW h \in Handlers, HandlerNext(h) PROVE UNCHANGED desk
      BY <2>2 DEF HandlerNext, Open, Route, Preflight, Refuse, ClaimCall, ClaimAgent, Claim,
                  CallEnds, TriggerEnds, Complete, Discard, Bind, BindRefused
    <2>3. ASSUME MerchantNext \/ PlanNext \/ UNCHANGED vars \/ Crash
                 \/ \E e \in Execs : Ages(e) \/ Recover(e)
          PROVE  UNCHANGED desk
      BY <2>3 DEF MerchantNext, Archive, Restore, RunBinds, PlanNext, Create, Redefine, Drop,
                  Ages, Recover, Crash, vars
    <2>. QED  BY <2>1, <2>2, <2>3 DEF Next
  <1>2. /\ ~Reload(p) /\ \A t \in Tasks : ~See(p, t)
    BY DEF Reload, See
  <1>3. Seen(p) /\ Decided(p)
    BY <1>1, <1>2 DEF DeskNext, Patch, Assign, Cancel, Retry, Approve, Return, Review, Replace
  <1>4. p = o
    BY <1>3 DEF Decided, TypeInv, TypeOK
  <1>5. desk[o].task # 0 /\ task[desk[o].task].version = desk[o].version
    BY <1>3, <1>4 DEF Seen
  <1>6. desk[o].status = task[desk[o].task].status /\ Shown(desk[o].exec, desk[o].task)
    BY <1>5 DEF DeskInv, ViewFits
  <1>. QED  BY <1>6 DEF Shown

\* DecisionsAreInformed: every decision is about the status and the attempt that
\* the operator's page showed.
THEOREM DecisionsStayInformed == Spec => DecisionsAreInformed
  <1>1. IInv /\ [Next]_vars =>
          \A o \in Operators :
             desk'[o] # desk[o] /\ task' # task =>
                LET t == desk[o].task IN
                /\ task[t].status = desk[o].status
                /\ IF desk[o].exec = 0 THEN \A e \in Execs : exec[e].task # t
                                       ELSE IsLatest(desk[o].exec, t)
    BY InformedStep DEF IInv
  <1>. QED  BY <1>1, IInvAlways, PTL DEF Spec, DecisionsAreInformed

-----------------------------------------------------------------------------
(* Refinement.                                                              *)

LEMMA WorkflowInit == Init => Workflow!Init
  <1>. SUFFICES ASSUME Init PROVE Workflow!Init
    OBVIOUS
  <1>1. active = TRUE /\ generation \in Nat
    BY DEF Init
  <1>2. ASSUME NEW t \in Tasks
        PROVE  task[t].status \in {"absent", "PREPARING"} /\ task[t].def \in Definitions
    <2>1. task[t].def \in Definitions
      BY TypeInit, TaskRowOf
    <2>2. task[t].status \in {"absent", "PREPARING"}
      BY DEF Init, AbsentTask, NewTask
    <2>. QED  BY <2>1, <2>2
  <1>. QED  BY <1>1, <1>2 DEF Workflow!Init

\* Where the template lets a task go.
LEMMA Template ==
    /\ "PREPARING" \in Workflow!Transitions["PENDING"]
    /\ "CANCELLED" \in Workflow!Transitions["PENDING"]
    /\ "AWAITING_APPROVAL" \in Workflow!Transitions["PREPARING"]
    /\ "NEEDS_ATTENTION" \in Workflow!Transitions["PREPARING"]
    /\ "DONE" \in Workflow!Transitions["AWAITING_APPROVAL"]
    /\ "PENDING" \in Workflow!Transitions["AWAITING_APPROVAL"]
    /\ "CANCELLED" \in Workflow!Transitions["AWAITING_APPROVAL"]
    /\ "PENDING" \in Workflow!Transitions["NEEDS_ATTENTION"]
    /\ "CANCELLED" \in Workflow!Transitions["NEEDS_ATTENTION"]
  BY DEF Workflow!Transitions, Workflow!Statuses

\* A task that moves along the template, for an active merchant.
LEMMA WorkflowMoves ==
    ASSUME NEW t \in Tasks, active, UNCHANGED <<active, generation>>, OnlyTask(t),
           NEW s \in Workflow!Statuses, s \in Workflow!Transitions[task[t].status],
           task'[t].status = s, task'[t].def = task[t].def
    PROVE  Workflow!Next
  <1>1. ASSUME NEW u \in Tasks
        PROVE  /\ task'[u].status = IF u = t THEN s ELSE task[u].status
               /\ task'[u].def = task[u].def
    BY DEF OnlyTask
  <1>2. Workflow!Move(t, s)
    BY <1>1 DEF Workflow!Move
  <1>. QED  BY <1>2 DEF Workflow!Next

LEMMA WorkflowStutters ==
    ASSUME UNCHANGED <<active, generation>>,
           \A t \in Tasks : task'[t].status = task[t].status /\ task'[t].def = task[t].def
    PROVE  UNCHANGED Workflow!vars
  BY DEF Workflow!vars

LEMMA WorkflowStep == IInv /\ [Next]_vars => [Workflow!Next]_(Workflow!vars)
  <1>. SUFFICES ASSUME IInv, [Next]_vars PROVE [Workflow!Next]_(Workflow!vars)
    OBVIOUS
  <1>1. TypeInv /\ TypeInv' /\ TableStep
    BY TypeStep, IInvSteps DEF IInv
  <1>2. CASE MerchantNext
    <2>1. CASE Archive
      <3>1. ~Workflow!Busy
        BY <2>1 DEF Archive, HasTaskWork, Workflow!Busy
      <3>2. Workflow!Archive
        BY <2>1, <3>1 DEF Archive, Workflow!Archive
      <3>. QED  BY <3>2 DEF Workflow!Next
    <2>2. CASE Restore
      <3>1. Workflow!Restore
        BY <2>2 DEF Restore, Workflow!Restore
      <3>. QED  BY <3>1 DEF Workflow!Next
    <2>3. ASSUME NEW p \in ProviderIds, RunBinds(p) PROVE UNCHANGED Workflow!vars
      BY <2>3, WorkflowStutters DEF RunBinds, merchant
    <2>. QED  BY <1>2, <2>1, <2>2, <2>3 DEF MerchantNext
  <1>3. CASE UNCHANGED <<active, generation>> /\ Stays
    BY <1>3, WorkflowStutters DEF Stays
  <1>4. ASSUME NEW t \in Tasks, Touches(t) PROVE [Workflow!Next]_(Workflow!vars)
    <2>1. /\ active /\ UNCHANGED <<active, generation>> /\ OnlyTask(t)
          /\ task'[t].def \in Definitions
      BY <1>1, <1>4 DEF Touches, TypeInv, TypeOK, TaskRow
    <2>2. CASE task'[t].status = task[t].status /\ task'[t].def = task[t].def
      BY <2>1, <2>2, WorkflowStutters DEF OnlyTask
    <2>3. CASE task'[t].status = task[t].status /\ task'[t].def # task[t].def
      <3>1. task[t].status = "PENDING"
        BY <1>4, <2>3 DEF Touches
      <3>2. PICK d \in Definitions : d = task'[t].def
        BY <2>1
      <3>3. ASSUME NEW u \in Tasks
            PROVE  /\ task'[u].status = task[u].status
                   /\ task'[u].def = IF u = t THEN d ELSE task[u].def
        BY <2>1, <2>3, <3>2 DEF OnlyTask
      <3>4. Workflow!Redefine(t, d)
        BY <2>1, <3>1, <3>3 DEF Workflow!Redefine
      <3>. QED  BY <3>4 DEF Workflow!Next
    <2>4. CASE task'[t].status # task[t].status
      <3>1. /\ task'[t].def = task[t].def
            /\ task'[t].status \in {"CANCELLED", "PENDING"}
            /\ task'[t].status \in Workflow!Transitions[task[t].status]
        BY <1>4, <2>4, Template DEF Touches
      <3>. QED  BY <2>1, <3>1, WorkflowMoves DEF Workflow!Statuses
    <2>. QED  BY <2>2, <2>3, <2>4
  <1>5. ASSUME NEW u \in Tasks, Adds(u) PROVE Workflow!Next
    <2>1. /\ active /\ UNCHANGED <<active, generation>> /\ OnlyTask(u)
          /\ task[u].status = "absent" /\ task'[u].status = "PENDING"
      BY <1>5 DEF Adds, IsNew
    <2>2. PICK d \in Definitions : d = task'[u].def
      BY <1>1 DEF TypeInv, TypeOK, TaskRow
    <2>3. ASSUME NEW v \in Tasks
          PROVE  /\ task'[v].status = IF v = u THEN "PENDING" ELSE task[v].status
                 /\ task'[v].def = IF v = u THEN d ELSE task[v].def
      BY <2>1, <2>2 DEF OnlyTask
    <2>4. Workflow!Create(u, d)
      BY <2>1, <2>3 DEF Workflow!Create
    <2>. QED  BY <2>4 DEF Workflow!Next
  <1>6. ASSUME NEW t \in Tasks, NEW u \in Tasks, Replaces(t, u) PROVE Workflow!Next
    <2>1. /\ active /\ UNCHANGED <<active, generation>>
          /\ task[t].status \in {"NEEDS_ATTENTION", "CANCELLED"}
          /\ task[u].status = "absent" /\ task'[u].status = "PENDING"
          /\ task'[t].status = "CANCELLED" /\ task'[t].def = task[t].def
          /\ \A v \in Tasks : v # t /\ v # u => task'[v] = task[v]
      BY <1>6 DEF Replaces, IsNew
    <2>2. PICK d \in Definitions : d = task'[u].def
      BY <1>1 DEF TypeInv, TypeOK, TaskRow
    <2>3. ASSUME NEW v \in Tasks
          PROVE  /\ task'[v].status = IF v = u THEN "PENDING"
                                      ELSE IF v = t THEN "CANCELLED" ELSE task[v].status
                 /\ task'[v].def = IF v = u THEN d ELSE task[v].def
      BY <2>1, <2>2
    <2>4. Workflow!Replace(t, u, d)
      BY <2>1, <2>3 DEF Workflow!Replace
    <2>. QED  BY <2>4 DEF Workflow!Next
  <1>7. ASSUME NEW t \in Tasks, NEW e \in Execs, Starts(t, e) \/ Finishes(t, e) \/ Reviews(t, e)
        PROVE  Workflow!Next
    <2>1. /\ active /\ UNCHANGED <<active, generation>> /\ OnlyTask(t)
          /\ task'[t].def = task[t].def
          /\ task'[t].status \in Workflow!Transitions[task[t].status]
          /\ task'[t].status \in {"PREPARING", "AWAITING_APPROVAL", "NEEDS_ATTENTION", "DONE",
                                  "PENDING"}
      BY <1>7, StartsRows, FinishesRows, ReviewsRows, Template DEF OnlyTask
    <2>. QED  BY <2>1, WorkflowMoves DEF Workflow!Statuses
  <1>8. ASSUME NEW e \in Execs, Progresses(e) PROVE UNCHANGED Workflow!vars
    BY <1>8, ProgressesRows, WorkflowStutters
  <1>9. MerchantNext \/ UNCHANGED <<active, generation>>
    <2>1. ASSUME NEW w \in Pollers, PollNext(w) PROVE UNCHANGED <<active, generation>>
      BY <2>1 DEF PollNext, PollSelect, PollRead, PollAsk, PollCommit, merchant
    <2>2. ASSUME NEW h \in Handlers, HandlerNext(h) PROVE UNCHANGED <<active, generation>>
      BY <2>2 DEF HandlerNext, Open, Route, Preflight, Refuse, ClaimCall, ClaimAgent, Claim,
                  CallEnds, TriggerEnds, Complete, Discard, Bind, BindRefused, merchant
    <2>3. ASSUME NEW o \in Operators, DeskNext(o) PROVE UNCHANGED <<active, generation>>
      BY <2>3 DEF DeskNext, See, Reload, Patch, Assign, Cancel, Retry, Approve, Return, Review,
                  Replace, Decided, merchant
    <2>4. ASSUME PlanNext \/ UNCHANGED vars \/ Crash \/ \E e \in Execs : Ages(e) \/ Recover(e)
          PROVE  UNCHANGED <<active, generation>>
      BY <2>4 DEF PlanNext, Create, Redefine, Drop, Ages, Recover, Crash, vars, merchant
    <2>. QED  BY <2>1, <2>2, <2>3, <2>4 DEF Next
  <1>. QED
    BY <1>1, <1>2, <1>3, <1>4, <1>5, <1>6, <1>7, <1>8, <1>9 DEF TableStep

\* ImplementsWorkflow: requests, answers, recovery, polls, operators, plans and
\* crashes together move tasks along the template of task_workflows.py, and an
\* archived merchant has nothing in preparation or review.
THEOREM PreparationImplementsWorkflow == Spec => ImplementsWorkflow
  BY IInvAlways, WorkflowInit, WorkflowStep, PTL DEF Spec, ImplementsWorkflow, Workflow!Spec

=============================================================================
