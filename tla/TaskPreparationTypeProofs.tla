---------------------- MODULE TaskPreparationTypeProofs ----------------------
(***************************************************************************)
(* The tables of tasks and executions keep their types, and an attempt that *)
(* has ended stays what it was, for any number of tasks, executions,        *)
(* requests, scheduler loops and operators.                                 *)
(***************************************************************************)
EXTENDS TaskPreparation, TLAPS

\* Where a request has made its claim.
Holding == {"calling", "triggering", "ended"}

\* What the types alone do not say: an actor that is under way is about a row
\* that the tables have, and an execution that exists is of a task.
ActorsInv ==
    /\ \A h \in Handlers :
          /\ handler[h].pc # "idle" => handler[h].task \in Tasks
          /\ handler[h].pc \in Holding => handler[h].exec \in Execs
    /\ \A w \in Pollers :
          /\ poll[w].pc # "idle" =>
                poll[w].exec \in Execs /\ exec[poll[w].exec].status # "absent"
          /\ poll[w].pc = "decided" => poll[w].verdict # "none"
    /\ \A e \in Execs : exec[e].status # "absent" <=> exec[e].task \in Tasks

TypeInv == TypeOK /\ ActorsInv

\* The executions after a step: rows of their type, and none is forgotten.
ExecsKept ==
    /\ exec' \in [Execs -> ExecRow]
    /\ \A e \in Execs : /\ exec'[e].status # "absent" <=> exec'[e].task \in Tasks
                        /\ exec[e].status # "absent" => exec'[e].status # "absent"

-----------------------------------------------------------------------------
(* Rows.                                                                    *)

LEMMA Bounds ==
    /\ Tasks \subseteq 0..MaxTasks /\ Tasks \subseteq Nat /\ 0 \notin Tasks
    /\ Execs \subseteq 0..MaxExecutions /\ Execs \subseteq Nat /\ 0 \notin Execs
    /\ 1 \in Tasks /\ 1 \in Execs
    /\ \A i \in 0..MaxTasks : i # 0 => i \in Tasks
    /\ \A i \in 0..MaxExecutions : i # 0 => i \in Execs
    /\ \A p \in ProviderIds : p # NoId
  BY BoundsAssumption, IdsAssumption DEF Tasks, Execs

LEMMA NewTaskType ==
    ASSUME NEW d \in Definitions, NEW ups \in SUBSET Tasks, NEW of \in 0..MaxTasks
    PROVE  NewTask(d, ups, of) \in TaskRow
  BY BoundsAssumption DEF NewTask, TaskRow, TaskStatuses

LEMMA AbsentTaskType ==
    ASSUME NEW d \in Definitions
    PROVE  /\ AbsentTask(d) \in TaskRow
           /\ [NewTask(d, {}, 0) EXCEPT !.status = "PREPARING"] \in TaskRow
  BY BoundsAssumption DEF AbsentTask, NewTask, TaskRow, TaskStatuses

LEMMA AbsentExecType ==
    ASSUME NEW d \in Definitions
    PROVE  AbsentExec(d) \in ExecRow
  BY BoundsAssumption DEF AbsentExec, ExecRow, ExecStatuses, Ids

LEMMA LegacyRowType ==
    ASSUME NEW d \in Definitions, NEW p \in ProviderIds
    PROVE  LegacyRow(d, p) \in ExecRow
  <1>1. ASSUME NEW row \in ExecRow
        PROVE  [row EXCEPT !.status = "RUNNING", !.task = 1, !.kind = "LEGACY", !.core = p] \in ExecRow
    <2>0. 1 \in 0..MaxTasks
      BY BoundsAssumption
    <2>1. ASSUME NEW t \in 0..MaxTasks
          PROVE  [row EXCEPT !.status = "RUNNING", !.task = t] \in ExecRow
      BY DEF ExecRow, ExecStatuses
    <2>2. ASSUME NEW r \in ExecRow PROVE [r EXCEPT !.kind = "LEGACY", !.core = p] \in ExecRow
      BY DEF ExecRow, Ids
    <2>. QED  BY <2>0, <2>1, <2>2
  <1>. QED  BY <1>1, AbsentExecType DEF LegacyRow

LEMMA IdleTypes == IdleRequest \in Request /\ IdlePass \in Pass /\ NoView \in View
  BY BoundsAssumption
     DEF IdleRequest, Request, IdlePass, Pass, NoView, View, TaskStatuses, Ids

\* The ways in which a task row is written.
LEMMA TaskMoves ==
    ASSUME NEW row \in TaskRow, NEW s \in TaskStatuses
    PROVE  [row EXCEPT !.status = s, !.version = @ + 1] \in TaskRow
  <1>1. row.version + 1 \in Nat
    BY DEF TaskRow
  <1>2. ASSUME NEW n \in Nat PROVE [row EXCEPT !.status = s, !.version = n] \in TaskRow
    BY DEF TaskRow
  <1>. QED  BY <1>1, <1>2

LEMMA TaskRewritten ==
    ASSUME NEW row \in TaskRow, NEW d \in Definitions, NEW ups \in SUBSET Tasks
    PROVE  [row EXCEPT !.def = d, !.ups = ups, !.version = @ + 1] \in TaskRow
  <1>1. row.version + 1 \in Nat
    BY DEF TaskRow
  <1>2. ASSUME NEW n \in Nat
        PROVE  [row EXCEPT !.def = d, !.ups = ups, !.version = n] \in TaskRow
    BY DEF TaskRow
  <1>. QED  BY <1>1, <1>2

LEMMA TaskPatched ==
    ASSUME NEW row \in TaskRow
    PROVE  [row EXCEPT !.version = @ + 1] \in TaskRow
  <1>1. row.version + 1 \in Nat
    BY DEF TaskRow
  <1>2. ASSUME NEW n \in Nat PROVE [row EXCEPT !.version = n] \in TaskRow
    BY DEF TaskRow
  <1>. QED  BY <1>1, <1>2

LEMMA TaskAssigned ==
    ASSUME NEW row \in TaskRow, NEW who \in {"none", "human", "agent"}
    PROVE  [row EXCEPT !.owner = who, !.version = @ + 1] \in TaskRow
  <1>1. row.version + 1 \in Nat
    BY DEF TaskRow
  <1>2. ASSUME NEW n \in Nat
        PROVE  [row EXCEPT !.owner = who, !.version = n] \in TaskRow
    BY DEF TaskRow
  <1>. QED  BY <1>1, <1>2

LEMMA TaskLinked ==
    ASSUME NEW row \in TaskRow, NEW u \in 0..MaxTasks
    PROVE  [row EXCEPT !.by = u] \in TaskRow
  BY DEF TaskRow

\* The ways in which an execution row is written.
LEMMA ExecRowWrites ==
    ASSUME NEW row \in ExecRow, NEW s \in ExecStatuses, NEW p \in Ids,
           NEW r \in {"no", "approved", "returned"}
    PROVE  /\ [row EXCEPT !.status = s] \in ExecRow
           /\ [row EXCEPT !.status = s, !.core = p] \in ExecRow
           /\ [row EXCEPT !.old = TRUE] \in ExecRow
           /\ [row EXCEPT !.reviewed = r] \in ExecRow
  BY DEF ExecRow

LEMMA TypeInit == Init => TypeInv
  <1>. SUFFICES ASSUME Init PROVE TypeInv
    OBVIOUS
  <1>1. active \in BOOLEAN /\ generation \in 1..MaxGeneration /\ runBound \in SUBSET ProviderIds
        /\ crashes \in 0..MaxCrashes
    BY BoundsAssumption DEF Init
  <1>2. /\ handler \in [Handlers -> Request] /\ poll \in [Pollers -> Pass]
        /\ desk \in [Operators -> View]
    BY IdleTypes DEF Init
  <1>3. PICK d \in Definitions :
          \/ /\ task = [t \in Tasks |-> AbsentTask(d)]
             /\ exec = [e \in Execs |-> AbsentExec(d)]
          \/ /\ task = [t \in Tasks |-> IF t = 1 THEN [NewTask(d, {}, 0) EXCEPT !.status = "PREPARING"]
                                                 ELSE AbsentTask(d)]
             /\ \E p \in ProviderIds :
                   exec = [e \in Execs |-> IF e = 1 THEN LegacyRow(d, p) ELSE AbsentExec(d)]
    BY DEF Init
  <1>4. task \in [Tasks -> TaskRow]
    BY <1>3, AbsentTaskType
  <1>5. exec \in [Execs -> ExecRow]
    BY <1>3, AbsentExecType, LegacyRowType
  <1>6. \A e \in Execs : exec[e].status # "absent" <=> exec[e].task \in Tasks
    <2>1. AbsentExec(d).status = "absent" /\ AbsentExec(d).task \notin Tasks
      BY Bounds DEF AbsentExec
    <2>2. \A p \in ProviderIds :
            LegacyRow(d, p).status # "absent" /\ LegacyRow(d, p).task \in Tasks
      BY Bounds DEF AbsentExec, LegacyRow
    <2>. QED  BY <1>3, <2>1, <2>2
  <1>7. ActorsInv
    BY <1>6 DEF Init, ActorsInv, IdleRequest, IdlePass, Holding
  <1>. QED  BY <1>1, <1>2, <1>4, <1>5, <1>7 DEF TypeInv, TypeOK

-----------------------------------------------------------------------------
(* The merchant and the plan.                                               *)

LEMMA TypeMerchant == TypeInv /\ MerchantNext => TypeInv'
  <1>. SUFFICES ASSUME TypeInv, MerchantNext PROVE TypeInv'
    OBVIOUS
  <1>1. UNCHANGED <<task, exec, handler, poll, desk, crashes>>
    BY DEF MerchantNext, Archive, Restore, RunBinds
  <1>2. active' \in BOOLEAN /\ generation' \in 1..MaxGeneration /\ runBound' \in SUBSET ProviderIds
    <2>1. ASSUME Archive \/ Restore
          PROVE  active' \in BOOLEAN /\ generation' \in 1..MaxGeneration /\ runBound' = runBound
      <3>1. active' \in BOOLEAN
        BY <2>1 DEF Archive, Restore
      <3>2. generation < MaxGeneration /\ generation' = generation + 1 /\ runBound' = runBound
        BY <2>1 DEF Archive, Restore
      <3>3. generation \in 1..MaxGeneration
        BY DEF TypeInv, TypeOK
      <3>. QED  BY <3>1, <3>2, <3>3, BoundsAssumption
    <2>2. ASSUME NEW p \in ProviderIds, RunBinds(p)
          PROVE  UNCHANGED merchant /\ runBound' = runBound \cup {p}
      BY <2>2 DEF RunBinds
    <2>. QED  BY <2>1, <2>2 DEF MerchantNext, merchant, TypeInv, TypeOK
  <1>. QED  BY <1>1, <1>2 DEF TypeInv, TypeOK, ActorsInv

\* One task row is written, and nothing else that has a type to lose.
LEMMA TaskWritten ==
    ASSUME TypeInv, NEW t, NEW row \in TaskRow, task' = [task EXCEPT ![t] = row],
           desk' \in [Operators -> View],
           UNCHANGED <<merchant, exec, runBound, handler, poll, crashes>>
    PROVE  TypeInv'
  BY DEF TypeInv, TypeOK, ActorsInv, ExecsKept, merchant

LEMMA TaskRowOf ==
    ASSUME TypeInv, NEW t \in Tasks
    PROVE  task[t] \in TaskRow /\ task[t].def \in Definitions /\ task[t].ups \in SUBSET Tasks
           /\ task[t].version \in Nat /\ task[t].status \in TaskStatuses
  BY DEF TypeInv, TypeOK, TaskRow

LEMMA MovedType ==
    ASSUME TypeInv, NEW t \in Tasks, NEW s \in TaskStatuses
    PROVE  Moved(t, s) \in TaskRow
  BY TaskRowOf, TaskMoves DEF Moved

LEMMA TypePlan == TypeInv /\ PlanNext => TypeInv'
  <1>. SUFFICES ASSUME TypeInv, PlanNext PROVE TypeInv'
    OBVIOUS
  <1>0. desk \in [Operators -> View]
    BY DEF TypeInv, TypeOK
  <1>1. ASSUME NEW t \in Tasks, NEW d \in Definitions, NEW ups \in SUBSET Tasks, Create(t, d, ups)
        PROVE  TypeInv'
    <2>1. NewTask(d, ups, 0) \in TaskRow
      BY NewTaskType, BoundsAssumption
    <2>. QED  BY <1>0, <1>1, <2>1, TaskWritten DEF Create
  <1>2. ASSUME NEW t \in Tasks, NEW d \in Definitions, NEW ups \in SUBSET Tasks,
               Redefine(t, d, ups)
        PROVE  TypeInv'
    <2>. DEFINE row == [task[t] EXCEPT !.def = d, !.ups = ups, !.version = @ + 1]
    <2>1. row \in TaskRow
      BY TaskRowOf, TaskRewritten
    <2>2. task' = [task EXCEPT ![t] = row]
      BY <1>2 DEF Redefine
    <2>. HIDE DEF row
    <2>. QED  BY <1>0, <1>2, <2>1, <2>2, TaskWritten DEF Redefine
  <1>3. ASSUME NEW t \in Tasks, Drop(t) PROVE TypeInv'
    <2>1. Moved(t, "CANCELLED") \in TaskRow
      BY MovedType DEF TaskStatuses
    <2>. QED  BY <1>0, <1>3, <2>1, TaskWritten DEF Drop
  <1>. QED  BY <1>1, <1>2, <1>3 DEF PlanNext

-----------------------------------------------------------------------------
(* Requests.                                                                *)

\* One request moves, and with it at most the two tables.
LEMMA RequestMoves ==
    ASSUME TypeInv, NEW h \in Handlers, NEW r \in Request,
           handler' = [handler EXCEPT ![h] = r],
           r.pc # "idle" => r.task \in Tasks,
           r.pc \in Holding => r.exec \in Execs,
           task' \in [Tasks -> TaskRow], ExecsKept,
           UNCHANGED <<merchant, runBound, poll, desk, crashes>>
    PROVE  TypeInv'
  <1>1. handler' \in [Handlers -> Request]
    BY DEF TypeInv, TypeOK
  <1>2. \A g \in Handlers : handler'[g] = IF g = h THEN r ELSE handler[g]
    BY DEF TypeInv, TypeOK
  <1>3. \A g \in Handlers :
          /\ handler'[g].pc # "idle" => handler'[g].task \in Tasks
          /\ handler'[g].pc \in Holding => handler'[g].exec \in Execs
    BY <1>2 DEF TypeInv, ActorsInv
  <1>. QED  BY <1>1, <1>3 DEF TypeInv, TypeOK, ActorsInv, ExecsKept, merchant

\* One request moves, the tables stay.
LEMMA OnlyRequestMoves ==
    ASSUME TypeInv, NEW h \in Handlers, NEW r \in Request,
           handler' = [handler EXCEPT ![h] = r],
           r.pc # "idle" => r.task \in Tasks,
           r.pc \in Holding => r.exec \in Execs,
           UNCHANGED <<merchant, task, exec, runBound, poll, desk, crashes>>
    PROVE  TypeInv'
  BY RequestMoves DEF TypeInv, TypeOK, ActorsInv, ExecsKept

LEMMA RequestOf ==
    ASSUME TypeInv, NEW h \in Handlers
    PROVE  /\ handler[h] \in Request
           /\ handler[h].pc # "idle" => handler[h].task \in Tasks
           /\ handler[h].pc \in Holding => handler[h].exec \in Execs
  BY DEF TypeInv, TypeOK, ActorsInv

\* The ways in which a request remembers what it has read or done.
LEMMA RequestOpens ==
    ASSUME NEW t \in Tasks, NEW n \in Nat, NEW c \in BOOLEAN
    PROVE  /\ [IdleRequest EXCEPT !.pc = "routing", !.task = t, !.version = n, !.call = c] \in Request
           /\ [IdleRequest EXCEPT !.pc = "routing", !.task = t, !.version = n, !.call = c].pc = "routing"
           /\ [IdleRequest EXCEPT !.pc = "routing", !.task = t, !.version = n, !.call = c].task = t
  <1>1. ASSUME NEW q \in Request
        PROVE  /\ [q EXCEPT !.pc = "routing", !.task = t] \in Request
               /\ [q EXCEPT !.pc = "routing", !.task = t].pc = "routing"
               /\ [q EXCEPT !.pc = "routing", !.task = t].task = t
    BY Bounds DEF Request
  <1>2. ASSUME NEW q \in Request
        PROVE  /\ [q EXCEPT !.version = n, !.call = c] \in Request
               /\ [q EXCEPT !.version = n, !.call = c].pc = q.pc
               /\ [q EXCEPT !.version = n, !.call = c].task = q.task
    BY DEF Request
  <1>. QED  BY <1>1, <1>2, IdleTypes

LEMMA RequestSteps ==
    ASSUME NEW r \in Request, NEW c \in {"preflight", "checked", "claiming"}
    PROVE  [r EXCEPT !.pc = c] \in Request /\ [r EXCEPT !.pc = c].pc = c
           /\ [r EXCEPT !.pc = c].task = r.task
  BY DEF Request

LEMMA RequestChecked ==
    ASSUME NEW r \in Request, NEW g \in 0..MaxGeneration
    PROVE  [r EXCEPT !.pc = "checked", !.gen = g] \in Request
           /\ [r EXCEPT !.pc = "checked", !.gen = g].pc = "checked"
           /\ [r EXCEPT !.pc = "checked", !.gen = g].task = r.task
  BY DEF Request

LEMMA RequestClaims ==
    ASSUME NEW r \in Request, NEW c \in {"calling", "triggering"}, NEW g \in 0..MaxGeneration,
           NEW e \in 0..MaxExecutions
    PROVE  [r EXCEPT !.pc = c, !.version = @ + 1, !.gen = g, !.exec = e] \in Request
           /\ [r EXCEPT !.pc = c, !.version = @ + 1, !.gen = g, !.exec = e].task = r.task
           /\ [r EXCEPT !.pc = c, !.version = @ + 1, !.gen = g, !.exec = e].exec = e
  <1>1. r.version + 1 \in Nat
    BY DEF Request
  <1>2. ASSUME NEW n \in Nat
        PROVE  [r EXCEPT !.pc = c, !.version = n] \in Request
               /\ [r EXCEPT !.pc = c, !.version = n].task = r.task
    BY DEF Request
  <1>3. ASSUME NEW q \in Request
        PROVE  [q EXCEPT !.gen = g, !.exec = e] \in Request
               /\ [q EXCEPT !.gen = g, !.exec = e].task = q.task
               /\ [q EXCEPT !.gen = g, !.exec = e].exec = e
    BY DEF Request
  <1>. QED  BY <1>1, <1>2, <1>3

LEMMA RequestEnds ==
    ASSUME NEW r \in Request, NEW o \in {"result", "rejected", "ambiguous", "started"},
           NEW p \in Ids
    PROVE  /\ [r EXCEPT !.pc = "ended", !.outcome = o] \in Request
           /\ [r EXCEPT !.pc = "ended", !.outcome = o].task = r.task
           /\ [r EXCEPT !.pc = "ended", !.outcome = o].exec = r.exec
           /\ [r EXCEPT !.pc = "ended", !.outcome = o, !.id = p] \in Request
           /\ [r EXCEPT !.pc = "ended", !.outcome = o, !.id = p].task = r.task
           /\ [r EXCEPT !.pc = "ended", !.outcome = o, !.id = p].exec = r.exec
           /\ [r EXCEPT !.outcome = o, !.id = p] \in Request
           /\ [r EXCEPT !.outcome = o, !.id = p].task = r.task
           /\ [r EXCEPT !.outcome = o, !.id = p].exec = r.exec
  BY DEF Request

LEMMA PendingRowOf ==
    ASSUME TypeInv, NEW e \in Execs
    PROVE  /\ exec[e] \in ExecRow /\ exec[e].task \in 0..MaxTasks
           /\ exec[e].status # "absent" <=> exec[e].task \in Tasks
           /\ exec[e].status \in ExecStatuses
  BY DEF TypeInv, TypeOK, ActorsInv, ExecRow

LEMMA NewExecutionType ==
    ASSUME TypeInv, NEW h \in Handlers, handler[h].task \in Tasks,
           NEW kind \in {"LLM_CALL", "AGENT"}
    PROVE  /\ NewExecution(h, kind) \in ExecRow
           /\ NewExecution(h, kind).status = "DISPATCHING"
           /\ NewExecution(h, kind).task = handler[h].task
  <1>1. /\ task[handler[h].task].def \in Definitions
        /\ generation \in 0..MaxGeneration /\ handler[h].call \in BOOLEAN
        /\ handler[h].task \in 0..MaxTasks /\ NoId \in Ids
    BY TaskRowOf, Bounds DEF TypeInv, TypeOK, Request, Ids
  <1>. QED  BY <1>1 DEF NewExecution, ExecRow, ExecStatuses

\* A claim, an end of preparation or the binding of a run writes rows of their type.
LEMMA ExecWritten ==
    ASSUME TypeInv, NEW e \in Execs, NEW row \in ExecRow,
           row.status # "absent", row.task \in Tasks, exec' = [exec EXCEPT ![e] = row]
    PROVE  ExecsKept
  BY DEF ExecsKept, TypeInv, TypeOK, ActorsInv

Ended == {"SUCCEEDED", "FAILED", "UNKNOWN"}

LEMMA EndTypes ==
    ASSUME TypeInv, NEW e \in Execs, exec[e].status \in InProgress, NEW s \in Ended,
           EndPreparation(e, s)
    PROVE  task' \in [Tasks -> TaskRow] /\ ExecsKept
  <1>. DEFINE t == exec[e].task
              goal == IF s = "SUCCEEDED" THEN "AWAITING_APPROVAL" ELSE "NEEDS_ATTENTION"
              row == [exec[e] EXCEPT !.status = s]
  <1>1. t \in Tasks
    BY PendingRowOf DEF InProgress
  <1>2. Moved(t, goal) \in TaskRow
    BY <1>1, MovedType DEF TaskStatuses
  <1>3. task' = [task EXCEPT ![t] = Moved(t, goal)]
    BY DEF EndPreparation
  <1>4. task' \in [Tasks -> TaskRow]
    BY <1>2, <1>3 DEF TypeInv, TypeOK
  <1>5. row \in ExecRow /\ row.status = s /\ row.task = t
    BY PendingRowOf DEF ExecRow, ExecStatuses, Ended
  <1>6. exec' = [exec EXCEPT ![e] = row]
    BY DEF EndPreparation
  <1>. HIDE DEF row, t
  <1>7. row.status # "absent"
    BY <1>5 DEF Ended
  <1>. QED  BY <1>1, <1>4, <1>5, <1>6, <1>7, ExecWritten

LEMMA TypeClaims ==
    ASSUME TypeInv, NEW h \in Handlers, NEW e \in Execs, NEW kind \in {"LLM_CALL", "AGENT"},
           NEW pc \in {"calling", "triggering"}, handler[h].pc # "idle", Claim(h, e, kind, pc)
    PROVE  TypeInv'
  <1>. DEFINE t == handler[h].task
              r == [handler[h] EXCEPT !.pc = pc, !.version = @ + 1, !.gen = generation, !.exec = e]
              row == NewExecution(h, kind)
  <1>1. t \in Tasks /\ handler[h] \in Request
    BY RequestOf
  <1>2. r \in Request /\ r.task = t /\ r.exec = e
    <2>1. generation \in 0..MaxGeneration /\ e \in 0..MaxExecutions
      BY Bounds DEF TypeInv, TypeOK
    <2>2. r \in Request
      BY <1>1, <2>1, RequestClaims
    <2>3. r.task = t
      BY <1>1 DEF Request
    <2>4. r.exec = e
      BY <1>1 DEF Request
    <2>. QED  BY <2>2, <2>3, <2>4
  <1>3. row \in ExecRow /\ row.status # "absent" /\ row.task \in Tasks
    BY <1>1, NewExecutionType
  <1>4. Moved(t, "PREPARING") \in TaskRow
    BY <1>1, MovedType DEF TaskStatuses
  <1>5. /\ task' = [task EXCEPT ![t] = Moved(t, "PREPARING")]
        /\ exec' = [exec EXCEPT ![e] = row]
        /\ handler' = [handler EXCEPT ![h] = r]
        /\ UNCHANGED <<merchant, runBound, poll, desk, crashes>>
    BY DEF Claim
  <1>. HIDE DEF t, r, row
  <1>6. task' \in [Tasks -> TaskRow]
    BY <1>4, <1>5 DEF TypeInv, TypeOK
  <1>7. ExecsKept
    BY <1>3, <1>5, ExecWritten
  <1>. QED  BY <1>1, <1>2, <1>5, <1>6, <1>7, RequestMoves

\* A request that only reads, waits or is given up.
LEMMA TypeReads ==
    ASSUME TypeInv, NEW h \in Handlers,
           \/ \E t \in Tasks : Open(h, t)
           \/ Route(h) \/ Preflight(h) \/ Refuse(h)
           \/ CallEnds(h) \/ TriggerEnds(h) \/ Discard(h) \/ BindRefused(h)
    PROVE  TypeInv'
  <1>1. ASSUME NEW t \in Tasks, Open(h, t) PROVE TypeInv'
    <2>. DEFINE n == task[t].version
                c == task[t].owner # "agent"
                r == [IdleRequest EXCEPT !.pc = "routing", !.task = t,
                                         !.version = n, !.call = c]
    <2>1. n \in Nat /\ c \in BOOLEAN
      BY TaskRowOf
    <2>2. r \in Request
      BY <2>1, RequestOpens
    <2>4. r.pc = "routing" /\ r.task = t
      BY DEF IdleRequest
    <2>3. handler' = [handler EXCEPT ![h] = r]
          /\ UNCHANGED <<merchant, task, exec, runBound, poll, desk, crashes>>
      BY <1>1 DEF Open
    <2>. HIDE DEF r
    <2>. QED  BY <2>2, <2>3, <2>4, OnlyRequestMoves DEF Holding
  <1>2. ASSUME Route(h) PROVE TypeInv'
    <2>1. PICK c \in {"preflight", "checked", "claiming"} : handler' = [handler EXCEPT ![h].pc = c]
      BY <1>2 DEF Route
    <2>. DEFINE r == [handler[h] EXCEPT !.pc = c]
    <2>2. r \in Request /\ r.pc = c /\ r.task = handler[h].task
      BY RequestOf, RequestSteps
    <2>3. handler' = [handler EXCEPT ![h] = r]
      BY <2>1
    <2>4. handler[h].task \in Tasks /\ c \notin Holding
      BY <1>2, RequestOf DEF Route, Holding
    <2>5. UNCHANGED <<merchant, task, exec, runBound, poll, desk, crashes>>
      BY <1>2 DEF Route
    <2>. HIDE DEF r
    <2>. QED  BY <2>2, <2>3, <2>4, <2>5, OnlyRequestMoves
  <1>3. ASSUME Preflight(h) PROVE TypeInv'
    <2>. DEFINE r == [handler[h] EXCEPT !.pc = "checked", !.gen = generation]
    <2>1. generation \in 0..MaxGeneration
      BY DEF TypeInv, TypeOK
    <2>2. r \in Request /\ r.pc = "checked" /\ r.task = handler[h].task
      BY <2>1, RequestOf, RequestChecked
    <2>3. handler' = [handler EXCEPT ![h] = r]
      BY <1>3 DEF Preflight, TypeInv, TypeOK
    <2>4. handler[h].task \in Tasks
      BY <1>3, RequestOf DEF Preflight
    <2>5. UNCHANGED <<merchant, task, exec, runBound, poll, desk, crashes>>
      BY <1>3 DEF Preflight
    <2>. HIDE DEF r
    <2>. QED  BY <2>2, <2>3, <2>4, <2>5, OnlyRequestMoves DEF Holding
  <1>4. ASSUME Refuse(h) \/ Discard(h) PROVE TypeInv'
    <2>1. IdleRequest \in Request /\ IdleRequest.pc = "idle"
      BY IdleTypes DEF IdleRequest
    <2>2. handler' = [handler EXCEPT ![h] = IdleRequest]
          /\ UNCHANGED <<merchant, task, exec, runBound, poll, desk, crashes>>
      BY <1>4 DEF Refuse, Discard, Finished
    <2>. QED  BY <2>1, <2>2, OnlyRequestMoves DEF Holding
  <1>5. ASSUME CallEnds(h) \/ TriggerEnds(h) \/ BindRefused(h) PROVE TypeInv'
    <2>1. handler[h] \in Request /\ handler[h].task \in Tasks /\ handler[h].exec \in Execs
      BY <1>5, RequestOf DEF CallEnds, TriggerEnds, BindRefused, Holding
    <2>2. UNCHANGED <<merchant, task, exec, runBound, poll, desk, crashes>>
      BY <1>5 DEF CallEnds, TriggerEnds, BindRefused
    <2>3. PICK r \in Request :
             /\ handler' = [handler EXCEPT ![h] = r]
             /\ r.task = handler[h].task /\ r.exec = handler[h].exec
      <3>1. ASSUME NEW o \in {"result", "rejected", "ambiguous", "started"},
                   handler' = [handler EXCEPT ![h].pc = "ended", ![h].outcome = o]
            PROVE  \E r \in Request :
                      /\ handler' = [handler EXCEPT ![h] = r]
                      /\ r.task = handler[h].task /\ r.exec = handler[h].exec
        <4>. DEFINE r == [handler[h] EXCEPT !.pc = "ended", !.outcome = o]
        <4>1. r \in Request /\ r.task = handler[h].task /\ r.exec = handler[h].exec
          BY <2>1 DEF Request
        <4>2. handler' = [handler EXCEPT ![h] = r]
          BY <3>1 DEF TypeInv, TypeOK
        <4>. HIDE DEF r
        <4>. QED  BY <4>1, <4>2
      <3>2. ASSUME NEW p \in ProviderIds,
                   handler' = [handler EXCEPT ![h].pc = "ended", ![h].outcome = "started",
                                              ![h].id = p]
            PROVE  \E r \in Request :
                      /\ handler' = [handler EXCEPT ![h] = r]
                      /\ r.task = handler[h].task /\ r.exec = handler[h].exec
        <4>. DEFINE r == [handler[h] EXCEPT !.pc = "ended", !.outcome = "started", !.id = p]
        <4>1. r \in Request /\ r.task = handler[h].task /\ r.exec = handler[h].exec
          BY <2>1 DEF Request, Ids
        <4>2. handler' = [handler EXCEPT ![h] = r]
          BY <3>2 DEF TypeInv, TypeOK
        <4>. HIDE DEF r
        <4>. QED  BY <4>1, <4>2
      <3>3. ASSUME BindRefused(h)
            PROVE  \E r \in Request :
                      /\ handler' = [handler EXCEPT ![h] = r]
                      /\ r.task = handler[h].task /\ r.exec = handler[h].exec
        <4>. DEFINE r == [handler[h] EXCEPT !.outcome = "ambiguous", !.id = NoId]
        <4>1. r \in Request /\ r.task = handler[h].task /\ r.exec = handler[h].exec
          BY <2>1 DEF Request, Ids
        <4>2. handler' = [handler EXCEPT ![h] = r]
          BY <3>3 DEF BindRefused, TypeInv, TypeOK
        <4>. HIDE DEF r
        <4>. QED  BY <4>1, <4>2
      <3>. QED  BY <1>5, <3>1, <3>2, <3>3 DEF CallEnds, TriggerEnds
    <2>. QED  BY <2>1, <2>2, <2>3, OnlyRequestMoves
  <1>. QED  BY <1>1, <1>2, <1>3, <1>4, <1>5

\* What the outcome of a request makes of its execution.
LEMMA TypeCompletes ==
    ASSUME TypeInv, NEW h \in Handlers, Complete(h)
    PROVE  TypeInv'
  <1>1. handler[h].exec \in Execs /\ exec[handler[h].exec].status \in InProgress
    BY RequestOf DEF Complete, Dispatched, Holding, InProgress
  <1>2. PICK s \in Ended : EndPreparation(handler[h].exec, s)
    BY DEF Complete, Ended
  <1>3. task' \in [Tasks -> TaskRow] /\ ExecsKept
    BY <1>1, <1>2, EndTypes
  <1>4. IdleRequest \in Request /\ IdleRequest.pc = "idle"
    BY IdleTypes DEF IdleRequest
  <1>5. handler' = [handler EXCEPT ![h] = IdleRequest]
        /\ UNCHANGED <<merchant, runBound, poll, desk, crashes>>
    BY DEF Complete, Finished
  <1>. QED  BY <1>3, <1>4, <1>5, RequestMoves DEF Holding

LEMMA TypeBinds ==
    ASSUME TypeInv, NEW h \in Handlers, Bind(h)
    PROVE  TypeInv'
  <1>. DEFINE e == handler[h].exec
              row == [exec[e] EXCEPT !.status = "RUNNING", !.core = handler[h].id]
  <1>1. e \in Execs /\ exec[e].status = "DISPATCHING" /\ handler[h].id \in Ids
    BY RequestOf DEF Bind, Bindable, Dispatched, Holding, Request
  <1>2. exec[e] \in ExecRow /\ exec[e].task \in Tasks
    BY <1>1, PendingRowOf
  <1>3. row \in ExecRow /\ row.status = "RUNNING" /\ row.task = exec[e].task
    BY <1>1, <1>2 DEF ExecRow, ExecStatuses
  <1>4. exec' = [exec EXCEPT ![e] = row] /\ UNCHANGED <<merchant, task, runBound, poll, desk, crashes>>
        /\ handler' = [handler EXCEPT ![h] = IdleRequest]
    BY DEF Bind, Finished
  <1>5. IdleRequest \in Request /\ IdleRequest.pc = "idle"
    BY IdleTypes DEF IdleRequest
  <1>. HIDE DEF row, e
  <1>6. ExecsKept
    BY <1>1, <1>2, <1>3, <1>4, ExecWritten
  <1>7. task' \in [Tasks -> TaskRow]
    BY <1>4 DEF TypeInv, TypeOK
  <1>. QED  BY <1>4, <1>5, <1>6, <1>7, RequestMoves DEF Holding

LEMMA TypeHandler ==
    ASSUME TypeInv, NEW h \in Handlers, HandlerNext(h)
    PROVE  TypeInv'
  <1>1. ASSUME NEW e \in Execs, ClaimCall(h, e) PROVE TypeInv'
    BY <1>1, TypeClaims DEF ClaimCall
  <1>2. ASSUME NEW e \in Execs, ClaimAgent(h, e) PROVE TypeInv'
    BY <1>2, TypeClaims DEF ClaimAgent
  <1>. QED  BY <1>1, <1>2, TypeReads, TypeCompletes, TypeBinds DEF HandlerNext

-----------------------------------------------------------------------------
(* The scheduler.                                                           *)

\* One pass moves, and with it at most the two tables.
LEMMA PassMoves ==
    ASSUME TypeInv, NEW w \in Pollers, NEW r \in Pass,
           poll' = [poll EXCEPT ![w] = r],
           r.pc # "idle" => r.exec \in Execs /\ exec[r.exec].status # "absent",
           r.pc = "decided" => r.verdict # "none",
           task' \in [Tasks -> TaskRow], ExecsKept,
           UNCHANGED <<merchant, runBound, handler, desk, crashes>>
    PROVE  TypeInv'
  <1>1. poll' \in [Pollers -> Pass]
    BY DEF TypeInv, TypeOK
  <1>2. \A v \in Pollers : poll'[v] = IF v = w THEN r ELSE poll[v]
    BY DEF TypeInv, TypeOK
  <1>3. \A v \in Pollers :
          /\ poll'[v].pc # "idle" =>
                poll'[v].exec \in Execs /\ exec'[poll'[v].exec].status # "absent"
          /\ poll'[v].pc = "decided" => poll'[v].verdict # "none"
    BY <1>2 DEF TypeInv, ActorsInv, ExecsKept
  <1>. QED  BY <1>1, <1>3 DEF TypeInv, TypeOK, ActorsInv, ExecsKept, merchant

LEMMA OnlyPassMoves ==
    ASSUME TypeInv, NEW w \in Pollers, NEW r \in Pass,
           poll' = [poll EXCEPT ![w] = r],
           r.pc # "idle" => r.exec \in Execs /\ exec[r.exec].status # "absent",
           r.pc = "decided" => r.verdict # "none",
           UNCHANGED <<merchant, task, exec, runBound, handler, desk, crashes>>
    PROVE  TypeInv'
  BY PassMoves DEF TypeInv, TypeOK, ActorsInv, ExecsKept

LEMMA PassOf ==
    ASSUME TypeInv, NEW w \in Pollers
    PROVE  /\ poll[w] \in Pass
           /\ poll[w].pc # "idle" =>
                 poll[w].exec \in Execs /\ exec[poll[w].exec].status # "absent"
           /\ poll[w].pc = "decided" => poll[w].verdict \in Ended
  BY DEF TypeInv, TypeOK, ActorsInv, Pass, Ended

\* What a poll may find.
LEMMA VerdictType ==
    ASSUME NEW row, NEW answer \in {"COMPLETED", "malformed", "ABORTED", "mismatch", "missing",
                                    "active", "error"}
    PROVE  /\ Verdict(row, answer) \in Ended \cup {"none"}
           /\ Verdict(row, answer) = "SUCCEEDED" => row.kind = "AGENT"
  BY DEF Verdict, Overdue, Ended

LEMMA TypePolls ==
    ASSUME TypeInv, NEW w \in Pollers, PollNext(w)
    PROVE  TypeInv'
  <1>1. ASSUME NEW e \in Execs, PollSelect(w, e) PROVE TypeInv'
    <2>. DEFINE r == [IdlePass EXCEPT !.pc = "selected", !.exec = e]
    <2>1. r \in Pass /\ r.pc = "selected" /\ r.exec = e
      <3>1. ASSUME NEW p \in Pass
            PROVE  LET n == [p EXCEPT !.pc = "selected", !.exec = e]
                   IN  n \in Pass /\ n.pc = "selected" /\ n.exec = e
        BY Bounds DEF Pass
      <3>. QED  BY <3>1, IdleTypes
    <2>2. poll' = [poll EXCEPT ![w] = r]
          /\ UNCHANGED <<merchant, task, exec, runBound, handler, desk, crashes>>
      BY <1>1 DEF PollSelect
    <2>3. exec[e].status # "absent"
      BY <1>1 DEF PollSelect
    <2>. HIDE DEF r
    <2>. QED  BY <2>1, <2>2, <2>3, OnlyPassMoves
  <1>0. IdlePass \in Pass /\ IdlePass.pc = "idle"
    BY IdleTypes DEF IdlePass
  <1>2. ASSUME PollRead(w) PROVE TypeInv'
    <2>. DEFINE t == exec[poll[w].exec].task
                r == [poll[w] EXCEPT !.pc = "asking", !.version = task[t].version,
                                     !.gen = generation]
    <2>0. UNCHANGED <<merchant, task, exec, runBound, handler, desk, crashes>>
      BY <1>2 DEF PollRead
    <2>1. CASE poll' = [poll EXCEPT ![w] = IdlePass]
      BY <1>0, <2>0, <2>1, OnlyPassMoves
    <2>2. CASE Claimed(poll[w].exec) /\ poll' = [poll EXCEPT ![w] = r]
      <3>1. poll[w] \in Pass /\ poll[w].exec \in Execs /\ exec[poll[w].exec].status # "absent"
        BY <1>2, PassOf DEF PollRead
      <3>2. t \in Tasks
        BY <3>1, PendingRowOf
      <3>3. task[t].version \in Nat /\ generation \in 0..MaxGeneration
        BY <3>2, TaskRowOf DEF TypeInv, TypeOK
      <3>4. ASSUME NEW n \in Nat
            PROVE  LET q == [poll[w] EXCEPT !.pc = "asking", !.version = n, !.gen = generation]
                   IN  q \in Pass /\ q.pc = "asking" /\ q.exec = poll[w].exec
        BY <3>1, <3>3 DEF Pass
      <3>5. r \in Pass /\ r.pc = "asking" /\ r.exec = poll[w].exec
        BY <3>3, <3>4
      <3>. HIDE DEF r
      <3>. QED  BY <2>0, <2>2, <3>1, <3>5, OnlyPassMoves
    <2>. QED  BY <1>2, <2>1, <2>2 DEF PollRead
  <1>3. ASSUME PollAsk(w) PROVE TypeInv'
    <2>0. UNCHANGED <<merchant, task, exec, runBound, handler, desk, crashes>>
      BY <1>3 DEF PollAsk
    <2>1. PICK v \in Ended \cup {"none"} :
             poll' = [poll EXCEPT ![w] = IF v = "none" THEN IdlePass
                                         ELSE [poll[w] EXCEPT !.pc = "decided", !.verdict = v]]
      BY <1>3, VerdictType DEF PollAsk
    <2>2. CASE v = "none"
      BY <1>0, <2>0, <2>1, <2>2, OnlyPassMoves
    <2>3. CASE v # "none"
      <3>. DEFINE r == [poll[w] EXCEPT !.pc = "decided", !.verdict = v]
      <3>1. poll[w] \in Pass /\ poll[w].exec \in Execs /\ exec[poll[w].exec].status # "absent"
        BY <1>3, PassOf DEF PollAsk
      <3>2. r \in Pass /\ r.verdict = v /\ r.exec = poll[w].exec
        BY <2>3, <3>1 DEF Pass, Ended
      <3>3. poll' = [poll EXCEPT ![w] = r]
        BY <2>1, <2>3
      <3>. HIDE DEF r
      <3>. QED  BY <2>0, <2>3, <3>1, <3>2, <3>3, OnlyPassMoves
    <2>. QED  BY <2>2, <2>3
  <1>4. ASSUME PollCommit(w) PROVE TypeInv'
    <2>1. poll' = [poll EXCEPT ![w] = IdlePass]
          /\ UNCHANGED <<merchant, runBound, handler, desk, crashes>>
      BY <1>4 DEF PollCommit
    <2>2. CASE PollHolds(w)
      <3>1. /\ poll[w].exec \in Execs /\ poll[w].verdict \in Ended
            /\ exec[poll[w].exec].status \in InProgress
            /\ EndPreparation(poll[w].exec, poll[w].verdict)
        BY <1>4, <2>2, PassOf DEF PollCommit, PollHolds, InProgress
      <3>2. task' \in [Tasks -> TaskRow] /\ ExecsKept
        BY <3>1, EndTypes
      <3>. QED  BY <1>0, <2>1, <3>2, PassMoves
    <2>3. CASE ~PollHolds(w)
      BY <1>0, <1>4, <2>1, <2>3, OnlyPassMoves DEF PollCommit
    <2>. QED  BY <2>2, <2>3
  <1>. QED  BY <1>1, <1>2, <1>3, <1>4 DEF PollNext

LEMMA TypeRecovers ==
    ASSUME TypeInv, NEW e \in Execs, Ages(e) \/ Recover(e)
    PROVE  TypeInv'
  <1>1. CASE Ages(e)
    <2>. DEFINE row == [exec[e] EXCEPT !.old = TRUE]
    <2>1. exec[e] \in ExecRow /\ exec[e].task \in Tasks /\ exec[e].status # "absent"
      BY <1>1, PendingRowOf DEF Ages, InProgress
    <2>2. row \in ExecRow /\ row.status = exec[e].status /\ row.task = exec[e].task
      BY <2>1 DEF ExecRow
    <2>3. exec' = [exec EXCEPT ![e] = row]
          /\ UNCHANGED <<merchant, task, runBound, handler, poll, desk, crashes>>
      BY <1>1 DEF Ages
    <2>. HIDE DEF row
    <2>4. ExecsKept
      BY <2>1, <2>2, <2>3, ExecWritten
    <2>. QED  BY <2>3, <2>4 DEF TypeInv, TypeOK, ActorsInv, ExecsKept, merchant
  <1>2. CASE Recover(e)
    <2>1. task' \in [Tasks -> TaskRow] /\ ExecsKept
      BY <1>2, EndTypes DEF Recover, Recoverable, InProgress, Ended
    <2>2. UNCHANGED <<merchant, runBound, handler, poll, desk, crashes>>
      BY <1>2 DEF Recover
    <2>. QED  BY <2>1, <2>2 DEF TypeInv, TypeOK, ActorsInv, ExecsKept, merchant
  <1>. QED  BY <1>1, <1>2

-----------------------------------------------------------------------------
(* Operators.                                                               *)

LEMMA DeskOf ==
    ASSUME TypeInv, NEW o \in Operators
    PROVE  /\ desk[o].task \in 0..MaxTasks /\ desk[o].exec \in 0..MaxExecutions
           /\ desk[o].task # 0 => desk[o].task \in Tasks
           /\ desk[o].exec # 0 => desk[o].exec \in Execs
  BY Bounds DEF TypeInv, TypeOK, View

LEMMA DecidedType ==
    ASSUME TypeInv, NEW o \in Operators, Decided(o)
    PROVE  /\ desk' \in [Operators -> View]
           /\ UNCHANGED <<merchant, runBound, handler, poll, crashes>>
  BY IdleTypes DEF Decided, TypeInv, TypeOK

\* One task row is written and the page closes.
LEMMA TaskDecided ==
    ASSUME TypeInv, NEW o \in Operators, Decided(o), NEW t, NEW row \in TaskRow,
           task' = [task EXCEPT ![t] = row], UNCHANGED exec
    PROVE  TypeInv'
  BY DecidedType, TaskWritten

LEMMA TypeLooks ==
    ASSUME TypeInv, NEW o \in Operators, (\E t \in Tasks : See(o, t)) \/ Reload(o)
    PROVE  TypeInv'
  <1>1. PICK v \in View : desk' = [desk EXCEPT ![o] = v]
    <2>1. ASSUME NEW t \in Tasks, See(o, t)
          PROVE  \E v \in View : desk' = [desk EXCEPT ![o] = v]
      <3>1. PICK e \in 0..MaxExecutions :
               desk' = [desk EXCEPT ![o] = [task |-> t, version |-> task[t].version,
                                            status |-> task[t].status, exec |-> e]]
        BY <2>1 DEF See
      <3>2. t \in 0..MaxTasks /\ task[t].version \in Nat /\ task[t].status \in TaskStatuses
        BY TaskRowOf, Bounds
      <3>3. [task |-> t, version |-> task[t].version,
             status |-> task[t].status, exec |-> e] \in View
        BY <3>2 DEF View
      <3>. QED  BY <3>1, <3>3
    <2>2. ASSUME Reload(o) PROVE \E v \in View : desk' = [desk EXCEPT ![o] = v]
      BY <2>2, IdleTypes DEF Reload
    <2>. QED  BY <2>1, <2>2
  <1>2. UNCHANGED <<merchant, task, exec, runBound, handler, poll, crashes>>
    BY DEF See, Reload
  <1>. QED  BY <1>1, <1>2 DEF TypeInv, TypeOK, ActorsInv, merchant

LEMMA TypeDecides ==
    ASSUME TypeInv, NEW o \in Operators,
           \/ Patch(o) \/ Cancel(o) \/ Retry(o)
           \/ \E who \in Owners : Assign(o, who)
    PROVE  TypeInv'
  <1>. DEFINE t == desk[o].task
  <1>1. t \in Tasks /\ Decided(o) /\ UNCHANGED exec
    BY DeskOf DEF Patch, Cancel, Retry, Assign, Seen
  <1>2. task[t] \in TaskRow
    BY <1>1, TaskRowOf
  <1>3. PICK row \in TaskRow : task' = [task EXCEPT ![t] = row]
    <2>1. CASE Patch(o)
      <3>1. [task[t] EXCEPT !.version = @ + 1] \in TaskRow
        BY <1>2, TaskPatched
      <3>2. task' = [task EXCEPT ![t] = [task[t] EXCEPT !.version = @ + 1]]
        BY <2>1 DEF Patch
      <3>. QED  BY <3>1, <3>2
    <2>2. CASE Cancel(o)
      BY <1>1, <2>2, MovedType DEF Cancel, TaskStatuses
    <2>3. CASE Retry(o)
      BY <1>1, <2>3, MovedType DEF Retry, TaskStatuses
    <2>4. ASSUME NEW who \in Owners, Assign(o, who)
          PROVE  \E row \in TaskRow : task' = [task EXCEPT ![t] = row]
      <3>1. who \in {"none", "human", "agent"}
        BY OwnersAssumption
      <3>2. Assigned(t, who) \in TaskRow
        BY <1>2, <3>1, TaskAssigned DEF Assigned
      <3>. QED  BY <2>4, <3>2 DEF Assign
    <2>. QED  BY <2>1, <2>2, <2>3, <2>4
  <1>. QED  BY <1>1, <1>3, TaskDecided

LEMMA TypeReviews ==
    ASSUME TypeInv, NEW o \in Operators, Approve(o) \/ Return(o)
    PROVE  TypeInv'
  <1>. DEFINE t == desk[o].task
              e == desk[o].exec
  <1>1. PICK decision \in {"approved", "returned"}, target \in TaskStatuses : Review(o, decision, target)
    BY DEF Approve, Return, TaskStatuses
  <1>2. t \in Tasks /\ e \in Execs /\ Decided(o) /\ exec[e].task = t
    BY <1>1, DeskOf DEF Review, Seen, IsLatest
  <1>. DEFINE row == [exec[e] EXCEPT !.reviewed = decision]
  <1>3. exec[e] \in ExecRow /\ exec[e].status # "absent"
    BY <1>2, PendingRowOf
  <1>4. row \in ExecRow /\ row.status = exec[e].status /\ row.task = t
    BY <1>2, <1>3 DEF ExecRow
  <1>5. Moved(t, target) \in TaskRow
    BY <1>2, MovedType
  <1>6. exec' = [exec EXCEPT ![e] = row] /\ task' = [task EXCEPT ![t] = Moved(t, target)]
    BY <1>1 DEF Review
  <1>. HIDE DEF row, t, e
  <1>7. ExecsKept
    BY <1>2, <1>3, <1>4, <1>6, ExecWritten
  <1>8. task' \in [Tasks -> TaskRow]
    BY <1>5, <1>6 DEF TypeInv, TypeOK
  <1>. QED  BY <1>2, <1>7, <1>8, DecidedType DEF TypeInv, TypeOK, ActorsInv, ExecsKept, merchant

LEMMA TypeReplaces ==
    ASSUME TypeInv, NEW o \in Operators, NEW u \in Tasks, NEW d \in Definitions, Replace(o, u, d)
    PROVE  TypeInv'
  <1>. DEFINE t == desk[o].task
  <1>1. t \in Tasks /\ Decided(o) /\ UNCHANGED exec
    BY DeskOf DEF Replace, Seen
  <1>2. Moved(t, "CANCELLED") \in TaskRow
    BY <1>1, MovedType DEF TaskStatuses
  <1>3. HandedOver(t, u) \in TaskRow
    BY <1>2, Bounds, TaskLinked DEF HandedOver
  <1>4. NewTask(d, {}, t) \in TaskRow
    BY <1>1, Bounds, NewTaskType
  <1>5. task' = [task EXCEPT ![t] = HandedOver(t, u), ![u] = NewTask(d, {}, t)]
    BY DEF Replace
  <1>6. task' \in [Tasks -> TaskRow]
    BY <1>3, <1>4, <1>5 DEF TypeInv, TypeOK
  <1>. QED  BY <1>1, <1>6, DecidedType DEF TypeInv, TypeOK, ActorsInv, merchant

LEMMA TypeCrash == TypeInv /\ Crash => TypeInv'
  <1>. SUFFICES ASSUME TypeInv, Crash PROVE TypeInv'
    OBVIOUS
  <1>1. /\ handler' = [h \in Handlers |-> IdleRequest] /\ poll' = [w \in Pollers |-> IdlePass]
        /\ UNCHANGED <<merchant, task, exec, runBound, desk>>
    BY DEF Crash
  <1>2. crashes' \in 0..MaxCrashes
    BY BoundsAssumption DEF Crash, TypeInv, TypeOK
  <1>3. /\ IdleRequest \in Request /\ IdlePass \in Pass
        /\ IdleRequest.pc = "idle" /\ IdlePass.pc = "idle"
    BY IdleTypes DEF IdleRequest, IdlePass
  <1>. QED  BY <1>1, <1>2, <1>3 DEF TypeInv, TypeOK, ActorsInv, Holding, merchant

LEMMA TypeStep == TypeInv /\ [Next]_vars => TypeInv'
  <1>. SUFFICES ASSUME TypeInv, [Next]_vars PROVE TypeInv'
    OBVIOUS
  <1>1. CASE UNCHANGED vars
    BY <1>1 DEF vars, TypeInv, TypeOK, ActorsInv
  <1>2. ASSUME NEW o \in Operators, DeskNext(o) PROVE TypeInv'
    BY <1>2, TypeLooks, TypeDecides, TypeReviews, TypeReplaces DEF DeskNext
  <1>. QED
    BY <1>1, <1>2, TypeMerchant, TypePlan, TypeHandler, TypeRecovers, TypePolls, TypeCrash DEF Next

\* TypeOK: the tables and what every actor remembers of them keep their types
\* in every behaviour, and an actor under way is about rows that exist.
THEOREM TypesAreKept == Spec => []TypeInv
  BY TypeInit, TypeStep, PTL DEF Spec

=============================================================================
