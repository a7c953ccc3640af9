---------------------------- MODULE TaskWorkflow ----------------------------
(***************************************************************************)
(* The PREPARE_ONLY template of api/app/task_workflows.py as a promise of   *)
(* its own: tasks of an active merchant move along the template, a task is  *)
(* redefined only while it is pending, one that is stopped may hand over to *)
(* a new one, and a merchant is archived only when nothing is being         *)
(* prepared or waits for review.  Executions, versions, requests, operators *)
(* and the scheduler are left out.  TaskPreparation implements it.          *)
(***************************************************************************)
EXTENDS Integers

CONSTANTS Tasks, Definitions

VARIABLES
    active,        \* is the merchant active?
    generation,    \* how often that changed
    status,        \* of each task
    def            \* what each task is to prepare

vars == <<active, generation, status, def>>

Statuses == {"absent", "PENDING", "PREPARING", "AWAITING_APPROVAL",
             "NEEDS_ATTENTION", "DONE", "CANCELLED"}

\* _PREPARE_ONLY_TRANSITIONS.
Transitions ==
    [s \in Statuses |->
        CASE s = "PENDING"           -> {"PREPARING", "NEEDS_ATTENTION", "CANCELLED"}
          [] s = "PREPARING"         -> {"AWAITING_APPROVAL", "NEEDS_ATTENTION", "CANCELLED"}
          [] s = "AWAITING_APPROVAL" -> {"DONE", "PENDING", "NEEDS_ATTENTION", "CANCELLED"}
          [] s = "NEEDS_ATTENTION"   -> {"PENDING", "CANCELLED"}
          [] OTHER                   -> {}]

Busy == \E t \in Tasks : status[t] \in {"PREPARING", "AWAITING_APPROVAL"}

Init ==
    /\ active = TRUE
    /\ generation \in Nat
    /\ status \in [Tasks -> {"absent", "PREPARING"}]
    /\ def \in [Tasks -> Definitions]

Archive ==
    /\ active
    /\ ~Busy
    /\ active' = FALSE
    /\ generation' = generation + 1
    /\ UNCHANGED <<status, def>>

Restore ==
    /\ ~active
    /\ active' = TRUE
    /\ generation' = generation + 1
    /\ UNCHANGED <<status, def>>

Create(t, d) ==
    /\ active
    /\ status[t] = "absent"
    /\ status' = [status EXCEPT ![t] = "PENDING"]
    /\ def' = [def EXCEPT ![t] = d]
    /\ UNCHANGED <<active, generation>>

Redefine(t, d) ==
    /\ active
    /\ status[t] = "PENDING"
    /\ def' = [def EXCEPT ![t] = d]
    /\ UNCHANGED <<active, generation, status>>

Move(t, s) ==
    /\ active
    /\ s \in Transitions[status[t]]
    /\ status' = [status EXCEPT ![t] = s]
    /\ UNCHANGED <<active, generation, def>>

Replace(t, u, d) ==
    /\ active
    /\ status[t] \in {"NEEDS_ATTENTION", "CANCELLED"}
    /\ status[u] = "absent"
    /\ status' = [status EXCEPT ![t] = "CANCELLED", ![u] = "PENDING"]
    /\ def' = [def EXCEPT ![u] = d]
    /\ UNCHANGED <<active, generation>>

Next ==
    \/ Archive \/ Restore
    \/ \E t \in Tasks, d \in Definitions : Create(t, d) \/ Redefine(t, d)
    \/ \E t \in Tasks, s \in Statuses : Move(t, s)
    \/ \E t, u \in Tasks, d \in Definitions : Replace(t, u, d)

Spec == Init /\ [][Next]_vars
=============================================================================
