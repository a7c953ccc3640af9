------------------------------ MODULE TaskPlan ------------------------------
(***************************************************************************)
(* A task plan: api/app/task_plans.py, the validation of                    *)
(* task_plan_contract.py, and the content check of task_migrations.py that  *)
(* every start of the application makes.                                    *)
(*                                                                         *)
(* A completed run persists a draft, or an operator's new task an approved  *)
(* revision.  Operators replace, approve and reject drafts from pages that  *)
(* may be old; an approval materializes the revision into tasks, which      *)
(* meanwhile are prepared, reviewed, retried and cancelled.  Plans share    *)
(* nothing but their merchant, so one is enough.  Every action is one       *)
(* transaction; what a preparation itself does is TaskPreparation's.        *)
(***************************************************************************)
EXTENDS Integers, FiniteSets

CONSTANTS
    Keys,            \* task keys
    Texts,           \* everything in a task's definition but its dependencies
    Operators,       \* operators with the plan's page open
    MaxRevisions     \* bound: rows of task_plan_revisions

ASSUME KeysAssumption == Keys # {} /\ Texts # {}
ASSUME RevisionsAssumption == MaxRevisions \in Nat \ {0}

VARIABLES
    active,          \* merchants.status = 'active'
    plan,            \* the row of task_plans
    rev,             \* its rows of task_plan_revisions
    task,            \* its rows of tasks, by key, and of task_dependencies
    page             \* the revision each operator's page shows, 0 for none

vars == <<active, plan, rev, task, page>>

-----------------------------------------------------------------------------
(* Rows.                                                                    *)

Revisions == 1..MaxRevisions

Item == [text : Texts, ups : SUBSET Keys]

\* What a page can submit: TaskPlanPayload without a repeated key.
Payloads == UNION {[S -> Item] : S \in (SUBSET Keys) \ {{}}}
Nothing  == [k \in {} |-> 0]

\* approved is 0 for NULL; closed_at is set with CLOSED and cleared with OPEN.
PlanRow == [state : {"absent", "OPEN", "REJECTED", "CLOSED"},
            latest : 0..MaxRevisions, approved : 0..MaxRevisions]
RevisionRow == [decision : {"absent", "DRAFT", "APPROVED", "REJECTED", "SUPERSEDED"},
                payload : Payloads \cup {Nothing}]
TaskRow == [status : {"absent", "PENDING", "PREPARING", "AWAITING_APPROVAL",
                      "NEEDS_ATTENTION", "DONE", "CANCELLED"},
            rev : 0..MaxRevisions, def : Item, edges : SUBSET Keys]

\* One type invariant for the four tables and the pages.
TypeOK ==
    /\ active \in BOOLEAN
    /\ plan \in PlanRow
    /\ rev \in [Revisions -> RevisionRow]
    /\ task \in [Keys -> TaskRow]
    /\ page \in [Operators -> 0..MaxRevisions]

-----------------------------------------------------------------------------
(* validate_task_plan.  An operator whose comment begins with "Variant" is  *)
(* a mistake the next definition could have made, kept to show which        *)
(* property would notice it; nothing else uses it.                          *)

\* _waves: take away the tasks whose dependencies are all taken away, until
\* nothing is left or nothing can be taken away.
Waves(p) ==
    LET ready(S)  == {k \in S : p[k].ups \cap S = {}}
        peel[S \in SUBSET DOMAIN p] ==
            S = {} \/ (ready(S) # {} /\ peel[S \ ready(S)])
    IN  peel[DOMAIN p]

Valid(p) ==
    /\ DOMAIN p # {}
    /\ \A k \in DOMAIN p : p[k].ups \subseteq DOMAIN p
    /\ Waves(p)

-----------------------------------------------------------------------------
(* Reading the tables.                                                      *)

Drafts(r) == {i \in Revisions : r[i].decision = "DRAFT"}

Started(k) == task[k].status \notin {"absent", "PENDING"}
Terminal   == {"DONE", "CANCELLED"}

\* _approved_items.
Approved == IF plan.approved = 0 THEN Nothing ELSE rev[plan.approved].payload

\* Variant: only tasks that are still worked on are anchors.
UnfinishedAnchored(p) ==
    \A k \in Keys : Started(k) /\ task[k].status \notin Terminal =>
        k \in DOMAIN p /\ p[k] = task[k].def

\* _assert_active_task_anchors: a task that has started keeps its definition,
\* and the key of one that an earlier revision dropped is not used again.
Anchored(p) ==
    \A k \in Keys : Started(k) =>
        IF k \in DOMAIN Approved THEN k \in DOMAIN p /\ p[k] = task[k].def
                                 ELSE k \notin DOMAIN p

\* _revision_active and _first_incomplete_dependency; the schedule is a delay.
Unblocked(k) ==
    /\ active
    /\ k \in DOMAIN Approved
    /\ Approved[k] = task[k].def
    /\ \A u \in task[k].edges : task[u].status = "DONE"

\* refresh_plan_lifecycle, for the tables as the transaction leaves them.
Refreshed(row, r, t) ==
    LET tasks == {k \in Keys : t[k].status # "absent"} IN
    CASE Drafts(r) # {} -> [row EXCEPT !.state = "OPEN"]
      [] Drafts(r) = {} /\ row.approved # 0 /\ tasks # {}
            /\ \A k \in tasks : t[k].status \in Terminal -> [row EXCEPT !.state = "CLOSED"]
      [] OTHER -> IF row.approved # 0 \/ row.state # "REJECTED"
                    THEN [row EXCEPT !.state = "OPEN"] ELSE row

-----------------------------------------------------------------------------
(* materialize_plan_revision.                                               *)

\* Variant: a definition is written where its dependencies belong.
NewTaskMixed(i, item) ==
    [status |-> "PENDING", rev |-> i, def |-> item, edges |-> {item}]

NewTask(i, item) ==
    [status |-> "PENDING", rev |-> i, def |-> item, edges |-> item.ups]

\* Variant: a task that is dropped loses its edges too.
DroppedWithEdges(row) == [row EXCEPT !.status = "CANCELLED", !.edges = {}]

\* A pending task that the revision drops keeps the definition and the edges of the
\* revision that made it.
Dropped(row) == [row EXCEPT !.status = "CANCELLED"]

Mutable(k) == task[k].status = "PENDING"

Materialized(i) ==
    LET p == rev[i].payload IN
    [k \in Keys |->
        IF Mutable(k)
          THEN IF k \in DOMAIN p THEN NewTask(i, p[k]) ELSE Dropped(task[k])
        ELSE IF task[k].status = "absent" /\ k \in DOMAIN p THEN NewTask(i, p[k])
        ELSE task[k]]

-----------------------------------------------------------------------------
(* The merchant.                                                            *)

Archive ==
    /\ active
    /\ \A k \in Keys : task[k].status \notin {"PREPARING", "AWAITING_APPROVAL"}
    /\ active' = FALSE
    /\ UNCHANGED <<plan, rev, task, page>>

Restore ==
    /\ ~active
    /\ active' = TRUE
    /\ UNCHANGED <<plan, rev, task, page>>

-----------------------------------------------------------------------------
(* Where a plan comes from.                                                 *)

\* persist_agent_plan, in the transaction that makes the run succeed.
PersistAgentPlan(p) ==
    /\ active
    /\ plan.state = "absent"
    /\ Valid(p)
    /\ plan' = [state |-> "OPEN", latest |-> 1, approved |-> 0]
    /\ rev' = [rev EXCEPT ![1] = [decision |-> "DRAFT", payload |-> p]]
    /\ UNCHANGED <<active, task, page>>

\* create_task: a plan of one task, approved as it is made.
CreateTask(k, text) ==
    LET item == [text |-> text, ups |-> {}]
        p    == [j \in {k} |-> item]
    IN  /\ active
        /\ plan.state = "absent"
        /\ Valid(p)
        /\ plan' = [state |-> "OPEN", latest |-> 1, approved |-> 1]
        /\ rev' = [rev EXCEPT ![1] = [decision |-> "APPROVED", payload |-> p]]
        /\ task' = [task EXCEPT ![k] = NewTask(1, item)]
        /\ UNCHANGED <<active, page>>

-----------------------------------------------------------------------------
(* Operators.  A page shows the newest revision at the time it was read; a  *)
(* revision's payload never changes, so its number stands for its checksum. *)

See(o) ==
    /\ plan.state # "absent"
    /\ page[o] # plan.latest
    /\ page' = [page EXCEPT ![o] = plan.latest]
    /\ UNCHANGED <<active, plan, rev, task>>

\* fetch_active_merchant and the comparison of the revision numbers.
Current(o) == page[o] # 0 /\ active /\ plan.latest = page[o]

\* PUT .../draft; the reasons for removed tasks are the page's to give.
ReplaceDraft(o, p) ==
    LET i == plan.latest IN
    /\ Current(o)
    /\ i < MaxRevisions
    /\ Valid(p)
    /\ Anchored(p)
    /\ ~(rev[i].decision = "DRAFT" /\ rev[i].payload = p)
    /\ rev' = [rev EXCEPT ![i].decision = IF @ = "DRAFT" THEN "SUPERSEDED" ELSE @,
                          ![i + 1] = [decision |-> "DRAFT", payload |-> p]]
    /\ plan' = [plan EXCEPT !.latest = i + 1, !.state = "OPEN"]
    /\ UNCHANGED <<active, task, page>>

\* Variant: a revision that was decided about can be decided about again.
Undecided(i) == rev[i].decision \in {"DRAFT", "REJECTED"}

Decidable(i) == rev[i].decision = "DRAFT"

\* POST .../approve.
Approve(o) ==
    LET i == plan.latest IN
    /\ Current(o)
    /\ Decidable(i)
    /\ Anchored(rev[i].payload)
    /\ rev' = [j \in Revisions |->
                 CASE j = i -> [rev[j] EXCEPT !.decision = "APPROVED"]
                   [] j # i /\ j = plan.approved -> [rev[j] EXCEPT !.decision = "SUPERSEDED"]
                   [] OTHER -> rev[j]]
    /\ task' = Materialized(i)
    /\ plan' = Refreshed([plan EXCEPT !.approved = i, !.state = "OPEN"], rev', task')
    /\ UNCHANGED <<active, page>>

\* POST .../reject.
Reject(o) ==
    LET i == plan.latest IN
    /\ Current(o)
    /\ Decidable(i)
    /\ rev' = [rev EXCEPT ![i].decision = "REJECTED"]
    /\ plan' = IF plan.approved = 0 THEN [plan EXCEPT !.state = "REJECTED"]
                                    ELSE Refreshed(plan, rev', task)
    /\ UNCHANGED <<active, task, page>>

-----------------------------------------------------------------------------
(* What the handlers of TaskPreparation do to a task of the plan.           *)

\* A claim; it does not touch the plan.
Start(k) ==
    /\ task[k].status = "PENDING"
    /\ Unblocked(k)
    /\ task' = [task EXCEPT ![k].status = "PREPARING"]
    /\ UNCHANGED <<active, plan, rev, page>>

\* Everything else refreshes the plan in its own transaction.
Moved(k, s) ==
    /\ task' = [task EXCEPT ![k].status = s]
    /\ plan' = Refreshed(plan, rev, task')

PreparationEnds(k) ==
    /\ task[k].status = "PREPARING"
    /\ \E s \in {"AWAITING_APPROVAL", "NEEDS_ATTENTION"} : Moved(k, s)
    /\ UNCHANGED <<active, rev, page>>

ReviewTask(k) ==
    /\ active
    /\ task[k].status = "AWAITING_APPROVAL"
    /\ \E s \in {"DONE", "PENDING"} : Moved(k, s)
    /\ UNCHANGED <<active, rev, page>>

RetryTask(k) ==
    /\ active
    /\ task[k].status = "NEEDS_ATTENTION"
    /\ Moved(k, "PENDING")
    /\ UNCHANGED <<active, rev, page>>

\* Also a task that create_task replaces.
CancelTask(k) ==
    /\ active
    /\ task[k].status \in {"PENDING", "AWAITING_APPROVAL", "NEEDS_ATTENTION"}
    /\ Moved(k, "CANCELLED")
    /\ UNCHANGED <<active, rev, page>>

-----------------------------------------------------------------------------
Init ==
    /\ active = TRUE
    /\ plan = [state |-> "absent", latest |-> 0, approved |-> 0]
    /\ rev = [i \in Revisions |-> [decision |-> "absent", payload |-> Nothing]]
    /\ task = [k \in Keys |-> [status |-> "absent", rev |-> 0, edges |-> {},
                                def |-> [text |-> CHOOSE t \in Texts : TRUE, ups |-> {}]]]
    /\ page = [o \in Operators |-> 0]

Next ==
    \/ Archive \/ Restore
    \/ \E p \in Payloads : PersistAgentPlan(p)
    \/ \E k \in Keys, text \in Texts : CreateTask(k, text)
    \/ \E o \in Operators : \/ See(o) \/ Approve(o) \/ Reject(o)
                            \/ \E p \in Payloads : ReplaceDraft(o, p)
    \/ \E k \in Keys : \/ Start(k) \/ PreparationEnds(k) \/ ReviewTask(k)
                       \/ RetryTask(k) \/ CancelTask(k)

Spec == Init /\ [][Next]_vars

-----------------------------------------------------------------------------
(* The content check.  init_db runs it at every start and raises if it      *)
(* fails: a state that does not pass is one the application cannot be       *)
(* started in.                                                              *)

\* _assert_plan_pointers_and_ownership.
PointersValid ==
    LET rows     == {i \in Revisions : rev[i].decision # "absent"}
        approved == {i \in rows : rev[i].decision = "APPROVED"}
        newest   == rev[plan.latest].decision
    IN  /\ rows = 1..plan.latest
        /\ Drafts(rev) \subseteq {plan.latest}
        /\ approved = {plan.approved} \ {0}
        /\ newest # "SUPERSEDED"
        /\ IF plan.approved = 0
             THEN \/ newest = "DRAFT" /\ plan.state = "OPEN"
                  \/ newest = "REJECTED" /\ plan.state = "REJECTED"
             ELSE plan.state \in {"OPEN", "CLOSED"}

\* _assert_materialized_task_projection.
ProjectionValid ==
    LET tasks == {k \in Keys : task[k].status # "absent"} IN
    /\ tasks # {} => plan.approved # 0
    /\ \A k \in tasks :
          LET r == rev[task[k].rev] IN
          /\ r.decision \in {"APPROVED", "SUPERSEDED"}
          /\ k \in DOMAIN r.payload
          /\ r.payload[k] = task[k].def
          /\ task[k].edges = r.payload[k].ups
          /\ task[k].edges \subseteq tasks
    /\ plan.approved # 0 =>
          /\ \A k \in DOMAIN Approved : k \in tasks /\ task[k].def = Approved[k]
          /\ (plan.state = "CLOSED") <=>
                /\ tasks # {}
                /\ Drafts(rev) = {}
                /\ \A k \in tasks : task[k].status \in Terminal

\* _validated_revision_payloads and the two above.
ContentValid ==
    plan.state # "absent" =>
        /\ \A i \in 1..plan.latest : Valid(rev[i].payload)
        /\ PointersValid
        /\ ProjectionValid

-----------------------------------------------------------------------------
(* Properties.                                                              *)

\* The application can be restarted in every state its handlers reach: no
\* sequence of edits, decisions, cancellations and preparations leaves plans,
\* revisions, tasks and edges in a shape the content check refuses.
RestartSucceeds == ContentValid

\* Work that has started belongs to the approved revision, in its present
\* definition, whatever was approved since; what the approved revision does not
\* name has been cancelled.
LiveTasksMatchApproval ==
    \A k \in Keys :
        /\ task[k].status \notin {"absent", "CANCELLED"} =>
              k \in DOMAIN Approved /\ task[k].def = Approved[k]
        /\ k \in DOMAIN Approved => task[k].status # "absent"

\* What has been decided or begun is history: a revision is decided once (and
\* superseded once), its payload never changes, and neither does what a task
\* that has started is to do, nor the end of one that is over.
HistoryIsKept ==
    [][/\ \A i \in Revisions :
             LET d == rev[i].decision IN
             /\ d # "absent" => rev'[i].payload = rev[i].payload
             /\ d \in {"REJECTED", "SUPERSEDED"} => rev'[i].decision = d
             /\ d = "APPROVED" => rev'[i].decision \in {"APPROVED", "SUPERSEDED"}
       /\ \A k \in Keys :
             /\ Started(k) => /\ task'[k].def = task[k].def
                              /\ task'[k].edges = task[k].edges
             /\ task[k].status \in Terminal => task'[k].status = task[k].status]_vars
=============================================================================
