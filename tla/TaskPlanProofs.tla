--------------------------- MODULE TaskPlanProofs ---------------------------
(***************************************************************************)
(* A plan's types, the match of its tasks with the approved revision, and   *)
(* the content check at start-up, for any number of keys, texts, operators  *)
(* and revisions.                                                           *)
(***************************************************************************)
EXTENDS TaskPlan, TLAPS

USE KeysAssumption, RevisionsAssumption

-----------------------------------------------------------------------------
(* Payloads.                                                                *)

\* What a payload says of a key is a definition.
LEMMA PayloadItems ==
    ASSUME NEW p \in Payloads \cup {Nothing}, NEW k \in DOMAIN p
    PROVE  k \in Keys /\ p[k] \in Item
  <1>1. CASE p \in Payloads
    <2>1. PICK S \in (SUBSET Keys) \ {{}} : p \in [S -> Item]
      BY <1>1 DEF Payloads
    <2>. QED  BY <2>1
  <1>2. CASE p = Nothing
    BY <1>2 DEF Nothing
  <1>. QED  BY <1>1, <1>2

LEMMA NewTaskType ==
    ASSUME NEW i \in Revisions, NEW item \in Item
    PROVE  NewTask(i, item) \in TaskRow
  BY DEF NewTask, TaskRow, Item, Revisions

LEMMA MaterializedType ==
    ASSUME TypeOK, NEW i \in Revisions
    PROVE  Materialized(i) \in [Keys -> TaskRow]
  <1>. DEFINE p == rev[i].payload
  <1>1. p \in Payloads \cup {Nothing}
    BY DEF TypeOK, RevisionRow
  <1>2. ASSUME NEW k \in Keys PROVE Materialized(i)[k] \in TaskRow
    <2>1. task[k] \in TaskRow
      BY DEF TypeOK
    <2>2. Dropped(task[k]) \in TaskRow
      BY <2>1 DEF Dropped, TaskRow
    <2>3. k \in DOMAIN p => NewTask(i, p[k]) \in TaskRow
      BY <1>1, PayloadItems, NewTaskType
    <2>. QED  BY <2>1, <2>2, <2>3 DEF Materialized
  <1>. QED  BY <1>2 DEF Materialized

LEMMA RefreshedType ==
    ASSUME NEW row \in PlanRow, NEW r, NEW t
    PROVE  Refreshed(row, r, t) \in PlanRow
  BY DEF Refreshed, PlanRow

-----------------------------------------------------------------------------
(* Types.                                                                   *)

LEMMA TypeInit == Init => TypeOK
  <1>. SUFFICES ASSUME Init PROVE TypeOK
    OBVIOUS
  <1>. DEFINE item == [text |-> CHOOSE t \in Texts : TRUE, ups |-> {}]
  <1>1. item \in Item
    BY DEF Item
  <1>2. [status |-> "absent", rev |-> 0, edges |-> {}, def |-> item] \in TaskRow
    BY <1>1 DEF TaskRow
  <1>3. [decision |-> "absent", payload |-> Nothing] \in RevisionRow
    BY DEF RevisionRow
  <1>4. [state |-> "absent", latest |-> 0, approved |-> 0] \in PlanRow
    BY DEF PlanRow
  <1>5. task \in [Keys -> TaskRow]
    BY <1>2 DEF Init
  <1>6. rev \in [Revisions -> RevisionRow]
    BY <1>3 DEF Init
  <1>7. page \in [Operators -> 0..MaxRevisions]
    BY DEF Init
  <1>. HIDE DEF item
  <1>. QED  BY <1>4, <1>5, <1>6, <1>7 DEF Init, TypeOK

\* A change of one task's status, with or without its plan.
LEMMA StatusType ==
    ASSUME TypeOK, NEW k \in Keys,
           NEW s \in {"PENDING", "PREPARING", "AWAITING_APPROVAL", "NEEDS_ATTENTION",
                      "DONE", "CANCELLED"}
    PROVE  [task EXCEPT ![k].status = s] \in [Keys -> TaskRow]
  <1>1. task \in [Keys -> TaskRow]
    BY DEF TypeOK
  <1>2. [task[k] EXCEPT !.status = s] \in TaskRow
    BY <1>1 DEF TaskRow
  <1>. QED  BY <1>1, <1>2

LEMMA TypeStep == TypeOK /\ [Next]_vars => TypeOK'
  <1>. SUFFICES ASSUME TypeOK, [Next]_vars PROVE TypeOK'
    OBVIOUS
  <1>. USE DEF TypeOK
  <1>0. 0 \in 0..MaxRevisions /\ 1 \in Revisions /\ Revisions \subseteq 0..MaxRevisions
    BY DEF Revisions
  <1>1. ASSUME NEW p \in Payloads, PersistAgentPlan(p) PROVE TypeOK'
    <2>1. [decision |-> "DRAFT", payload |-> p] \in RevisionRow
      BY DEF RevisionRow
    <2>2. [state |-> "OPEN", latest |-> 1, approved |-> 0] \in PlanRow
      BY <1>0 DEF PlanRow
    <2>. QED  BY <1>1, <2>1, <2>2, <1>0 DEF PersistAgentPlan
  <1>2. ASSUME NEW k \in Keys, NEW text \in Texts, CreateTask(k, text) PROVE TypeOK'
    <2>. DEFINE item == [text |-> text, ups |-> {}]
                p    == [j \in {k} |-> item]
    <2>1. item \in Item
      BY DEF Item
    <2>2. p \in Payloads
      <3>1. {k} \in (SUBSET Keys) \ {{}} /\ p \in [{k} -> Item]
        BY <2>1
      <3>. QED  BY <3>1 DEF Payloads
    <2>3. [decision |-> "APPROVED", payload |-> p] \in RevisionRow
      BY <2>2 DEF RevisionRow
    <2>4. [state |-> "OPEN", latest |-> 1, approved |-> 1] \in PlanRow
      BY <1>0 DEF PlanRow
    <2>5. NewTask(1, item) \in TaskRow
      BY <2>1, <1>0, NewTaskType
    <2>. HIDE DEF item, p
    <2>. QED  BY <1>2, <2>3, <2>4, <2>5, <1>0 DEF CreateTask, item, p
  <1>3. ASSUME NEW o \in Operators, See(o) PROVE TypeOK'
    BY <1>3 DEF See, PlanRow
  <1>4. ASSUME NEW o \in Operators, NEW p \in Payloads, ReplaceDraft(o, p) PROVE TypeOK'
    <2>. DEFINE i == plan.latest
    <2>1. i \in Revisions /\ i + 1 \in Revisions
      BY <1>4 DEF ReplaceDraft, Current, PlanRow, Revisions
    <2>2. [decision |-> "DRAFT", payload |-> p] \in RevisionRow
      BY DEF RevisionRow
    <2>3. rev[i] \in RevisionRow
      BY <2>1
    <2>4. \A d \in {"SUPERSEDED", rev[i].decision} : [rev[i] EXCEPT !.decision = d] \in RevisionRow
      BY <2>3 DEF RevisionRow
    <2>5. plan' \in PlanRow
      BY <1>4, <2>1, <1>0 DEF ReplaceDraft, PlanRow
    <2>6. rev' = [j \in Revisions |->
                    IF j = i + 1 THEN [decision |-> "DRAFT", payload |-> p]
                    ELSE IF j = i
                      THEN [rev[i] EXCEPT !.decision =
                              IF rev[i].decision = "DRAFT" THEN "SUPERSEDED" ELSE rev[i].decision]
                    ELSE rev[j]]
      BY <1>4, <2>1 DEF ReplaceDraft, PlanRow
    <2>7. rev' \in [Revisions -> RevisionRow]
      BY <2>2, <2>4, <2>6
    <2>. QED  BY <1>4, <2>5, <2>7 DEF ReplaceDraft
  <1>5. ASSUME NEW o \in Operators, Approve(o) PROVE TypeOK'
    <2>. DEFINE i == plan.latest
    <2>1. i \in Revisions
      BY <1>5 DEF Approve, Current, PlanRow, Revisions
    <2>2. \A j \in Revisions, d \in {"APPROVED", "SUPERSEDED"} :
             [rev[j] EXCEPT !.decision = d] \in RevisionRow
      BY DEF RevisionRow
    <2>3. rev' \in [Revisions -> RevisionRow]
      BY <1>5, <2>2 DEF Approve
    <2>4. task' \in [Keys -> TaskRow]
      BY <1>5, <2>1, MaterializedType DEF Approve
    <2>5. [plan EXCEPT !.approved = i, !.state = "OPEN"] \in PlanRow
      BY <2>1, <1>0 DEF PlanRow
    <2>6. plan' \in PlanRow
      BY <1>5, <2>5, RefreshedType DEF Approve
    <2>. QED  BY <1>5, <2>3, <2>4, <2>6 DEF Approve
  <1>6. ASSUME NEW o \in Operators, Reject(o) PROVE TypeOK'
    <2>1. plan.latest \in Revisions
      BY <1>6 DEF Reject, Current, PlanRow, Revisions
    <2>2. [rev[plan.latest] EXCEPT !.decision = "REJECTED"] \in RevisionRow
      BY <2>1 DEF RevisionRow
    <2>3. rev' \in [Revisions -> RevisionRow]
      BY <1>6, <2>1, <2>2 DEF Reject
    <2>4. [plan EXCEPT !.state = "REJECTED"] \in PlanRow
      BY DEF PlanRow
    <2>5. plan' \in PlanRow
      BY <1>6, <2>4, RefreshedType DEF Reject
    <2>. QED  BY <1>6, <2>3, <2>5 DEF Reject
  <1>7. ASSUME NEW k \in Keys,
               Start(k) \/ PreparationEnds(k) \/ ReviewTask(k) \/ RetryTask(k) \/ CancelTask(k)
        PROVE  TypeOK'
    <2>1. plan' = plan \/ plan' = Refreshed(plan, rev, task')
      BY <1>7 DEF Start, PreparationEnds, ReviewTask, RetryTask, CancelTask, Moved
    <2>2. plan' \in PlanRow
      BY <2>1, RefreshedType
    <2>3. PICK s \in {"PENDING", "PREPARING", "AWAITING_APPROVAL", "NEEDS_ATTENTION",
                      "DONE", "CANCELLED"} : task' = [task EXCEPT ![k].status = s]
      BY <1>7 DEF Start, PreparationEnds, ReviewTask, RetryTask, CancelTask, Moved
    <2>4. task' \in [Keys -> TaskRow]
      <3>1. [task EXCEPT ![k].status = s] \in [Keys -> TaskRow]
        BY StatusType
      <3>. QED  BY <2>3, <3>1
    <2>5. UNCHANGED <<active, rev, page>>
      BY <1>7 DEF Start, PreparationEnds, ReviewTask, RetryTask, CancelTask
    <2>. QED  BY <2>2, <2>4, <2>5
  <1>8. CASE Archive \/ Restore
    BY <1>8 DEF Archive, Restore
  <1>9. CASE UNCHANGED vars
    BY <1>9 DEF vars
  <1>. QED  BY <1>1, <1>2, <1>3, <1>4, <1>5, <1>6, <1>7, <1>8, <1>9 DEF Next

\* The tables and the pages keep their types.
THEOREM TypeCorrect == Spec => []TypeOK
  BY TypeInit, TypeStep, PTL DEF Spec

-----------------------------------------------------------------------------
(* The inductive invariant.  The content check speaks of a plan that        *)
(* exists; its rows have to be described before there is one as well, and   *)
(* what it says in sets is said here row by row.                            *)

\* The numbers of the plan's row and the decisions of its revisions.
RowsMatch ==
    /\ plan.state = "absent" <=> plan.latest = 0
    /\ plan.approved <= plan.latest
    /\ \A i \in Revisions :
          /\ rev[i].decision # "absent" <=> i <= plan.latest
          /\ rev[i].decision = "DRAFT" => i = plan.latest
          /\ rev[i].decision = "APPROVED" <=> i = plan.approved
          /\ rev[i].decision # "absent" => Valid(rev[i].payload)

\* The state of the plan's row.
StateMatches ==
    /\ plan.latest # 0 => rev[plan.latest].decision # "SUPERSEDED"
    /\ plan.latest # 0 /\ plan.approved = 0 =>
          \/ rev[plan.latest].decision = "DRAFT" /\ plan.state = "OPEN"
          \/ rev[plan.latest].decision = "REJECTED" /\ plan.state = "REJECTED"
    /\ plan.approved # 0 =>
          plan.state = IF /\ rev[plan.latest].decision # "DRAFT"
                          /\ \A k \in Keys : task[k].status \in Terminal \cup {"absent"}
                         THEN "CLOSED" ELSE "OPEN"

\* A task and the revision that made it.
MadeByRevision ==
    \A k \in Keys : task[k].status # "absent" =>
        /\ plan.approved # 0
        /\ task[k].rev \in Revisions
        /\ rev[task[k].rev].decision \in {"APPROVED", "SUPERSEDED"}
        /\ k \in DOMAIN rev[task[k].rev].payload
        /\ rev[task[k].rev].payload[k] = task[k].def
        /\ task[k].edges = task[k].def.ups
        /\ \A u \in task[k].edges : task[u].status # "absent"

\* A task and the approved revision.
MatchesApproved ==
    \A k \in Keys :
        /\ task[k].status \notin {"absent", "CANCELLED"} => k \in DOMAIN Approved
        /\ k \in DOMAIN Approved => task[k].status # "absent" /\ task[k].def = Approved[k]

IInv == TypeOK /\ RowsMatch /\ StateMatches /\ MadeByRevision /\ MatchesApproved

LEMMA InvariantInit == Init => IInv
  <1>. SUFFICES ASSUME Init PROVE IInv
    OBVIOUS
  <1>1. plan.state = "absent" /\ plan.latest = 0 /\ plan.approved = 0
    BY DEF Init
  <1>2. \A i \in Revisions : rev[i].decision = "absent"
    BY DEF Init
  <1>3. \A k \in Keys : task[k].status = "absent"
    BY DEF Init
  <1>4. DOMAIN Approved = {}
    BY <1>1 DEF Approved, Nothing
  <1>5. TypeOK
    BY TypeInit
  <1>6. RowsMatch
    BY <1>1, <1>2 DEF RowsMatch, Revisions
  <1>. QED  BY <1>1, <1>3, <1>4, <1>5, <1>6 DEF IInv, StateMatches, MadeByRevision, MatchesApproved

\* What refreshing does to the row of a plan with an approved revision.
LEMMA RefreshedRow ==
    ASSUME NEW row \in PlanRow, NEW r, NEW t, row.approved # 0,
           NEW one \in Keys, t[one].status # "absent"
    PROVE  /\ Refreshed(row, r, t).latest = row.latest
           /\ Refreshed(row, r, t).approved = row.approved
           /\ Refreshed(row, r, t).state =
                 IF /\ Drafts(r) = {}
                    /\ \A k \in Keys : t[k].status \in Terminal \cup {"absent"}
                   THEN "CLOSED" ELSE "OPEN"
  <1>. DEFINE tasks == {k \in Keys : t[k].status # "absent"}
  <1>1. tasks # {}
    OBVIOUS
  <1>2. (\A k \in tasks : t[k].status \in Terminal)
           <=> \A k \in Keys : t[k].status \in Terminal \cup {"absent"}
    OBVIOUS
  <1>3. CASE Drafts(r) = {} /\ \A k \in tasks : t[k].status \in Terminal
    BY <1>1, <1>2, <1>3 DEF Refreshed, PlanRow
  <1>4. CASE Drafts(r) # {}
    BY <1>4 DEF Refreshed, PlanRow
  <1>5. CASE Drafts(r) = {} /\ ~ \A k \in tasks : t[k].status \in Terminal
    BY <1>2, <1>5 DEF Refreshed, PlanRow
  <1>. QED  BY <1>3, <1>4, <1>5

\* The only draft there can be is the newest revision.
LEMMA DraftIsNewest ==
    ASSUME IInv, plan.latest # 0
    PROVE  Drafts(rev) = {} <=> rev[plan.latest].decision # "DRAFT"
  BY DEF IInv, TypeOK, PlanRow, RowsMatch, Drafts, Revisions

-----------------------------------------------------------------------------
(* One lemma per kind of action.                                            *)

LEMMA PersistKeeps ==
    ASSUME IInv, NEW p \in Payloads, PersistAgentPlan(p), TypeOK'
    PROVE  IInv'
  <1>1. /\ plan.latest = 0 /\ plan.approved = 0
        /\ plan' = [state |-> "OPEN", latest |-> 1, approved |-> 0]
        /\ task' = task /\ Valid(p) /\ 1 \in Revisions
    BY DEF IInv, TypeOK, PlanRow, RowsMatch, PersistAgentPlan, Revisions
  <1>2. rev' = [j \in Revisions |-> IF j = 1 THEN [decision |-> "DRAFT", payload |-> p] ELSE rev[j]]
    BY DEF IInv, TypeOK, PersistAgentPlan
  <1>3. \A i \in Revisions : rev[i].decision = "absent"
    BY <1>1 DEF IInv, RowsMatch, Revisions
  <1>4. \A k \in Keys : task[k].status = "absent"
    BY <1>1 DEF IInv, MadeByRevision
  <1>5. DOMAIN Approved' = {}
    BY <1>1 DEF Approved, Nothing
  <1>6. RowsMatch'
    BY <1>1, <1>2, <1>3 DEF RowsMatch, Revisions
  <1>7. StateMatches'
    BY <1>1, <1>2 DEF StateMatches
  <1>8. MadeByRevision' /\ MatchesApproved'
    BY <1>1, <1>4, <1>5 DEF MadeByRevision, MatchesApproved
  <1>. QED  BY <1>6, <1>7, <1>8 DEF IInv

LEMMA CreateKeeps ==
    ASSUME IInv, NEW k \in Keys, NEW text \in Texts, CreateTask(k, text), TypeOK'
    PROVE  IInv'
  <1>. DEFINE item == [text |-> text, ups |-> {}]
              p    == [j \in {k} |-> item]
  <1>1. /\ plan.latest = 0 /\ plan.approved = 0
        /\ plan' = [state |-> "OPEN", latest |-> 1, approved |-> 1]
        /\ Valid(p) /\ 1 \in Revisions
    BY DEF IInv, TypeOK, PlanRow, RowsMatch, CreateTask, Revisions
  <1>2. rev' = [j \in Revisions |->
                  IF j = 1 THEN [decision |-> "APPROVED", payload |-> p] ELSE rev[j]]
    BY DEF IInv, TypeOK, CreateTask
  <1>3. \A i \in Revisions : rev[i].decision = "absent"
    BY <1>1 DEF IInv, RowsMatch, Revisions
  <1>4. \A j \in Keys : task[j].status = "absent"
    BY <1>1 DEF IInv, MadeByRevision
  <1>5. task' = [j \in Keys |->
          IF j = k THEN [status |-> "PENDING", rev |-> 1, def |-> item, edges |-> {}] ELSE task[j]]
    BY DEF IInv, TypeOK, CreateTask, NewTask
  <1>6. DOMAIN p = {k} /\ p[k] = item /\ item.ups = {}
    OBVIOUS
  <1>. HIDE DEF item, p
  <1>7. Approved' = p
    BY <1>1, <1>2 DEF Approved
  <1>8. RowsMatch'
    BY <1>1, <1>2, <1>3 DEF RowsMatch, Revisions
  <1>9. StateMatches'
    BY <1>1, <1>2, <1>5 DEF StateMatches, Terminal
  <1>10. MadeByRevision'
    <2>1. rev'[1].decision = "APPROVED" /\ rev'[1].payload = p /\ plan'.approved # 0
      BY <1>1, <1>2
    <2>2. /\ task'[k].rev = 1 /\ task'[k].def = item /\ task'[k].edges = {}
          /\ \A j \in Keys \ {k} : task'[j].status = "absent"
      BY <1>4, <1>5
    <2>. QED  BY <1>1, <1>6, <2>1, <2>2 DEF MadeByRevision
  <1>11. MatchesApproved'
    BY <1>4, <1>5, <1>6, <1>7 DEF MatchesApproved
  <1>. QED  BY <1>8, <1>9, <1>10, <1>11 DEF IInv

\* A new draft replaces the old one and touches no task.
LEMMA ReplaceKeeps ==
    ASSUME IInv, NEW o \in Operators, NEW p \in Payloads, ReplaceDraft(o, p), TypeOK'
    PROVE  IInv'
  <1>. DEFINE i == plan.latest
  <1>1. i \in Revisions /\ i + 1 \in Revisions /\ i # 0
    BY DEF IInv, TypeOK, ReplaceDraft, Current, PlanRow, Revisions
  <1>2. /\ plan'.latest = i + 1 /\ plan'.approved = plan.approved /\ plan'.state = "OPEN"
        /\ task' = task /\ Valid(p)
    BY DEF IInv, TypeOK, PlanRow, ReplaceDraft
  <1>3. rev' = [j \in Revisions |->
                  IF j = i + 1 THEN [decision |-> "DRAFT", payload |-> p]
                  ELSE IF j = i
                    THEN [rev[i] EXCEPT !.decision =
                            IF rev[i].decision = "DRAFT" THEN "SUPERSEDED" ELSE rev[i].decision]
                  ELSE rev[j]]
    BY <1>1 DEF IInv, TypeOK, PlanRow, ReplaceDraft
  <1>4. rev[i] \in RevisionRow
    BY <1>1 DEF IInv, TypeOK
  <1>5. /\ rev'[i + 1].decision = "DRAFT" /\ rev'[i + 1].payload = p
        /\ rev[i].decision = "DRAFT" => rev'[i].decision = "SUPERSEDED"
        /\ rev[i].decision # "DRAFT" => rev'[i].decision = rev[i].decision
        /\ rev'[i].payload = rev[i].payload
        /\ \A j \in Revisions \ {i, i + 1} : rev'[j] = rev[j]
    BY <1>1, <1>3, <1>4 DEF RevisionRow, PlanRow, IInv, TypeOK
  <1>6. rev[i + 1].decision = "absent" /\ i \in Nat /\ plan.approved \in Nat /\ plan.approved <= i
    BY <1>1 DEF IInv, RowsMatch, TypeOK, PlanRow, Revisions
  <1>. HIDE DEF i
  <1>7. RowsMatch'
    <2>1. ASSUME NEW j \in Revisions
          PROVE  /\ rev'[j].decision # "absent" <=> j <= i + 1
                 /\ rev'[j].decision = "DRAFT" => j = i + 1
                 /\ rev'[j].decision = "APPROVED" <=> j = plan.approved
                 /\ rev'[j].decision # "absent" => Valid(rev'[j].payload)
      <3>1. /\ rev[j].decision # "absent" <=> j <= i
            /\ rev[j].decision = "DRAFT" => j = i
            /\ rev[j].decision = "APPROVED" <=> j = plan.approved
            /\ rev[j].decision # "absent" => Valid(rev[j].payload)
        BY DEF IInv, RowsMatch, i
      <3>. QED  BY <1>2, <1>5, <1>6, <3>1 DEF Revisions
    <2>. QED  BY <1>1, <1>2, <1>6, <2>1 DEF RowsMatch
  <1>8. StateMatches'
    BY <1>1, <1>2, <1>5, <1>6 DEF StateMatches
  <1>9. \A j \in Revisions : rev[j].decision \in {"APPROVED", "SUPERSEDED"} =>
           rev'[j].decision = rev[j].decision /\ rev'[j].payload = rev[j].payload
    BY <1>5, <1>6
  <1>10. MadeByRevision'
    BY <1>2, <1>9 DEF IInv, MadeByRevision
  <1>11. Approved' = Approved
    <2>1. CASE plan.approved = 0
      BY <1>2, <2>1 DEF Approved
    <2>2. CASE plan.approved # 0
      <3>1. plan.approved \in Revisions
        BY <1>1, <1>6, <2>2 DEF Revisions
      <3>2. rev[plan.approved].decision = "APPROVED"
        BY <3>1 DEF IInv, RowsMatch
      <3>. QED  BY <1>2, <1>9, <2>2, <3>1, <3>2 DEF Approved
    <2>. QED  BY <2>1, <2>2
  <1>12. MatchesApproved'
    BY <1>2, <1>11 DEF IInv, MatchesApproved
  <1>. QED  BY <1>7, <1>8, <1>10, <1>12 DEF IInv

\* An approval: what the content check compares is compared anew.
LEMMA ApproveKeeps ==
    ASSUME IInv, NEW o \in Operators, Approve(o), TypeOK'
    PROVE  IInv'
  <1>. DEFINE i == plan.latest
              p == rev[i].payload
  <1>1. i \in Revisions /\ i # 0 /\ rev[i].decision = "DRAFT"
    BY DEF IInv, TypeOK, Approve, Current, Decidable, PlanRow, Revisions
  <1>2. rev[i] \in RevisionRow /\ Valid(p) /\ p \in Payloads \cup {Nothing}
    BY <1>1 DEF IInv, TypeOK, RowsMatch, RevisionRow
  <1>3. \A k \in DOMAIN p : k \in Keys /\ p[k] \in Item /\ p[k].ups \subseteq DOMAIN p
    BY <1>2, PayloadItems DEF Valid
  <1>4. PICK one \in DOMAIN p : TRUE
    BY <1>2 DEF Valid
  <1>5. plan.approved \in Nat /\ plan.approved # i
    BY <1>1 DEF IInv, RowsMatch, TypeOK, PlanRow
  <1>6. ASSUME NEW j \in Revisions
        PROVE  /\ rev'[j].payload = rev[j].payload
               /\ j = i => rev'[j].decision = "APPROVED"
               /\ j # i /\ j = plan.approved => rev'[j].decision = "SUPERSEDED"
               /\ j # i /\ j # plan.approved => rev'[j].decision = rev[j].decision
    <2>1. rev[j] \in RevisionRow
      BY DEF IInv, TypeOK
    <2>2. rev'[j] = CASE j = i -> [rev[j] EXCEPT !.decision = "APPROVED"]
                      [] j # i /\ j = plan.approved -> [rev[j] EXCEPT !.decision = "SUPERSEDED"]
                      [] OTHER -> rev[j]
      BY DEF Approve
    <2>3. CASE j = i
      BY <2>1, <2>2, <2>3 DEF RevisionRow
    <2>4. CASE j # i /\ j = plan.approved
      BY <2>1, <2>2, <2>4 DEF RevisionRow
    <2>5. CASE j # i /\ j # plan.approved
      BY <2>2, <2>5
    <2>. QED  BY <2>3, <2>4, <2>5
  <1>7. \A k \in Keys : task'[k] =
           IF Mutable(k)
             THEN IF k \in DOMAIN p THEN NewTask(i, p[k]) ELSE Dropped(task[k])
           ELSE IF task[k].status = "absent" /\ k \in DOMAIN p THEN NewTask(i, p[k])
           ELSE task[k]
    BY DEF Approve, Materialized
  <1>8. ASSUME NEW k \in Keys
        PROVE  /\ k \in DOMAIN p /\ ~Started(k) =>
                      /\ task'[k].status = "PENDING" /\ task'[k].rev = i
                      /\ task'[k].def = p[k] /\ task'[k].edges = p[k].ups
               /\ Started(k) => task'[k] = task[k]
               /\ k \notin DOMAIN p =>
                      /\ task'[k].status = IF task[k].status = "PENDING" THEN "CANCELLED"
                                           ELSE task[k].status
                      /\ task'[k].rev = task[k].rev
                      /\ task'[k].def = task[k].def
                      /\ task'[k].edges = task[k].edges
    <2>1. task[k] \in TaskRow
      BY DEF IInv, TypeOK
    <2>2. /\ Dropped(task[k]).status = "CANCELLED"
          /\ Dropped(task[k]).rev = task[k].rev
          /\ Dropped(task[k]).def = task[k].def
          /\ Dropped(task[k]).edges = task[k].edges
      BY <2>1 DEF Dropped, TaskRow
    <2>3. /\ NewTask(i, p[k]).status = "PENDING" /\ NewTask(i, p[k]).rev = i
          /\ NewTask(i, p[k]).def = p[k] /\ NewTask(i, p[k]).edges = p[k].ups
      BY DEF NewTask
    <2>4. task'[k] = IF Mutable(k)
                       THEN IF k \in DOMAIN p THEN NewTask(i, p[k]) ELSE Dropped(task[k])
                     ELSE IF task[k].status = "absent" /\ k \in DOMAIN p THEN NewTask(i, p[k])
                     ELSE task[k]
      BY <1>7
    <2>5. CASE task[k].status = "PENDING"
      BY <2>2, <2>3, <2>4, <2>5 DEF Started, Mutable
    <2>6. CASE task[k].status = "absent"
      BY <2>3, <2>4, <2>6 DEF Started, Mutable
    <2>7. CASE Started(k)
      BY <2>4, <2>7 DEF Started, Mutable
    <2>. QED  BY <2>5, <2>6, <2>7 DEF Started
  <1>9. \A k \in Keys : /\ task[k].status # "absent" => task'[k].status # "absent"
                        /\ k \in DOMAIN p => task'[k].status # "absent"
    <2>. TAKE k \in Keys
    <2>1. CASE Started(k)
      <3>1. task'[k] = task[k]
        BY <1>8, <2>1
      <3>. QED  BY <2>1, <3>1 DEF Started
    <2>2. CASE ~Started(k) /\ k \in DOMAIN p
      <3>1. task'[k].status = "PENDING"
        BY <1>8, <2>2
      <3>. QED  BY <3>1
    <2>3. CASE ~Started(k) /\ k \notin DOMAIN p
      <3>1. task'[k].status = IF task[k].status = "PENDING" THEN "CANCELLED" ELSE task[k].status
        BY <1>8, <2>3
      <3>. QED  BY <2>3, <3>1
    <2>. QED  BY <2>1, <2>2, <2>3
  <1>10. Anchored(p)
    BY DEF Approve
  <1>11. Drafts(rev') = {}
    BY <1>1, <1>6 DEF Drafts, IInv, RowsMatch
  <1>12. /\ plan'.latest = i /\ plan'.approved = i
         /\ plan'.state = IF \A k \in Keys : task'[k].status \in Terminal \cup {"absent"}
                            THEN "CLOSED" ELSE "OPEN"
    <2>. DEFINE row == [plan EXCEPT !.approved = i, !.state = "OPEN"]
    <2>1. row \in PlanRow /\ row.approved = i /\ row.latest = i
      BY <1>1 DEF PlanRow, IInv, TypeOK, Revisions
    <2>2. plan' = Refreshed(row, rev', task')
      BY DEF Approve
    <2>3. one \in Keys /\ task'[one].status # "absent"
      BY <1>3, <1>4, <1>9
    <2>. HIDE DEF row, i
    <2>. QED  BY <1>1, <1>11, <2>1, <2>2, <2>3, RefreshedRow
  <1>. HIDE DEF i, p
  <1>13. Approved' = p
    BY <1>1, <1>6, <1>12 DEF Approved, p
  <1>14. RowsMatch'
    <2>1. ASSUME NEW j \in Revisions
          PROVE  /\ rev'[j].decision # "absent" <=> j <= i
                 /\ rev'[j].decision # "DRAFT"
                 /\ rev'[j].decision = "APPROVED" <=> j = i
                 /\ rev'[j].decision # "absent" => Valid(rev'[j].payload)
      <3>1. /\ rev[j].decision # "absent" <=> j <= i
            /\ rev[j].decision = "DRAFT" => j = i
            /\ rev[j].decision = "APPROVED" <=> j = plan.approved
            /\ rev[j].decision # "absent" => Valid(rev[j].payload)
        BY DEF IInv, RowsMatch, i
      <3>2. /\ rev'[j].payload = rev[j].payload
            /\ j = i => rev'[j].decision = "APPROVED"
            /\ j # i /\ j = plan.approved => rev'[j].decision = "SUPERSEDED"
            /\ j # i /\ j # plan.approved => rev'[j].decision = rev[j].decision
        BY <1>6
      <3>. QED  BY <1>1, <3>1, <3>2
    <2>2. plan'.state # "absent"
      BY <1>12
    <2>. QED  BY <1>1, <1>12, <2>1, <2>2 DEF RowsMatch, Revisions
  <1>15. StateMatches'
    BY <1>1, <1>6, <1>12 DEF StateMatches
  <1>16. MadeByRevision'
    <2>1. ASSUME NEW k \in Keys, task'[k].status # "absent"
          PROVE  /\ task'[k].rev \in Revisions
                 /\ rev'[task'[k].rev].decision \in {"APPROVED", "SUPERSEDED"}
                 /\ k \in DOMAIN rev'[task'[k].rev].payload
                 /\ rev'[task'[k].rev].payload[k] = task'[k].def
                 /\ task'[k].edges = task'[k].def.ups
                 /\ \A u \in task'[k].edges : task'[u].status # "absent"
      <3>1. CASE k \in DOMAIN p /\ ~Started(k)
        <4>1. task'[k].rev = i /\ task'[k].def = p[k] /\ task'[k].edges = p[k].ups
          BY <1>8, <3>1
        <4>2. rev'[i].decision = "APPROVED" /\ rev'[i].payload = p
          BY <1>1, <1>6 DEF p
        <4>. QED  BY <1>1, <1>3, <1>9, <3>1, <4>1, <4>2
      <3>2. CASE Started(k) \/ k \notin DOMAIN p
        <4>1. /\ task'[k].rev = task[k].rev /\ task'[k].def = task[k].def
              /\ task'[k].edges = task[k].edges /\ task[k].status # "absent"
          BY <1>8, <2>1, <3>2 DEF Started
        <4>2. /\ task[k].rev \in Revisions
              /\ rev[task[k].rev].decision \in {"APPROVED", "SUPERSEDED"}
              /\ k \in DOMAIN rev[task[k].rev].payload
              /\ rev[task[k].rev].payload[k] = task[k].def
              /\ task[k].edges = task[k].def.ups
              /\ \A u \in task[k].edges : task[u].status # "absent"
          BY <4>1 DEF IInv, MadeByRevision
        <4>3. /\ rev'[task[k].rev].decision \in {"APPROVED", "SUPERSEDED"}
              /\ rev'[task[k].rev].payload = rev[task[k].rev].payload
          BY <1>1, <1>6, <4>2
        <4>4. task[k].edges \subseteq Keys
          BY DEF IInv, TypeOK, TaskRow
        <4>. QED  BY <1>9, <4>1, <4>2, <4>3, <4>4
      <3>. QED  BY <3>1, <3>2
    <2>. QED  BY <1>1, <1>12, <2>1 DEF MadeByRevision
  <1>17. MatchesApproved'
    <2>1. ASSUME NEW k \in Keys
          PROVE  /\ task'[k].status \notin {"absent", "CANCELLED"} => k \in DOMAIN p
                 /\ k \in DOMAIN p => task'[k].status # "absent" /\ task'[k].def = p[k]
      <3>1. /\ task[k].status \notin {"absent", "CANCELLED"} => k \in DOMAIN Approved
            /\ k \in DOMAIN Approved => task[k].status # "absent" /\ task[k].def = Approved[k]
        BY DEF IInv, MatchesApproved
      <3>2. Started(k) => IF k \in DOMAIN Approved THEN k \in DOMAIN p /\ p[k] = task[k].def
                                                   ELSE k \notin DOMAIN p
        BY <1>10 DEF Anchored
      <3>3. CASE Started(k)
        <4>1. task'[k] = task[k]
          BY <1>8, <3>3
        <4>. QED  BY <3>1, <3>2, <3>3, <4>1 DEF Started
      <3>4. CASE ~Started(k) /\ k \in DOMAIN p
        <4>1. task'[k].status = "PENDING" /\ task'[k].def = p[k]
          BY <1>8, <3>4
        <4>. QED  BY <3>4, <4>1
      <3>5. CASE ~Started(k) /\ k \notin DOMAIN p
        <4>1. task'[k].status \in {"absent", "CANCELLED"}
          BY <1>8, <3>5 DEF Started
        <4>. QED  BY <3>5, <4>1
      <3>. QED  BY <3>3, <3>4, <3>5
    <2>. QED  BY <1>13, <2>1 DEF MatchesApproved
  <1>. QED  BY <1>14, <1>15, <1>16, <1>17 DEF IInv

\* A rejected draft leaves the approved revision and its tasks as they were.
LEMMA RejectKeeps ==
    ASSUME IInv, NEW o \in Operators, Reject(o), TypeOK'
    PROVE  IInv'
  <1>. DEFINE i == plan.latest
  <1>1. i \in Revisions /\ i # 0 /\ rev[i].decision = "DRAFT" /\ plan \in PlanRow
    BY DEF IInv, TypeOK, Reject, Current, Decidable, PlanRow, Revisions
  <1>2. rev[i] \in RevisionRow /\ rev \in [Revisions -> RevisionRow]
    BY <1>1 DEF IInv, TypeOK
  <1>3. /\ rev'[i].decision = "REJECTED" /\ rev'[i].payload = rev[i].payload
        /\ \A j \in Revisions \ {i} : rev'[j] = rev[j]
    BY <1>1, <1>2 DEF Reject, RevisionRow
  <1>4. plan.approved # i /\ plan.approved \in Nat /\ plan.approved <= i /\ task' = task
    BY <1>1 DEF IInv, RowsMatch, PlanRow, Reject
  <1>5. Drafts(rev') = {}
    BY <1>1, <1>3 DEF IInv, RowsMatch, Drafts
  <1>6. /\ plan'.latest = i /\ plan'.approved = plan.approved
        /\ plan.approved = 0 => plan'.state = "REJECTED"
        /\ plan.approved # 0 =>
              plan'.state = IF \A k \in Keys : task[k].status \in Terminal \cup {"absent"}
                              THEN "CLOSED" ELSE "OPEN"
    <2>1. CASE plan.approved = 0
      BY <1>1, <2>1 DEF Reject, PlanRow
    <2>2. CASE plan.approved # 0
      <3>1. plan' = Refreshed(plan, rev', task)
        BY <2>2 DEF Reject
      <3>2. plan.approved \in Revisions
        BY <1>1, <1>4, <2>2 DEF Revisions
      <3>3. rev[plan.approved].decision = "APPROVED"
        BY <3>2 DEF IInv, RowsMatch
      <3>4. Valid(Approved) /\ Approved \in Payloads \cup {Nothing}
        BY <1>2, <2>2, <3>2, <3>3 DEF IInv, RowsMatch, Approved, RevisionRow
      <3>5. PICK one \in DOMAIN Approved : TRUE
        BY <3>4 DEF Valid
      <3>6. one \in Keys /\ task[one].status # "absent"
        BY <3>4, <3>5, PayloadItems DEF IInv, MatchesApproved
      <3>. QED  BY <1>1, <1>5, <2>2, <3>1, <3>6, RefreshedRow
    <2>. QED  BY <2>1, <2>2
  <1>. HIDE DEF i
  <1>7. RowsMatch'
    <2>1. ASSUME NEW j \in Revisions
          PROVE  /\ rev'[j].decision # "absent" <=> j <= i
                 /\ rev'[j].decision # "DRAFT"
                 /\ rev'[j].decision = "APPROVED" <=> j = plan.approved
                 /\ rev'[j].decision # "absent" => Valid(rev'[j].payload)
      <3>1. /\ rev[j].decision # "absent" <=> j <= i
            /\ rev[j].decision = "DRAFT" => j = i
            /\ rev[j].decision = "APPROVED" <=> j = plan.approved
            /\ rev[j].decision # "absent" => Valid(rev[j].payload)
        BY DEF IInv, RowsMatch, i
      <3>. QED  BY <1>1, <1>3, <1>4, <3>1
    <2>2. plan'.state # "absent"
      BY <1>6
    <2>. QED  BY <1>1, <1>4, <1>6, <2>1, <2>2 DEF RowsMatch
  <1>8. StateMatches'
    BY <1>1, <1>3, <1>4, <1>6 DEF StateMatches
  <1>9. \A j \in Revisions : rev[j].decision \in {"APPROVED", "SUPERSEDED"} =>
           rev'[j].decision = rev[j].decision /\ rev'[j].payload = rev[j].payload
    BY <1>1, <1>3
  <1>10. MadeByRevision'
    BY <1>4, <1>6, <1>9 DEF IInv, MadeByRevision
  <1>11. Approved' = Approved
    <2>1. CASE plan.approved = 0
      BY <1>6, <2>1 DEF Approved
    <2>2. CASE plan.approved # 0
      <3>1. plan.approved \in Revisions
        BY <1>1, <1>4, <2>2 DEF Revisions
      <3>. QED  BY <1>3, <1>4, <1>6, <2>2, <3>1 DEF Approved
    <2>. QED  BY <2>1, <2>2
  <1>12. MatchesApproved'
    BY <1>4, <1>11 DEF IInv, MatchesApproved
  <1>. QED  BY <1>7, <1>8, <1>10, <1>12 DEF IInv

\* Whatever a preparation does to a task, the task exists before and after; a
\* task that was cancelled stays so, and the plan's row follows.
LEMMA MoveKeeps ==
    ASSUME IInv, TypeOK', NEW k \in Keys,
           Start(k) \/ PreparationEnds(k) \/ ReviewTask(k) \/ RetryTask(k) \/ CancelTask(k)
    PROVE  IInv'
  <1>1. /\ task[k].status \in {"PENDING", "PREPARING", "AWAITING_APPROVAL", "NEEDS_ATTENTION"}
        /\ rev' = rev
    BY DEF Start, PreparationEnds, ReviewTask, RetryTask, CancelTask
  <1>2. PICK s \in {"PENDING", "PREPARING", "AWAITING_APPROVAL", "NEEDS_ATTENTION",
                    "DONE", "CANCELLED"} : task' = [task EXCEPT ![k].status = s]
    BY DEF Start, PreparationEnds, ReviewTask, RetryTask, CancelTask, Moved
  <1>3. task \in [Keys -> TaskRow]
    BY DEF IInv, TypeOK
  <1>4. /\ task'[k].status = s /\ task'[k].rev = task[k].rev
        /\ task'[k].def = task[k].def /\ task'[k].edges = task[k].edges
        /\ \A j \in Keys \ {k} : task'[j] = task[j]
    BY <1>2, <1>3 DEF TaskRow
  <1>5. plan \in PlanRow /\ plan.approved # 0 /\ plan.latest # 0
    BY <1>1 DEF IInv, TypeOK, MadeByRevision, RowsMatch, PlanRow
  <1>6. task'[k].status # "absent"
    BY <1>2, <1>4
  <1>7. /\ plan'.latest = plan.latest /\ plan'.approved = plan.approved
        /\ plan'.state =
              IF /\ rev[plan.latest].decision # "DRAFT"
                 /\ \A j \in Keys : task'[j].status \in Terminal \cup {"absent"}
                THEN "CLOSED" ELSE "OPEN"
    <2>1. CASE Start(k)
      <3>1. plan' = plan /\ task'[k].status = "PREPARING"
        BY <1>3, <2>1 DEF Start, TaskRow
      <3>2. plan.state = "OPEN"
        BY <1>1, <1>5 DEF IInv, StateMatches, Terminal
      <3>. QED  BY <3>1, <3>2 DEF Terminal
    <2>2. CASE PreparationEnds(k) \/ ReviewTask(k) \/ RetryTask(k) \/ CancelTask(k)
      <3>1. plan' = Refreshed(plan, rev, task')
        BY <2>2 DEF PreparationEnds, ReviewTask, RetryTask, CancelTask, Moved
      <3>. QED  BY <1>5, <1>6, <3>1, RefreshedRow, DraftIsNewest
    <2>. QED  BY <2>1, <2>2
  <1>8. RowsMatch'
    <2>1. plan.state # "absent" /\ plan'.state # "absent"
      BY <1>5, <1>7 DEF IInv, StateMatches
    <2>. QED  BY <1>1, <1>7, <2>1 DEF IInv, RowsMatch
  <1>9. StateMatches'
    BY <1>1, <1>5, <1>7 DEF IInv, StateMatches
  <1>10. MadeByRevision'
    <2>1. \A j \in Keys : /\ task'[j].status # "absent" <=> task[j].status # "absent"
                          /\ task'[j].rev = task[j].rev /\ task'[j].def = task[j].def
                          /\ task'[j].edges = task[j].edges /\ task[j].edges \subseteq Keys
      BY <1>1, <1>3, <1>4, <1>6 DEF TaskRow
    <2>. QED  BY <1>1, <1>7, <2>1 DEF IInv, MadeByRevision
  <1>11. Approved' = Approved
    BY <1>1, <1>7 DEF Approved
  <1>12. MatchesApproved'
    BY <1>1, <1>4, <1>6, <1>11 DEF IInv, MatchesApproved
  <1>. QED  BY <1>8, <1>9, <1>10, <1>12 DEF IInv

LEMMA InvariantStep == IInv /\ [Next]_vars => IInv'
  <1>. SUFFICES ASSUME IInv, [Next]_vars PROVE IInv'
    OBVIOUS
  <1>1. TypeOK'
    BY TypeStep DEF IInv
  <1>2. ASSUME NEW p \in Payloads, PersistAgentPlan(p) PROVE IInv'
    BY <1>1, <1>2, PersistKeeps
  <1>3. ASSUME NEW k \in Keys, NEW text \in Texts, CreateTask(k, text) PROVE IInv'
    BY <1>1, <1>3, CreateKeeps
  <1>4. ASSUME NEW o \in Operators, NEW p \in Payloads, ReplaceDraft(o, p) PROVE IInv'
    BY <1>1, <1>4, ReplaceKeeps
  <1>5. ASSUME NEW o \in Operators, Approve(o) PROVE IInv'
    BY <1>1, <1>5, ApproveKeeps
  <1>6. ASSUME NEW o \in Operators, Reject(o) PROVE IInv'
    BY <1>1, <1>6, RejectKeeps
  <1>7. ASSUME NEW k \in Keys,
               Start(k) \/ PreparationEnds(k) \/ ReviewTask(k) \/ RetryTask(k) \/ CancelTask(k)
        PROVE  IInv'
    BY <1>1, <1>7, MoveKeeps
  <1>8. CASE Archive \/ Restore \/ (\E o \in Operators : See(o)) \/ UNCHANGED vars
    <2>1. UNCHANGED <<plan, rev, task>>
      BY <1>8 DEF Archive, Restore, See, vars
    <2>. QED  BY <1>1, <2>1 DEF IInv, RowsMatch, StateMatches, MadeByRevision,
                              MatchesApproved, Approved
  <1>. QED  BY <1>2, <1>3, <1>4, <1>5, <1>6, <1>7, <1>8 DEF Next

-----------------------------------------------------------------------------
(* What follows.                                                            *)

LEMMA PointersFollow ==
    ASSUME IInv, plan.state # "absent"
    PROVE  PointersValid
  <1>. DEFINE rows     == {i \in Revisions : rev[i].decision # "absent"}
              approved == {i \in rows : rev[i].decision = "APPROVED"}
  <1>1. plan.latest \in Revisions /\ plan.approved \in 0..MaxRevisions /\ plan.approved <= plan.latest
    BY DEF IInv, TypeOK, PlanRow, RowsMatch, Revisions
  <1>2. rows = 1..plan.latest
    BY <1>1 DEF IInv, RowsMatch, Revisions
  <1>3. Drafts(rev) \subseteq {plan.latest}
    BY DEF IInv, RowsMatch, Drafts
  <1>4. approved = {plan.approved} \ {0}
    <2>1. \A i \in Revisions : rev[i].decision = "APPROVED" <=> i = plan.approved
      BY DEF IInv, RowsMatch
    <2>. QED  BY <1>1, <2>1 DEF Revisions
  <1>5. rev[plan.latest].decision # "SUPERSEDED"
    BY <1>1 DEF IInv, StateMatches, Revisions
  <1>6. IF plan.approved = 0
          THEN \/ rev[plan.latest].decision = "DRAFT" /\ plan.state = "OPEN"
               \/ rev[plan.latest].decision = "REJECTED" /\ plan.state = "REJECTED"
          ELSE plan.state \in {"OPEN", "CLOSED"}
    BY <1>1 DEF IInv, StateMatches, Revisions
  <1>. QED  BY <1>2, <1>3, <1>4, <1>5, <1>6 DEF PointersValid

LEMMA ProjectionFollows ==
    ASSUME IInv, plan.state # "absent"
    PROVE  ProjectionValid
  <1>. DEFINE tasks == {k \in Keys : task[k].status # "absent"}
  <1>1. tasks # {} => plan.approved # 0
    BY DEF IInv, MadeByRevision
  <1>2. ASSUME NEW k \in tasks
        PROVE  /\ rev[task[k].rev].decision \in {"APPROVED", "SUPERSEDED"}
               /\ k \in DOMAIN rev[task[k].rev].payload
               /\ rev[task[k].rev].payload[k] = task[k].def
               /\ task[k].edges = rev[task[k].rev].payload[k].ups
               /\ task[k].edges \subseteq tasks
    <2>1. task[k].edges \subseteq Keys
      BY DEF IInv, TypeOK, TaskRow
    <2>. QED  BY <2>1 DEF IInv, MadeByRevision
  <1>3. ASSUME plan.approved # 0
        PROVE  /\ \A k \in DOMAIN Approved : k \in tasks /\ task[k].def = Approved[k]
               /\ tasks # {}
               /\ (plan.state = "CLOSED") <=>
                     /\ Drafts(rev) = {}
                     /\ \A k \in tasks : task[k].status \in Terminal
    <2>1. plan.approved \in Revisions /\ plan.latest # 0
      BY <1>3 DEF IInv, TypeOK, PlanRow, RowsMatch, Revisions
    <2>2. Valid(Approved) /\ Approved \in Payloads \cup {Nothing}
      BY <1>3, <2>1 DEF IInv, RowsMatch, Approved, TypeOK, RevisionRow
    <2>3. \A k \in DOMAIN Approved : k \in tasks /\ task[k].def = Approved[k]
      BY <2>2, PayloadItems DEF IInv, MatchesApproved
    <2>4. tasks # {}
      BY <2>2, <2>3 DEF Valid
    <2>5. plan.state = "CLOSED" <=> /\ Drafts(rev) = {}
                                    /\ \A k \in Keys : task[k].status \in Terminal \cup {"absent"}
      BY <1>3, <2>1, DraftIsNewest DEF IInv, StateMatches
    <2>. QED  BY <2>3, <2>4, <2>5
  <1>. QED  BY <1>1, <1>2, <1>3 DEF ProjectionValid

\* The application can be restarted in every state its handlers reach: the content
\* check of init_db never refuses what replaced drafts, decisions, cancellations
\* and preparations leave behind.
THEOREM RestartAlwaysSucceeds == Spec => []RestartSucceeds
  <1>1. ASSUME IInv, plan.state # "absent"
        PROVE  \A i \in 1..plan.latest : Valid(rev[i].payload)
    BY <1>1 DEF IInv, TypeOK, PlanRow, RowsMatch, Revisions
  <1>2. IInv => RestartSucceeds
    BY <1>1, PointersFollow, ProjectionFollows DEF RestartSucceeds, ContentValid
  <1>. QED  BY <1>2, InvariantInit, InvariantStep, PTL DEF Spec

\* Work that has started belongs to the approved revision in its present
\* definition; materialize_plan_revision cancels what that revision dropped.
THEOREM TasksMatchApproval == Spec => []LiveTasksMatchApproval
  <1>1. IInv => LiveTasksMatchApproval
    BY DEF IInv, MatchesApproved, LiveTasksMatchApproval
  <1>. QED  BY <1>1, InvariantInit, InvariantStep, PTL DEF Spec

-----------------------------------------------------------------------------
(* History.                                                                 *)

DecisionsKept ==
    \A i \in Revisions :
        LET d == rev[i].decision IN
        /\ d # "absent" => rev'[i].payload = rev[i].payload
        /\ d \in {"REJECTED", "SUPERSEDED"} => rev'[i].decision = d
        /\ d = "APPROVED" => rev'[i].decision \in {"APPROVED", "SUPERSEDED"}

WorkKept ==
    \A k \in Keys :
        /\ Started(k) => /\ task'[k].def = task[k].def
                         /\ task'[k].edges = task[k].edges
        /\ task[k].status \in Terminal => task'[k].status = task[k].status

LEMMA HistoryStep ==
    ASSUME IInv, [Next]_vars
    PROVE  DecisionsKept /\ WorkKept
  <1>0. rev \in [Revisions -> RevisionRow] /\ task \in [Keys -> TaskRow] /\ plan \in PlanRow
    BY DEF IInv, TypeOK
  <1>1. CASE \/ \E p \in Payloads : PersistAgentPlan(p)
             \/ \E k \in Keys, text \in Texts : CreateTask(k, text)
    <2>1. plan.latest = 0 /\ plan.approved = 0
      <3>1. plan.state = "absent"
        BY <1>1 DEF PersistAgentPlan, CreateTask
      <3>. QED  BY <1>0, <3>1 DEF IInv, RowsMatch, PlanRow
    <2>2. /\ \A i \in Revisions : rev[i].decision = "absent"
          /\ \A k \in Keys : task[k].status = "absent"
      BY <2>1 DEF IInv, RowsMatch, MadeByRevision, Revisions
    <2>. QED  BY <2>2 DEF DecisionsKept, WorkKept, Started, Terminal
  <1>2. ASSUME NEW o \in Operators, NEW p \in Payloads, ReplaceDraft(o, p)
        PROVE  DecisionsKept /\ WorkKept
    <2>. DEFINE i == plan.latest
    <2>1. i \in Revisions /\ i + 1 \in Revisions /\ task' = task
      BY <1>0, <1>2 DEF ReplaceDraft, Current, PlanRow, Revisions
    <2>2. rev[i + 1].decision = "absent"
      BY <2>1 DEF IInv, RowsMatch, Revisions
    <2>3. /\ rev[i].decision # "DRAFT" => rev'[i].decision = rev[i].decision
          /\ rev'[i].payload = rev[i].payload
          /\ \A j \in Revisions \ {i, i + 1} : rev'[j] = rev[j]
      BY <1>0, <1>2, <2>1 DEF ReplaceDraft, RevisionRow, PlanRow, Revisions
    <2>. QED  BY <2>1, <2>2, <2>3 DEF DecisionsKept, WorkKept
  <1>3. ASSUME NEW o \in Operators, Approve(o)
        PROVE  DecisionsKept /\ WorkKept
    <2>. DEFINE i == plan.latest
    <2>1. i \in Revisions /\ rev[i].decision = "DRAFT"
      BY <1>0, <1>3 DEF Approve, Current, Decidable, PlanRow, Revisions
    <2>2. ASSUME NEW j \in Revisions
          PROVE  /\ rev'[j].payload = rev[j].payload
                 /\ j = plan.approved /\ j # i => rev'[j].decision = "SUPERSEDED"
                 /\ j # plan.approved /\ j # i => rev'[j].decision = rev[j].decision
      <3>1. rev'[j] = CASE j = i -> [rev[j] EXCEPT !.decision = "APPROVED"]
                        [] j # i /\ j = plan.approved -> [rev[j] EXCEPT !.decision = "SUPERSEDED"]
                        [] OTHER -> rev[j]
        BY <1>3 DEF Approve
      <3>2. CASE j = i
        BY <1>0, <3>1, <3>2 DEF RevisionRow
      <3>3. CASE j # i /\ j = plan.approved
        BY <1>0, <3>1, <3>3 DEF RevisionRow
      <3>4. CASE j # i /\ j # plan.approved
        BY <3>1, <3>4
      <3>. QED  BY <3>2, <3>3, <3>4
    <2>3. \A j \in Revisions : rev[j].decision = "APPROVED" <=> j = plan.approved
      BY DEF IInv, RowsMatch
    <2>4. ASSUME NEW k \in Keys, Started(k) PROVE task'[k] = task[k]
      BY <1>3, <2>4 DEF Approve, Materialized, Mutable, Started
    <2>. HIDE DEF i
    <2>5. DecisionsKept
      BY <2>1, <2>2, <2>3 DEF DecisionsKept
    <2>6. WorkKept
      BY <2>4 DEF WorkKept, Started, Terminal
    <2>. QED  BY <2>5, <2>6
  <1>4. ASSUME NEW o \in Operators, Reject(o)
        PROVE  DecisionsKept /\ WorkKept
    <2>. DEFINE i == plan.latest
    <2>1. i \in Revisions /\ rev[i].decision = "DRAFT" /\ task' = task
      BY <1>0, <1>4 DEF Reject, Current, Decidable, PlanRow, Revisions
    <2>2. rev'[i].payload = rev[i].payload /\ \A j \in Revisions \ {i} : rev'[j] = rev[j]
      BY <1>0, <1>4, <2>1 DEF Reject, RevisionRow
    <2>. QED  BY <2>1, <2>2 DEF DecisionsKept, WorkKept
  <1>5. ASSUME NEW k \in Keys,
               Start(k) \/ PreparationEnds(k) \/ ReviewTask(k) \/ RetryTask(k) \/ CancelTask(k)
        PROVE  DecisionsKept /\ WorkKept
    <2>1. rev' = rev /\ task[k].status \notin Terminal
      BY <1>5 DEF Start, PreparationEnds, ReviewTask, RetryTask, CancelTask, Terminal
    <2>2. PICK s \in {"PENDING", "PREPARING", "AWAITING_APPROVAL", "NEEDS_ATTENTION",
                      "DONE", "CANCELLED"} : task' = [task EXCEPT ![k].status = s]
      BY <1>5 DEF Start, PreparationEnds, ReviewTask, RetryTask, CancelTask, Moved
    <2>3. /\ task'[k].def = task[k].def /\ task'[k].edges = task[k].edges
          /\ \A j \in Keys \ {k} : task'[j] = task[j]
      BY <1>0, <2>2 DEF TaskRow
    <2>. QED  BY <2>1, <2>3 DEF DecisionsKept, WorkKept
  <1>6. CASE Archive \/ Restore \/ (\E o \in Operators : See(o)) \/ UNCHANGED vars
    <2>1. UNCHANGED <<rev, task>>
      BY <1>6 DEF Archive, Restore, See, vars
    <2>. QED  BY <2>1 DEF DecisionsKept, WorkKept
  <1>. QED  BY <1>1, <1>2, <1>3, <1>4, <1>5, <1>6 DEF Next

\* A decision, a revision's payload, the definition of work that has started and
\* the end of a task are never rewritten.
THEOREM HistoryStays == Spec => HistoryIsKept
  <1>1. IInv /\ [Next]_vars => [DecisionsKept /\ WorkKept]_vars
    BY HistoryStep
  <1>. QED  BY <1>1, InvariantInit, InvariantStep, PTL DEF Spec, HistoryIsKept, DecisionsKept, WorkKept
=============================================================================
