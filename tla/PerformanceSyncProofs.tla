----------------------- MODULE PerformanceSyncProofs -----------------------
(***************************************************************************)
(* What the loops of any number of processes keep while leases pass between *)
(* them in the middle of their work: a group of metrics is fetched by one   *)
(* attempt at a time, and the copy of the profiles follows the binding.     *)
(***************************************************************************)
EXTENDS PerformanceSync, TLAPS

-----------------------------------------------------------------------------
(* The batches and the passes over them.  Without a group there is nothing  *)
(* to fetch, and no group that a pass could name.                           *)

BatchTable == [Jobs -> [Groups -> [Attempts -> BatchRow]]]

Typed ==
    /\ batch \in BatchTable
    /\ pass \in [Loops -> PassState]

LEMMA RowTypes ==
    /\ AbsentBatch \in BatchRow /\ Queued \in BatchRow
    /\ \A s \in {"published", "retryable", "blocked"} : Settled(s) \in BatchRow
    /\ Groups # {} => NoPass \in PassState
  <1>1. 0 \in 0..(MaxAge + 1) /\ 0 \in 0..MaxAge /\ 0 \in 0..MaxBatches /\ 1 \in Attempts
    BY AttemptsAssumption DEF Attempts
  <1>2. /\ AbsentBatch \in BatchRow /\ Queued \in BatchRow
        /\ \A s \in {"published", "retryable", "blocked"} : Settled(s) \in BatchRow
    BY <1>1 DEF AbsentBatch, Queued, Settled, BatchRow, Open
  <1>3. ASSUME Groups # {} PROVE NoPass \in PassState
    <2>1. (CHOOSE g \in Groups : TRUE) \in Groups
      BY <1>3
    <2>. QED  BY <1>1, <2>1 DEF NoPass, PassState
  <1>. QED  BY <1>2, <1>3

\* One row of the table is written.
LEMMA PutType ==
    ASSUME batch \in BatchTable, NEW row \in BatchRow, NEW j, NEW g, NEW n
    PROVE  [batch EXCEPT ![j][g][n] = row] \in BatchTable
  BY DEF BatchTable

\* The step of a pass moves on, and forgets nothing.
LEMMA GoesType ==
    ASSUME pass \in [Loops -> PassState], NEW w \in Loops, NEW s, Goes(w, s),
           s \in {"confirming", "publishing", "retryable", "blocked", "succeeding", "finalizing"}
    PROVE  /\ pass' \in [Loops -> PassState]
           /\ pass'[w].at = s
           /\ pass'[w].job = pass[w].job /\ pass'[w].group = pass[w].group
           /\ pass'[w].attempt = pass[w].attempt
           /\ \A v \in Loops \ {w} : pass'[v] = pass[v]
  BY DEF Goes, PassState

LEMMA PassType ==
    ASSUME Typed, NEW w \in Loops
    PROVE  /\ pass[w] \in PassState /\ pass[w].group \in Groups /\ pass[w].attempt \in Attempts
           /\ pass[w].age \in 0..MaxAge /\ pass[w].left \in 0..MaxBatches
           /\ pass[w].sweep \subseteq Jobs
  BY DEF Typed, PassState

-----------------------------------------------------------------------------
(* The kinds of steps.                                                      *)

\* A row that is open may be settled or leased; the first attempt of a group may be
\* planned; nothing else changes a row's status.
Moves(j, g, n) ==
    LET s == batch[j][g][n].status
        t == batch'[j][g][n].status
    IN  \/ t = s
        \/ s \in Open /\ t # "absent"
        \/ n = 1 /\ s = "absent"

RowsMove == \A j \in Jobs, g \in Groups, n \in Attempts : Moves(j, g, n)

\* Nobody comes to owe a successor.
NoNewDebt ==
    \A w \in Loops : pass'[w].at = "succeeding" =>
        /\ pass[w].at = "succeeding"
        /\ pass'[w].job = pass[w].job /\ pass'[w].group = pass[w].group
        /\ pass'[w].attempt = pass[w].attempt

Calm == Typed' /\ RowsMove /\ NoNewDebt

LEMMA StillCalm == ASSUME Typed, UNCHANGED <<batch, pass>> PROVE Calm
  BY DEF Typed, Calm, RowsMove, Moves, NoNewDebt

\* The pass moves on elsewhere; the table stays.
LEMMA TableStays ==
    ASSUME Typed, UNCHANGED batch, pass' \in [Loops -> PassState], NEW w \in Loops,
           pass'[w].at # "succeeding", \A v \in Loops \ {w} : pass'[v] = pass[v]
    PROVE  Calm
  BY DEF Typed, Calm, RowsMove, Moves, NoNewDebt

\* An open row is written, by a pass that then owes no successor.
LEMMA OpenRowWritten ==
    ASSUME Typed, NEW j, NEW g, NEW n, NEW row \in BatchRow, row.status # "absent",
           batch' = [batch EXCEPT ![j][g][n] = row],
           j \in Jobs /\ g \in Groups /\ n \in Attempts => batch[j][g][n].status \in Open
    PROVE  batch' \in BatchTable /\ RowsMove
  <1>1. batch' \in BatchTable
    BY PutType DEF Typed
  <1>2. ASSUME NEW i \in Jobs, NEW h \in Groups, NEW m \in Attempts PROVE Moves(i, h, m)
    <2>1. \/ batch'[i][h][m] = batch[i][h][m]
          \/ i = j /\ h = g /\ m = n /\ batch'[i][h][m] = row
      BY DEF Typed, BatchTable
    <2>. QED  BY <2>1 DEF Moves
  <1>. QED  BY <1>1, <1>2 DEF RowsMove

LEMMA PlansCalm ==
    ASSUME Typed, NEW w \in Loops, PlanStep(w)
    PROVE  Calm
  <1>1. UNCHANGED pass
    BY DEF PlanStep, PlanJob, NothingToPlan, PlanBatch, metricVars
  <1>2. CASE UNCHANGED batch
    BY <1>1, <1>2, StillCalm
  <1>3. ASSUME NEW g \in Groups, PlanBatch(w, g), ~UNCHANGED batch PROVE Calm
    <2>. DEFINE j == planner[w].job
    <2>1. batch' = [batch EXCEPT ![j][g][1] = Queued] /\ batch[j][g][1].status = "absent"
      BY <1>3 DEF PlanBatch
    <2>2. Queued \in BatchRow
      BY RowTypes
    <2>. HIDE DEF j
    <2>3. batch' \in BatchTable
      BY <2>1, <2>2, PutType DEF Typed
    <2>4. RowsMove
      <3>1. ASSUME NEW i \in Jobs, NEW h \in Groups, NEW m \in Attempts PROVE Moves(i, h, m)
        <4>1. \/ batch'[i][h][m] = batch[i][h][m]
              \/ i = j /\ h = g /\ m = 1
          BY <2>1 DEF Typed, BatchTable
        <4>. QED  BY <2>1, <4>1 DEF Moves
      <3>. QED  BY <3>1 DEF RowsMove
    <2>. QED  BY <1>1, <2>3, <2>4 DEF Calm, Typed, NoNewDebt
  <1>4. CASE (\E j \in Jobs : PlanJob(w, j)) \/ NothingToPlan(w)
    <2>1. UNCHANGED batch
      BY <1>4 DEF PlanJob, NothingToPlan, metricVars
    <2>. QED  BY <1>2, <2>1
  <1>. QED  BY <1>2, <1>3, <1>4 DEF PlanStep

LEMMA SweepsCalm ==
    ASSUME Typed, Groups # {}, NEW w \in Loops,
           BeginPass(w) \/ (\E j \in Jobs : Sweep(w, j)) \/ EndPass(w) \/ Finalize(w)
    PROVE  Calm
  <1>1. UNCHANGED batch
    BY DEF BeginPass, Sweep, EndPass, Finalize
  <1>2. NoPass \in PassState /\ MaxBatches \in 0..MaxBatches /\ 0 \in 0..MaxBatches
    BY RowTypes, AttemptsAssumption
  <1>3. \A rest : Swept(rest) \in {"leasing", "sweeping"}
    BY DEF Swept
  <1>4. CASE BeginPass(w)
    <2>. DEFINE at == Swept(Stranded)
                new == [NoPass EXCEPT !.at = at, !.left = MaxBatches, !.sweep = Stranded]
    <2>1. pass' = [pass EXCEPT ![w] = new]
      BY <1>4 DEF BeginPass
    <2>2. Stranded \in SUBSET Jobs /\ at \in {"leasing", "sweeping"}
      BY <1>3 DEF Stranded
    <2>. HIDE DEF at
    <2>3. new \in PassState /\ new.at # "succeeding"
      BY <1>2, <2>2 DEF PassState
    <2>. HIDE DEF new
    <2>. QED  BY <1>1, <2>1, <2>3, TableStays DEF Typed
  <1>5. ASSUME NEW j \in Jobs, Sweep(w, j) PROVE Calm
    <2>. DEFINE rest == pass[w].sweep \ {j}
                at == Swept(rest)
                new == [pass[w] EXCEPT !.sweep = rest, !.at = at]
    <2>1. pass' = [pass EXCEPT ![w].sweep = rest, ![w].at = at]
      BY <1>5 DEF Sweep
    <2>2. at \in {"leasing", "sweeping"} /\ rest \in SUBSET Jobs
      BY <1>3, PassType
    <2>. HIDE DEF rest, at
    <2>3. pass' = [pass EXCEPT ![w] = new]
      BY <2>1 DEF Typed
    <2>4. new \in PassState /\ new.at # "succeeding"
      BY <2>2, PassType DEF PassState
    <2>. HIDE DEF new
    <2>. QED  BY <1>1, <2>3, <2>4, TableStays DEF Typed
  <1>6. CASE EndPass(w)
    <2>1. pass' = [pass EXCEPT ![w] = NoPass] /\ NoPass.at # "succeeding"
      BY <1>6 DEF EndPass, NoPass
    <2>. QED  BY <1>1, <1>2, <2>1, TableStays DEF Typed
  <1>7. CASE Finalize(w)
    <2>. DEFINE new == [NoPass EXCEPT !.at = "leasing", !.age = pass[w].age, !.left = pass[w].left]
    <2>1. pass' = [pass EXCEPT ![w] = new]
      BY <1>7 DEF Finalize
    <2>2. new \in PassState /\ new.at # "succeeding"
      BY <1>2, PassType DEF PassState
    <2>. HIDE DEF new
    <2>. QED  BY <1>1, <2>1, <2>2, TableStays DEF Typed
  <1>. QED  BY <1>4, <1>5, <1>6, <1>7

LEMMA LeaseCalm ==
    ASSUME Typed, NEW w \in Loops, NEW j \in Jobs, NEW g \in Groups, NEW n \in Attempts,
           LeaseBatch(w, j, g, n)
    PROVE  Calm
  <1>. DEFINE row == [status |-> "leased", owner |-> w, age |-> pass[w].age]
              new == [pass[w] EXCEPT !.at = "fetching", !.left = @ - 1, !.job = j, !.group = g, !.attempt = n]
  <1>1. /\ batch' = [batch EXCEPT ![j][g][n] = row]
        /\ pass' = [pass EXCEPT ![w] = new]
        /\ pass[w].left > 0
    BY DEF LeaseBatch
  <1>0. batch[j][g][n].status \in Open
    BY DEF LeaseBatch, Claimable, Open
  <1>2. row \in BatchRow /\ row.status # "absent"
    <2>1. pass[w].age \in 0..(MaxAge + 1)
      BY PassType, AttemptsAssumption
    <2>. QED  BY <2>1 DEF BatchRow, Open
  <1>3. new \in PassState /\ new.at # "succeeding"
    <2>1. pass[w].left - 1 \in 0..MaxBatches
      BY <1>1, PassType, AttemptsAssumption
    <2>. QED  BY <2>1, PassType DEF PassState
  <1>. HIDE DEF row, new
  <1>4. batch' \in BatchTable /\ RowsMove
    BY <1>0, <1>1, <1>2, OpenRowWritten
  <1>5. pass' \in [Loops -> PassState] /\ NoNewDebt
    BY <1>1, <1>3 DEF Typed, NoNewDebt
  <1>. QED  BY <1>4, <1>5 DEF Calm, Typed

LEMMA FetchesCalm ==
    ASSUME Typed, NEW w \in Loops,
           \/ Fetch(w) \/ NoPlace(w) \/ (\E class \in {"retryable", "blocked"} : FetchFails(w, class))
           \/ Confirm(w)
    PROVE  Calm
  <1>1. UNCHANGED batch
    BY DEF Fetch, NoPlace, FetchFails, Confirm
  <1>2. \E s \in {"confirming", "publishing", "retryable", "blocked", "finalizing"} : Goes(w, s)
    BY DEF Fetch, NoPlace, FetchFails, Confirm
  <1>. QED  BY <1>1, <1>2, GoesType, TableStays DEF Typed

LEMMA PublishCalm ==
    ASSUME Typed, NEW w \in Loops, Publish(w)
    PROVE  Calm
  <1>1. \E s \in {"blocked", "finalizing"} : Goes(w, s)
    BY DEF Publish
  <1>2. /\ pass' \in [Loops -> PassState] /\ pass'[w].at # "succeeding"
        /\ \A v \in Loops \ {w} : pass'[v] = pass[v]
    BY <1>1, GoesType DEF Typed
  <1>3. CASE Row(w).status = "leased"
    <2>. DEFINE row == Settled("published")
    <2>1. row \in BatchRow /\ row.status # "absent"
      BY RowTypes DEF Settled
    <2>2. batch' = [batch EXCEPT ![pass[w].job][pass[w].group][pass[w].attempt] = row]
      BY <1>3 DEF Publish, Put
    <2>3. batch[pass[w].job][pass[w].group][pass[w].attempt].status \in Open
      BY <1>3 DEF Row, Open
    <2>. HIDE DEF row
    <2>4. batch' \in BatchTable /\ RowsMove
      BY <2>1, <2>2, <2>3, OpenRowWritten
    <2>. QED  BY <1>2, <2>4 DEF Calm, Typed, NoNewDebt
  <1>4. CASE Row(w).status # "leased"
    <2>1. UNCHANGED batch
      BY <1>4 DEF Publish
    <2>. QED  BY <1>2, <2>1, TableStays
  <1>. QED  BY <1>3, <1>4

\* Time passes: ages grow, statuses stay.
LEMMA TickCalm == ASSUME Typed, Tick PROVE Calm
  <1>1. ASSUME NEW row \in BatchRow, row.status = "leased"
        PROVE  LET new == [row EXCEPT !.age = Older(@)] IN new \in BatchRow /\ new.status = row.status
    <2>1. row.age \in 0..(MaxAge + 1) /\ MaxAge \in Nat
      BY AttemptsAssumption DEF BatchRow
    <2>2. Older(row.age) \in 0..(MaxAge + 1)
      BY <2>1 DEF Older
    <2>. HIDE DEF Older
    <2>. QED  BY <2>2 DEF BatchRow
  <1>2. /\ batch' \in BatchTable
        /\ \A j \in Jobs, g \in Groups, n \in Attempts : batch'[j][g][n].status = batch[j][g][n].status
    <2>1. \A j \in Jobs, g \in Groups, n \in Attempts : batch[j][g][n] \in BatchRow
      BY DEF Typed, BatchTable
    <2>2. batch' = [j \in Jobs |-> [g \in Groups |-> [n \in Attempts |->
                      IF batch[j][g][n].status = "leased"
                        THEN [batch[j][g][n] EXCEPT !.age = Older(@)] ELSE batch[j][g][n]]]]
      BY DEF Tick
    <2>3. \A j \in Jobs, g \in Groups, n \in Attempts :
             batch'[j][g][n] \in BatchRow /\ batch'[j][g][n].status = batch[j][g][n].status
      BY <1>1, <2>1, <2>2
    <2>. HIDE DEF BatchRow, Groups, Attempts
    <2>4. batch' \in BatchTable
      <3>. DEFINE f(j, g, n) == IF batch[j][g][n].status = "leased"
                                  THEN [batch[j][g][n] EXCEPT !.age = Older(@)] ELSE batch[j][g][n]
      <3>1. batch' = [j \in Jobs |-> [g \in Groups |-> [n \in Attempts |-> f(j, g, n)]]]
        BY <2>2
      <3>2. \A j \in Jobs, g \in Groups, n \in Attempts : f(j, g, n) \in BatchRow
        BY <2>3, <3>1
      <3>. HIDE DEF f
      <3>. QED  BY <3>1, <3>2 DEF BatchTable
    <2>. QED  BY <2>3, <2>4
  <1>3. \A w \in Loops : \/ pass'[w] = pass[w]
                         \/ /\ pass[w].age < MaxAge
                            /\ pass'[w] = [pass[w] EXCEPT !.age = @ + 1]
    BY DEF Tick, InPass
  <1>4. ASSUME NEW p \in PassState, p.age < MaxAge
        PROVE  LET new == [p EXCEPT !.age = @ + 1]
               IN  /\ new \in PassState /\ new.at = p.at /\ new.job = p.job
                   /\ new.group = p.group /\ new.attempt = p.attempt
    <2>1. p.age + 1 \in 0..MaxAge
      BY <1>4, AttemptsAssumption DEF PassState
    <2>. QED  BY <2>1 DEF PassState
  <1>5. \A w \in Loops :
           /\ pass'[w] \in PassState /\ pass'[w].at = pass[w].at /\ pass'[w].job = pass[w].job
           /\ pass'[w].group = pass[w].group /\ pass'[w].attempt = pass[w].attempt
    BY <1>3, <1>4 DEF Typed
  <1>6. pass' \in [Loops -> PassState]
    <2>. DEFINE f(w) == IF w \in InPass THEN [pass[w] EXCEPT !.age = @ + 1] ELSE pass[w]
    <2>1. pass' = [w \in Loops |-> f(w)]
      BY DEF Tick
    <2>. HIDE DEF f
    <2>. QED  BY <1>5, <2>1
  <1>. QED  BY <1>2, <1>5, <1>6 DEF Calm, Typed, RowsMove, Moves, NoNewDebt

\* What a process had leased is nobody's; what it owed is forgotten.
LEMMA CrashCalm == ASSUME Typed, Groups # {}, NEW p \in Processes, Crash(p) PROVE Calm
  <1>. DEFINE f(j, g, n) == IF batch[j][g][n].owner = p
                              THEN [batch[j][g][n] EXCEPT !.owner = Nobody] ELSE batch[j][g][n]
  <1>1. batch' = [j \in Jobs |-> [g \in Groups |-> [n \in Attempts |-> f(j, g, n)]]]
    BY DEF Crash
  <1>2. \A row \in BatchRow :
           LET new == [row EXCEPT !.owner = Nobody] IN new \in BatchRow /\ new.status = row.status
    BY DEF BatchRow
  <1>3. \A j \in Jobs, g \in Groups, n \in Attempts :
           f(j, g, n) \in BatchRow /\ f(j, g, n).status = batch[j][g][n].status
    BY <1>2 DEF Typed, BatchTable
  <1>. HIDE DEF f
  <1>4. batch' \in BatchTable
    BY <1>1, <1>3 DEF BatchTable
  <1>5. \A j \in Jobs, g \in Groups, n \in Attempts : batch'[j][g][n].status = batch[j][g][n].status
    BY <1>1, <1>3
  <1>6. pass' = [w \in Loops |-> IF w = p THEN NoPass ELSE pass[w]] /\ NoPass.at # "succeeding"
    BY DEF Crash, NoPass
  <1>7. pass' \in [Loops -> PassState]
    BY <1>6, RowTypes DEF Typed
  <1>. QED  BY <1>4, <1>5, <1>6, <1>7 DEF Calm, Typed, RowsMove, Moves, NoNewDebt

LEMMA AsideCalm ==
    ASSUME Typed,
           \/ UNCHANGED metricVars \/ UNCHANGED vars
           \/ SeedScopes
    PROVE  Calm
  BY StillCalm DEF metricVars, vars, SeedScopes

-----------------------------------------------------------------------------
(* One attempt at a time.  It is not inductive: that a successor is never   *)
(* written over an attempt that exists is because its predecessor was       *)
(* settled by whoever owes it, who alone owes it.                           *)

Owes(w, j, g, n) ==
    /\ pass[w].at = "succeeding" /\ pass[w].job = j
    /\ pass[w].group = g /\ pass[w].attempt = n

\* A pass that owes the successor of an attempt settled it itself, and it is the last.
Owed(w, j, g, n) ==
    /\ n < MaxAttempts
    /\ batch[j][g][n].status = "retryable" /\ batch[j][g][n + 1].status = "absent"
    /\ \A v \in Loops : Owes(v, j, g, n) => v = w

SuccessorsOwed ==
    \A w \in Loops, j \in Jobs, g \in Groups, n \in Attempts :
        Owes(w, j, g, n) => Owed(w, j, g, n)

AttemptInv == Typed /\ OneOpenAttempt /\ SuccessorsOwed

LEMMA AttemptsMove == ASSUME Typed, OneOpenAttempt, RowsMove PROVE OneOpenAttempt'
  <1>1. SUFFICES ASSUME NEW j \in Jobs, NEW g \in Groups, NEW n \in Attempts, NEW m \in Attempts,
                        batch'[j][g][n].status # "absent", m < n
                 PROVE  batch'[j][g][m].status = "retryable"
    BY DEF OneOpenAttempt, Made
  <1>2. Moves(j, g, n) /\ Moves(j, g, m)
    BY DEF RowsMove
  <1>3. batch[j][g][n].status # "absent"
    <2>1. n # 1
      BY <1>1 DEF Attempts
    <2>. QED  BY <1>1, <1>2, <2>1 DEF Moves, Open
  <1>4. batch[j][g][m].status = "retryable"
    BY <1>1, <1>3 DEF OneOpenAttempt, Made
  <1>. QED  BY <1>2, <1>4 DEF Moves, Open

LEMMA CalmKeeps == ASSUME AttemptInv, Calm PROVE AttemptInv'
  <1>1. OneOpenAttempt'
    BY AttemptsMove DEF AttemptInv, Calm
  <1>2. ASSUME NEW w \in Loops, NEW j \in Jobs, NEW g \in Groups, NEW n \in Attempts,
               Owes(w, j, g, n)'
        PROVE  Owed(w, j, g, n)'
    <2>1. \A v \in Loops : Owes(v, j, g, n)' => Owes(v, j, g, n)
      BY DEF Calm, NoNewDebt, Owes
    <2>2. Owed(w, j, g, n)
      BY <1>2, <2>1 DEF AttemptInv, SuccessorsOwed
    <2>3. n + 1 \in Attempts /\ n + 1 # 1
      BY <2>2, AttemptsAssumption DEF Owed, Attempts
    <2>4. Moves(j, g, n) /\ Moves(j, g, n + 1)
      BY <2>3 DEF Calm, RowsMove
    <2>5. batch'[j][g][n].status = "retryable" /\ batch'[j][g][n + 1].status = "absent"
      BY <2>2, <2>3, <2>4 DEF Owed, Moves, Open
    <2>. QED  BY <2>1, <2>2, <2>5 DEF Owed
  <1>. QED  BY <1>1, <1>2 DEF AttemptInv, SuccessorsOwed, Calm

\* The holder of the lease settles the attempt, and only then owes its successor.
LEMMA TerminateKeeps ==
    ASSUME AttemptInv, NEW w \in Loops, Terminate(w)
    PROVE  AttemptInv'
  <1>. DEFINE s == pass[w].at
  <1>0. Typed /\ OneOpenAttempt /\ SuccessorsOwed /\ s \in {"retryable", "blocked"}
    BY DEF AttemptInv, Terminate
  <1>1. CASE ~HasSuccessor(w)
    <2>1. Goes(w, "finalizing")
      BY <1>1 DEF Terminate
    <2>2. /\ pass' \in [Loops -> PassState] /\ pass'[w].at # "succeeding"
          /\ \A v \in Loops \ {w} : pass'[v] = pass[v]
      BY <1>0, <2>1, GoesType DEF Typed
    <2>3. CASE ~Leased(w)
      <3>1. UNCHANGED batch
        BY <2>3 DEF Terminate
      <3>. QED  BY <1>0, <2>2, <3>1, TableStays, CalmKeeps
    <2>4. CASE Leased(w)
      <3>. DEFINE row == Settled(s)
      <3>1. batch' = [batch EXCEPT ![pass[w].job][pass[w].group][pass[w].attempt] = row]
        BY <2>4 DEF Terminate, Put
      <3>2. row \in BatchRow /\ row.status # "absent"
        BY <1>0, RowTypes DEF Settled
      <3>3. batch[pass[w].job][pass[w].group][pass[w].attempt].status \in Open
        BY <2>4 DEF Leased, Row, Open
      <3>. HIDE DEF row
      <3>4. batch' \in BatchTable /\ RowsMove
        BY <1>0, <3>1, <3>2, <3>3, OpenRowWritten
      <3>5. Calm
        BY <2>2, <3>4 DEF Calm, Typed, NoNewDebt
      <3>. QED  BY <3>5, CalmKeeps
    <2>. QED  BY <2>3, <2>4
  <1>2. CASE HasSuccessor(w)
    <2>. DEFINE row == Settled("retryable")
    <2>1. /\ batch' = [batch EXCEPT ![pass[w].job][pass[w].group][pass[w].attempt] = row]
          /\ Goes(w, "succeeding")
      BY <1>2 DEF HasSuccessor, Terminate, Put
    <2>2. row \in BatchRow /\ row.status = "retryable"
      BY RowTypes DEF Settled
    <2>3. /\ batch[pass[w].job][pass[w].group][pass[w].attempt].status = "leased"
          /\ pass[w].attempt < MaxAttempts
      BY <1>2 DEF HasSuccessor, Leased, Row
    <2>. HIDE DEF row
    <2>4. batch' \in BatchTable /\ RowsMove
      BY <1>0, <2>1, <2>2, <2>3, OpenRowWritten DEF Open
    <2>5. /\ pass' \in [Loops -> PassState] /\ pass'[w].at = "succeeding"
          /\ pass'[w].job = pass[w].job /\ pass'[w].group = pass[w].group
          /\ pass'[w].attempt = pass[w].attempt
          /\ \A v \in Loops \ {w} : pass'[v] = pass[v]
      BY <1>0, <2>1, GoesType DEF Typed
    <2>6. OneOpenAttempt'
      BY <1>0, <2>4, AttemptsMove
    <2>7. ASSUME NEW v \in Loops, NEW j \in Jobs, NEW g \in Groups, NEW n \in Attempts,
                 Owes(v, j, g, n)'
          PROVE  Owed(v, j, g, n)'
      <3>1. CASE j = pass[w].job /\ g = pass[w].group /\ n = pass[w].attempt
        <4>1. batch[j][g][n].status = "leased" /\ n < MaxAttempts
          BY <2>3, <3>1
        <4>2. \A u \in Loops : ~Owes(u, j, g, n)
          BY <1>0, <4>1 DEF SuccessorsOwed, Owed
        <4>3. \A u \in Loops : Owes(u, j, g, n)' => u = w
          BY <2>5, <4>2 DEF Owes
        <4>4. v = w
          BY <2>7, <4>3
        <4>5. batch'[j][g][n].status = "retryable"
          BY <1>0, <2>1, <2>2, <3>1 DEF Typed, BatchTable
        <4>6. n + 1 \in Attempts /\ n + 1 # 1 /\ n < n + 1
          BY <4>1, AttemptsAssumption DEF Attempts
        <4>7. batch[j][g][n + 1].status = "absent"
          BY <1>0, <4>1, <4>6 DEF OneOpenAttempt, Made
        <4>8. batch'[j][g][n + 1].status = "absent"
          BY <2>4, <4>6, <4>7 DEF RowsMove, Moves, Open
        <4>. QED  BY <4>1, <4>3, <4>4, <4>5, <4>8 DEF Owed
      <3>2. CASE ~(j = pass[w].job /\ g = pass[w].group /\ n = pass[w].attempt)
        <4>1. v # w /\ pass'[v] = pass[v]
          BY <2>5, <2>7, <3>2 DEF Owes
        <4>2. Owed(v, j, g, n)
          BY <1>0, <2>7, <4>1 DEF SuccessorsOwed, Owes
        <4>3. n + 1 \in Attempts /\ n + 1 # 1
          BY <4>2, AttemptsAssumption DEF Owed, Attempts
        <4>4. batch'[j][g][n].status = "retryable" /\ batch'[j][g][n + 1].status = "absent"
          BY <2>4, <4>2, <4>3 DEF RowsMove, Moves, Open, Owed
        <4>5. \A u \in Loops : Owes(u, j, g, n)' => u = v
          BY <2>5, <3>2, <4>2 DEF Owed, Owes
        <4>. QED  BY <4>2, <4>4, <4>5 DEF Owed
      <3>. QED  BY <3>1, <3>2
    <2>. QED  BY <2>4, <2>5, <2>6, <2>7 DEF AttemptInv, Typed, SuccessorsOwed
  <1>. QED  BY <1>1, <1>2

\* The successor is a new row, of an attempt that ended as retryable.
LEMMA SucceedKeeps ==
    ASSUME AttemptInv, NEW w \in Loops, Succeed(w)
    PROVE  AttemptInv'
  <1>0. Typed /\ OneOpenAttempt /\ SuccessorsOwed /\ pass[w].at = "succeeding"
    BY DEF AttemptInv, Succeed
  <1>1. Goes(w, "finalizing")
    BY DEF Succeed
  <1>2. /\ pass' \in [Loops -> PassState] /\ pass'[w].at # "succeeding"
        /\ \A v \in Loops \ {w} : pass'[v] = pass[v]
    BY <1>0, <1>1, GoesType DEF Typed
  <1>. DEFINE i == pass[w].job
              h == pass[w].group
              k == pass[w].attempt
  <1>3. batch' = [batch EXCEPT ![i][h][k + 1] = Queued] /\ h \in Groups /\ k \in Attempts
    BY <1>0, PassType DEF Succeed
  <1>4. Queued \in BatchRow /\ Queued.status = "queued"
    BY RowTypes DEF Queued
  <1>5. i \in Jobs => Owed(w, i, h, k)
    BY <1>0, <1>3 DEF SuccessorsOwed, Owes
  <1>. HIDE DEF i, h, k
  <1>7. batch' \in BatchTable
    BY <1>0, <1>3, <1>4, PutType DEF Typed
  <1>8. \A j \in Jobs, g \in Groups, n \in Attempts :
           \/ batch'[j][g][n] = batch[j][g][n]
           \/ j = i /\ g = h /\ n = k + 1 /\ batch'[j][g][n].status = "queued"
                /\ batch[j][g][n].status = "absent" /\ batch[j][g][k].status = "retryable"
    <2>1. \A j \in Jobs, g \in Groups, n \in Attempts :
             \/ batch'[j][g][n] = batch[j][g][n]
             \/ j = i /\ g = h /\ n = k + 1 /\ batch'[j][g][n] = Queued
      BY <1>0, <1>3 DEF Typed, BatchTable
    <2>. QED  BY <1>4, <1>5, <2>1 DEF Owed
  <1>9. OneOpenAttempt'
    <2>1. SUFFICES ASSUME NEW j \in Jobs, NEW g \in Groups, NEW n \in Attempts, NEW m \in Attempts,
                          batch'[j][g][n].status # "absent", m < n
                   PROVE  batch'[j][g][m].status = "retryable"
      BY DEF OneOpenAttempt, Made
    <2>2. batch[j][g][m].status = "retryable"
      <3>1. CASE batch[j][g][n].status # "absent"
        BY <1>0, <2>1, <3>1 DEF OneOpenAttempt, Made
      <3>2. CASE batch[j][g][n].status = "absent"
        <4>1. j = i /\ g = h /\ n = k + 1 /\ batch[j][g][k].status = "retryable"
          BY <1>8, <2>1, <3>2
        <4>2. m = k \/ m < k
          BY <1>3, <2>1, <4>1 DEF Attempts
        <4>. QED  BY <1>0, <1>3, <4>1, <4>2 DEF OneOpenAttempt, Made
      <3>. QED  BY <3>1, <3>2
    <2>. QED  BY <1>8, <2>2
  <1>10. ASSUME NEW v \in Loops, NEW j \in Jobs, NEW g \in Groups, NEW n \in Attempts,
                Owes(v, j, g, n)'
         PROVE  Owed(v, j, g, n)'
    <2>1. v # w /\ pass'[v] = pass[v]
      BY <1>2, <1>10 DEF Owes
    <2>2. Owed(v, j, g, n)
      BY <1>0, <1>10, <2>1 DEF SuccessorsOwed, Owes
    <2>3. n + 1 \in Attempts
      BY <2>2, AttemptsAssumption DEF Owed, Attempts
    <2>4. ~(j = i /\ g = h /\ n = k)
      BY <1>5, <1>10, <2>1 DEF Owed, Owes
    <2>5. batch'[j][g][n + 1] = batch[j][g][n + 1]
      <3>1. n + 1 = k + 1 => n = k
        BY <1>3 DEF Attempts
      <3>. QED  BY <1>8, <2>3, <2>4, <3>1
    <2>6. batch'[j][g][n] = batch[j][g][n]
      BY <1>8, <2>2 DEF Owed
    <2>7. \A u \in Loops : Owes(u, j, g, n)' => u = v
      BY <1>2, <2>2 DEF Owed, Owes
    <2>. QED  BY <2>2, <2>5, <2>6, <2>7 DEF Owed
  <1>. QED  BY <1>2, <1>7, <1>9, <1>10 DEF AttemptInv, Typed, SuccessorsOwed

LEMMA AttemptInit == ASSUME Init, Groups # {} PROVE AttemptInv
  <1>1. Typed
    BY RowTypes DEF Init, Typed, BatchTable
  <1>2. \A j \in Jobs, g \in Groups, n \in Attempts : batch[j][g][n].status = "absent"
    BY DEF Init, AbsentBatch
  <1>3. \A w \in Loops : pass[w].at # "succeeding"
    BY DEF Init, NoPass
  <1>. QED  BY <1>1, <1>2, <1>3 DEF AttemptInv, OneOpenAttempt, Made, SuccessorsOwed, Owes

LEMMA AttemptNext == ASSUME AttemptInv, Groups # {}, [Next]_vars PROVE AttemptInv'
  <1>0. Typed
    BY DEF AttemptInv
  <1>1. ASSUME NEW w \in Loops, PlanStep(w) \/ PassStep(w) PROVE AttemptInv'
    <2>1. CASE PlanStep(w)
      BY <1>0, <2>1, PlansCalm, CalmKeeps
    <2>2. CASE BeginPass(w) \/ (\E j \in Jobs : Sweep(w, j)) \/ EndPass(w) \/ Finalize(w)
      BY <1>0, <2>2, SweepsCalm, CalmKeeps
    <2>3. ASSUME NEW j \in Jobs, NEW g \in Groups, NEW n \in Attempts, LeaseBatch(w, j, g, n)
          PROVE  AttemptInv'
      BY <1>0, <2>3, LeaseCalm, CalmKeeps
    <2>4. CASE \/ Fetch(w) \/ NoPlace(w) \/ (\E class \in {"retryable", "blocked"} : FetchFails(w, class))
               \/ Confirm(w)
      BY <1>0, <2>4, FetchesCalm, CalmKeeps
    <2>5. CASE Publish(w)
      BY <1>0, <2>5, PublishCalm, CalmKeeps
    <2>6. CASE Terminate(w) \/ Succeed(w)
      BY <2>6, TerminateKeeps, SucceedKeeps
    <2>. QED  BY <1>1, <2>1, <2>2, <2>3, <2>4, <2>5, <2>6 DEF PassStep
  <1>2. CASE UNCHANGED metricVars \/ UNCHANGED vars \/ SeedScopes
    BY <1>0, <1>2, AsideCalm, CalmKeeps
  <1>3. CASE Tick
    BY <1>0, <1>3, TickCalm, CalmKeeps
  <1>4. ASSUME NEW p \in Processes, Crash(p) PROVE AttemptInv'
    BY <1>0, <1>4, CrashCalm, CalmKeeps
  <1>. QED  BY <1>1, <1>2, <1>3, <1>4 DEF Next, Syncs

\* A group is fetched by one attempt at a time.
THEOREM AttemptsInTurn == Spec => []OneOpenAttempt
  <1>. DEFINE Inv == Groups # {} => AttemptInv
  <1>1. Init => Inv
    BY AttemptInit
  <1>2. Inv /\ [Next]_vars => Inv'
    BY AttemptNext
  <1>3. Inv => OneOpenAttempt
    BY DEF AttemptInv, OneOpenAttempt
  <1>. HIDE DEF Inv
  <1>. QED  BY <1>1, <1>2, <1>3, PTL DEF Spec

-----------------------------------------------------------------------------
(* The copy of the profiles.                                                *)

CopyTyped ==
    /\ binding \in Seq(Fbrs) /\ Len(binding) <= MaxBindings
    /\ generation \in 0..MaxGeneration
    /\ version \in 0..MaxVersion
    /\ profiles \in ProfileRows
    /\ sync \in [Processes -> SyncState]

\* What a sync that may still store it has read is not older than the copy: the copy
\* has not been replaced since the sync took the link row, or its claim is void.
NothingNewerStored ==
    \A p \in Processes : sync[p].at = "storing" =>
        /\ sync[p].version <= version
        /\ p \in known => profiles.version <= sync[p].version

CopyInv == CopyTyped /\ profiles.version <= version /\ NothingNewerStored

LEMMA CopyTypes ==
    /\ NoProfiles \in ProfileRows /\ NoProfiles.version = 0
    /\ NoSync \in SyncState /\ NoSync.at # "storing"
  <1>1. Empty \in Contents
    BY DEF Empty, Contents
  <1>. QED  BY <1>1, ProfileBounds DEF NoProfiles, ProfileRows, NoSync, SyncState

\* Nothing is stored, and no process comes to hold something it may store.
Bystands ==
    /\ CopyTyped'
    /\ profiles' = profiles \/ profiles' = NoProfiles
    /\ profiles' # NoProfiles => binding' = binding
    /\ version <= version'
    /\ \A q \in Processes : sync'[q].at = "storing" =>
         sync'[q] = sync[q] /\ (q \in known' => q \in known)

LEMMA BystandsKeeps == ASSUME CopyInv, Bystands PROVE CopyInv'
  <1>0. /\ profiles.version \in Nat /\ version \in Nat /\ version' \in Nat
        /\ \A q \in Processes : sync[q].version \in Nat
    BY ProfileBounds DEF CopyInv, Bystands, CopyTyped, ProfileRows, SyncState
  <1>1. profiles'.version = profiles.version \/ profiles'.version = 0
    BY CopyTypes DEF Bystands
  <1>2. profiles'.version <= version'
    BY <1>0, <1>1 DEF CopyInv, Bystands
  <1>3. ASSUME NEW q \in Processes, sync'[q].at = "storing"
        PROVE  /\ sync'[q].version <= version'
               /\ q \in known' => profiles'.version <= sync'[q].version
    <2>1. sync'[q] = sync[q] /\ (q \in known' => q \in known)
      BY <1>3 DEF Bystands
    <2>2. sync[q].version <= version /\ (q \in known => profiles.version <= sync[q].version)
      BY <1>3, <2>1 DEF CopyInv, NothingNewerStored
    <2>. QED  BY <1>0, <1>1, <2>1, <2>2 DEF Bystands
  <1>. QED  BY <1>2, <1>3 DEF CopyInv, NothingNewerStored, Bystands

\* A step that says nothing of the syncs, the copy and the link row.
LEMMA ElsewhereBystands ==
    ASSUME CopyInv, UNCHANGED <<generation, binding, known, profiles, version, sync>>
    PROVE  Bystands
  <1>1. CopyTyped'
    BY DEF CopyInv, CopyTyped
  <1>2. version <= version'
    BY ProfileBounds DEF CopyInv, CopyTyped
  <1>. QED  BY <1>1, <1>2 DEF Bystands

\* Who writes the link row voids every claim; who only changes the merchant voids none,
\* and its generation does.
LEMMA OperatorsBystand ==
    ASSUME CopyInv, OperatorStep
    PROVE  Bystands
  <1>0. CopyTyped /\ version <= version
    BY ProfileBounds DEF CopyInv, CopyTyped
  <1>1. UNCHANGED <<version, sync>>
    BY DEF OperatorStep, Archive, Restore, PutLink, Relink
  <1>2. CASE (\E busy \in BOOLEAN : Archive(busy)) \/ Restore
    <2>1. /\ generation' = generation + 1 /\ generation < MaxGeneration
          /\ UNCHANGED <<binding, known, profiles>>
      BY <1>2 DEF Archive, Restore
    <2>2. generation' \in 0..MaxGeneration
      BY <1>0, <2>1, ProfileBounds DEF CopyTyped
    <2>3. CopyTyped'
      BY <1>0, <1>1, <2>1, <2>2 DEF CopyTyped
    <2>. QED  BY <1>0, <1>1, <2>1, <2>3 DEF Bystands
  <1>3. ASSUME NEW f \in Fbrs, PutLink(f) PROVE Bystands
    <2>1. /\ binding' = <<f>> /\ known' = {} /\ profiles' = NoProfiles /\ UNCHANGED generation
      BY <1>3 DEF PutLink, Writes
    <2>2. binding' \in Seq(Fbrs) /\ Len(binding') = 1
      BY <2>1
    <2>3. CopyTyped'
      BY <1>0, <1>1, <2>1, <2>2, CopyTypes, ProfileBounds DEF CopyTyped
    <2>. QED  BY <1>0, <1>1, <2>1, <2>3 DEF Bystands
  <1>4. ASSUME NEW c \in Commands, NEW f \in Fbrs, NEW seen \in 1..MaxBindings, NEW busy \in BOOLEAN,
               Relink(c, f, seen, busy)
        PROVE  Bystands
    <2>1. UNCHANGED generation /\ Len(binding) < MaxBindings
      BY <1>4 DEF Relink
    <2>2. \/ binding' = Append(binding, f) /\ known' = {} /\ profiles' = NoProfiles
          \/ UNCHANGED <<binding, known, profiles>>
      BY <1>4 DEF Relink, Writes
    <2>3. CASE binding' = Append(binding, f) /\ known' = {} /\ profiles' = NoProfiles
      <3>1. binding' \in Seq(Fbrs) /\ Len(binding') = Len(binding) + 1
        BY <1>0, <2>3 DEF CopyTyped
      <3>2. Len(binding') <= MaxBindings
        BY <1>0, <2>1, <3>1, ProfileBounds DEF CopyTyped
      <3>3. CopyTyped'
        BY <1>0, <1>1, <2>1, <2>3, <3>1, <3>2, CopyTypes DEF CopyTyped
      <3>. QED  BY <1>0, <1>1, <2>3, <3>3 DEF Bystands
    <2>4. CASE UNCHANGED <<binding, known, profiles>>
      BY <1>1, <2>1, <2>4, ElsewhereBystands
    <2>. QED  BY <2>2, <2>3, <2>4
  <1>. QED  BY <1>2, <1>3, <1>4 DEF OperatorStep

\* The steps of a sync before it reads and after it failed.
LEMMA SyncsBystand ==
    ASSUME CopyInv, NEW p \in Processes,
           Claim(p) \/ NothingDue(p) \/ CompareAndSet(p) \/ FbrFails(p) \/ Fail(p)
    PROVE  Bystands
  <1>0. CopyTyped /\ version <= version
    BY ProfileBounds DEF CopyInv, CopyTyped
  <1>1. UNCHANGED <<generation, binding, profiles, version>>
    BY DEF Claim, NothingDue, CompareAndSet, FbrFails, Fail, linkVars
  <1>2. CASE NothingDue(p)
    <2>1. UNCHANGED <<known, sync>>
      BY <1>2 DEF NothingDue, linkVars
    <2>. QED  BY <1>1, <2>1, ElsewhereBystands
  <1>3. ASSUME NEW s \in SyncState, s.at # "storing", Becomes(p, s),
               \A q \in Processes \ {p} : q \in known' => q \in known
        PROVE  Bystands
    <2>1. sync' = [sync EXCEPT ![p] = s]
      BY <1>3 DEF Becomes
    <2>2. sync' \in [Processes -> SyncState] /\ sync'[p] = s
          /\ \A q \in Processes \ {p} : sync'[q] = sync[q]
      BY <1>0, <2>1 DEF CopyTyped
    <2>3. CopyTyped'
      BY <1>0, <1>1, <2>2 DEF CopyTyped
    <2>. QED  BY <1>0, <1>1, <1>3, <2>2, <2>3 DEF Bystands
  <1>4. NoSync \in SyncState /\ NoSync.at # "storing"
    BY CopyTypes
  <1>5. CASE Claim(p)
    <2>. DEFINE s == [NoSync EXCEPT !.at = "claiming", !.binding = Len(binding), !.generation = generation]
    <2>1. Becomes(p, s) /\ known' = known \cup {p}
      BY <1>5 DEF Claim
    <2>2. s \in SyncState /\ s.at # "storing"
      <3>1. Len(binding) \in 0..MaxBindings /\ generation \in 0..MaxGeneration
        BY <1>0, ProfileBounds DEF CopyTyped
      <3>. QED  BY <1>4, <3>1 DEF SyncState
    <2>. HIDE DEF s
    <2>. QED  BY <1>3, <2>1, <2>2
  <1>6. \A at \in {"reading", "failing"} :
           [sync[p] EXCEPT !.at = at] \in SyncState /\ [sync[p] EXCEPT !.at = at].at # "storing"
    BY <1>0 DEF CopyTyped, SyncState
  <1>7. CASE CompareAndSet(p)
    <2>1. CASE Stands(p)
      <3>. DEFINE s == [sync[p] EXCEPT !.at = "reading"]
      <3>1. Becomes(p, s) /\ known' = {p}
        BY <1>7, <2>1 DEF CompareAndSet, Writes
      <3>2. s \in SyncState /\ s.at # "storing"
        BY <1>6
      <3>. HIDE DEF s
      <3>. QED  BY <1>3, <3>1, <3>2
    <2>2. CASE ~Stands(p)
      <3>1. Becomes(p, NoSync) /\ known' = known \ {p}
        BY <1>7, <2>2 DEF CompareAndSet, Ends
      <3>. QED  BY <1>3, <1>4, <3>1
    <2>. QED  BY <2>1, <2>2
  <1>8. CASE FbrFails(p)
    <2>. DEFINE s == [sync[p] EXCEPT !.at = "failing"]
    <2>1. Becomes(p, s) /\ known' = known
      BY <1>8 DEF FbrFails, linkVars
    <2>2. s \in SyncState /\ s.at # "storing"
      BY <1>6
    <2>. HIDE DEF s
    <2>. QED  BY <1>3, <2>1, <2>2
  <1>9. CASE Fail(p)
    <2>1. Becomes(p, NoSync) /\ (known' = {} \/ known' = known \ {p})
      BY <1>9 DEF Fail, Ends, Writes
    <2>. QED  BY <1>3, <1>4, <2>1
  <1>. QED  BY <1>2, <1>5, <1>7, <1>8, <1>9

\* A sync reads the newest state of FBR's data, which the copy is not ahead of.
LEMMA ReadKeeps ==
    ASSUME CopyInv, NEW p \in Processes, NEW answer \in Answers, Read(p, answer)
    PROVE  CopyInv' /\ UNCHANGED <<profiles, binding>>
  <1>0. CopyTyped /\ version <= version /\ profiles.version <= version
    BY ProfileBounds DEF CopyInv, CopyTyped
  <1>1. UNCHANGED <<generation, binding, known, profiles, version>>
    BY DEF Read, linkVars
  <1>2. Merged(answer) \in Contents
    <2>1. answer \in Contents /\ profiles.rows \in Contents
      BY <1>0, FbrAssumption DEF CopyTyped, ProfileRows
    <2>. QED  BY <2>1 DEF Merged, Contents
  <1>. DEFINE read == [sync[p] EXCEPT !.at = "storing", !.version = version, !.rows = Merged(answer)]
              failed == [sync[p] EXCEPT !.at = "failing"]
  <1>3. \/ sync' = [sync EXCEPT ![p] = read]
        \/ sync' = [sync EXCEPT ![p] = failed]
    BY DEF Read, Becomes
  <1>4. read \in SyncState /\ read.version = version
    <2>. DEFINE rows == Merged(answer)
    <2>. HIDE DEF rows
    <2>1. rows \in Contents
      BY <1>2 DEF rows
    <2>2. [sync[p] EXCEPT !.at = "storing", !.version = version, !.rows = rows] \in SyncState
      BY <1>0, <2>1 DEF CopyTyped, SyncState
    <2>3. [sync[p] EXCEPT !.at = "storing", !.version = version, !.rows = rows].version = version
      BY <1>0 DEF CopyTyped, SyncState
    <2>. QED  BY <2>2, <2>3 DEF rows
  <1>5. failed \in SyncState /\ failed.at # "storing"
    BY <1>0 DEF CopyTyped, SyncState
  <1>. HIDE DEF read, failed
  <1>6. /\ sync' \in [Processes -> SyncState]
        /\ sync'[p] = read \/ sync'[p] = failed
        /\ \A q \in Processes \ {p} : sync'[q] = sync[q]
    BY <1>0, <1>3, <1>4, <1>5 DEF CopyTyped
  <1>7. CopyTyped'
    BY <1>0, <1>1, <1>6 DEF CopyTyped
  <1>8. NothingNewerStored'
    BY <1>0, <1>1, <1>4, <1>5, <1>6 DEF CopyInv, NothingNewerStored
  <1>. QED  BY <1>0, <1>1, <1>7, <1>8 DEF CopyInv

\* What the action property says of one step.
CopyStep ==
    profiles' # NoProfiles =>
      /\ profiles'.for = Len(binding')
      /\ profiles.for = profiles'.for => profiles'.version >= profiles.version

\* Storing replaces the copy and voids every other claim.
LEMMA StoreKeeps ==
    ASSUME CopyInv, NEW p \in Processes, Store(p)
    PROVE  CopyInv' /\ [CopyStep]_<<profiles, binding>>
  <1>0. CopyTyped /\ sync[p].at = "storing"
    BY DEF CopyInv, Store
  <1>1. /\ sync' = [sync EXCEPT ![p] = NoSync]
        /\ UNCHANGED <<generation, binding, version>>
    BY DEF Store, Ends, Becomes
  <1>2. /\ sync' \in [Processes -> SyncState] /\ sync'[p].at # "storing"
        /\ \A q \in Processes \ {p} : sync'[q] = sync[q]
    BY <1>0, <1>1, CopyTypes DEF CopyTyped
  <1>3. CASE ~Fenced(p)
    <2>1. known' = known \ {p} /\ UNCHANGED profiles
      BY <1>3 DEF Store
    <2>2. CopyTyped' /\ version <= version'
      BY <1>0, <1>1, <1>2, <2>1, ProfileBounds DEF CopyTyped
    <2>3. Bystands
      BY <1>1, <1>2, <2>1, <2>2 DEF Bystands
    <2>. QED  BY <1>1, <2>1, <2>3, BystandsKeeps
  <1>4. CASE Fenced(p)
    <2>. DEFINE copy == [for |-> sync[p].binding, version |-> sync[p].version, rows |-> sync[p].rows]
    <2>1. profiles' = copy /\ known' = {}
      BY <1>4 DEF Store, Writes
    <2>2. copy \in ProfileRows
      BY <1>0 DEF CopyTyped, SyncState, ProfileRows
    <2>3. copy.for = Len(binding) /\ copy.version = sync[p].version
      BY <1>4 DEF Fenced, Stands
    <2>4. sync[p].version <= version /\ profiles.version <= sync[p].version
      BY <1>0, <1>4 DEF CopyInv, NothingNewerStored, Fenced, Stands
    <2>. HIDE DEF copy
    <2>5. CopyTyped'
      BY <1>0, <1>1, <1>2, <2>1, <2>2 DEF CopyTyped
    <2>6. profiles'.version <= version'
      BY <1>1, <2>1, <2>3, <2>4
    <2>7. NothingNewerStored'
      BY <1>1, <1>2, <2>1 DEF CopyInv, NothingNewerStored
    <2>8. CopyStep
      <3>1. sync[p].version \in Nat /\ profiles.version \in Nat
        BY <1>0, ProfileBounds DEF CopyTyped, SyncState, ProfileRows
      <3>. QED  BY <1>1, <2>1, <2>3, <2>4, <3>1 DEF CopyStep
    <2>. QED  BY <2>5, <2>6, <2>7, <2>8 DEF CopyInv
  <1>. QED  BY <1>3, <1>4

\* A bystander leaves the copy alone, or empties it with the binding it was of.
LEMMA BystandsStep == ASSUME Bystands PROVE [CopyStep]_<<profiles, binding>>
  BY DEF Bystands, CopyStep

LEMMA OthersBystand ==
    ASSUME CopyInv,
           \/ \E w \in Loops : PlanStep(w) \/ PassStep(w)
           \/ LeaseExpires \/ HourPasses \/ FbrChanges \/ (\E w \in Loops : Deploy(w))
           \/ SeedScopes \/ Tick \/ (\E p \in Processes : Crash(p))
           \/ UNCHANGED vars
    PROVE  Bystands
  <1>0. CopyTyped /\ version <= version
    BY ProfileBounds DEF CopyInv, CopyTyped
  <1>1. ASSUME NEW w \in Loops, PlanStep(w) PROVE Bystands
    <2>1. UNCHANGED <<generation, binding, known, profiles, version, sync>>
      BY <1>1 DEF PlanStep, PlanJob, NothingToPlan, PlanBatch, linkVars
    <2>. QED  BY <2>1, ElsewhereBystands
  <1>2. ASSUME NEW w \in Loops, PassStep(w) PROVE Bystands
    <2>1. UNCHANGED <<generation, binding, known, profiles, version, sync>>
      <3>1. CASE BeginPass(w) \/ (\E j \in Jobs : Sweep(w, j)) \/ EndPass(w) \/ Finalize(w)
        BY <3>1 DEF BeginPass, Sweep, EndPass, Finalize, linkVars, profileVars
      <3>2. CASE \E j \in Jobs, g \in Groups, n \in Attempts : LeaseBatch(w, j, g, n)
        BY <3>2 DEF LeaseBatch, linkVars
      <3>3. CASE \/ Fetch(w) \/ NoPlace(w) \/ (\E class \in {"retryable", "blocked"} : FetchFails(w, class))
                 \/ Confirm(w) \/ Publish(w) \/ Terminate(w) \/ Succeed(w)
        BY <3>3 DEF Fetch, NoPlace, FetchFails, Confirm, Publish, Terminate, Succeed, linkVars, profileVars
      <3>. QED  BY <1>2, <3>1, <3>2, <3>3 DEF PassStep
    <2>. QED  BY <2>1, ElsewhereBystands
  <1>3. CASE \/ LeaseExpires \/ HourPasses \/ (\E w \in Loops : Deploy(w))
             \/ SeedScopes \/ Tick \/ UNCHANGED vars
    <2>1. UNCHANGED <<generation, binding, known, profiles, version, sync>>
      BY <1>3 DEF LeaseExpires, HourPasses, Deploy, SeedScopes, Tick, vars, linkVars, profileVars
    <2>. QED  BY <2>1, ElsewhereBystands
  <1>4. CASE FbrChanges
    <2>1. /\ version < MaxVersion /\ version' = version + 1
          /\ UNCHANGED <<generation, binding, known, profiles, sync>>
      BY <1>4 DEF FbrChanges, linkVars
    <2>2. version' \in 0..MaxVersion /\ version <= version'
      BY <1>0, <2>1, ProfileBounds DEF CopyTyped
    <2>3. CopyTyped'
      BY <1>0, <2>1, <2>2 DEF CopyTyped
    <2>. QED  BY <2>1, <2>2, <2>3 DEF Bystands
  <1>5. ASSUME NEW p \in Processes, Crash(p) PROVE Bystands
    <2>1. /\ sync' = [sync EXCEPT ![p] = NoSync] /\ known' = known \ {p}
          /\ UNCHANGED <<generation, binding, profiles, version>>
      BY <1>5 DEF Crash, Becomes
    <2>2. /\ sync' \in [Processes -> SyncState] /\ sync'[p].at # "storing"
          /\ \A q \in Processes \ {p} : sync'[q] = sync[q]
      BY <1>0, <2>1, CopyTypes DEF CopyTyped
    <2>3. CopyTyped'
      BY <1>0, <2>1, <2>2 DEF CopyTyped
    <2>. QED  BY <1>0, <2>1, <2>2, <2>3 DEF Bystands
  <1>. QED  BY <1>1, <1>2, <1>3, <1>4, <1>5

LEMMA CopyNext == ASSUME CopyInv, [Next]_vars PROVE CopyInv' /\ [CopyStep]_<<profiles, binding>>
  <1>1. CASE OperatorStep
    BY <1>1, OperatorsBystand, BystandsKeeps, BystandsStep
  <1>2. ASSUME NEW p \in Processes, SyncStep(p) PROVE CopyInv' /\ [CopyStep]_<<profiles, binding>>
    <2>1. CASE Claim(p) \/ NothingDue(p) \/ CompareAndSet(p) \/ FbrFails(p) \/ Fail(p)
      BY <2>1, SyncsBystand, BystandsKeeps, BystandsStep
    <2>. QED  BY <1>2, <2>1, ReadKeeps, StoreKeeps DEF SyncStep
  <1>3. CASE \/ \E w \in Loops : PlanStep(w) \/ PassStep(w)
             \/ LeaseExpires \/ HourPasses \/ FbrChanges \/ (\E w \in Loops : Deploy(w))
             \/ SeedScopes \/ Tick \/ (\E p \in Processes : Crash(p))
             \/ UNCHANGED vars
    BY <1>3, OthersBystand, BystandsKeeps, BystandsStep
  <1>. QED  BY <1>1, <1>2, <1>3 DEF Next, Syncs

LEMMA CopyInit == ASSUME Init PROVE CopyInv
  <1>1. /\ binding = <<>> /\ generation = 1 /\ version = 1 /\ profiles = NoProfiles
        /\ sync = [p \in Processes |-> NoSync]
    BY DEF Init, ProfileInit
  <1>2. CopyTyped
    BY <1>1, CopyTypes, ProfileBounds DEF CopyTyped
  <1>3. profiles.version <= version
    BY <1>1, CopyTypes
  <1>4. NothingNewerStored
    BY <1>1, CopyTypes DEF NothingNewerStored
  <1>. QED  BY <1>2, <1>3, <1>4 DEF CopyInv

\* The copy is of the linked FBR merchant, and an overtaken sync never puts an older
\* answer over a newer one.
THEOREM CopyFollowsBinding == Spec => ProfilesFollowBinding
  <1>1. Init => CopyInv
    BY CopyInit
  <1>2. CopyInv /\ [Next]_vars => CopyInv' /\ [CopyStep]_<<profiles, binding>>
    BY CopyNext
  <1>. QED  BY <1>1, <1>2, PTL DEF Spec, ProfilesFollowBinding, CopyStep

=============================================================================
