-------------------------- MODULE PerformanceSync --------------------------
(***************************************************************************)
(* The daily jobs that fetch a merchant's performance metrics:              *)
(* api/app/performance_sync.py with the tables of performance_store.py,     *)
(* composed with ProfileSync, whose rows say which FBR merchant and which   *)
(* place a location is fetched from.                                        *)
(*                                                                         *)
(* A job has one group per bound location and month.  A group is fetched by *)
(* a batch; a batch that failed for a passing reason is followed by a       *)
(* successor with the next attempt number.  The loop of each process leases *)
(* one batch at a time, fetches it outside any transaction, confirms the    *)
(* lease in one transaction and publishes in the next, and derives the      *)
(* job's state from the last attempt of each group.  A lease that expired   *)
(* is leased anew, whether its holder died or is only slow.                 *)
(***************************************************************************)
EXTENDS ProfileSync

CONSTANTS
    Jobs,          \* bound: request ids of jobs, one per day and population
    NoJob,         \* no request
    Nobody,        \* lease_owner IS NULL, or the token of a process that died
    Months,        \* partition months of a job's window
    MaxAttempts,   \* SEO_OPS_PERFORMANCE_MAX_AUTO_ATTEMPTS
    MaxBatches,    \* batches of one pass
    MaxAge         \* bound: how many lease times a pass may last

Groups   == Locations \X Months
Attempts == 1..MaxAttempts

ASSUME JobsAssumption == NoJob \notin Jobs /\ Nobody \notin Loops
ASSUME AttemptsAssumption == MaxAttempts \in Nat \ {0} /\ MaxBatches \in Nat \ {0} /\ MaxAge \in Nat \ {0}

VARIABLES
    scopes,    \* locations with an open row in source_scope_bindings
    job,       \* metric_sync_jobs, by request id
    batch,     \* metric_sync_batches, by job, group and attempt
    planner,   \* plan_sync_job in each loop
    pass       \* process_metric_sync_batches_once in each loop

metricVars == <<scopes, job, batch, planner, pass>>
vars == <<active, generation, binding, link, known, profiles, version, command, sync, stage,
          current, incidents, scopes, job, batch, planner, pass>>

-----------------------------------------------------------------------------
(* Rows.  Time is told in units of a lease, relative to now: an age is how  *)
(* long ago a pass read the clock, or the pass that took a lease did.       *)

JobRow == [status : {"absent", "queued", "running", "succeeded", "partial", "failed"},
           scopes : SUBSET Locations]
AbsentJob == [status |-> "absent", scopes |-> {}]

Open == {"queued", "leased"}
BatchRow == [status : Open \cup {"absent", "published", "retryable", "blocked"},
             owner : Loops \cup {Nobody}, age : 0..(MaxAge + 1)]
AbsentBatch == [status |-> "absent", owner |-> Nobody, age |-> 0]
Queued      == [status |-> "queued", owner |-> Nobody, age |-> 0]
Settled(s)  == [status |-> s, owner |-> Nobody, age |-> 0]

\* The groups that were missing when the planner looked.
PlannerState == [job : Jobs \cup {NoJob}, missing : SUBSET Groups]
NotPlanning  == [job |-> NoJob, missing |-> {}]

\* sweep: jobs still to be finalized; then the batch in hand and how it went.
PassState == [at : {"idle", "sweeping", "leasing", "fetching", "confirming", "publishing",
                    "retryable", "blocked", "succeeding", "finalizing"},
              age : 0..MaxAge, left : 0..MaxBatches, sweep : SUBSET Jobs,
              job : Jobs \cup {NoJob}, group : Groups, attempt : Attempts]
NoPass == [at |-> "idle", age |-> 0, left |-> 0, sweep |-> {}, job |-> NoJob,
           group |-> CHOOSE g \in Groups : TRUE, attempt |-> 1]

Made(j, g)  == {n \in Attempts : batch[j][g][n].status # "absent"}
Planned(j)  == {g \in Groups : Made(j, g) # {}}
Last(j, g)  == batch[j][g][CHOOSE n \in Made(j, g) : \A m \in Made(j, g) : m <= n].status
Rows(j)     == {r \in Groups \X Attempts : r[2] \in Made(j, r[1])}
Published(j) == {r \in Rows(j) : batch[j][r[1]][r[2]].status = "published"}

-----------------------------------------------------------------------------
(* Planning.                                                                *)

\* A script binds the locations of the copy; nothing unbinds them.
SeedScopes ==
    /\ scopes' = scopes \cup Listed(profiles.rows)
    /\ UNCHANGED <<profileVars, job, batch, planner, pass>>

\* The day's request id contains the population, so another population is another job.
Requested ==
    LET same == {j \in Jobs : job[j].status # "absent" /\ job[j].scopes = scopes}
    IN  IF same # {} THEN same ELSE {j \in Jobs : job[j].status = "absent"}

MayPlan(w) == stage[w] = "plan" /\ planner[w].job = NoJob

\* What is still missing, and where the process goes when nothing is.
Plans(w, j, missing) ==
    IF missing = {} THEN planner' = [planner EXCEPT ![w] = NotPlanning] /\ NextTurn(w, "process")
    ELSE planner' = [planner EXCEPT ![w] = [job |-> j, missing |-> missing]] /\ UNCHANGED stage

\* The job is created, or found; then the batches it lacks are looked up.
PlanJob(w, j) ==
    /\ MayPlan(w) /\ scopes # {} /\ j \in Requested
    /\ job' = IF job[j].status = "absent"
                THEN [job EXCEPT ![j] = [status |-> "queued", scopes |-> scopes]] ELSE job
    /\ Plans(w, j, (scopes \X Months) \ Planned(j))
    /\ UNCHANGED <<linkVars, version, sync, current, incidents, scopes, batch, pass>>

\* No location is bound, or the jobs of this instance are used up.
NothingToPlan(w) ==
    /\ MayPlan(w) /\ (scopes = {} \/ Requested = {})
    /\ NextTurn(w, "process")
    /\ UNCHANGED <<linkVars, version, sync, current, incidents, metricVars>>

\* A group that another planner added meanwhile violates the key and ends the plan.
PlanBatch(w, g) ==
    LET j == planner[w].job IN
    /\ j # NoJob /\ g \in planner[w].missing
    /\ IF batch[j][g][1].status = "absent"
         THEN /\ batch' = [batch EXCEPT ![j][g][1] = Queued]
              /\ Plans(w, j, planner[w].missing \ {g})
         ELSE /\ Plans(w, j, {})
              /\ UNCHANGED batch
    /\ UNCHANGED <<linkVars, version, sync, current, incidents, scopes, job, pass>>

-----------------------------------------------------------------------------
(* A pass over the batches.                                                 *)

Goes(w, s) == pass' = [pass EXCEPT ![w].at = s]

\* The batch in hand.
Row(w) == batch[pass[w].job][pass[w].group][pass[w].attempt]
Put(w, row) == batch' = [batch EXCEPT ![pass[w].job][pass[w].group][pass[w].attempt] = row]

\* Variant: only jobs that no batch was leased of yet are swept.
NeverStarted == {j \in Jobs : job[j].status = "queued"}

\* A job whose last batch was settled by a process that died before it finalized it
\* is found again by its state.
Stranded == {j \in Jobs : job[j].status \in {"queued", "running"}}

Swept(rest) == IF rest = {} THEN "leasing" ELSE "sweeping"

\* A pass reads the clock once.
BeginPass(w) ==
    /\ stage[w] = "process" /\ pass[w].at = "idle"
    /\ pass' = [pass EXCEPT ![w] = [NoPass EXCEPT !.at = Swept(Stranded), !.left = MaxBatches,
                                        !.sweep = Stranded]]
    /\ UNCHANGED <<profileVars, scopes, job, batch, planner>>

Outcome(j) ==
    LET good == {g \in Planned(j) : Last(j, g) = "published"} IN
    IF good = Planned(j) THEN "succeeded" ELSE IF good # {} THEN "partial" ELSE "failed"

Finalized(j) ==
    IF Planned(j) = {} \/ \E g \in Planned(j) : Last(j, g) \in Open
      THEN job ELSE [job EXCEPT ![j].status = Outcome(j)]

Sweep(w, j) ==
    /\ pass[w].at = "sweeping" /\ j \in pass[w].sweep
    /\ job' = Finalized(j)
    /\ pass' = [pass EXCEPT ![w].sweep = @ \ {j}, ![w].at = Swept(pass[w].sweep \ {j})]
    /\ UNCHANGED <<profileVars, scopes, batch, planner>>

\* The lease had expired when the pass read the clock.
Claimable(w, row) ==
    row.status = "queued" \/ (row.status = "leased" /\ row.age > pass[w].age)

ClaimableBatches(w) ==
    {r \in Jobs \X Groups \X Attempts : Claimable(w, batch[r[1]][r[2]][r[3]])}

\* Any claimable batch stands for the one that was created first.
LeaseBatch(w, j, g, n) ==
    /\ pass[w].at = "leasing" /\ pass[w].left > 0
    /\ Claimable(w, batch[j][g][n])
    /\ batch' = [batch EXCEPT ![j][g][n] = [status |-> "leased", owner |-> w, age |-> pass[w].age]]
    /\ job' = IF job[j].status = "queued" THEN [job EXCEPT ![j].status = "running"] ELSE job
    /\ pass' = [pass EXCEPT ![w] = [pass[w] EXCEPT !.at = "fetching", !.left = @ - 1,
                                        !.job = j, !.group = g, !.attempt = n]]
    /\ UNCHANGED <<linkVars, version, sync, stage, current, incidents, scopes, planner>>

EndPass(w) ==
    /\ pass[w].at = "leasing"
    /\ pass[w].left = 0 \/ ClaimableBatches(w) = {}
    /\ pass' = [pass EXCEPT ![w] = NoPass]
    /\ NextTurn(w, "sync")
    /\ UNCHANGED <<linkVars, version, sync, current, incidents, scopes, job, batch, planner>>

\* FBR answers with metrics.
Fetch(w) ==
    /\ pass[w].at = "fetching" /\ profiles.rows[pass[w].group[1]] = "placed"
    /\ Goes(w, "confirming")
    /\ UNCHANGED <<profileVars, scopes, job, batch, planner>>

\* The copy of the profiles has no place id for the location.
NoPlace(w) ==
    /\ pass[w].at = "fetching" /\ profiles.rows[pass[w].group[1]] # "placed"
    /\ Goes(w, "blocked")
    /\ UNCHANGED <<profileVars, scopes, job, batch, planner>>

\* FBR is unavailable, or answers what cannot be read.
FetchFails(w, class) ==
    /\ pass[w].at = "fetching" /\ profiles.rows[pass[w].group[1]] = "placed"
    /\ Goes(w, class)
    /\ Incident
    /\ UNCHANGED <<linkVars, version, sync, stage, current, scopes, job, batch, planner>>

Leased(w) == Row(w).status = "leased" /\ Row(w).owner = w

Confirm(w) ==
    /\ pass[w].at = "confirming"
    /\ Goes(w, IF Leased(w) THEN "publishing" ELSE "finalizing")
    /\ UNCHANGED <<profileVars, scopes, job, batch, planner>>

\* The publication itself asks only that the batch is leased, by whomever; otherwise
\* it fails like a fetch.  The job's counters are its batches and its published batches.
Publish(w) ==
    /\ pass[w].at = "publishing"
    /\ IF Row(w).status = "leased"
         THEN /\ Put(w, Settled("published"))
              /\ job' = [job EXCEPT ![pass[w].job].status =
                           IF Cardinality(Published(pass[w].job)) + 1 >= Cardinality(Rows(pass[w].job))
                             THEN "succeeded" ELSE "running"]
              /\ Goes(w, "finalizing")
         ELSE Goes(w, "blocked") /\ UNCHANGED <<batch, job>>
    /\ UNCHANGED <<profileVars, scopes, planner>>

\* Variant: a failed fetch is retried whoever holds the batch by now.
HasSuccessorUnfenced(w) == pass[w].at = "retryable" /\ pass[w].attempt < MaxAttempts

HasSuccessor(w) == Leased(w) /\ pass[w].at = "retryable" /\ pass[w].attempt < MaxAttempts

\* A batch that another pass settled, or leased, is left to it.
Terminate(w) ==
    /\ pass[w].at \in {"retryable", "blocked"}
    /\ IF Leased(w) THEN Put(w, Settled(pass[w].at)) ELSE UNCHANGED batch
    /\ Goes(w, IF HasSuccessor(w) THEN "succeeding" ELSE "finalizing")
    /\ UNCHANGED <<profileVars, scopes, job, planner>>

Succeed(w) ==
    /\ pass[w].at = "succeeding"
    /\ batch' = [batch EXCEPT ![pass[w].job][pass[w].group][pass[w].attempt + 1] = Queued]
    /\ Goes(w, "finalizing")
    /\ UNCHANGED <<profileVars, scopes, job, planner>>

Finalize(w) ==
    /\ pass[w].at = "finalizing"
    /\ job' = Finalized(pass[w].job)
    /\ pass' = [pass EXCEPT ![w] = [NoPass EXCEPT !.at = "leasing", !.age = pass[w].age, !.left = pass[w].left]]
    /\ UNCHANGED <<profileVars, scopes, batch, planner>>

-----------------------------------------------------------------------------
(* Surroundings.                                                            *)

InPass == {w \in Loops : pass[w].at # "idle"}
Older(age) == IF age <= MaxAge THEN age + 1 ELSE age

\* Another lease's length of time has passed.
Tick ==
    /\ \A w \in InPass : pass[w].age < MaxAge
    /\ batch' = [j \in Jobs |-> [g \in Groups |-> [n \in Attempts |->
                   IF batch[j][g][n].status = "leased"
                     THEN [batch[j][g][n] EXCEPT !.age = Older(@)] ELSE batch[j][g][n]]]]
    /\ pass' = [w \in Loops |-> IF w \in InPass THEN [pass[w] EXCEPT !.age = @ + 1] ELSE pass[w]]
    /\ UNCHANGED <<profileVars, scopes, job, planner>>

\* A process dies; its tokens are nobody's from then on.
Crash(p) ==
    /\ p \in Loops => stage[p] # "off"
    /\ Incident
    /\ known' = known \ {p}
    /\ Becomes(p, NoSync) /\ NextTurn(p, "sync")
    /\ planner' = [w \in Loops |-> IF w = p THEN NotPlanning ELSE planner[w]]
    /\ pass' = [w \in Loops |-> IF w = p THEN NoPass ELSE pass[w]]
    /\ batch' = [j \in Jobs |-> [g \in Groups |-> [n \in Attempts |->
                   IF batch[j][g][n].owner = p
                     THEN [batch[j][g][n] EXCEPT !.owner = Nobody] ELSE batch[j][g][n]]]]
    /\ UNCHANGED <<active, generation, binding, link, profiles, version, command, current, scopes, job>>

Init ==
    /\ ProfileInit
    /\ scopes = {}
    /\ job = [j \in Jobs |-> AbsentJob]
    /\ batch = [j \in Jobs |-> [g \in Groups |-> [n \in Attempts |-> AbsentBatch]]]
    /\ planner = [w \in Loops |-> NotPlanning]
    /\ pass = [w \in Loops |-> NoPass]

PlanStep(w) == (\E j \in Jobs : PlanJob(w, j)) \/ NothingToPlan(w) \/ (\E g \in Groups : PlanBatch(w, g))

PassStep(w) ==
    \/ BeginPass(w) \/ (\E j \in Jobs : Sweep(w, j))
    \/ (\E j \in Jobs, g \in Groups, n \in Attempts : LeaseBatch(w, j, g, n)) \/ EndPass(w)
    \/ Fetch(w) \/ NoPlace(w) \/ (\E class \in {"retryable", "blocked"} : FetchFails(w, class))
    \/ Confirm(w) \/ Publish(w) \/ Terminate(w) \/ Succeed(w) \/ Finalize(w)

Syncs(p) == SyncStep(p) /\ UNCHANGED metricVars

Next ==
    \/ OperatorStep /\ UNCHANGED metricVars
    \/ \E p \in Processes : Syncs(p)
    \/ \E w \in Loops : PlanStep(w) \/ PassStep(w)
    \/ LeaseExpires /\ UNCHANGED metricVars
    \/ HourPasses /\ UNCHANGED metricVars
    \/ FbrChanges /\ UNCHANGED metricVars
    \/ (\E w \in Loops : Deploy(w)) /\ UNCHANGED metricVars
    \/ SeedScopes \/ Tick \/ \E p \in Processes : Crash(p)

Spec == Init /\ [][Next]_vars

\* The loops go on, also after a crash; a request that was begun is carried through;
\* and time passes.  No operator has to act.
Fairness ==
    /\ \A w \in Loops : WF_vars(Syncs(w) \/ PlanStep(w) \/ PassStep(w))
    /\ \A p \in Clients : WF_vars(sync[p].at # "idle" /\ Syncs(p))
    /\ WF_vars(LeaseExpires /\ UNCHANGED metricVars) /\ WF_vars(Tick)

FairSpec == Spec /\ Fairness

-----------------------------------------------------------------------------
(* Properties.                                                              *)

\* The copy of the profiles is always of the FBR merchant that the merchant is linked
\* to now, and a sync that was overtaken never puts an older answer of FBR over a
\* newer one, however often leases, links and the lifecycle changed while it read.
ProfilesFollowBinding ==
    [][profiles' # NoProfiles =>
         /\ profiles'.for = Len(binding')
         /\ profiles.for = profiles'.for => profiles'.version >= profiles.version]_<<profiles, binding>>

\* A group is fetched by one attempt at a time: an attempt exists only once those
\* before it ended as retryable, so nothing is fetched again that was published or
\* blocked, although leases pass from worker to worker in the middle of a fetch.
OneOpenAttempt ==
    \A j \in Jobs, g \in Groups :
        \A n \in Made(j, g), m \in Attempts : m < n => batch[j][g][m].status = "retryable"

\* No sync keeps the link row, and no job waits for a batch.
Unsettled(j) == {r \in Rows(j) : batch[j][r[1]][r[2]].status \in Open}

AtRest ==
    /\ link.status # "syncing"
    /\ \A j \in Jobs : Planned(j) # {} => Unsettled(j) = {} /\ job[j].status \notin {"queued", "running"}

\* Whatever process dies at whatever step, the work comes to rest again: no sync keeps
\* the link row, and every job that has a batch has ended with every batch settled.
\* The incidents of an instance are bounded, so each of them must end.
WorkEnds == []<>AtRest
=============================================================================
