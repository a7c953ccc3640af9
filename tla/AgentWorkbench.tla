--------------------------- MODULE AgentWorkbench ---------------------------
(***************************************************************************)
(* The mirror that the Agent workbench keeps of the runs of one registered  *)
(* Core AI agent: api/app/agent_workbench.py.                               *)
(*                                                                         *)
(* Two things write it.  Whoever starts a run records it at once, as not    *)
(* confirmed.  And each process runs sync cycles, one at a time per agent   *)
(* under a lease that every request renews: a discovery asks Core AI for    *)
(* the newest runs and then for those that are PENDING, RUNNING and PAUSED, *)
(* a request each, while the runs go on; a fast cycle asks for PENDING or   *)
(* RUNNING alone.  The answers are applied in one transaction, if the lease *)
(* still stands, together with the judgement whether they prove what the    *)
(* agent is doing now: the workbench may call an agent idle only then.      *)
(*                                                                         *)
(* Agents share nothing, so one is modelled; a replacement is one agent     *)
(* that is retired and another that is registered.                          *)
(***************************************************************************)
EXTENDS Integers, FiniteSets, Sequences

CONSTANTS
    Processes,     \* processes that run agent_workbench_sync_loop
    Nobody,        \* no holder of the lease, or one that died
    MaxRuns,       \* bound: runs of the agent, numbered as they start
    Own,           \* bound: runs this application starts
    Brief,         \* bound: runs that are over before anything looks at them
    Limit,         \* history_limit: length of a list of runs
    MaxIncidents   \* bound: restarts, stalls, failed requests, lifecycle steps, pauses and corrections

ASSUME ProcessesAssumption == Processes # {} /\ Nobody \notin Processes
ASSUME RunsAssumption == Own \subseteq 1..MaxRuns /\ Brief \subseteq 1..MaxRuns
ASSUME NumbersAssumption == MaxRuns \in Nat /\ Limit \in Nat \ {0} /\ MaxIncidents \in Nat

VARIABLES
    remote,      \* Core AI: the runs of the agent
    local,       \* what this application has of each run
    agent,       \* seo_ops_agents.status
    row,         \* seo_ops_agent_runs
    state,       \* seo_ops_agent_sync_state: what is known, and when to ask again
    lease,       \* seo_ops_agent_sync_state: lease_owner, lease_until
    cycle,       \* sync_registered_agent_runs_once in each process
    current,     \* the process whose loop begins cycles
    incidents    \* how many of those that MaxIncidents bounds have happened

vars == <<remote, local, agent, row, state, lease, cycle, current, incidents>>

-----------------------------------------------------------------------------
(* State.                                                                   *)

Runs        == 1..MaxRuns
Nonterminal == {"PENDING", "RUNNING", "PAUSED"}
Terminal    == {"COMPLETED", "FAILED"}

\* "missing" is a NULL raw_status; synced says that last_synced_at is set; bound, that
\* the row names the local run.
NoRow == [status |-> "absent", synced |-> FALSE, bound |-> FALSE]

\* discovery and fast are next_discovery_at and next_fast_poll_at against the clock; what
\* is due soon is due before whatever is due later.
NewState == [pending |-> TRUE, complete |-> FALSE,
             quality |-> [s \in Nonterminal |-> "unknown"],
             discovery |-> "now", fast |-> "never"]

\* The requests to make, the rows that a fast cycle expects to see, and what the requests
\* made have shown: the status each run has now, runs that showed two, runs of the
\* unfiltered list, and how good each list is.  moved says that local_event_epoch has
\* changed since the claim.  steady is an auxiliary: the runs that were at work when the
\* cycle began, and never since ended or were resumed.
NoCycle == [requests |-> <<>>, fast |-> {}, cached |-> {}, moved |-> FALSE,
            seen |-> [r \in Runs |-> "absent"], mixed |-> {}, unfiltered |-> {},
            lists |-> [k \in Nonterminal \cup {"ANY"} |-> "none"],
            at |-> "idle", steady |-> {}]

Free == [holder |-> Nobody, live |-> FALSE]

Incident == incidents < MaxIncidents /\ incidents' = incidents + 1

Rows == {r \in Runs : row[r].status # "absent"}

\* A local event is newer than every cycle in progress.
Moves == cycle' = [p \in Processes |->
                     IF cycle[p].at = "idle" THEN cycle[p] ELSE [cycle[p] EXCEPT !.moved = TRUE]]

-----------------------------------------------------------------------------
(* Core AI.                                                                 *)

\* A run is started by this application or by somebody else.
Start(r) ==
    /\ remote[r] = "absent" /\ \A earlier \in 1..(r - 1) : remote[earlier] # "absent"
    /\ remote' = [remote EXCEPT ![r] = IF r \in Brief THEN "COMPLETED" ELSE "PENDING"]
    /\ local' = [local EXCEPT ![r] = IF r \in Own THEN "triggered" ELSE @]
    /\ UNCHANGED <<agent, row, state, lease, cycle, current, incidents>>

Becomes(r, s, resumed) ==
    /\ remote' = [remote EXCEPT ![r] = s]
    /\ cycle' = [p \in Processes |->
                   [cycle[p] EXCEPT !.steady = IF resumed \/ s \in Terminal THEN @ \ {r} ELSE @]]
    /\ UNCHANGED <<local, agent, row, state, lease, current>>

Progress(r) ==
    /\ \/ remote[r] = "PENDING" /\ Becomes(r, "RUNNING", FALSE)
       \/ remote[r] = "RUNNING" /\ Becomes(r, "COMPLETED", FALSE)
       \/ remote[r] = "PAUSED" /\ Becomes(r, "RUNNING", TRUE)
    /\ UNCHANGED incidents

\* A run waits for input, or a status that was final is corrected.
Deviates(r) ==
    /\ \/ remote[r] = "RUNNING" /\ Becomes(r, "PAUSED", FALSE)
       \/ remote[r] = "COMPLETED" /\ Becomes(r, "FAILED", FALSE)
    /\ Incident

\* A list holds the newest runs, of a status or of any.
Of(kind)     == {r \in Runs : remote[r] = kind \/ (kind = "ANY" /\ remote[r] # "absent")}
Listed(kind) == {r \in Of(kind) : Cardinality({later \in Of(kind) : later > r}) < Limit}

-----------------------------------------------------------------------------
(* Runs this application starts.                                            *)

\* The trigger answers with a status or without, and the local row gets the run id.
Store(r, s) ==
    /\ local[r] = "triggered" /\ s \in {"missing", remote[r]}
    /\ local' = [local EXCEPT ![r] = s]
    /\ UNCHANGED <<remote, agent, row, state, lease, cycle, current, incidents>>

\* The local row has the run id; until the run is recorded, local is what the trigger answered.
Stored(r) == local[r] \in Nonterminal \cup Terminal \cup {"missing"}

\* What a run recorded with barrier status s puts in doubt.
Doubted(s) == IF s \in Nonterminal THEN {s} ELSE Nonterminal

Doubt(quality, statuses) == [s \in Nonterminal |-> IF s \in statuses THEN "unknown" ELSE quality[s]]

\* The run is recorded with the status the trigger answered.  One that a cycle has found
\* and bound already needs no record.
Record(r) ==
    /\ Stored(r)
    /\ local' = [local EXCEPT ![r] = "recorded"]
    /\ IF agent = "absent" \/ row[r].bound THEN UNCHANGED <<row, state, cycle>>
       ELSE LET s       == local[r]
                fresh   == row[r].status = "absent"
                barrier == IF fresh \/ s # "missing" THEN s ELSE row[r].status
                quick   == barrier \in {"PENDING", "RUNNING"}
            IN  /\ row' = [row EXCEPT ![r] = [status |-> IF fresh THEN s ELSE @.status,
                                              synced |-> FALSE, bound |-> TRUE]]
                /\ state' = [state EXCEPT
                      !.complete = FALSE,
                      !.quality = Doubt(@, Doubted(barrier)),
                      !.discovery = IF agent # "active" \/ quick THEN @ ELSE "now",
                      !.fast = IF agent = "active" /\ quick THEN "now" ELSE "never"]
                /\ Moves
    /\ UNCHANGED <<remote, agent, lease, current, incidents>>

\* The process stops first, or the record fails, which nobody repeats.
RecordLost(r) ==
    /\ Stored(r)
    /\ local' = [local EXCEPT ![r] = "recorded"]
    /\ Incident
    /\ UNCHANGED <<remote, agent, row, state, lease, cycle, current>>

-----------------------------------------------------------------------------
(* The registry.                                                            *)

Register ==
    /\ agent = "absent"
    /\ agent' = "active" /\ state' = NewState
    /\ UNCHANGED <<remote, local, row, lease, cycle, current, incidents>>

\* An agent that is retired, on its own or for the one that replaces it, is one that is
\* never enabled again: it too is asked about from time to time.
Disable ==
    /\ agent = "active"
    /\ agent' = "disabled" /\ state' = [state EXCEPT !.discovery = "later"]
    /\ Incident
    /\ UNCHANGED <<remote, local, row, lease, cycle, current>>

Enable ==
    /\ agent = "disabled"
    /\ agent' = "active"
    /\ state' = [state EXCEPT !.pending = TRUE, !.complete = FALSE, !.discovery = "now",
                              !.quality = Doubt(@, Nonterminal)]
    /\ Moves
    /\ UNCHANGED <<remote, local, row, lease, current, incidents>>

-----------------------------------------------------------------------------
(* A cycle.                                                                 *)

\* Variant: the lists are asked for against the order in which runs move through them.
DiscoveryBackwards == <<"ANY", "RUNNING", "PENDING", "PAUSED">>

Discovery == <<"ANY", "PENDING", "RUNNING", "PAUSED">>

FastRequests(fast) ==
    IF fast = {"PENDING", "RUNNING"} THEN <<"PENDING", "RUNNING">> ELSE <<CHOOSE s \in fast : TRUE>>

\* The statuses with rows young enough, against suspect_after_seconds, to be asked about so
\* often: which rows are, is left open.
FastStatuses == (SUBSET {s \in {"PENDING", "RUNNING"} : \E r \in Runs : row[r].status = s}) \ {{}}

Begins(p, requests, fast) ==
    /\ cycle' = [cycle EXCEPT ![p] = [NoCycle EXCEPT
                   !.at = "asking", !.requests = requests, !.fast = fast,
                   !.cached = {r \in Runs : row[r].status \in fast},
                   !.steady = {r \in Runs : remote[r] \in Nonterminal}]]
    /\ lease' = [holder |-> p, live |-> TRUE]

\* Variant: a lease is kept until its holder gives it back.
LeaseTaken == lease.holder # Nobody \/ lease.live

LeaseLive == lease.live

Claim(p) ==
    /\ p = current /\ cycle[p].at = "idle" /\ agent # "absent" /\ ~LeaseLive
    /\ \/ state.discovery = "now" /\ Begins(p, Discovery, {})
       \/ /\ state.discovery # "now" /\ agent = "active" /\ state.fast = "now"
          /\ \E fast \in FastStatuses : Begins(p, FastRequests(fast), fast)
    /\ UNCHANGED <<remote, local, agent, row, state, current, incidents>>

Holds(p) == lease = [holder |-> p, live |-> TRUE]

\* A fast cycle that misses a row asks for the newest runs too.
Remaining(p, seen) ==
    LET c == cycle[p]
    IN  IF Len(c.requests) = 1 /\ Head(c.requests) # "ANY" /\ \E r \in c.cached : seen[r] = "absent"
          THEN <<"ANY">> ELSE Tail(c.requests)

Goes(p, requests) ==
    [cycle[p] EXCEPT !.requests = requests, !.at = IF requests = <<>> THEN "committing" ELSE "asking"]

Ask(p) ==
    LET c    == cycle[p]
        kind == Head(c.requests)
        page == Listed(kind)
        seen == [r \in Runs |-> IF r \in page /\ c.seen[r] \notin Terminal THEN remote[r] ELSE c.seen[r]]
    IN  /\ c.at = "asking" /\ Holds(p)
        /\ cycle' = [cycle EXCEPT ![p] = [Goes(p, Remaining(p, seen)) EXCEPT
                       !.seen = seen,
                       !.mixed = @ \cup {r \in page : c.seen[r] \notin {"absent", remote[r]}},
                       !.unfiltered = IF kind = "ANY" THEN page ELSE @,
                       !.lists[kind] = IF page = Of(kind) THEN "exact" ELSE "lower_bound"]]
        /\ UNCHANGED <<remote, local, agent, row, state, lease, current, incidents>>

\* Core AI does not answer, or with what is no list.
AskFails(p) ==
    /\ cycle[p].at = "asking" /\ Holds(p)
    /\ cycle' = [cycle EXCEPT ![p] = [Goes(p, Remaining(p, cycle[p].seen)) EXCEPT
                   !.lists[Head(cycle[p].requests)] = "failed"]]
    /\ Incident
    /\ UNCHANGED <<remote, local, agent, row, state, lease, current>>

\* The lease was not renewed: it ran out, or another cycle has it.
Abandon(p) ==
    /\ cycle[p].at = "asking" /\ ~Holds(p)
    /\ cycle' = [cycle EXCEPT ![p] = NoCycle]
    /\ lease' = IF lease.holder = p THEN Free ELSE lease
    /\ UNCHANGED <<remote, local, agent, row, state, current, incidents>>

\* Variant: a commit asks that nobody else holds the lease, not that this cycle does.
OwnedLoosely(p) == lease.holder # Nobody

Fenced(p) == Holds(p)

\* A status that was final stays, and whatever was shown is confirmed now.
Applied(c) ==
    [r \in Runs |->
       IF c.seen[r] = "absent" THEN row[r]
       ELSE [status |-> IF row[r].status \in Terminal THEN row[r].status ELSE c.seen[r],
             synced |-> TRUE, bound |-> row[r].bound \/ Stored(r) \/ local[r] = "recorded"]]

Conflicts(c) == c.mixed \cup {r \in Runs : /\ row[r].status \in Terminal
                                           /\ c.seen[r] \notin {"absent", row[r].status}}

\* Rows of the statuses a fast cycle asked for that no list of it has.
Absent(c) == {r \in Runs : row[r].status \in c.fast /\ c.seen[r] = "absent"}

\* Variant: rows that nothing has confirmed are not looked for.
NoneUnresolved(c) == {}

Unresolved(c) == {r \in Rows : ~row[r].synced /\ c.seen[r] = "absent"}

\* The unfiltered list has every run of Core AI and every row.
AllListed(c) == c.lists["ANY"] = "exact" /\ Rows \subseteq c.unfiltered

Quality(c) ==
    LET measured == [s \in Nonterminal |->
            IF AllListed(c) /\ Conflicts(c) = {} THEN "exact"
            ELSE IF c.lists[s] = "failed" THEN "unknown"
            ELSE IF c.lists[s] = "none" THEN state.quality[s] ELSE c.lists[s]]
        doubted == UNION {Doubted(row[r].status) : r \in Absent(c) \cup Unresolved(c)}
    IN  Doubt(measured, IF Conflicts(c) # {} \/ (c.moved /\ Unresolved(c) = {})
                          THEN Nonterminal ELSE doubted)

Complete(c, quality) ==
    /\ \A s \in Nonterminal : quality[s] = "exact"
    /\ \A r \in Runs : Applied(c)[r].status # "missing"
    /\ ~c.moved /\ Conflicts(c) = {}

Failed(c) == \E k \in DOMAIN c.lists : c.lists[k] = "failed"

\* When fast cycles go on: every row at work is young enough for them here.
NextFast(c, complete) ==
    IF c.moved THEN state.fast
    ELSE IF agent # "active" THEN "never"
    ELSE IF \E r \in Unresolved(c) : row[r].status \in {"PENDING", "RUNNING"} THEN "later"
    ELSE IF complete /\ Unresolved(c) = {}
      THEN IF \E r \in Runs : Applied(c)[r].status \in {"PENDING", "RUNNING"} THEN "later" ELSE "never"
    ELSE IF c.fast # {} /\ (Failed(c) \/ Absent(c) # {}) THEN "later" ELSE state.fast

NextDiscovery(c) ==
    IF c.moved THEN state.discovery
    ELSE IF c.fast = {} THEN "later"
    ELSE IF Conflicts(c) # {} THEN "soon" ELSE state.discovery

\* The lease lets one cycle commit at a time, so what it has seen is newer than any row.
Commit(p) ==
    LET c        == cycle[p]
        quality  == Quality(c)
        complete == Complete(c, quality)
    IN  /\ c.at = "committing"
        /\ cycle' = [cycle EXCEPT ![p] = NoCycle]
        /\ IF Fenced(p)
             THEN /\ row' = Applied(c)
                  /\ state' = [pending |-> state.pending /\ ~complete, complete |-> complete,
                               quality |-> quality, discovery |-> NextDiscovery(c),
                               fast |-> NextFast(c, complete)]
                  /\ lease' = Free
             ELSE UNCHANGED <<row, state, lease>>
        /\ UNCHANGED <<remote, local, agent, current, incidents>>

\* agent_complete of the page.
Served ==
    /\ agent = "active" /\ ~state.pending /\ state.complete
    /\ \A s \in Nonterminal : state.quality[s] = "exact"
    /\ \A r \in Runs : row[r].status # "missing"

-----------------------------------------------------------------------------
(* Surroundings.                                                            *)

\* A new process begins with a discovery, unless one was tried just now.
Primed == \E d \in {"now", state.discovery} :
    state' = IF agent = "active" THEN [state EXCEPT !.discovery = d] ELSE state

\* It takes the place of one that goes on until its cycle ends.
Deploy(p) ==
    /\ p # current /\ cycle[p].at = "idle"
    /\ current' = p /\ Primed
    /\ Incident
    /\ UNCHANGED <<remote, local, agent, row, lease, cycle>>

\* A process dies, or gives back the lease of a cycle that it ends early.  One that has been
\* replaced is stopped in any case.
Stop(p) ==
    /\ p = current \/ cycle[p].at # "idle"
    /\ cycle' = [cycle EXCEPT ![p] = NoCycle]
    /\ lease' \in {lease} \cup (IF cycle[p].at = "asking" /\ Holds(p) THEN {Free} ELSE {})
    /\ IF p = current THEN Incident /\ Primed ELSE UNCHANGED <<incidents, state>>
    /\ UNCHANGED <<remote, local, agent, row, current>>

\* Forty-five seconds after it was claimed or renewed.  A loop's own cycle must have stalled.
LeaseExpires ==
    /\ lease.live
    /\ lease' = [lease EXCEPT !.live = FALSE]
    /\ IF lease.holder = current /\ cycle[current].at # "idle" THEN Incident ELSE UNCHANGED incidents
    /\ UNCHANGED <<remote, local, agent, row, state, cycle, current>>

DiscoveryComesDue ==
    /\ agent # "absent" /\ state.discovery \in {"soon", "later"}
    /\ state' = [state EXCEPT !.discovery = "now"]
    /\ UNCHANGED <<remote, local, agent, row, lease, cycle, current, incidents>>

FastComesDue ==
    /\ state.fast = "later" /\ state.discovery # "soon"
    /\ state' = [state EXCEPT !.fast = "now"]
    /\ UNCHANGED <<remote, local, agent, row, lease, cycle, current, incidents>>

Init ==
    /\ remote = [r \in Runs |-> "absent"] /\ local = [r \in Runs |-> "foreign"]
    /\ agent = "absent"
    /\ row = [r \in Runs |-> NoRow]
    /\ state = NewState /\ lease = Free
    /\ cycle = [p \in Processes |-> NoCycle]
    /\ current = CHOOSE p \in Processes : TRUE
    /\ incidents = 0

RunStep(r) ==
    \/ Start(r) \/ Progress(r) \/ Deviates(r)
    \/ (\E s \in Nonterminal \cup Terminal \cup {"missing"} : Store(r, s))
    \/ Record(r) \/ RecordLost(r)

CycleStep(p) == Claim(p) \/ Ask(p) \/ AskFails(p) \/ Abandon(p) \/ Commit(p)

Next ==
    \/ \E r \in Runs : RunStep(r)
    \/ Register \/ Disable \/ Enable
    \/ \E p \in Processes : CycleStep(p) \/ Deploy(p) \/ Stop(p)
    \/ LeaseExpires \/ DiscoveryComesDue \/ FastComesDue

Spec == Init /\ [][Next]_vars

\* The loop goes on, and time passes.  Nothing is asked of Core AI's runs, nor of a process
\* that has been replaced.
Fairness ==
    /\ WF_vars(CycleStep(current))
    /\ WF_vars(LeaseExpires \/ DiscoveryComesDue)

FairSpec == Spec /\ Fairness

-----------------------------------------------------------------------------
(* Properties.                                                              *)

\* What the workbench serves as a complete current state, on which it may call an agent
\* idle, leaves no run open that this application recorded: a list of Core AI has confirmed
\* each, whenever in a cycle it was recorded, and although no cycle asks for it by its id.
ServedStateIsConfirmed == Served => \A r \in Rows : row[r].synced

\* A discovery that ends as a complete proof has missed no run that was at work all the
\* time, although its lists are asked for one after the other while runs move between them.
ProofMissesNothing ==
    [][\A p \in Processes :
         (cycle[p].at = "committing" /\ cycle[p].fast = {} /\ Holds(p) /\ lease' = Free /\ state'.complete)
             => \A r \in cycle[p].steady : row'[r].status \in Nonterminal]_vars

Rank(s) == IF s \in Terminal THEN 2 ELSE IF s \in {"RUNNING", "PAUSED"} THEN 1 ELSE 0

\* A row that a list has confirmed never goes back in the run's life, and a final status
\* stays, however long an answer was under way in a process that lost its lease.
RowsNeverRegress ==
    [][\A r \in Runs :
         /\ row[r].synced => Rank(row'[r].status) >= Rank(row[r].status)
         /\ row[r].status \in Terminal => row'[r].status = row[r].status]_row

\* Every run that Core AI lists is mirrored and confirmed in the end, with the status it
\* has, whatever was lost, stalled or restarted, also for an agent that is disabled.  The
\* incidents of an instance are bounded, so each of them must end.
Mirrored(r) == row[r].synced /\ row[r].status \in Terminal \cup {remote[r]}

ListedRunsAreMirrored ==
    []<>(agent = "absent" \/ \A r \in Runs :
            Mirrored(r) \/ \A k \in {"ANY"} \cup (Nonterminal \cap {remote[r]}) : r \notin Listed(k))
=============================================================================
