------------------------ MODULE AgentWorkbenchProofs ------------------------
(***************************************************************************)
(* The mirror of an agent's runs never regresses, is called complete only   *)
(* when every row is confirmed, and a discovery that proves completeness    *)
(* missed no run that was at work, for any number of processes, runs and    *)
(* incidents and any length of Core AI's lists.                             *)
(***************************************************************************)
EXTENDS AgentWorkbench, TLAPS

-----------------------------------------------------------------------------
(* Types.                                                                   *)

Kinds    == Nonterminal \cup {"ANY"}
Statuses == Nonterminal \cup Terminal
Locals   == Statuses \cup {"foreign", "triggered", "missing", "recorded"}

RowType   == [status : Statuses \cup {"absent", "missing"}, synced : BOOLEAN, bound : BOOLEAN]
StateType == [pending : BOOLEAN, complete : BOOLEAN,
              quality : [Nonterminal -> {"exact", "lower_bound", "unknown"}],
              discovery : {"now", "soon", "later"}, fast : {"now", "later", "never"}]
LeaseType == [holder : Processes \cup {Nobody}, live : BOOLEAN]
CycleType == [requests : Seq(Kinds), fast : SUBSET {"PENDING", "RUNNING"}, cached : SUBSET Runs,
              moved : BOOLEAN, seen : [Runs -> Statuses \cup {"absent"}], mixed : SUBSET Runs,
              unfiltered : SUBSET Runs,
              lists : [Kinds -> {"none", "failed", "exact", "lower_bound"}],
              at : {"idle", "asking", "committing"}, steady : SUBSET Runs]

TypeInv ==
    /\ remote \in [Runs -> Statuses \cup {"absent"}]
    /\ local \in [Runs -> Locals]
    /\ agent \in {"absent", "active", "disabled"}
    /\ row \in [Runs -> RowType]
    /\ state \in StateType
    /\ lease \in LeaseType
    /\ cycle \in [Processes -> CycleType]
    /\ current \in Processes

\* A cycle that asks has something to ask for.
AskingInv == \A p \in Processes : cycle[p].at = "asking" => cycle[p].requests # <<>>

LEMMA NoCycleType == NoCycle \in CycleType
  BY DEF NoCycle, CycleType, Kinds, Nonterminal

LEMMA TypeInit == Init => TypeInv
  <1>. SUFFICES ASSUME Init PROVE TypeInv
    OBVIOUS
  <1>1. NewState \in StateType /\ NoRow \in RowType /\ Free \in LeaseType
    BY DEF NewState, StateType, NoRow, RowType, Free, LeaseType, Nonterminal, Statuses
  <1>2. (CHOOSE p \in Processes : TRUE) \in Processes
    BY ProcessesAssumption
  <1>. QED  BY <1>1, <1>2, NoCycleType DEF Init, TypeInv, Locals

\* What a transition writes has the type of what it replaces.
LEMMA MovedType ==
    ASSUME NEW c \in CycleType
    PROVE  [c EXCEPT !.moved = TRUE] \in CycleType
  BY DEF CycleType

LEMMA SteadyType ==
    ASSUME NEW c \in CycleType, NEW S \in SUBSET Runs
    PROVE  [c EXCEPT !.steady = S] \in CycleType
  BY DEF CycleType

LEMMA AnsweredType ==
    ASSUME NEW c \in CycleType, NEW requests \in Seq(Kinds), NEW at \in {"asking", "committing"},
           NEW seen \in [Runs -> Statuses \cup {"absent"}], NEW mixed \in SUBSET Runs,
           NEW unfiltered \in SUBSET Runs, NEW k \in Kinds, NEW l \in {"failed", "exact", "lower_bound"}
    PROVE  [c EXCEPT !.requests = requests, !.at = at, !.seen = seen, !.mixed = mixed,
                     !.unfiltered = unfiltered, !.lists[k] = l] \in CycleType
  <1>1. [c.lists EXCEPT ![k] = l] \in [Kinds -> {"none", "failed", "exact", "lower_bound"}]
    BY DEF CycleType
  <1>. QED  BY <1>1 DEF CycleType

LEMMA QualityType ==
    ASSUME TypeInv, NEW c \in CycleType
    PROVE  Quality(c) \in [Nonterminal -> {"exact", "lower_bound", "unknown"}]
  <1>1. state.quality \in [Nonterminal -> {"exact", "lower_bound", "unknown"}]
    BY DEF TypeInv, StateType
  <1>2. c.lists \in [Kinds -> {"none", "failed", "exact", "lower_bound"}]
    BY DEF CycleType
  <1>. QED  BY <1>1, <1>2 DEF Quality, Doubt, Kinds

LEMMA AppliedType ==
    ASSUME TypeInv, NEW c \in CycleType
    PROVE  Applied(c) \in [Runs -> RowType]
  <1>1. c.seen \in [Runs -> Statuses \cup {"absent"}]
    BY DEF CycleType
  <1>2. ASSUME NEW r \in Runs PROVE Applied(c)[r] \in RowType
    BY <1>1 DEF Applied, TypeInv, RowType, Statuses, Stored
  <1>. QED  BY <1>2 DEF Applied

LEMMA RemainingType ==
    ASSUME TypeInv, NEW p \in Processes, NEW seen, cycle[p].requests # <<>>
    PROVE  Remaining(p, seen) \in Seq(Kinds)
  <1>1. cycle[p].requests \in Seq(Kinds)
    BY DEF TypeInv, CycleType
  <1>2. Tail(cycle[p].requests) \in Seq(Kinds)
    BY <1>1
  <1>3. <<"ANY">> \in Seq(Kinds)
    BY DEF Kinds
  <1>. QED  BY <1>2, <1>3 DEF Remaining

\* One lemma for the transitions of each actor.
LEMMA TypeRuns ==
    ASSUME TypeInv, NEW r \in Runs, RunStep(r)
    PROVE  TypeInv'
  <1>1. CASE Start(r)
    BY <1>1 DEF Start, TypeInv, Locals, Statuses, Nonterminal, Terminal
  <1>2. CASE Progress(r) \/ Deviates(r)
    <2>1. PICK s \in Statuses, resumed \in BOOLEAN : Becomes(r, s, resumed)
      BY <1>2 DEF Progress, Deviates, Statuses, Nonterminal, Terminal
    <2>2. \A p \in Processes :
            [cycle[p] EXCEPT !.steady = IF resumed \/ s \in Terminal THEN @ \ {r} ELSE @] \in CycleType
      <3>. SUFFICES ASSUME NEW p \in Processes
                    PROVE  [cycle[p] EXCEPT !.steady = IF resumed \/ s \in Terminal THEN @ \ {r} ELSE @] \in CycleType
        OBVIOUS
      <3>1. cycle[p] \in CycleType /\ cycle[p].steady \in SUBSET Runs
        BY DEF TypeInv, CycleType
      <3>2. (IF resumed \/ s \in Terminal THEN cycle[p].steady \ {r} ELSE cycle[p].steady) \in SUBSET Runs
        BY <3>1
      <3>. QED  BY <3>1, <3>2, SteadyType
    <2>. QED  BY <2>1, <2>2 DEF Becomes, TypeInv
  <1>3. ASSUME NEW s \in Nonterminal \cup Terminal \cup {"missing"}, Store(r, s) PROVE TypeInv'
    BY <1>3 DEF Store, TypeInv, Locals, Statuses
  <1>4. CASE Record(r)
    <2>1. local' \in [Runs -> Locals]
      BY <1>4 DEF Record, TypeInv, Locals
    <2>2. row' \in [Runs -> RowType]
      <3>1. local[r] \in Statuses \cup {"missing"} /\ row[r] \in RowType
        BY <1>4 DEF Record, Stored, TypeInv, Statuses
      <3>2. [status |-> IF row[r].status = "absent" THEN local[r] ELSE row[r].status,
             synced |-> FALSE, bound |-> TRUE] \in RowType
        BY <3>1 DEF RowType
      <3>. QED  BY <1>4, <3>2 DEF Record, TypeInv
    <2>3. state' \in StateType
      <3>1. ASSUME NEW S PROVE Doubt(state.quality, S) \in [Nonterminal -> {"exact", "lower_bound", "unknown"}]
        BY DEF Doubt, TypeInv, StateType
      <3>2. ASSUME NEW S, NEW d \in {"now", "soon", "later"}, NEW f \in {"now", "later", "never"}
            PROVE  [state EXCEPT !.complete = FALSE, !.quality = Doubt(state.quality, S),
                                 !.discovery = d, !.fast = f] \in StateType
        BY <3>1 DEF TypeInv, StateType
      <3>3. state.discovery \in {"now", "soon", "later"} /\ state \in StateType
        BY DEF TypeInv, StateType
      <3>4. CASE agent = "absent" \/ row[r].bound
        BY <1>4, <3>3, <3>4 DEF Record
      <3>5. CASE ~(agent = "absent" \/ row[r].bound)
        <4>. DEFINE fresh   == row[r].status = "absent"
                    barrier == IF fresh \/ local[r] # "missing" THEN local[r] ELSE row[r].status
                    quick   == barrier \in {"PENDING", "RUNNING"}
                    d == IF agent # "active" \/ quick THEN state.discovery ELSE "now"
                    f == IF agent = "active" /\ quick THEN "now" ELSE "never"
        <4>1. state' = [state EXCEPT !.complete = FALSE, !.quality = Doubt(state.quality, Doubted(barrier)),
                                     !.discovery = d, !.fast = f]
          BY <1>4, <3>5 DEF Record
        <4>2. d \in {"now", "soon", "later"} /\ f \in {"now", "later", "never"}
          BY <3>3
        <4>. HIDE DEF d, f, barrier
        <4>. QED  BY <4>1, <4>2, <3>2
      <3>. QED  BY <3>4, <3>5
    <2>4. cycle' \in [Processes -> CycleType]
      <3>1. \A p \in Processes : [cycle[p] EXCEPT !.moved = TRUE] \in CycleType
        BY MovedType DEF TypeInv
      <3>. QED  BY <1>4, <3>1 DEF Record, Moves, TypeInv
    <2>. QED  BY <1>4, <2>1, <2>2, <2>3, <2>4 DEF Record, TypeInv
  <1>5. CASE RecordLost(r)
    BY <1>5 DEF RecordLost, TypeInv, Locals
  <1>. QED  BY <1>1, <1>2, <1>3, <1>4, <1>5 DEF RunStep

LEMMA TypeRegistry ==
    ASSUME TypeInv, Register \/ Disable \/ Enable \/ LeaseExpires \/ DiscoveryComesDue \/ FastComesDue
    PROVE  TypeInv'
  <1>1. CASE Register
    BY <1>1 DEF Register, NewState, TypeInv, StateType
  <1>2. CASE Disable
    BY <1>2 DEF Disable, TypeInv, StateType
  <1>3. CASE Enable
    <2>1. Doubt(state.quality, Nonterminal) \in [Nonterminal -> {"exact", "lower_bound", "unknown"}]
      BY DEF Doubt
    <2>2. \A p \in Processes : [cycle[p] EXCEPT !.moved = TRUE] \in CycleType
      BY MovedType DEF TypeInv
    <2>. QED  BY <1>3, <2>1, <2>2 DEF Enable, Moves, TypeInv, StateType
  <1>4. CASE LeaseExpires
    BY <1>4 DEF LeaseExpires, TypeInv, LeaseType
  <1>5. CASE DiscoveryComesDue \/ FastComesDue
    BY <1>5 DEF DiscoveryComesDue, FastComesDue, TypeInv, StateType
  <1>. QED  BY <1>1, <1>2, <1>3, <1>4, <1>5

LEMMA TypeCycles ==
    ASSUME TypeInv, AskingInv, NEW p \in Processes, CycleStep(p) \/ Deploy(p) \/ Stop(p)
    PROVE  TypeInv'
  <1>. DEFINE c == cycle[p]
  <1>0. c \in CycleType
    BY DEF TypeInv
  <1>1. CASE Claim(p)
    <2>1. PICK requests \in Seq(Kinds), fast \in SUBSET {"PENDING", "RUNNING"} : Begins(p, requests, fast)
      <3>1. Discovery \in Seq(Kinds)
        BY DEF Discovery, Kinds, Nonterminal
      <3>2. \A fast \in FastStatuses : FastRequests(fast) \in Seq(Kinds)
        <4>. SUFFICES ASSUME NEW fast \in FastStatuses PROVE FastRequests(fast) \in Seq(Kinds)
          OBVIOUS
        <4>1. fast # {} /\ fast \subseteq {"PENDING", "RUNNING"}
          BY DEF FastStatuses
        <4>. DEFINE one == CHOOSE s \in fast : TRUE
        <4>2. one \in Kinds
          BY <4>1 DEF Kinds, Nonterminal
        <4>3. FastRequests(fast) \in {<<"PENDING", "RUNNING">>, <<one>>}
          BY DEF FastRequests
        <4>. HIDE DEF one
        <4>4. <<one>> \in Seq(Kinds) /\ <<"PENDING", "RUNNING">> \in Seq(Kinds)
          BY <4>2 DEF Kinds, Nonterminal
        <4>. QED  BY <4>3, <4>4
      <3>3. CASE Begins(p, Discovery, {})
        BY <3>1, <3>3
      <3>4. CASE \E fast \in FastStatuses : Begins(p, FastRequests(fast), fast)
        <4>1. \A fast \in FastStatuses : fast \in SUBSET {"PENDING", "RUNNING"}
          BY DEF FastStatuses
        <4>. QED  BY <3>2, <3>4, <4>1
      <3>. QED  BY <1>1, <3>3, <3>4 DEF Claim
    <2>2. cycle'[p] \in CycleType
      BY <2>1, NoCycleType DEF Begins, CycleType, TypeInv
    <2>. QED  BY <1>1, <2>1, <2>2 DEF Claim, Begins, TypeInv, LeaseType
  <1>2. CASE Ask(p) \/ AskFails(p)
    <2>. DEFINE kind == Head(c.requests)
                page == Listed(kind)
                seen == [r \in Runs |-> IF r \in page /\ c.seen[r] \notin Terminal THEN remote[r] ELSE c.seen[r]]
                at(requests) == IF requests = <<>> THEN "committing" ELSE "asking"
    <2>0. c.seen \in [Runs -> Statuses \cup {"absent"}] /\ c.mixed \in SUBSET Runs /\ c.unfiltered \in SUBSET Runs
      BY <1>0 DEF CycleType
    <2>1. c.at = "asking" /\ c.requests # <<>> /\ kind \in Kinds
      BY <1>2, <1>0 DEF Ask, AskFails, AskingInv, CycleType
    <2>2. ASSUME NEW newseen \in [Runs -> Statuses \cup {"absent"}], NEW mixed \in SUBSET Runs,
                 NEW unfiltered \in SUBSET Runs, NEW l \in {"failed", "exact", "lower_bound"},
                 NEW requests \in Seq(Kinds),
                 cycle' = [cycle EXCEPT ![p] = [Goes(p, requests) EXCEPT
                    !.seen = newseen, !.mixed = mixed, !.unfiltered = unfiltered, !.lists[kind] = l]],
                 UNCHANGED <<remote, local, agent, row, state, lease, current>>
          PROVE  TypeInv'
      <3>1. cycle'[p] = [c EXCEPT !.requests = requests, !.at = at(requests), !.seen = newseen, !.mixed = mixed,
                                  !.unfiltered = unfiltered, !.lists[kind] = l]
        BY <2>2, <1>0 DEF Goes, TypeInv, CycleType
      <3>2. cycle'[p] \in CycleType
        <4>. DEFINE a == at(requests)
        <4>1. a \in {"asking", "committing"}
          OBVIOUS
        <4>. HIDE DEF c, kind, a
        <4>2. [c EXCEPT !.requests = requests, !.at = a, !.seen = newseen, !.mixed = mixed,
                        !.unfiltered = unfiltered, !.lists[kind] = l] \in CycleType
          BY <4>1, <1>0, <2>1, AnsweredType
        <4>. QED  BY <3>1, <4>2 DEF a
      <3>. QED  BY <2>2, <3>2 DEF TypeInv
    <2>3. CASE Ask(p)
      <3>1. seen \in [Runs -> Statuses \cup {"absent"}] /\ page \in SUBSET Runs
        BY <2>0 DEF Listed, Of, TypeInv
      <3>2. Remaining(p, seen) \in Seq(Kinds)
        BY <2>1, RemainingType
      <3>3. c.mixed \cup {r \in page : c.seen[r] \notin {"absent", remote[r]}} \in SUBSET Runs
        BY <2>0, <3>1
      <3>4. (IF kind = "ANY" THEN page ELSE c.unfiltered) \in SUBSET Runs
        BY <2>0, <3>1
      <3>. DEFINE requests == Remaining(p, seen)
                  mixed == c.mixed \cup {r \in page : c.seen[r] \notin {"absent", remote[r]}}
                  unfiltered == IF kind = "ANY" THEN page ELSE c.unfiltered
                  l == IF page = Of(kind) THEN "exact" ELSE "lower_bound"
      <3>5. cycle' = [cycle EXCEPT ![p] = [Goes(p, requests) EXCEPT
                        !.seen = seen, !.mixed = mixed, !.unfiltered = unfiltered, !.lists[kind] = l]]
        BY <2>3, <1>0 DEF Ask, Goes, CycleType
      <3>6. UNCHANGED <<remote, local, agent, row, state, lease, current>>
        BY <2>3 DEF Ask
      <3>7. l \in {"failed", "exact", "lower_bound"}
        OBVIOUS
      <3>. HIDE DEF requests, mixed, unfiltered, l, seen, page, kind, c
      <3>. QED  BY <2>2, <3>1, <3>2, <3>3, <3>4, <3>5, <3>6, <3>7 DEF requests, mixed, unfiltered
    <2>4. CASE AskFails(p)
      <3>. DEFINE requests == Remaining(p, c.seen)
      <3>1. requests \in Seq(Kinds)
        BY <2>1, RemainingType
      <3>2. cycle' = [cycle EXCEPT ![p] = [Goes(p, requests) EXCEPT
                        !.seen = c.seen, !.mixed = c.mixed, !.unfiltered = c.unfiltered, !.lists[kind] = "failed"]]
        BY <2>4, <1>0 DEF AskFails, Goes, CycleType
      <3>3. UNCHANGED <<remote, local, agent, row, state, lease, current>>
        BY <2>4 DEF AskFails
      <3>. HIDE DEF requests
      <3>. QED  BY <2>0, <2>2, <3>1, <3>2, <3>3
    <2>. QED  BY <1>2, <2>3, <2>4
  <1>3. CASE Abandon(p)
    BY <1>3, NoCycleType DEF Abandon, Free, TypeInv, LeaseType
  <1>4. CASE Commit(p)
    <2>1. Applied(c) \in [Runs -> RowType] /\ Quality(c) \in [Nonterminal -> {"exact", "lower_bound", "unknown"}]
      BY <1>0, AppliedType, QualityType
    <2>2. \A q : Complete(c, q) \in BOOLEAN
      BY DEF Complete
    <2>3. state.discovery \in {"now", "soon", "later"} /\ state.fast \in {"now", "later", "never"}
          /\ state.pending \in BOOLEAN
      BY DEF TypeInv, StateType
    <2>4. NextDiscovery(c) \in {"now", "soon", "later"} /\ \A b : NextFast(c, b) \in {"now", "later", "never"}
      BY <2>3 DEF NextDiscovery, NextFast
    <2>5. row' \in [Runs -> RowType] /\ state' \in StateType /\ lease' \in LeaseType
      <3>1. CASE Fenced(p)
        <4>. DEFINE complete == Complete(c, Quality(c))
        <4>1. row' = Applied(c) /\ lease' = Free
          BY <1>4, <3>1 DEF Commit
        <4>2. state' = [pending |-> state.pending /\ ~complete, complete |-> complete,
                        quality |-> Quality(c), discovery |-> NextDiscovery(c), fast |-> NextFast(c, complete)]
          BY <1>4, <3>1 DEF Commit
        <4>3. complete \in BOOLEAN /\ (state.pending /\ ~complete) \in BOOLEAN
          BY <2>2
        <4>. HIDE DEF complete, c
        <4>4. state' \in StateType
          BY <4>2, <4>3, <2>1, <2>4 DEF StateType
        <4>. QED  BY <4>1, <4>4, <2>1 DEF LeaseType, Free
      <3>2. CASE ~Fenced(p)
        BY <1>4, <3>2 DEF Commit, TypeInv
      <3>. QED  BY <3>1, <3>2
    <2>. QED  BY <1>4, <2>5, NoCycleType DEF Commit, TypeInv
  <1>5. CASE Deploy(p) \/ Stop(p)
    <2>1. state' \in StateType
      <3>1. \A d \in {"now", state.discovery} : [state EXCEPT !.discovery = d] \in StateType
        BY DEF TypeInv, StateType
      <3>. QED  BY <1>5, <3>1 DEF Deploy, Stop, Primed, TypeInv
    <2>2. lease' \in LeaseType
      <3>1. lease' \in {lease, Free}
        BY <1>5 DEF Deploy, Stop
      <3>2. lease \in LeaseType /\ Free \in LeaseType
        BY DEF TypeInv, LeaseType, Free
      <3>. QED  BY <3>1, <3>2
    <2>3. current' \in Processes
      BY <1>5 DEF Deploy, Stop, TypeInv
    <2>4. cycle' = cycle \/ cycle' = [cycle EXCEPT ![p] = NoCycle]
      BY <1>5 DEF Deploy, Stop
    <2>5. cycle' \in [Processes -> CycleType]
      BY <2>4, NoCycleType DEF TypeInv
    <2>6. UNCHANGED <<remote, local, agent, row>>
      BY <1>5 DEF Deploy, Stop
    <2>. QED  BY <2>1, <2>2, <2>3, <2>5, <2>6 DEF TypeInv
  <1>. QED  BY <1>1, <1>2, <1>3, <1>4, <1>5 DEF CycleStep

-----------------------------------------------------------------------------
(* What a step does to the cycles in progress.                              *)

Elsewhere ==
    \/ \E r \in Runs : RunStep(r)
    \/ Register \/ Disable \/ Enable
    \/ \E p \in Processes : Deploy(p)
    \/ LeaseExpires \/ DiscoveryComesDue \/ FastComesDue

\* What p has asked and heard stays; runs may end or be resumed meanwhile.
Kept(p) ==
    /\ cycle'[p].requests = cycle[p].requests /\ cycle'[p].fast = cycle[p].fast
    /\ cycle'[p].cached = cycle[p].cached /\ cycle'[p].seen = cycle[p].seen
    /\ cycle'[p].lists = cycle[p].lists /\ cycle'[p].at = cycle[p].at
    /\ cycle'[p].steady \subseteq cycle[p].steady

\* Nothing but a cycle's own steps, or its process stopping, touches what it has heard.
LEMMA CyclesKept ==
    ASSUME TypeInv, Elsewhere
    PROVE  \A p \in Processes : Kept(p)
  <1>. SUFFICES ASSUME NEW p \in Processes PROVE Kept(p)
    OBVIOUS
  <1>0. cycle \in [Processes -> CycleType] /\ cycle[p] \in CycleType
    BY DEF TypeInv
  <1>1. CASE UNCHANGED cycle
    BY <1>1 DEF Kept
  <1>2. CASE Moves
    <2>1. cycle'[p] = cycle[p] \/ cycle'[p] = [cycle[p] EXCEPT !.moved = TRUE]
      BY <1>2 DEF Moves
    <2>. QED  BY <1>0, <2>1 DEF Kept, CycleType
  <1>3. ASSUME NEW r \in Runs, NEW s \in Statuses, NEW resumed \in BOOLEAN, Becomes(r, s, resumed)
        PROVE  Kept(p)
    <2>1. cycle'[p] = [cycle[p] EXCEPT !.steady = IF resumed \/ s \in Terminal THEN @ \ {r} ELSE @]
      BY <1>3 DEF Becomes
    <2>. QED  BY <1>0, <2>1 DEF Kept, CycleType
  <1>4. ASSUME NEW r \in Runs, RunStep(r) PROVE Kept(p)
    <2>1. CASE Progress(r) \/ Deviates(r)
      <3>1. \E s \in Statuses, resumed \in BOOLEAN : Becomes(r, s, resumed)
        BY <2>1 DEF Progress, Deviates, Statuses, Nonterminal, Terminal
      <3>. QED  BY <1>3, <3>1
    <2>2. CASE Start(r) \/ (\E s \in Nonterminal \cup Terminal \cup {"missing"} : Store(r, s)) \/ RecordLost(r)
      BY <1>1, <2>2 DEF Start, Store, RecordLost
    <2>3. CASE Record(r)
      BY <1>1, <1>2, <2>3 DEF Record
    <2>. QED  BY <1>4, <2>1, <2>2, <2>3 DEF RunStep
  <1>5. CASE Register \/ Disable \/ LeaseExpires \/ DiscoveryComesDue \/ FastComesDue \/ \E q \in Processes : Deploy(q)
    BY <1>1, <1>5 DEF Register, Disable, LeaseExpires, DiscoveryComesDue, FastComesDue, Deploy
  <1>6. CASE Enable
    BY <1>2, <1>6 DEF Enable
  <1>. QED  BY <1>4, <1>5, <1>6 DEF Elsewhere

\* A cycle that begins has heard nothing.
LEMMA BeginsEffect ==
    ASSUME TypeInv, NEW p \in Processes, NEW requests, NEW fast, Begins(p, requests, fast)
    PROVE  /\ cycle'[p].requests = requests /\ cycle'[p].fast = fast /\ cycle'[p].at = "asking"
           /\ cycle'[p].cached = {r \in Runs : row[r].status \in fast}
           /\ cycle'[p].seen = [r \in Runs |-> "absent"]
           /\ cycle'[p].lists = [k \in Kinds |-> "none"]
           /\ cycle'[p].steady = {r \in Runs : remote[r] \in Nonterminal}
           /\ \A q \in Processes \ {p} : cycle'[q] = cycle[q]
           /\ lease' = [holder |-> p, live |-> TRUE]
  BY DEF Begins, NoCycle, TypeInv, Kinds

\* What a cycle requests when it begins.
LEMMA ClaimEffect ==
    ASSUME NEW p \in Processes, Claim(p)
    PROVE  \/ Begins(p, Discovery, {})
           \/ \E fast, requests : requests # <<>> /\ fast # {} /\ Begins(p, requests, fast)
  <1>1. \A fast : FastRequests(fast) # <<>>
    BY DEF FastRequests
  <1>2. \A fast \in FastStatuses : fast # {}
    BY DEF FastStatuses
  <1>3. CASE \E fast \in FastStatuses : Begins(p, FastRequests(fast), fast)
    BY <1>1, <1>2, <1>3
  <1>. QED  BY <1>3 DEF Claim

\* An answer, or none, moves the cycle on to its next request.
LEMMA AnswerEffect ==
    ASSUME TypeInv, NEW p \in Processes, Ask(p) \/ AskFails(p)
    PROVE  /\ cycle'[p].fast = cycle[p].fast /\ cycle'[p].cached = cycle[p].cached
           /\ cycle'[p].steady = cycle[p].steady
           /\ cycle'[p].requests = Remaining(p, cycle'[p].seen)
           /\ cycle'[p].at = IF cycle'[p].requests = <<>> THEN "committing" ELSE "asking"
           /\ \A q \in Processes \ {p} : cycle'[q] = cycle[q]
           /\ cycle[p].at = "asking" /\ Holds(p)
           /\ UNCHANGED <<remote, local, row, state, lease>>
  <1>1. cycle \in [Processes -> CycleType] /\ cycle[p] \in CycleType
    BY DEF TypeInv
  <1>2. CASE Ask(p)
    BY <1>1, <1>2 DEF Ask, Goes, CycleType
  <1>3. CASE AskFails(p)
    BY <1>1, <1>3 DEF AskFails, Goes, CycleType
  <1>. QED  BY <1>2, <1>3

\* What an answer shows.
LEMMA AskEffect ==
    ASSUME TypeInv, AskingInv, NEW p \in Processes, Ask(p)
    PROVE  LET kind == Head(cycle[p].requests)
           IN  /\ kind \in Kinds
               /\ \A r \in Runs :
                    cycle'[p].seen[r] = IF r \in Listed(kind) /\ cycle[p].seen[r] \notin Terminal
                                          THEN remote[r] ELSE cycle[p].seen[r]
               /\ \A k \in Kinds : k # kind => cycle'[p].lists[k] = cycle[p].lists[k]
               /\ cycle'[p].lists[kind] \in {"exact", "lower_bound"}
               /\ cycle'[p].lists[kind] = "exact" => Listed(kind) = Of(kind)
  <1>1. cycle \in [Processes -> CycleType] /\ cycle[p] \in CycleType
    BY DEF TypeInv
  <1>2. Head(cycle[p].requests) \in Kinds
    BY <1>1 DEF Ask, AskingInv, CycleType
  <1>3. cycle'[p].lists = [cycle[p].lists EXCEPT ![Head(cycle[p].requests)] =
            IF Listed(Head(cycle[p].requests)) = Of(Head(cycle[p].requests)) THEN "exact" ELSE "lower_bound"]
    BY <1>1 DEF Ask, Goes, CycleType
  <1>4. cycle[p].lists \in [Kinds -> {"none", "failed", "exact", "lower_bound"}]
    BY <1>1 DEF CycleType
  <1>5. cycle'[p].seen = [r \in Runs |-> IF r \in Listed(Head(cycle[p].requests)) /\ cycle[p].seen[r] \notin Terminal
                                           THEN remote[r] ELSE cycle[p].seen[r]]
    BY <1>1 DEF Ask, Goes, CycleType
  <1>. HIDE DEF Listed, Of
  <1>. QED  BY <1>2, <1>3, <1>4, <1>5

LEMMA AskFailsEffect ==
    ASSUME TypeInv, AskingInv, NEW p \in Processes, AskFails(p)
    PROVE  LET kind == Head(cycle[p].requests)
           IN  /\ kind \in Kinds
               /\ cycle'[p].seen = cycle[p].seen
               /\ \A k \in Kinds : k # kind => cycle'[p].lists[k] = cycle[p].lists[k]
               /\ cycle'[p].lists[kind] = "failed"
  <1>1. cycle \in [Processes -> CycleType] /\ cycle[p] \in CycleType
    BY DEF TypeInv
  <1>2. Head(cycle[p].requests) \in Kinds
    BY <1>1 DEF AskFails, AskingInv, CycleType
  <1>3. cycle'[p].lists = [cycle[p].lists EXCEPT ![Head(cycle[p].requests)] = "failed"]
        /\ cycle'[p].seen = cycle[p].seen
    BY <1>1 DEF AskFails, Goes, CycleType
  <1>4. cycle[p].lists \in [Kinds -> {"none", "failed", "exact", "lower_bound"}]
    BY <1>1 DEF CycleType
  <1>. QED  BY <1>2, <1>3, <1>4

\* A cycle that ends leaves the others as they are, and gives back its own lease only.
LEMMA EndEffect ==
    ASSUME TypeInv, NEW p \in Processes, Abandon(p) \/ Commit(p) \/ Stop(p)
    PROVE  /\ cycle'[p] = NoCycle
           /\ \A q \in Processes \ {p} : cycle'[q] = cycle[q]
           /\ lease' = lease \/ lease' = Free
  BY DEF Abandon, Commit, Stop, TypeInv

\* Every step is one of these.
LEMMA StepKinds ==
    ASSUME Next
    PROVE  Elsewhere \/ \E p \in Processes : Claim(p) \/ Ask(p) \/ AskFails(p) \/ Abandon(p) \/ Commit(p) \/ Stop(p)
  BY DEF Next, Elsewhere, CycleStep

LEMMA TypeStep == TypeInv /\ AskingInv /\ [Next]_vars => TypeInv'
  <1>. SUFFICES ASSUME TypeInv, AskingInv, [Next]_vars PROVE TypeInv'
    OBVIOUS
  <1>1. CASE UNCHANGED vars
    BY <1>1 DEF vars, TypeInv
  <1>2. CASE \E r \in Runs : RunStep(r)
    BY <1>2, TypeRuns
  <1>3. CASE Register \/ Disable \/ Enable \/ LeaseExpires \/ DiscoveryComesDue \/ FastComesDue
    BY <1>3, TypeRegistry
  <1>4. CASE \E p \in Processes : CycleStep(p) \/ Deploy(p) \/ Stop(p)
    BY <1>4, TypeCycles
  <1>. QED  BY <1>1, <1>2, <1>3, <1>4 DEF Next

LEMMA AskingStep == TypeInv /\ AskingInv /\ [Next]_vars => AskingInv'
  <1>. SUFFICES ASSUME TypeInv, AskingInv, [Next]_vars, NEW p \in Processes, cycle'[p].at = "asking"
                PROVE  cycle'[p].requests # <<>>
    BY DEF AskingInv
  <1>1. CASE UNCHANGED vars
    BY <1>1 DEF vars, AskingInv
  <1>2. CASE Elsewhere
    BY <1>2, CyclesKept DEF Kept, AskingInv
  <1>3. ASSUME NEW q \in Processes, Claim(q) PROVE cycle'[p].requests # <<>>
    <2>1. Discovery # <<>>
      BY DEF Discovery
    <2>2. PICK requests, fast : requests # <<>> /\ Begins(q, requests, fast)
      BY <1>3, <2>1, ClaimEffect
    <2>. QED  BY <2>2, BeginsEffect DEF AskingInv
  <1>4. ASSUME NEW q \in Processes, Ask(q) \/ AskFails(q) PROVE cycle'[p].requests # <<>>
    BY <1>4, AnswerEffect DEF AskingInv
  <1>5. ASSUME NEW q \in Processes, Abandon(q) \/ Commit(q) \/ Stop(q) PROVE cycle'[p].requests # <<>>
    <2>1. NoCycle.at # "asking"
      BY DEF NoCycle
    <2>. QED  BY <1>5, <2>1, EndEffect DEF AskingInv
  <1>. QED  BY <1>1, <1>2, <1>3, <1>4, <1>5, StepKinds

\* Every table and every cycle keeps its type, whatever fails.
THEOREM TypesAreKept == Spec => [](TypeInv /\ AskingInv)
  <1>1. Init => TypeInv /\ AskingInv
    BY TypeInit DEF Init, AskingInv, NoCycle
  <1>2. TypeInv /\ AskingInv /\ [Next]_vars => (TypeInv /\ AskingInv)'
    BY TypeStep, AskingStep
  <1>. QED  BY <1>1, <1>2, PTL DEF Spec

-----------------------------------------------------------------------------
(* What is served as complete is confirmed.                                 *)

CompleteInv == state.complete => \A r \in Rows : row[r].synced

LEMMA CompleteStep == TypeInv /\ CompleteInv /\ [Next]_vars => CompleteInv'
  <1>. SUFFICES ASSUME TypeInv, CompleteInv, [Next]_vars, state'.complete,
                       NEW r \in Runs, row'[r].status # "absent"
                PROVE  row'[r].synced
    BY DEF CompleteInv, Rows
  <1>0. state \in StateType /\ row \in [Runs -> RowType]
    BY DEF TypeInv
  <1>1. CASE row' = row /\ state'.complete = state.complete
    BY <1>1 DEF CompleteInv, Rows
  <1>2. ASSUME NEW d, state' = [state EXCEPT !.discovery = d], row' = row PROVE row'[r].synced
    BY <1>0, <1>1, <1>2 DEF StateType
  <1>3. CASE \E q \in Runs : Start(q) \/ Progress(q) \/ Deviates(q) \/ RecordLost(q)
                             \/ \E s \in Nonterminal \cup Terminal \cup {"missing"} : Store(q, s)
    BY <1>1, <1>3 DEF Start, Progress, Deviates, Becomes, RecordLost, Store
  <1>4. ASSUME NEW q \in Runs, Record(q) PROVE row'[r].synced
    <2>1. CASE agent = "absent" \/ row[q].bound
      BY <1>1, <1>4, <2>1 DEF Record
    <2>2. CASE ~(agent = "absent" \/ row[q].bound)
      <3>. DEFINE s       == local[q]
                  fresh   == row[q].status = "absent"
                  barrier == IF fresh \/ s # "missing" THEN s ELSE row[q].status
                  quick   == barrier \in {"PENDING", "RUNNING"}
                  Q == Doubt(state.quality, Doubted(barrier))
                  d == IF agent # "active" \/ quick THEN state.discovery ELSE "now"
                  f == IF agent = "active" /\ quick THEN "now" ELSE "never"
      <3>1. state' = [state EXCEPT !.complete = FALSE, !.quality = Q, !.discovery = d, !.fast = f]
        BY <1>4, <2>2 DEF Record
      <3>. HIDE DEF Q, d, f
      <3>2. ~state'.complete
        BY <1>0, <3>1 DEF StateType
      <3>. QED  BY <3>2
    <2>. QED  BY <2>1, <2>2
  <1>5. CASE Register
    BY <1>5 DEF Register, NewState
  <1>6. CASE Enable
    BY <1>0, <1>6 DEF Enable, StateType
  <1>7. CASE Disable \/ DiscoveryComesDue
    BY <1>2, <1>7 DEF Disable, DiscoveryComesDue
  <1>8. CASE FastComesDue
    BY <1>0, <1>1, <1>8 DEF FastComesDue, StateType
  <1>9. CASE LeaseExpires \/ UNCHANGED vars
    BY <1>1, <1>9 DEF LeaseExpires, vars
  <1>10. ASSUME NEW p \in Processes, Deploy(p) \/ Stop(p) PROVE row'[r].synced
    BY <1>1, <1>2, <1>10 DEF Deploy, Stop, Primed
  <1>11. ASSUME NEW p \in Processes, Claim(p) \/ Ask(p) \/ AskFails(p) \/ Abandon(p) PROVE row'[r].synced
    BY <1>1, <1>11 DEF Claim, Ask, AskFails, Abandon
  <1>12. ASSUME NEW p \in Processes, Commit(p) PROVE row'[r].synced
    <2>. DEFINE c == cycle[p]
    <2>1. CASE ~Fenced(p)
      BY <1>1, <1>12, <2>1 DEF Commit
    <2>2. CASE Fenced(p)
      <3>. DEFINE complete == Complete(c, Quality(c))
      <3>0. state' = [pending |-> state.pending /\ ~complete, complete |-> complete, quality |-> Quality(c),
                      discovery |-> NextDiscovery(c), fast |-> NextFast(c, complete)]
        BY <1>12, <2>2 DEF Commit
      <3>1. row' = Applied(c) /\ Complete(c, Quality(c))
        <4>1. row' = Applied(c)
          BY <1>12, <2>2 DEF Commit
        <4>. HIDE DEF complete
        <4>2. complete
          BY <3>0
        <4>. QED  BY <4>1, <4>2 DEF complete
      <3>2. \A s \in Nonterminal : Quality(c)[s] = "exact"
        BY <3>1 DEF Complete
      <3>3. CASE c.seen[r] # "absent"
        BY <3>1, <3>3 DEF Applied
      <3>4. CASE c.seen[r] = "absent" /\ ~row[r].synced
        <4>1. row'[r] = row[r]
          BY <3>1, <3>4 DEF Applied
        <4>2. r \in Unresolved(c)
          BY <3>4, <4>1 DEF Unresolved, Rows
        \* The row puts one status at least in doubt.
        <4>3. PICK s \in Nonterminal : s \in Doubted(row[r].status)
          BY DEF Doubted, Nonterminal
        <4>4. Quality(c)[s] = "unknown"
          BY <4>2, <4>3 DEF Quality, Doubt
        <4>. QED  BY <3>2, <4>4
      <3>5. CASE c.seen[r] = "absent" /\ row[r].synced
        BY <3>1, <3>5 DEF Applied
      <3>. QED  BY <3>3, <3>4, <3>5
    <2>. QED  BY <2>1, <2>2
  <1>. QED  BY <1>3, <1>4, <1>5, <1>6, <1>7, <1>8, <1>9, <1>10, <1>11, <1>12 DEF Next, RunStep, CycleStep

\* What the workbench serves as a complete current state leaves no recorded run unconfirmed:
\* a record takes completeness back, and a commit gives it only if a list had every row that
\* nothing has confirmed before.
THEOREM ServedIsConfirmed == Spec => []ServedStateIsConfirmed
  <1>1. Init => CompleteInv
    BY DEF Init, CompleteInv, NewState
  <1>2. CompleteInv => ServedStateIsConfirmed
    BY DEF CompleteInv, ServedStateIsConfirmed, Served
  <1>. QED  BY <1>1, <1>2, TypesAreKept, CompleteStep, PTL DEF Spec

-----------------------------------------------------------------------------
(* Rows follow the lives of the runs.                                       *)

\* Nothing this application has of a run is ahead of Core AI.
BehindInv ==
    \A r \in Runs :
        /\ Rank(local[r]) <= Rank(remote[r])
        /\ Rank(row[r].status) <= Rank(remote[r])
        /\ \A p \in Processes : Rank(cycle[p].seen[r]) <= Rank(remote[r])

\* What the holder of the lease has seen of a run is as new as its confirmed row.
HolderInv ==
    \A p \in Processes, r \in Runs :
        (Holds(p) /\ cycle[p].at # "idle" /\ cycle[p].seen[r] # "absent" /\ row[r].synced)
            => Rank(row[r].status) <= Rank(cycle[p].seen[r])

LEMMA RankType == \A s : Rank(s) \in 0..2
  BY DEF Rank

\* A run's life goes forward.
LEMMA RemoteForward ==
    ASSUME TypeInv, [Next]_vars, NEW r \in Runs
    PROVE  Rank(remote[r]) <= Rank(remote'[r])
  <1>1. CASE UNCHANGED remote
    BY <1>1, RankType
  <1>2. ASSUME NEW q \in Runs, Start(q) PROVE Rank(remote[r]) <= Rank(remote'[r])
    <2>1. remote' = [remote EXCEPT ![q] = IF q \in Brief THEN "COMPLETED" ELSE "PENDING"] /\ remote[q] = "absent"
      BY <1>2 DEF Start
    <2>. QED  BY <2>1 DEF TypeInv, Rank, Terminal
  <1>3. ASSUME NEW q \in Runs, Progress(q) \/ Deviates(q) PROVE Rank(remote[r]) <= Rank(remote'[r])
    <2>1. PICK s \in Statuses : remote' = [remote EXCEPT ![q] = s] /\ Rank(remote[q]) <= Rank(s)
      BY <1>3 DEF Progress, Deviates, Becomes, Rank, Terminal, Nonterminal, Statuses
    <2>. QED  BY <2>1, RankType DEF TypeInv
  <1>4. CASE ~(\E q \in Runs : Start(q) \/ Progress(q) \/ Deviates(q))
    <2>1. UNCHANGED remote
      BY <1>4 DEF Next, vars, RunStep, Store, Record, RecordLost, Register, Disable, Enable, CycleStep, Claim,
                  Begins, Ask, AskFails, Abandon, Commit, Deploy, Stop, LeaseExpires, DiscoveryComesDue, FastComesDue
    <2>. QED  BY <1>1, <2>1
  <1>. QED  BY <1>2, <1>3, <1>4

\* Rows change when a run is recorded, and when a cycle commits under its lease.
LEMMA RowSteps ==
    ASSUME [Next]_vars
    PROVE  \/ UNCHANGED row
           \/ \E q \in Runs : /\ Record(q)
                              /\ row' = [row EXCEPT ![q] =
                                    [status |-> IF row[q].status = "absent" THEN local[q] ELSE row[q].status,
                                     synced |-> FALSE, bound |-> TRUE]]
           \/ \E p \in Processes : Commit(p) /\ Holds(p) /\ row' = Applied(cycle[p]) /\ lease' = Free
  <1>1. ASSUME NEW q \in Runs, Record(q), row' # row
        PROVE  row' = [row EXCEPT ![q] = [status |-> IF row[q].status = "absent" THEN local[q] ELSE row[q].status,
                                          synced |-> FALSE, bound |-> TRUE]]
    BY <1>1 DEF Record
  <1>2. ASSUME NEW p \in Processes, Commit(p), row' # row
        PROVE  Holds(p) /\ row' = Applied(cycle[p]) /\ lease' = Free
    BY <1>2 DEF Commit, Fenced
  <1>3. CASE ~(\E q \in Runs : Record(q)) /\ ~(\E p \in Processes : Commit(p))
    BY <1>3 DEF Next, vars, RunStep, Start, Progress, Deviates, Becomes, Store, RecordLost, Register, Disable, Enable,
                CycleStep, Claim, Ask, AskFails, Abandon, Deploy, Stop, LeaseExpires, DiscoveryComesDue, FastComesDue
  <1>. QED  BY <1>1, <1>2, <1>3

LEMMA LocalBehind ==
    ASSUME TypeInv, BehindInv, [Next]_vars, NEW r \in Runs
    PROVE  Rank(local'[r]) <= Rank(remote'[r])
  <1>1. Rank(remote[r]) <= Rank(remote'[r]) /\ Rank(local[r]) <= Rank(remote[r])
    BY RemoteForward DEF BehindInv
  <1>2. Rank(local'[r]) = Rank(local[r]) \/ Rank(local'[r]) = 0 \/ (local'[r] = remote[r])
    <2>1. CASE UNCHANGED local
      BY <2>1
    <2>2. ASSUME NEW q \in Runs, Start(q)
          PROVE  local' = local \/ local' = [local EXCEPT ![q] = "triggered"]
      BY <2>2 DEF Start, TypeInv
    <2>3. ASSUME NEW q \in Runs, NEW s, Store(q, s)
          PROVE  local' = [local EXCEPT ![q] = s] /\ s \in {"missing", remote[q]}
      BY <2>3 DEF Store
    <2>4. ASSUME NEW q \in Runs, Record(q) \/ RecordLost(q)
          PROVE  local' = [local EXCEPT ![q] = "recorded"]
      BY <2>4 DEF Record, RecordLost
    <2>5. Rank("triggered") = 0 /\ Rank("missing") = 0 /\ Rank("recorded") = 0
      BY DEF Rank, Terminal
    <2>6. \/ UNCHANGED local
          \/ \E q \in Runs : Start(q) \/ Record(q) \/ RecordLost(q) \/ \E s : Store(q, s)
      BY DEF Next, vars, RunStep, Progress, Deviates, Becomes, Register, Disable, Enable, CycleStep, Claim,
             Ask, AskFails, Abandon, Commit, Deploy, Stop, LeaseExpires, DiscoveryComesDue, FastComesDue
    <2>7. ASSUME NEW q \in Runs, NEW s, local' = [local EXCEPT ![q] = s], Rank(s) = 0 \/ s = remote[q]
          PROVE  Rank(local'[r]) = Rank(local[r]) \/ Rank(local'[r]) = 0 \/ (local'[r] = remote[r])
      BY <2>7 DEF TypeInv
    <2>. QED  BY <2>1, <2>2, <2>3, <2>4, <2>5, <2>6, <2>7
  <1>. QED  BY <1>1, <1>2, RankType

LEMMA SeenBehind ==
    ASSUME TypeInv, AskingInv, BehindInv, [Next]_vars, NEW r \in Runs, NEW p \in Processes
    PROVE  Rank(cycle'[p].seen[r]) <= Rank(remote'[r])
  <1>1. Rank(remote[r]) <= Rank(remote'[r]) /\ Rank(cycle[p].seen[r]) <= Rank(remote[r])
    BY RemoteForward DEF BehindInv
  <1>2. cycle'[p].seen[r] \in {cycle[p].seen[r], "absent", remote[r]}
    <2>1. CASE UNCHANGED vars
      BY <2>1 DEF vars
    <2>2. CASE Elsewhere
      BY <2>2, CyclesKept DEF Kept
    <2>3. ASSUME NEW q \in Processes, Claim(q) PROVE cycle'[p].seen[r] \in {cycle[p].seen[r], "absent"}
      <3>1. PICK requests, fast : Begins(q, requests, fast)
        BY <2>3, ClaimEffect
      <3>. QED  BY <3>1, BeginsEffect
    <2>4. ASSUME NEW q \in Processes, Ask(q) PROVE cycle'[p].seen[r] \in {cycle[p].seen[r], remote[r]}
      BY <2>4, AskEffect, AnswerEffect
    <2>5. ASSUME NEW q \in Processes, AskFails(q) PROVE cycle'[p].seen[r] = cycle[p].seen[r]
      BY <2>5, AskFailsEffect, AnswerEffect
    <2>6. ASSUME NEW q \in Processes, Abandon(q) \/ Commit(q) \/ Stop(q)
          PROVE  cycle'[p].seen[r] \in {cycle[p].seen[r], "absent"}
      <3>1. NoCycle.seen[r] = "absent"
        BY DEF NoCycle
      <3>. QED  BY <2>6, <3>1, EndEffect
    <2>. QED  BY <2>1, <2>2, <2>3, <2>4, <2>5, <2>6, StepKinds
  <1>3. Rank("absent") = 0
    BY DEF Rank, Terminal
  <1>. QED  BY <1>1, <1>2, <1>3, RankType

LEMMA RowBehind ==
    ASSUME TypeInv, BehindInv, [Next]_vars, NEW r \in Runs
    PROVE  Rank(row'[r].status) <= Rank(remote'[r])
  <1>1. /\ Rank(remote[r]) <= Rank(remote'[r]) /\ Rank(row[r].status) <= Rank(remote[r])
        /\ Rank(local[r]) <= Rank(remote[r])
        /\ \A p \in Processes : Rank(cycle[p].seen[r]) <= Rank(remote[r])
    BY RemoteForward DEF BehindInv
  <1>2. row'[r].status \in {row[r].status, local[r]} \cup {cycle[p].seen[r] : p \in Processes}
    <2>1. CASE UNCHANGED row
      BY <2>1
    <2>2. ASSUME NEW q \in Runs,
                 row' = [row EXCEPT ![q] = [status |-> IF row[q].status = "absent" THEN local[q] ELSE row[q].status,
                                            synced |-> FALSE, bound |-> TRUE]]
          PROVE  row'[r].status \in {row[r].status, local[r]}
      BY <2>2 DEF TypeInv
    <2>3. ASSUME NEW p \in Processes, row' = Applied(cycle[p])
          PROVE  row'[r].status \in {row[r].status, cycle[p].seen[r]}
      BY <2>3 DEF Applied
    <2>. QED  BY <2>1, <2>2, <2>3, RowSteps
  <1>. QED  BY <1>1, <1>2, RankType

\* A row that a list confirmed and that a transition writes again keeps up with what is seen.
LEMMA HolderStep == TypeInv /\ AskingInv /\ BehindInv /\ HolderInv /\ [Next]_vars => HolderInv'
  <1>. SUFFICES ASSUME TypeInv, AskingInv, BehindInv, HolderInv, [Next]_vars,
                       NEW p \in Processes, NEW r \in Runs,
                       Holds(p)', cycle'[p].at # "idle", cycle'[p].seen[r] # "absent", row'[r].synced
                PROVE  Rank(row'[r].status) <= Rank(cycle'[p].seen[r])
    BY DEF HolderInv
  <1>0. lease' = [holder |-> p, live |-> TRUE] /\ lease' # Free
    BY ProcessesAssumption DEF Holds, Free
  <1>1. row'[r] = row[r]
    <2>1. ASSUME NEW q \in Runs,
                 row' = [row EXCEPT ![q] = [status |-> IF row[q].status = "absent" THEN local[q] ELSE row[q].status,
                                            synced |-> FALSE, bound |-> TRUE]]
          PROVE  row'[r] = row[r]
      <3>1. CASE q = r
        BY <2>1, <3>1 DEF TypeInv
      <3>2. CASE q # r
        BY <2>1, <3>2 DEF TypeInv
      <3>. QED  BY <3>1, <3>2
    <2>. QED  BY <1>0, <2>1, RowSteps
  <1>2. ASSUME Holds(p), cycle[p].at # "idle", cycle'[p].seen[r] = cycle[p].seen[r]
        PROVE  Rank(row'[r].status) <= Rank(cycle'[p].seen[r])
    BY <1>1, <1>2 DEF HolderInv
  <1>3. CASE UNCHANGED vars
    BY <1>0, <1>2, <1>3 DEF vars, Holds
  <1>4. CASE Elsewhere
    <2>1. lease' = lease \/ ~lease'.live
      BY <1>4 DEF Elsewhere, RunStep, Start, Progress, Deviates, Becomes, Store, Record, RecordLost, Register,
                  Disable, Enable, Deploy, LeaseExpires, DiscoveryComesDue, FastComesDue, TypeInv, LeaseType
    <2>. QED  BY <1>0, <1>2, <1>4, <2>1, CyclesKept DEF Kept, Holds
  <1>5. ASSUME NEW q \in Processes, Claim(q) PROVE Rank(row'[r].status) <= Rank(cycle'[p].seen[r])
    <2>1. PICK requests, fast : Begins(q, requests, fast)
      BY <1>5, ClaimEffect
    <2>2. q = p
      BY <1>0, <2>1, BeginsEffect
    <2>. QED  BY <2>1, <2>2, BeginsEffect
  <1>6. ASSUME NEW q \in Processes, Ask(q) \/ AskFails(q) PROVE Rank(row'[r].status) <= Rank(cycle'[p].seen[r])
    <2>1. Holds(p) /\ q = p /\ cycle[p].at = "asking"
      BY <1>0, <1>6, AnswerEffect DEF Holds
    <2>2. cycle'[p].seen[r] \in {cycle[p].seen[r], remote[r]}
      BY <1>6, <2>1, AskEffect, AskFailsEffect
    <2>3. Rank(row'[r].status) <= Rank(remote[r])
      BY <1>1 DEF BehindInv
    <2>. QED  BY <1>2, <2>1, <2>2, <2>3
  <1>7. ASSUME NEW q \in Processes, Abandon(q) \/ Commit(q) \/ Stop(q)
        PROVE  Rank(row'[r].status) <= Rank(cycle'[p].seen[r])
    <2>1. q # p
      BY <1>7, EndEffect DEF NoCycle
    <2>2. cycle'[p] = cycle[p] /\ lease' = lease
      BY <1>0, <1>7, <2>1, EndEffect
    <2>. QED  BY <1>0, <1>2, <2>2 DEF Holds
  <1>. QED  BY <1>3, <1>4, <1>5, <1>6, <1>7, StepKinds

RegressInv == BehindInv /\ HolderInv

LEMMA RegressInit == Init => RegressInv
  <1>. SUFFICES ASSUME Init PROVE RegressInv
    OBVIOUS
  <1>1. \A s \in {"absent", "foreign"} : Rank(s) = 0
    BY DEF Rank, Terminal
  <1>. QED  BY <1>1 DEF Init, RegressInv, BehindInv, HolderInv, NoRow, NoCycle

LEMMA RegressStep == TypeInv /\ AskingInv /\ RegressInv /\ [Next]_vars => RegressInv'
  BY LocalBehind, SeenBehind, RowBehind, HolderStep DEF RegressInv, BehindInv

\* A row that a list confirmed goes only forward, and a final one stays: what the holder of
\* the lease has seen is never older than a row that somebody else confirmed.
THEOREM RowsGoForward == Spec => RowsNeverRegress
  <1>1. TypeInv /\ RegressInv /\ [Next]_vars =>
            [\A r \in Runs : /\ row[r].synced => Rank(row'[r].status) >= Rank(row[r].status)
                             /\ row[r].status \in Terminal => row'[r].status = row[r].status]_row
    <2>. SUFFICES ASSUME TypeInv, RegressInv, [Next]_vars, row' # row, NEW r \in Runs
                  PROVE  /\ row[r].synced => Rank(row'[r].status) >= Rank(row[r].status)
                         /\ row[r].status \in Terminal => row'[r].status = row[r].status
      OBVIOUS
    <2>1. ASSUME NEW q \in Runs, Record(q),
                 row' = [row EXCEPT ![q] = [status |-> IF row[q].status = "absent" THEN local[q] ELSE row[q].status,
                                            synced |-> FALSE, bound |-> TRUE]]
          PROVE  row'[r].status = row[r].status \/ row[r].status = "absent"
      BY <2>1 DEF TypeInv
    <2>2. ASSUME NEW p \in Processes, Commit(p), Holds(p), row' = Applied(cycle[p])
          PROVE  /\ row[r].synced => Rank(row'[r].status) >= Rank(row[r].status)
                 /\ row[r].status \in Terminal => row'[r].status = row[r].status
      <3>1. CASE row[r].status \in Terminal \/ cycle[p].seen[r] = "absent"
        <4>1. row'[r].status = row[r].status
          BY <2>2, <3>1 DEF Applied
        <4>. QED  BY <4>1, RankType
      <3>2. CASE row[r].status \notin Terminal /\ cycle[p].seen[r] # "absent"
        <4>1. row'[r].status = cycle[p].seen[r]
          BY <2>2, <3>2 DEF Applied
        <4>2. cycle[p].at # "idle"
          BY <2>2 DEF Commit
        <4>. QED  BY <2>2, <3>2, <4>1, <4>2, RankType DEF RegressInv, HolderInv
      <3>. QED  BY <3>1, <3>2
    <2>3. Rank("absent") = 0 /\ "absent" \notin Terminal
      BY DEF Rank, Terminal
    <2>. QED  BY <2>1, <2>2, <2>3, RankType, RowSteps
  <1>. QED  BY <1>1, RegressInit, RegressStep, TypesAreKept, PTL DEF Spec, RowsNeverRegress

-----------------------------------------------------------------------------
(* What a discovery proves.                                                 *)

\* A discovery in progress, and how far it has come.
Discovers(p) == cycle[p].at # "idle" /\ cycle[p].fast = {}

Remains(k) == CASE k = 4 -> Discovery
                [] k = 3 -> <<"PENDING", "RUNNING", "PAUSED">>
                [] k = 2 -> <<"RUNNING", "PAUSED">>
                [] k = 1 -> <<"PAUSED">>
                [] k = 0 -> <<>>

Place(kind) == CASE kind = "ANY" -> 4 [] kind = "PENDING" -> 3 [] kind = "RUNNING" -> 2 [] kind = "PAUSED" -> 1

\* A list is there when it has been asked for.
OrderInv ==
    \A p \in Processes : Discovers(p) =>
        /\ cycle[p].cached = {}
        /\ cycle[p].at = "committing" => cycle[p].requests = <<>>
        /\ \E n \in 0..4 : /\ cycle[p].requests = Remains(n)
                           /\ \A k \in Kinds : cycle[p].lists[k] = "none" <=> Place(k) <= n

\* What the exact lists say of a run that was at work all the time: one list after the
\* other has it, or it has moved on to a status that is still to be asked for.
Shown(r, remotely, seen, lists) ==
    /\ remotely \in Nonterminal /\ seen \notin Terminal
    /\ lists["ANY"] = "exact" => seen # "absent"
    /\ lists["PENDING"] = "exact" => (seen # "absent" \/ remotely \in {"RUNNING", "PAUSED"})
    /\ (lists["PENDING"] = "exact" /\ lists["RUNNING"] = "exact")
           => (seen # "absent" \/ remotely = "PAUSED")
    /\ (\A k \in Nonterminal : lists[k] = "exact") => seen # "absent"

ShownInv ==
    \A p \in Processes : Discovers(p) =>
        \A r \in cycle[p].steady : Shown(r, remote[r], cycle[p].seen[r], cycle[p].lists)

LEMMA RemainsTail ==
    ASSUME NEW n \in 1..4
    PROVE  /\ Tail(Remains(n)) = Remains(n - 1) /\ Remains(n) # <<>>
           /\ Head(Remains(n)) \in Kinds /\ Place(Head(Remains(n))) = n
           /\ \A k \in Kinds : Place(k) = n => k = Head(Remains(n))
  <1>1. CASE n = 4
    BY <1>1 DEF Remains, Discovery, Place, Kinds, Nonterminal
  <1>2. CASE n = 3
    BY <1>2 DEF Remains, Discovery, Place, Kinds, Nonterminal
  <1>3. CASE n = 2
    BY <1>3 DEF Remains, Discovery, Place, Kinds, Nonterminal
  <1>4. CASE n = 1
    BY <1>4 DEF Remains, Discovery, Place, Kinds, Nonterminal
  <1>. QED  BY <1>1, <1>2, <1>3, <1>4

LEMMA PlaceType == \A k \in Kinds : Place(k) \in 1..4
  BY DEF Kinds, Nonterminal, Place

LEMMA OrderStep == TypeInv /\ AskingInv /\ OrderInv /\ [Next]_vars => OrderInv'
  <1>. SUFFICES ASSUME TypeInv, AskingInv, OrderInv, [Next]_vars, NEW p \in Processes, Discovers(p)'
                PROVE  /\ cycle'[p].cached = {}
                       /\ cycle'[p].at = "committing" => cycle'[p].requests = <<>>
                       /\ \E n \in 0..4 : /\ cycle'[p].requests = Remains(n)
                                          /\ \A k \in Kinds : cycle'[p].lists[k] = "none" <=> Place(k) <= n
    BY DEF OrderInv
  <1>. DEFINE Goal == /\ cycle'[p].cached = {}
                      /\ cycle'[p].at = "committing" => cycle'[p].requests = <<>>
                      /\ \E n \in 0..4 : /\ cycle'[p].requests = Remains(n)
                                         /\ \A k \in Kinds : cycle'[p].lists[k] = "none" <=> Place(k) <= n
  <1>1. CASE cycle'[p] = cycle[p]
    BY <1>1 DEF OrderInv, Discovers
  <1>2. CASE Elsewhere
    BY <1>2, CyclesKept DEF Kept, OrderInv, Discovers
  <1>3. ASSUME NEW q \in Processes, Claim(q) PROVE Goal
    <2>1. CASE q # p
      <3>1. cycle'[p] = cycle[p]
        BY <1>3, <2>1, ClaimEffect, BeginsEffect
      <3>. QED  BY <1>1, <3>1
    <2>2. CASE q = p
      <3>1. Begins(p, Discovery, {})
        <4>1. ASSUME NEW fast, NEW requests, fast # {}, Begins(p, requests, fast) PROVE FALSE
          BY <4>1, BeginsEffect DEF Discovers
        <4>. QED  BY <1>3, <2>2, <4>1, ClaimEffect
      <3>2. cycle'[p].requests = Remains(4)
        BY <3>1, BeginsEffect DEF Remains
      <3>3. \A k \in Kinds : cycle'[p].lists[k] = "none" <=> Place(k) <= 4
        BY <3>1, BeginsEffect, PlaceType
      <3>4. cycle'[p].cached = {} /\ cycle'[p].at = "asking"
        BY <3>1, BeginsEffect
      <3>. QED  BY <3>2, <3>3, <3>4
    <2>. QED  BY <2>1, <2>2
  <1>4. ASSUME NEW q \in Processes, Ask(q) \/ AskFails(q) PROVE Goal
    <2>1. CASE q # p
      <3>1. cycle'[p] = cycle[p]
        BY <1>4, <2>1, AnswerEffect
      <3>. QED  BY <1>1, <3>1
    <2>2. CASE q = p
      <3>1. /\ cycle'[p].fast = cycle[p].fast /\ cycle'[p].cached = cycle[p].cached
            /\ cycle'[p].requests = Remaining(p, cycle'[p].seen)
            /\ cycle'[p].at = (IF cycle'[p].requests = <<>> THEN "committing" ELSE "asking")
            /\ cycle[p].at = "asking"
        BY <1>4, <2>2, AnswerEffect
      <3>2. Discovers(p)
        BY <3>1 DEF Discovers
      <3>3. PICK n \in 0..4 : /\ cycle[p].requests = Remains(n)
                              /\ \A k \in Kinds : cycle[p].lists[k] = "none" <=> Place(k) <= n
        BY <3>2 DEF OrderInv
      <3>4. n \in 1..4
        <4>1. Remains(0) = <<>>
          BY DEF Remains
        <4>. QED  BY <3>1, <3>3, <4>1 DEF AskingInv
      <3>5. cycle'[p].requests = Remains(n - 1)
        <4>1. cycle[p].cached = {}
          BY <3>2 DEF OrderInv
        <4>2. cycle'[p].requests = Tail(cycle[p].requests)
          BY <3>1, <4>1 DEF Remaining
        <4>. QED  BY <3>3, <3>4, <4>2, RemainsTail
      <3>6. ASSUME NEW k \in Kinds PROVE cycle'[p].lists[k] = "none" <=> Place(k) <= n - 1
        <4>1. CASE k = Head(cycle[p].requests)
          <5>1. cycle'[p].lists[k] # "none"
            BY <1>4, <2>2, <4>1, AskEffect, AskFailsEffect
          <5>. QED  BY <3>3, <3>4, <4>1, <5>1, RemainsTail
        <4>2. CASE k # Head(cycle[p].requests)
          <5>1. cycle'[p].lists[k] = cycle[p].lists[k]
            BY <1>4, <2>2, <4>2, AskEffect, AskFailsEffect
          <5>2. Place(k) # n /\ Place(k) \in 1..4
            BY <3>3, <3>4, <4>2, RemainsTail, PlaceType
          <5>. QED  BY <3>3, <3>4, <5>1, <5>2
        <4>. QED  BY <4>1, <4>2
      <3>7. cycle'[p].cached = {} /\ (cycle'[p].at = "committing" => cycle'[p].requests = <<>>)
        BY <3>1, <3>2 DEF OrderInv
      <3>8. n - 1 \in 0..4
        BY <3>4
      <3>. QED  BY <3>5, <3>6, <3>7, <3>8
    <2>. QED  BY <2>1, <2>2
  <1>5. ASSUME NEW q \in Processes, Abandon(q) \/ Commit(q) \/ Stop(q) PROVE Goal
    <2>1. q # p
      BY <1>5, EndEffect DEF NoCycle, Discovers
    <2>2. cycle'[p] = cycle[p]
      BY <1>5, <2>1, EndEffect
    <2>. QED  BY <1>1, <2>2
  <1>6. CASE UNCHANGED vars
    BY <1>1, <1>6 DEF vars
  <1>. QED  BY <1>2, <1>3, <1>4, <1>5, <1>6, StepKinds

\* A run that stays at work and is not resumed moves towards lists that are asked for later.
LEMMA SteadyMoves ==
    ASSUME TypeInv, Elsewhere, NEW p \in Processes, NEW r \in cycle'[p].steady,
           r \in Runs, remote[r] \in Nonterminal
    PROVE  \/ remote'[r] = remote[r]
           \/ remote[r] = "PENDING" /\ remote'[r] = "RUNNING"
           \/ remote[r] = "RUNNING" /\ remote'[r] = "PAUSED"
  <1>1. ASSUME NEW q \in Runs, Start(q) PROVE remote'[r] = remote[r]
    BY <1>1 DEF Start, TypeInv, Nonterminal
  <1>2. ASSUME NEW q \in Runs, NEW s, NEW resumed, Becomes(q, s, resumed), resumed \/ s \in Terminal
        PROVE  remote'[r] = remote[r]
    <2>1. cycle'[p] = [cycle[p] EXCEPT !.steady = cycle[p].steady \ {q}]
      BY <1>2 DEF Becomes
    <2>2. cycle[p] \in CycleType
      BY DEF TypeInv
    <2>3. cycle'[p].steady = cycle[p].steady \ {q}
      BY <2>1, <2>2 DEF CycleType
    <2>4. q # r
      BY <2>3
    <2>. QED  BY <1>2, <2>4 DEF Becomes, TypeInv
  <1>3. ASSUME NEW q \in Runs, Progress(q) \/ Deviates(q)
        PROVE  \/ remote'[r] = remote[r]
               \/ remote[r] = "PENDING" /\ remote'[r] = "RUNNING"
               \/ remote[r] = "RUNNING" /\ remote'[r] = "PAUSED"
    <2>1. \/ remote[q] = "PENDING" /\ Becomes(q, "RUNNING", FALSE)
          \/ remote[q] = "RUNNING" /\ Becomes(q, "PAUSED", FALSE)
          \/ \E s, resumed : Becomes(q, s, resumed) /\ (resumed \/ s \in Terminal)
      BY <1>3 DEF Progress, Deviates, Terminal
    <2>2. ASSUME NEW s, remote' = [remote EXCEPT ![q] = s]
          PROVE  remote'[r] = remote[r] \/ (q = r /\ remote'[r] = s)
      BY <2>2 DEF TypeInv
    <2>. QED  BY <1>2, <2>1, <2>2 DEF Becomes
  <1>4. CASE ~(\E q \in Runs : Start(q) \/ Progress(q) \/ Deviates(q))
    <2>1. UNCHANGED remote
      BY <1>4 DEF Elsewhere, RunStep, Store, Record, RecordLost, Register, Disable, Enable, Deploy,
                  LeaseExpires, DiscoveryComesDue, FastComesDue
    <2>. QED  BY <2>1
  <1>. QED  BY <1>1, <1>3, <1>4

LEMMA ShownMoves ==
    ASSUME NEW r, NEW before, NEW after, NEW seen, NEW lists, Shown(r, before, seen, lists),
           \/ after = before
           \/ before = "PENDING" /\ after = "RUNNING"
           \/ before = "RUNNING" /\ after = "PAUSED"
    PROVE  Shown(r, after, seen, lists)
  BY DEF Shown, Nonterminal

LEMMA ShownStep == TypeInv /\ AskingInv /\ OrderInv /\ ShownInv /\ [Next]_vars => ShownInv'
  <1>. SUFFICES ASSUME TypeInv, AskingInv, OrderInv, ShownInv, [Next]_vars,
                       NEW p \in Processes, Discovers(p)', NEW r \in cycle'[p].steady
                PROVE  Shown(r, remote'[r], cycle'[p].seen[r], cycle'[p].lists)
    BY DEF ShownInv
  <1>0. cycle[p] \in CycleType /\ cycle[p].steady \subseteq Runs
    BY DEF TypeInv, CycleType
  <1>1. CASE cycle'[p] = cycle[p] /\ remote' = remote
    BY <1>1 DEF ShownInv, Discovers
  <1>2. CASE Elsewhere
    <2>1. Kept(p)
      BY <1>2, CyclesKept
    <2>2. r \in cycle[p].steady /\ r \in Runs /\ Shown(r, remote[r], cycle[p].seen[r], cycle[p].lists)
      BY <1>0, <2>1 DEF Kept, ShownInv, Discovers
    <2>3. remote[r] \in Nonterminal
      BY <2>2 DEF Shown
    <2>4. Shown(r, remote'[r], cycle[p].seen[r], cycle[p].lists)
      BY <1>2, <2>2, <2>3, SteadyMoves, ShownMoves
    <2>. QED  BY <2>1, <2>4 DEF Kept
  <1>3. ASSUME NEW q \in Processes, Claim(q) PROVE Shown(r, remote'[r], cycle'[p].seen[r], cycle'[p].lists)
    <2>0. PICK requests, fast : Begins(q, requests, fast)
      BY <1>3, ClaimEffect
    <2>1. remote' = remote
      BY <1>3 DEF Claim
    <2>2. CASE q # p
      BY <1>1, <2>0, <2>1, <2>2, BeginsEffect
    <2>3. CASE q = p
      <3>1. /\ cycle'[p].seen = [x \in Runs |-> "absent"] /\ cycle'[p].lists = [k \in Kinds |-> "none"]
            /\ cycle'[p].steady = {x \in Runs : remote[x] \in Nonterminal}
        BY <2>0, <2>3, BeginsEffect
      <3>2. r \in Runs /\ remote[r] \in Nonterminal /\ cycle'[p].seen[r] = "absent"
        BY <3>1
      <3>3. \A k \in Nonterminal \cup {"ANY"} : cycle'[p].lists[k] = "none"
        BY <3>1 DEF Kinds
      <3>. QED  BY <2>1, <3>2, <3>3 DEF Shown, Nonterminal, Terminal
    <2>. QED  BY <2>2, <2>3
  <1>4. ASSUME NEW q \in Processes, Ask(q) \/ AskFails(q)
        PROVE  Shown(r, remote'[r], cycle'[p].seen[r], cycle'[p].lists)
    <2>1. CASE q # p
      BY <1>1, <1>4, <2>1, AnswerEffect
    <2>2. CASE q = p
      <3>. DEFINE kind == Head(cycle[p].requests)
      <3>1. /\ cycle'[p].steady = cycle[p].steady /\ cycle'[p].fast = cycle[p].fast
            /\ cycle[p].at = "asking" /\ remote' = remote
        BY <1>4, <2>2, AnswerEffect
      <3>2. Discovers(p)
        BY <3>1 DEF Discovers
      <3>3. r \in Runs /\ Shown(r, remote[r], cycle[p].seen[r], cycle[p].lists)
        BY <1>0, <3>1, <3>2 DEF ShownInv
      <3>4. /\ kind \in Kinds /\ cycle'[p].lists[kind] # "none"
            /\ \A k \in Kinds : k # kind => cycle'[p].lists[k] = cycle[p].lists[k]
        BY <1>4, <2>2, AskEffect, AskFailsEffect
      \* What was seen stays seen, and an exact list has every run of its status.
      <3>5. /\ cycle'[p].seen[r] \in {cycle[p].seen[r], remote[r]}
            /\ cycle[p].seen[r] # "absent" => cycle'[p].seen[r] # "absent"
            /\ (cycle'[p].lists[kind] = "exact" /\ kind \in {"ANY", remote[r]}) => cycle'[p].seen[r] # "absent"
        <4>1. remote[r] \in Nonterminal /\ cycle[p].seen[r] \notin Terminal /\ "absent" \notin Nonterminal
          BY <3>3 DEF Shown, Nonterminal
        <4>2. CASE Ask(p)
          <5>1. cycle'[p].seen[r] = IF r \in Listed(kind) THEN remote[r] ELSE cycle[p].seen[r]
            BY <3>3, <4>1, <4>2, AskEffect
          <5>2. (cycle'[p].lists[kind] = "exact" /\ kind \in {"ANY", remote[r]}) => r \in Listed(kind)
            <6>1. cycle'[p].lists[kind] = "exact" => Listed(kind) = Of(kind)
              BY <4>2, AskEffect
            <6>2. kind \in {"ANY", remote[r]} => r \in Of(kind)
              BY <3>3, <4>1 DEF Of
            <6>. QED  BY <6>1, <6>2
          <5>. QED  BY <4>1, <5>1, <5>2
        <4>3. CASE AskFails(p)
          BY <4>3, AskFailsEffect
        <4>. QED  BY <1>4, <2>2, <4>2, <4>3
      \* The lists of the statuses that come later are not there yet.
      <3>6. /\ kind = "PENDING" => cycle'[p].lists["RUNNING"] = "none"
            /\ kind \in {"PENDING", "RUNNING"} => cycle'[p].lists["PAUSED"] = "none"
        <4>1. PICK n \in 0..4 : /\ cycle[p].requests = Remains(n)
                                /\ \A k \in Kinds : cycle[p].lists[k] = "none" <=> Place(k) <= n
          BY <3>2 DEF OrderInv
        <4>2. n \in 1..4
          <5>1. Remains(0) = <<>>
            BY DEF Remains
          <5>. QED  BY <3>1, <4>1, <5>1 DEF AskingInv
        <4>3. Place(kind) = n
          BY <4>1, <4>2, RemainsTail
        <4>4. Place("PENDING") = 3 /\ Place("RUNNING") = 2 /\ Place("PAUSED") = 1
          BY DEF Place
        <4>5. {"PENDING", "RUNNING", "PAUSED"} \subseteq Kinds
          BY DEF Kinds, Nonterminal
        <4>. HIDE DEF kind
        <4>6. CASE kind = "PENDING"
          BY <3>4, <4>1, <4>3, <4>4, <4>5, <4>6
        <4>7. CASE kind = "RUNNING"
          BY <3>4, <4>1, <4>3, <4>4, <4>5, <4>7
        <4>. QED  BY <4>6, <4>7
      <3>. HIDE DEF kind
      <3>7. cycle'[p].seen[r] \notin Terminal
        BY <3>3, <3>5 DEF Shown, Nonterminal, Terminal
      <3>. QED  BY <3>1, <3>3, <3>4, <3>5, <3>6, <3>7 DEF Shown, Kinds, Nonterminal
    <2>. QED  BY <2>1, <2>2
  <1>5. ASSUME NEW q \in Processes, Abandon(q) \/ Commit(q) \/ Stop(q)
        PROVE  Shown(r, remote'[r], cycle'[p].seen[r], cycle'[p].lists)
    <2>1. q # p
      BY <1>5, EndEffect DEF NoCycle, Discovers
    <2>2. cycle'[p] = cycle[p] /\ remote' = remote
      BY <1>5, <2>1, EndEffect DEF Abandon, Commit, Stop
    <2>. QED  BY <1>1, <2>2
  <1>6. CASE UNCHANGED vars
    BY <1>1, <1>6 DEF vars
  <1>. QED  BY <1>2, <1>3, <1>4, <1>5, <1>6, StepKinds

LEMMA DiscoveryInit == Init => OrderInv /\ ShownInv
  BY DEF Init, OrderInv, ShownInv, Discovers, NoCycle

\* Only a commit under its lease gives back the lease of a cycle that is about to commit.
LEMMA Committed ==
    ASSUME TypeInv, [Next]_vars, NEW p \in Processes,
           cycle[p].at = "committing", Holds(p), lease' = Free
    PROVE  Commit(p) /\ Fenced(p)
  <1>1. lease # Free /\ lease.holder = p /\ lease'.holder = Nobody
    BY ProcessesAssumption DEF Holds, Free
  <1>2. ~UNCHANGED lease
    BY <1>1
  <1>3. ASSUME NEW q \in Processes, Commit(q) PROVE q = p
    BY <1>1, <1>2, <1>3 DEF Commit, Fenced, Holds
  <1>4. ASSUME NEW q \in Processes, Claim(q) PROVE FALSE
    <2>1. PICK requests, fast : Begins(q, requests, fast)
      BY <1>4, ClaimEffect
    <2>2. lease'.holder = q
      BY <2>1 DEF Begins
    <2>. QED  BY <1>1, <2>2, ProcessesAssumption
  <1>5. ASSUME NEW q \in Processes, Stop(q) PROVE FALSE
    BY <1>1, <1>2, <1>5 DEF Stop, Holds
  <1>6. ASSUME NEW q \in Processes, Abandon(q) PROVE FALSE
    <2>1. q = p
      BY <1>1, <1>2, <1>6 DEF Abandon
    <2>. QED  BY <1>6, <2>1 DEF Abandon
  <1>7. ~LeaseExpires
    BY <1>1, ProcessesAssumption DEF LeaseExpires, TypeInv, LeaseType
  <1>8. \/ UNCHANGED lease \/ LeaseExpires
        \/ \E q \in Processes : Claim(q) \/ Abandon(q) \/ Commit(q) \/ Stop(q)
    BY DEF Next, vars, RunStep, Start, Progress, Deviates, Becomes, Store, Record, RecordLost, Register, Disable,
           Enable, CycleStep, Ask, AskFails, Deploy, DiscoveryComesDue, FastComesDue
  <1>. QED  BY <1>2, <1>3, <1>4, <1>5, <1>6, <1>7, <1>8 DEF Fenced

\* A discovery that ends as a complete proof has every run that was at work all the time: the
\* lists are asked for in the order in which runs move through them, so what an earlier list
\* had not yet a later one has, unless the unfiltered list had it.
THEOREM DiscoveryMissesNothing == Spec => ProofMissesNothing
  <1>1. TypeInv /\ AskingInv /\ OrderInv /\ ShownInv /\ [Next]_vars =>
            [\A p \in Processes :
               (cycle[p].at = "committing" /\ cycle[p].fast = {} /\ Holds(p) /\ lease' = Free /\ state'.complete)
                 => \A r \in cycle[p].steady : row'[r].status \in Nonterminal]_vars
    <2>. SUFFICES ASSUME TypeInv, OrderInv, ShownInv, [Next]_vars, NEW p \in Processes,
                         cycle[p].at = "committing", cycle[p].fast = {}, Holds(p), lease' = Free, state'.complete,
                         NEW r \in cycle[p].steady
                  PROVE  row'[r].status \in Nonterminal
      OBVIOUS
    <2>. DEFINE c == cycle[p]
    <2>1. Discovers(p) /\ r \in Runs
      BY DEF Discovers, TypeInv, CycleType
    <2>2. Shown(r, remote[r], c.seen[r], c.lists)
      BY <2>1 DEF ShownInv
    <2>3. row' = Applied(c) /\ Complete(c, Quality(c))
      <3>. DEFINE complete == Complete(c, Quality(c))
      <3>1. row' = Applied(c)
        BY Committed DEF Commit
      <3>2. state' = [pending |-> state.pending /\ ~complete, complete |-> complete, quality |-> Quality(c),
                      discovery |-> NextDiscovery(c), fast |-> NextFast(c, complete)]
        BY Committed DEF Commit
      <3>. HIDE DEF complete
      <3>3. complete
        BY <3>2
      <3>. QED  BY <3>1, <3>3 DEF complete
    <2>4. Conflicts(c) = {} /\ \A s \in Nonterminal : Quality(c)[s] = "exact"
      BY <2>3 DEF Complete
    \* Every list has been asked for, so an exact quality comes from this discovery's lists.
    <2>5. \A k \in Kinds : c.lists[k] # "none"
      <3>1. PICK n \in 0..4 : /\ c.requests = Remains(n)
                              /\ \A k \in Kinds : c.lists[k] = "none" <=> Place(k) <= n
        BY <2>1 DEF OrderInv
      <3>2. c.requests = <<>>
        BY <2>1 DEF OrderInv
      <3>3. n = 0
        <4>1. ASSUME n \in 1..4 PROVE FALSE
          <5>1. Remains(n) # <<>>
            BY <4>1, RemainsTail
          <5>. QED  BY <3>1, <3>2, <5>1
        <4>2. n \in 0..4
          BY <3>1
        <4>. QED  BY <4>1, <4>2
      <3>. QED  BY <3>1, <3>3, PlaceType
    <2>6. c.lists["ANY"] = "exact" \/ \A s \in Nonterminal : c.lists[s] = "exact"
      <3>1. CASE AllListed(c)
        BY <3>1 DEF AllListed
      <3>2. ASSUME ~AllListed(c), NEW s \in Nonterminal PROVE c.lists[s] = "exact"
        <4>1. s \in Kinds /\ Quality(c)[s] = "exact"
          BY <2>4, <3>2 DEF Kinds
        <4>. HIDE DEF c
        <4>. QED  BY <2>5, <3>2, <4>1 DEF Quality, Doubt
      <3>. QED  BY <3>1, <3>2
    <2>7. c.seen[r] # "absent"
      BY <2>2, <2>6 DEF Shown
    <2>8. c.seen[r] \in Nonterminal
      BY <2>1, <2>2, <2>7 DEF Shown, TypeInv, CycleType, Statuses
    <2>9. row[r].status \notin Terminal
      BY <2>1, <2>4, <2>8 DEF Conflicts, Nonterminal, Terminal
    <2>. QED  BY <2>1, <2>3, <2>7, <2>8, <2>9 DEF Applied
  <1>. QED  BY <1>1, DiscoveryInit, OrderStep, ShownStep, TypesAreKept, PTL DEF Spec, ProofMissesNothing
=============================================================================
