------------------------- MODULE MCTaskPreparation -------------------------
(* Model values for the instances of TaskPreparation that TLC checks.       *)
EXTENDS TaskPreparation, TLC
CONSTANTS
    d1, d2, p1, p2, h1, h2, w1, w2, o1, o2,
    MaxBusy        \* bound: requests, polls and open pages at one moment

OneDefinition  == {d1}
TwoDefinitions == {d1, d2}
OneId          == {p1}
TwoIds         == {p1, p2}
OneHandler     == {h1}
TwoHandlers    == {h1, h2}
OnePoller      == {w1}
TwoPollers     == {w1, w2}
NoPoller       == {}
OneOperator    == {o1}
TwoOperators   == {o1, o2}
AnyOwner       == {"none", "human", "agent"}
CallsOnly      == {"none"}
CallsAndAgents == {"none", "agent"}

\* Which requests, pollers, operators, ids and definitions these are is all the same.
Symmetry == UNION {Permutations(S) : S \in {Handlers, Pollers, Operators}}

\* Interleavings of MaxBusy actors, whichever they are.
NotCrowded ==
    Cardinality({h \in Handlers : handler[h].pc # "idle"})
        + Cardinality({w \in Pollers : poll[w].pc # "idle"})
        + Cardinality({o \in Operators : desk[o] # NoView}) <= MaxBusy
=============================================================================
