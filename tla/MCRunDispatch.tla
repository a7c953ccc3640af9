--------------------------- MODULE MCRunDispatch ---------------------------
(* Model values for the instances of RunDispatch that TLC checks.           *)
EXTENDS RunDispatch, TLC
CONSTANTS
    m1, m2, p1, p2, q1, q2, o1, o2,
    MaxBusy        \* bound: scheduler passes and reconciliations at one moment

OneMerchant  == {m1}
TwoMerchants == {m1, m2}
OneId        == {p1}
TwoIds       == {p1, p2}
OnePoller    == {q1}
TwoPollers   == {q1, q2}
OneOperator  == {o1}
TwoOperators == {o1, o2}
NoOperator   == {}

\* Which merchants, ids, pollers and operators these are is all the same.
Symmetry == UNION {Permutations(S) : S \in {Merchants, ProviderIds, Pollers, Operators}}

\* Interleavings of MaxBusy actors, whichever they are.
NotCrowded ==
    Cardinality({q \in Pollers : poll[q].pc # "idle"})
        + Cardinality({o \in Operators : desk[o] # Idle}) <= MaxBusy
=============================================================================
