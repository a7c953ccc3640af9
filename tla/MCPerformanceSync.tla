------------------------- MODULE MCPerformanceSync -------------------------
(* Model values for the instances of PerformanceSync that TLC checks.       *)
EXTENDS PerformanceSync
CONSTANTS a, b, c, f1, f2, f3, l1, d1, r1

TwoLoops  == {a, b}
OneClient == {c}
ThreeFbrs == {f1, f2, f3}
Foreign   == {f3}
OneLocation  == {l1}
OneCommand   == {r1}
OneJob       == {d1}
TwoMonths    == {1, 2}

\* FBR lists every location with its place, or none.
SomeAnswers == {Empty, [l \in Locations |-> "placed"]}
=============================================================================
