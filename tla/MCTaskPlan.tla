----------------------------- MODULE MCTaskPlan -----------------------------
(* Model values for the instances of TaskPlan that TLC checks.              *)
EXTENDS TaskPlan, TLC
CONSTANTS k1, k2, k3, a, b, o1, o2

TwoKeys      == {k1, k2}
ThreeKeys    == {k1, k2, k3}
OneText      == {a}
TwoTexts     == {a, b}
OneOperator  == {o1}
TwoOperators == {o1, o2}

\* Which key and which operator it is, is all the same.  (Init chooses a text.)
Symmetry == Permutations(Keys) \cup Permutations(Operators)
=============================================================================
