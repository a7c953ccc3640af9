---------------------------- MODULE MCFalconScan ----------------------------
(* Model values for the instances of FalconScan that TLC checks.            *)
EXTENDS FalconScan, TLC
CONSTANTS p1, p2, q1, q2, w1

OnePlace    == {p1}
TwoPlaces   == {p1, p2}
OneRequest  == {q1}
TwoRequests == {q1, q2}
OneWorker   == {w1}

\* Three local keywords, two of which score alike; the cohort is the best two.
Scored   == [score |-> <<5, 9, 5>>, rest |-> TRUE]
\* A local keyword without a score: FBR may hold such a set, the Skills may not make one.
Unscored == [score |-> <<5, -1, 5>>, rest |-> TRUE]
SomeSets == {Scored, Unscored}

CONSTANTS
    MaxEvents,     \* bound: what happens to the merchant, beyond what follows from it
    MaxClaims      \* bound: refreshes and regenerations

Number(P) == IF P THEN 1 ELSE 0
Made   == {a \in Artifacts \ {1} : artifact[a].kind # "absent"}
Claims == {a \in Made : artifact[a].cycle = a}

\* The later stages of a cycle of an earlier release count once.
Events == crashes + moves + (generation - 1) + Number(sync # NoSync) + Number(synced # "absent")
          + Cardinality(Claims) + Number(Made # Claims)
          + Cardinality({b \in Batches : batch[b].status # "absent"})

FewEvents == Events <= MaxEvents /\ Cardinality(Claims) <= MaxClaims

Symmetry == Permutations(Places) \cup Permutations(Requests)
=============================================================================
