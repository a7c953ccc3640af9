--------------------------- MODULE DiagnosisLane ---------------------------
(***************************************************************************)
(* What the diagnosis machinery promises a merchant, with the provider, the *)
(* network, the scheduler and the operator left out: a merchant has one     *)
(* diagnosis lane.  A run enters an empty lane of an active merchant, ends  *)
(* once, and ends well only if the merchant is still in the lifecycle the   *)
(* run entered under.  A merchant whose lane is occupied is not archived.   *)
(* RunDispatch implements it.                                               *)
(***************************************************************************)
EXTENDS Integers

CONSTANTS Merchants, Runs

VARIABLES
    active,        \* is the merchant active?
    generation,    \* how often that changed
    phase,         \* "absent", "open", "succeeded" or "failed"
    owner,         \* the merchant of a run
    under          \* the generation a run entered under

vars == <<active, generation, phase, owner, under>>

Occupied(m) == \E r \in Runs : phase[r] = "open" /\ owner[r] = m

OneOpenRun ==
    \A r, s \in Runs :
        phase[r] = "open" /\ phase[s] = "open" /\ owner[r] = owner[s] => r = s

Init ==
    /\ active = [m \in Merchants |-> TRUE]
    /\ generation \in [Merchants -> Nat]
    /\ phase \in [Runs -> {"absent", "open"}]
    /\ owner \in [Runs -> Merchants]
    /\ under \in [Runs -> Nat]
    /\ OneOpenRun

Archive(m) ==
    /\ active[m]
    /\ ~Occupied(m)
    /\ active' = [active EXCEPT ![m] = FALSE]
    /\ generation' = [generation EXCEPT ![m] = @ + 1]
    /\ UNCHANGED <<phase, owner, under>>

Restore(m) ==
    /\ ~active[m]
    /\ active' = [active EXCEPT ![m] = TRUE]
    /\ generation' = [generation EXCEPT ![m] = @ + 1]
    /\ UNCHANGED <<phase, owner, under>>

Open(r, m) ==
    /\ phase[r] = "absent"
    /\ active[m]
    /\ ~Occupied(m)
    /\ phase' = [phase EXCEPT ![r] = "open"]
    /\ owner' = [owner EXCEPT ![r] = m]
    /\ under' = [under EXCEPT ![r] = generation[m]]
    /\ UNCHANGED <<active, generation>>

Succeed(r) ==
    /\ phase[r] = "open"
    /\ active[owner[r]]
    /\ under[r] = generation[owner[r]]
    /\ phase' = [phase EXCEPT ![r] = "succeeded"]
    /\ UNCHANGED <<active, generation, owner, under>>

\* Recovery may give up several runs in one transaction.
Fail(S) ==
    /\ \A r \in S : phase[r] = "open"
    /\ phase' = [r \in Runs |-> IF r \in S THEN "failed" ELSE phase[r]]
    /\ UNCHANGED <<active, generation, owner, under>>

Next ==
    \/ \E m \in Merchants : Archive(m) \/ Restore(m)
    \/ \E r \in Runs, m \in Merchants : Open(r, m)
    \/ \E r \in Runs : Succeed(r)
    \/ \E S \in SUBSET Runs : Fail(S)

Spec == Init /\ [][Next]_vars
=============================================================================
