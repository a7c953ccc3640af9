----------------------------- MODULE ScanLedger -----------------------------
(***************************************************************************)
(* What the paid scans of one merchant promise, without batches, leases,    *)
(* workers or crashes.                                                      *)
(*                                                                         *)
(* An operator confirms a set of keywords once.  Each is asked for at most  *)
(* once, one at a time, and no other confirmation is open meanwhile.  The   *)
(* answer acknowledges the scan or leaves it in doubt; an acknowledged scan *)
(* is only ever measured, a doubtful one never asked for again.  The        *)
(* confirmation closes when nothing is acknowledged or in doubt any more:   *)
(* all is measured, or an operator drops what was never asked for, or drops *)
(* everything because nothing was accepted.                                 *)
(***************************************************************************)
EXTENDS FiniteSets

CONSTANTS
    Requests,      \* confirmations an operator can make
    NoRequestId,   \* none is open
    Keys           \* keywords

VARIABLES
    open,          \* the confirmation in progress
    scan           \* the scan of each keyword of each confirmation

States == {"none", "queued", "asked", "doubtful", "acknowledged", "measured", "dropped"}

Init == open = NoRequestId /\ scan = [q \in Requests |-> [k \in Keys |-> "none"]]

Of(q, S) == {k \in Keys : scan[q][k] \in S}
Become(q, K, state) == scan' = [scan EXCEPT ![q] = [k \in Keys |-> IF k \in K THEN state ELSE @[k]]]

Confirm(q, K) ==
    /\ K # {} /\ Of(q, States \ {"none"}) = {}
    /\ open' = q /\ Become(q, K, "queued")

Ask(k) ==
    /\ k \in Of(open, {"queued"}) /\ Of(open, {"asked"}) = {}
    /\ Become(open, {k}, "asked") /\ UNCHANGED open

Hear(k, state) ==
    /\ k \in Of(open, {"asked"})
    /\ Become(open, {k}, state) /\ UNCHANGED open

Measure(K) ==
    /\ K # {} /\ K \subseteq Of(open, {"acknowledged"})
    /\ Become(open, K, "measured")
    /\ open' = IF Of(open, States \ {"none", "measured"}) = K THEN NoRequestId ELSE open

\* Nobody accepted anything, says the operator.
DropAll ==
    /\ Of(open, {"asked", "acknowledged", "measured"}) = {}
    /\ Become(open, Of(open, {"queued", "doubtful"}), "dropped") /\ open' = NoRequestId

\* What is left was never asked for.
DropRest ==
    /\ Of(open, {"asked", "acknowledged", "doubtful"}) = {}
    /\ Become(open, Of(open, {"queued"}), "dropped") /\ open' = NoRequestId

\* Every step moves a scan.
Next == scan' # scan /\ (
    \/ open = NoRequestId /\ \E q \in Requests : \E K \in SUBSET Keys : Confirm(q, K)
    \/ /\ open # NoRequestId
       /\ \/ \E k \in Keys : Ask(k)
          \/ \E K \in SUBSET Keys : Measure(K)
          \/ \E k \in Keys, s \in {"acknowledged", "doubtful"} : Hear(k, s)
          \/ DropAll \/ DropRest)

Spec == Init /\ [][Next]_<<open, scan>>
=============================================================================
