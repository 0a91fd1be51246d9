-------------------------- MODULE ForceAccumulation --------------------------
(***************************************************************************)
(* What applyPairwiseForces promises, whatever container and thread layout *)
(* computes it: every particle receives the force of each of its partners  *)
(* exactly once, nothing that was accumulated is ever lost, and the call   *)
(* returns only when all of it is there.  It may be called again, with all *)
(* forces reset.                                                           *)
(*                                                                         *)
(* f[p][q] counts the contributions of q in the accumulator of p.          *)
(***************************************************************************)
EXTENDS Integers

CONSTANT Particles

VARIABLES
    interacting,  \* the ordered pairs <<p, q>> such that q acts on p
    f,            \* the accumulated forces
    returned      \* no call is open

vars == <<interacting, f, returned>>

Missing(p) == {q \in Particles : <<p, q>> \in interacting /\ f[p][q] = 0}

NoForces == [p \in Particles |-> [q \in Particles |-> 0]]

Init ==
    /\ interacting \subseteq {pq \in Particles \X Particles : pq[1] # pq[2]}
    /\ f = NoForces
    /\ returned = FALSE

\* Some partners of p that are still missing are added to its accumulator.
Contribute(p) ==
    /\ ~returned
    /\ \E S \in SUBSET Missing(p) :
         f' = [f EXCEPT ![p] = [q \in Particles |-> IF q \in S THEN 1 ELSE f[p][q]]]
    /\ UNCHANGED <<interacting, returned>>

Return ==
    /\ ~returned
    /\ \A p \in Particles : Missing(p) = {}
    /\ returned' = TRUE
    /\ UNCHANGED <<interacting, f>>

Call ==
    /\ returned
    /\ interacting' \subseteq {pq \in Particles \X Particles : pq[1] # pq[2]}
    /\ f' = NoForces
    /\ returned' = FALSE

Next == (\E p \in Particles : Contribute(p)) \/ Return \/ Call

SafeSpec == Init /\ [][Next]_vars

\* Every call returns.
Spec == SafeSpec /\ []<>returned

=============================================================================
