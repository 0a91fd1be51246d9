----------------------------- MODULE MCDirectSum ------------------------------
(***************************************************************************)
(* A targetted force on a locked particle, and twice on another one.       *)
(***************************************************************************)
EXTENDS DirectSum

MCTargets == <<4, 2, 4>>

=============================================================================
