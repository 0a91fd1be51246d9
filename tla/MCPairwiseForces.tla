-------------------------- MODULE MCPairwiseForces --------------------------
(***************************************************************************)
(* Small instances of PairwiseForces for TLC.                              *)
(***************************************************************************)
EXTENDS PairwiseForces

\* All placements in the middle layer of cells, halo cells included.
PlanePlacements == [1 .. NumParticles -> (-1 .. NX) \X (-1 .. NY) \X {0}]

\* Three particles in three adjacent cells and one in the same cell as the
\* first: every particle is a partner of two threads.
ClusterPlacements ==
    {h \in PlanePlacements :
        \A p \in 1 .. NumParticles : h[p][1] \in 0 .. 1 /\ h[p][2] = 0}

OneFarPair == {{1, 3}}
=============================================================================
