---------------------------- MODULE MCLinkedCells ----------------------------
(***************************************************************************)
(* Small instances of LinkedCells for TLC.  They move particles in the     *)
(* plane z = 0 of 2 x 2 x 1 cells; the z axis has its halo.                *)
(***************************************************************************)
EXTENDS LinkedCells

Square == <<4, 4, 2>>

\* Boundary conditions by axis, and two containers with different opposite sides.
OnAxes(x, y, z) == [s \in Sides |-> <<x, y, z>>[s[1]]]
AllPeriodic == OnAxes("PERIODIC", "PERIODIC", "PERIODIC")
Channel == [OnAxes("OUTFLOW", "PERIODIC", "REFLECTIVE") EXCEPT ![<<1, "low">>] = "REFLECTIVE"]
Box == [OnAxes("REFLECTIVE", "REFLECTIVE", "PERIODIC") EXCEPT ![<<2, "high">>] = "OUTFLOW"]

Mixtures == {AllPeriodic, Channel, Box}
OpenOnly == {OnAxes("OUTFLOW", "OUTFLOW", "OUTFLOW")}

\* All positions of the plane, and some at corners, edges and inside.
Plane == (0 .. 3) \X (0 .. 3) \X {0}
Some == {<<0, 0, 0>>, <<3, 3, 0>>, <<0, 2, 0>>, <<3, 0, 0>>}

\* A step by one unit along an axis or a diagonal.
Unit == (-1 .. 1) \X (-1 .. 1) \X {0}

\* Rest, steps along a diagonal, and one that may jump over the halo.
Fast == {<<0, 0, 0>>, <<1, 1, 0>>, <<-1, -1, 0>>, <<4, 0, 0>>}

=============================================================================
