------------------------- MODULE MCCheckpointRestart -------------------------
(***************************************************************************)
(* Small instances of CheckpointRestart for TLC.                           *)
(***************************************************************************)
EXTENDS CheckpointRestart

\* Frames on every iteration, checkpoints and the thermostat on every second.
Mixed == [VTU |-> 1, CHKPT |-> 2, THERMOSTAT |-> 2]

=============================================================================
