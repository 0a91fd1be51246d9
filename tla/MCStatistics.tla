----------------------------- MODULE MCStatistics -----------------------------
(***************************************************************************)
(* A small instance of Statistics for TLC.                                 *)
(***************************************************************************)
EXTENDS Statistics

\* A sample every iteration, every fourth, every third, every third; checkpoints
\* and the thermostat have every second.
Quarter == [TEMPERATURE |-> 1, DIFFUSION |-> 60, RDF |-> 50, VELOCITY |-> 50]

=============================================================================
