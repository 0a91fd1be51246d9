-------------------------- MODULE MCSubSimulations --------------------------
(***************************************************************************)
(* A small tree of input files for TLC: the main file includes `inner` and *)
(* `leaf`, and `inner` includes `leaf`, too.                               *)
(***************************************************************************)
EXTENDS SubSimulations

Tree == [file \in {"main", "inner", "leaf"} |->
            CASE file = "main" -> <<"inner", "leaf">>
              [] file = "inner" -> <<"leaf">>
              [] file = "leaf" -> <<>>]

\* Checkpoints are written by the main simulation or by a sub simulation.
OneWriter == {{"main"}, {"inner"}}
InnerWriter == {{"inner"}}

=============================================================================
