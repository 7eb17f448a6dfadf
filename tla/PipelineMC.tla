----------------------------- MODULE PipelineMC -----------------------------
(***************************************************************************)
(* All three optimization levels; every transforming pass changes the      *)
(* program or does not, independently.                                     *)
(***************************************************************************)
EXTENDS Pipeline
=============================================================================
