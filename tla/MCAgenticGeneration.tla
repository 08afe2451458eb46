---- MODULE MCAgenticGeneration ----
(* AgenticGeneration for TLC. *)
EXTENDS AgenticGeneration
====
