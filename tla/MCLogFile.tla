------------------------------ MODULE MCLogFile ------------------------------
(* TLC instance of LogFile: its configurations give the constants. *)
EXTENDS LogFile, TLC

OperationsSymmetry == Permutations(Operations)
================================================================================
