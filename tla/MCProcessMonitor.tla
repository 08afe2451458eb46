--------------------------- MODULE MCProcessMonitor ---------------------------
(* TLC instance of ProcessMonitor: its configurations give the constants. *)
EXTENDS ProcessMonitor
================================================================================
