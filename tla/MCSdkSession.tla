----------------------------- MODULE MCSdkSession -----------------------------
(* TLC instance of SdkSession: its configurations give the constants. *)
EXTENDS SdkSession
================================================================================
