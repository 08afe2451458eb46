---------------------------- MODULE MCToolExecution ----------------------------
(* TLC instance of ToolExecution: the claims tools of the toolkit make. *)
EXTENDS ToolExecution

CONSTANTS a, b

Claim(mode, paths) == [NoResources EXCEPT !.files = mode, !.paths = paths]
Sandbox(operation) == [NoResources EXCEPT !.sandbox = operation]

(* read_files, regenerate_file, generate_files without a file, two arguments that *)
(* claim different files (allowed by tool(), in no tool yet: mergeResources has   *)
(* to join them), deploy_preview, exec_commands, get_logs, generate_blueprint,    *)
(* wait.                                                                          *)
ToolSignatures == {
    <<Claim("read", {a})>>,
    <<Claim("write", {a})>>,
    <<Claim("write", {})>>,
    <<Claim("read", {a}), Claim("write", {b})>>,
    <<[Claim("read", {}) EXCEPT !.sandbox = "deploy"]>>,
    <<Sandbox("exec")>>,
    <<Sandbox("read"), Sandbox("read")>>,
    <<[NoResources EXCEPT !.blueprint = TRUE]>>,
    <<>> }

(* ClaimsCoverCorrect proves it for every signature; here TLC evaluates it. *)
ASSUME MergedClaimsCover == ClaimsCover
================================================================================
