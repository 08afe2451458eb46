---------------------------- MODULE MCDeployment ----------------------------
(* Instances of Deployment for TLC. *)
EXTENDS Deployment

CONSTANTS c1, c2

TwoCalls == {c1, c2}
SecondCall == {c2}
NoCall == {}

\* getAutoAllocatedSandbox with MAX_SANDBOX_INSTANCES 2
TwoContainers(s) == s % 2
=============================================================================
