---------------------------- MODULE MCAgentJobs ----------------------------
(* Instances of AgentJobs for TLC.                                         *)
EXTENDS AgentJobs

CONSTANTS w1, w2, j1, j2, k1

\* A rolling deployment: w2 is older and has no handler for j2's kind.
RollingDeploy == [w \in Workers |-> IF w = w2 THEN Jobs \ {j2} ELSE Jobs]
=============================================================================
