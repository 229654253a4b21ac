----------------------------- MODULE MCAgentRPC ------------------------------
(* Instances of AgentRPC for TLC. *)
EXTENDS AgentRPC, TLC

CONSTANTS c1, c2, p1, t1

\* One caller calls again after its first call, so that a late answer finds
\* its frame in use.
MCTwoAndOne == (c1 :> 2) @@ (c2 :> 1)
=============================================================================
