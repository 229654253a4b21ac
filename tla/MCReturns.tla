----------------------------- MODULE MCReturns -------------------------------
(* The calls that must return, in one run.  A behaviour is of one component:  *)
(* a queue_t shared by threads (Queue777), or calls of an agent (AgentRPC).   *)
(* The other one stays in its initial state.                                  *)
EXTENDS Queue777, TLC

CONSTANTS c1, c2, p1, t1, NumTags, NoTag, TimedOut, NullTag

VARIABLES
  part, r_pc, r_calls, tag, slot, cell, got, to, tags, requests, replies,
  result, sent, left, lost, mixed

rpcVars == <<r_pc, r_calls, tag, slot, cell, got, to, tags, requests, replies,
             result, sent, left, lost, mixed>>

\* Two callers, one of them with a socket, make a call each; messages may be
\* lost.
R == INSTANCE AgentRPC WITH
       Callers <- {c1, c2}, Pollers <- {p1}, ApiCallers <- {c2},
       ClientTags <- {t1}, MaxCalls <- (c1 :> 1) @@ (c2 :> 1),
       Asyncs <- {FALSE}, Losses <- BOOLEAN, pc <- r_pc, calls <- r_calls

MCInit == part \in {"queue", "rpc"} /\ Init /\ R!Init

InQueue(A) == part = "queue" /\ A /\ UNCHANGED <<part, rpcVars>>

MCNext ==
  \/ InQueue(Next)
  \/ part = "rpc" /\ R!Next /\ UNCHANGED <<part, vars>>

MCFairness ==
  /\ \A t \in Threads : WF_<<part, vars>>(InQueue(Step(t)))
  /\ part = "rpc" => R!Fairness

MCSpec == MCInit /\ [][MCNext]_<<part, vars, rpcVars>> /\ MCFairness

\* Properties of AgentRPC.  Every plugin_method returns.
EveryCallReturns == R!EveryCallReturns

\* A row of the tag table is given back while no message is lost.
RowsGivenBack == R!RowsGivenBack
=============================================================================
