----------------------------- MODULE MCPointers ------------------------------
(* Pointers that must stay good, in one run.  A behaviour is of one component: *)
(* the items of a kv777 store and its file (KV777), or the list of agents and *)
(* the threads that search it (Daemons).  The other one stays in its initial  *)
(* state.                                                                     *)
EXTENDS MCKV777, TLC

CONSTANTS d1, d2, jumblr, pangea, main, loop, NoDaemon

VARIABLES
  part, infos, queue, mem, stage, age, agent, msgs, reqs, pc, idx, ptr, goal,
  kind, hold, fault, crossed, seen

daemonVars == <<infos, queue, mem, stage, age, agent, msgs, reqs, pc, idx, ptr,
                goal, kind, hold, fault, crossed, seen>>

\* One agent each of two bundled ones; the second also makes a request.
D == INSTANCE Daemons WITH
       Threads <- {main, loop}, Callers <- {main}, Daemons <- {d1, d2},
       Name <- (d1 :> jumblr) @@ (d2 :> pangea), MaxDaemons <- 2, Margin <- 1,
       MaxHold <- 1, Requests <- (d1 :> 0) @@ (d2 :> 1)

MCInit == part \in {"store", "list"} /\ Init /\ D!Init

MCNext ==
  /\ UNCHANGED part
  /\ \/ part = "store" /\ Next /\ UNCHANGED daemonVars
     \/ part = "list" /\ D!Next /\ UNCHANGED vars

MCSpec == MCInit /\ [][MCNext]_<<part, vars, daemonVars>>

\* Properties of Daemons, where an agent also makes requests, which
\* process_plugin_message serves with its dp in hand: that is not freed
\* meanwhile, and a search reads a freed daemon_info, or has a listed agent
\* loaded again, only if another thread compacted the list under it.
ListPointersGood ==
  D!NoUseAfterFree /\ D!FaultyOnlyWhenMoved /\ D!NoNeedlessLoad
=============================================================================
