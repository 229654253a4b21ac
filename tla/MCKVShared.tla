----------------------------- MODULE MCKVShared ------------------------------
(* Two views of a kv777 store in one run.  A behaviour is either of the store *)
(* against its file (KV777Durable) or of the threads that share it            *)
(* (KV777Threads); the other view stays in an initial state.                  *)
EXTENDS MCKV777

CONSTANTS Users,       \* the threads
          Nobody,
          MaxCalls     \* bound: calls the threads make together

VARIABLES view, items, recs, chain, owner, th, calls, fault, store, stale

threadVars == <<items, recs, chain, owner, th, calls, fault, store, stale>>

\* An empty table, or one kv777_init loaded with both keys.
MCLoaded == {<<>>, <<<<a, short>>, <<b, short>>>>}

\* "short" and "other" have one size.
MCThreadSize == [v \in Values |-> IF v = long THEN 8 ELSE 4]

T == INSTANCE KV777Threads WITH
       Threads <- Users, ValueSize <- MCThreadSize, Loaded <- MCLoaded,
       mutex <- owner

MCInit ==
  /\ view \in {"file", "threads"}
  /\ Init /\ T!Init
  /\ view # "threads" => chain = <<>>

MCNext ==
  /\ UNCHANGED view
  /\ \/ view = "file" /\ SteadyNext /\ UNCHANGED threadVars
     \/ view = "threads" /\ T!Next /\ UNCHANGED vars

MCFairness ==
  \A t \in Users :
    WF_threadVars(view = "threads" /\ T!Step(t) /\ UNCHANGED vars)

MCSpec == MCInit /\ [][MCNext]_<<view, vars, threadVars>> /\ MCFairness

\* The properties of KV777Threads.  Items, records and positions have their
\* shape, and the table is sound whenever kv->mutex is free.
TableSound == T!TypeOK /\ T!TableSound

\* Only a call that overlaps a resizing write or a delete reads freed memory.
FaultNeedsOverlap == T!FaultNeedsOverlap

\* kv777_read returns what the key held while it ran.
ReadRegular == T!ReadRegular

\* kv777_iterate visits once every item that was there throughout.
IterateComplete == T!IterateComplete

\* Every call of the store returns, unless a kv777_delete keeps the mutex.
StoreCallsReturn == T!StoreCallsReturn
=============================================================================
