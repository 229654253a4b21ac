---------------------------- MODULE KV777Durable -----------------------------
(* The store as this program's modules use it when a key's values all have   *)
(* one size (counters, timestamps, fixed structs): no kv777_delete, no       *)
(* kv777_purge, the file opens, and a crash may tear an append.  Under those *)
(* terms KV777 implements KVMap.                                             *)
EXTENDS KV777

\* What kv777_init would load from the file as it stands: along the chain of
\* records from word 0, a later record of a key replaces an earlier one.
Recovered ==
  LET Rest[p \in 0..FileWords] ==
        IF \A k \in Keys, v \in Values : ~Loads(p, k, v)
        THEN [k \in Keys |-> Absent]
        ELSE LET r == CHOOSE kv \in Keys \X Values : Loads(p, kv[1], kv[2])
                 rest == Rest[p + ItemSize(r[1], r[2])]
             IN  [rest EXCEPT ![r[1]] = IF @ = Absent THEN r[2] ELSE @]
  IN  Rest[0]

SteadyNext ==
  \/ Open \/ LoadItem \/ LoadEnd \/ Crash
  \/ \E k \in Keys, v \in Values : Write(k, v) \/ CrashInAppend(k, v)

SteadySpec == Init /\ [][SteadyNext]_vars

\* Whatever the interleaving of writes, torn appends, crashes and reloads, the
\* map kept in the file changes by completed kv777_write calls only, and never
\* while the store is down or loading.
Map == INSTANCE KVMap WITH map <- Recovered, up <- phase = "open"
ImplementsMap == Map!Spec

=============================================================================
