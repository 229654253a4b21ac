-------------------------------- MODULE KVMap --------------------------------
(* What a kv777 store promises its callers when the values of a key keep     *)
(* their size: a map that outlives the process.  A put happens at once or    *)
(* not at all, only while the store is up, and nothing else changes the map. *)
CONSTANTS Keys, Values, Absent

VARIABLES map, up

Init == map = [k \in Keys |-> Absent] /\ up = FALSE

Start == ~up /\ up' = TRUE /\ UNCHANGED map

Stop == up /\ up' = FALSE /\ UNCHANGED map

Put(k, v) == up /\ map' = [map EXCEPT ![k] = v] /\ UNCHANGED up

Next == Start \/ Stop \/ \E k \in Keys, v \in Values : Put(k, v)

Spec == Init /\ [][Next]_<<map, up>>
=============================================================================
