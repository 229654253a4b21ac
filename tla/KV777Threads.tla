---------------------------- MODULE KV777Threads ----------------------------
(***************************************************************************)
(* One kv777 store, open on its file, used by several threads at once      *)
(* (src/plugins/KV/kv777.c).  KV777 takes a call as one step; this module  *)
(* takes the steps other threads can see.  kv777_write works under         *)
(* kv->mutex from the lookup to the end.  kv777_read gives the mutex back  *)
(* before it touches the item, kv777_iterate never takes it (its lock      *)
(* calls are commented out) and kv777_delete never gives it back.          *)
(*                                                                         *)
(* Items and records are numbered in the order they are allocated.  A      *)
(* record's value is two halves, so that a memcpy is two steps.  Memory    *)
(* that was freed is not reused: the first read of it is `fault', which    *)
(* ends the behaviour, since nothing can be said of a program after it.    *)
(* The comparison HASH_FIND makes through the key pointer of a resized     *)
(* record is the exception: it may succeed or fail, as in KV777.           *)
(***************************************************************************)
EXTENDS Naturals, Sequences, FiniteSets

CONSTANTS
  Threads, Keys, Values,
  ValueSize,        \* Values -> Nat
  Absent, Nobody,
  Loaded,           \* the tables kv777_init may have loaded: sequences of
                    \* <<key, value>>
  MaxCalls          \* bound: calls made in a behaviour

None == 0           \* the null item

VARIABLES
  items,    \* struct kv777_item: key, item (a record), hh.next, hh.key valid
  recs,     \* struct kv777_hdditem: the two halves of value, deleted bit
  chain,    \* kv->table: the items linked in it, in the order of hh.next
  mutex,    \* the thread in kv->mutex, or Nobody
  th,       \* each thread's position and local variables
  calls,    \* calls begun
  fault,    \* the first read of freed memory: "none", "read" or "iterate"
  store,    \* history: the value of each key, by the calls in mutex order
  stale     \* history: keys one of whose records was replaced by a resize

vars == <<items, recs, chain, mutex, th, calls, fault, store, stale>>
heap == <<items, recs, chain>>
history == <<store, stale>>

Ops == {"write", "read", "delete", "iterate"}

\* seen: values the key held or was being given since the lookup; sure: its
\* key pointer was valid then; freed: another thread freed memory, or was
\* about to replace what it freed, since the pointer was taken; start: the
\* chain when the iteration began; out: what was returned.
Idle == [pc |-> "idle", op |-> "none", key |-> Absent, val |-> Absent,
         ptr |-> None, rec |-> None, lo |-> Absent, tmp |-> None,
         visited |-> <<>>, start |-> <<>>, seen |-> {}, sure |-> FALSE,
         freed |-> FALSE, out |-> <<>>]

Item(k, r) == [key |-> k, rec |-> r, hkey |-> TRUE, live |-> TRUE, next |-> None]
Record(v) == [lo |-> v, hi |-> v, deleted |-> FALSE, live |-> TRUE]

Elems(s) == {s[i] : i \in 1..Len(s)}
Last(s) == s[Len(s)]

Init ==
  \E load \in Loaded :
    /\ items = [i \in 1..Len(load) |->
                  [Item(load[i][1], i) EXCEPT
                     !.next = IF i < Len(load) THEN i + 1 ELSE None]]
    /\ recs = [i \in 1..Len(load) |-> Record(load[i][2])]
    /\ chain = [i \in 1..Len(load) |-> i]
    /\ mutex = Nobody
    /\ th = [t \in Threads |-> Idle]
    /\ calls = 0
    /\ fault = "none"
    /\ store = [k \in Keys |->
                  IF \E i \in 1..Len(load) : load[i][1] = k
                  THEN load[CHOOSE i \in 1..Len(load) : load[i][1] = k][2]
                  ELSE Absent]
    /\ stale = {}

-----------------------------------------------------------------------------
(* Lookup and the bookkeeping shared by the calls. *)

\* HASH_FIND: the newest item of the key, unless a key pointer into a freed
\* record made the comparison of that item fail.
HashFind(k) ==
  LET of == {i \in Elems(chain) : items[i].key = k}
  IN  {i \in of : \A j \in of : j > i => ~items[j].hkey}
        \cup {n \in {None} : \A i \in of : ~items[i].hkey}

At(t, pc) == th[t].pc = pc /\ fault = "none"

Goto(t, pc) == th' = [th EXCEPT ![t].pc = pc]

Return(t, out) == th' = [th EXCEPT ![t].pc = "idle", ![t].out = out]

\* A read of freed memory by t.
Fault(t, kind) ==
  /\ fault' = kind
  /\ Goto(t, "faulted")
  /\ UNCHANGED <<items, recs, chain, mutex, calls, store, stale>>

\* t holds pointers it took from the table.
Reaching(t) == th[t].pc \notin {"idle", "lock", "held"}

\* Every reader of k now may see v as well.
Noticed(f, k, v) ==
  [u \in Threads |->
     IF f[u].op = "read" /\ f[u].key = k /\ Reaching(u)
     THEN [f[u] EXCEPT !.seen = @ \cup {v}] ELSE f[u]]

\* Memory was freed: every other thread's pointers may dangle.
Freed(t, f) ==
  [u \in Threads |->
     IF u # t /\ Reaching(u) THEN [f[u] EXCEPT !.freed = TRUE] ELSE f[u]]

Begin(t, op, k, v) ==
  /\ th[t].pc = "idle" /\ fault = "none"
  /\ calls < MaxCalls
  /\ calls' = calls + 1
  /\ th' = [th EXCEPT ![t] = [Idle EXCEPT !.pc = "lock", !.op = op,
                                          !.key = k, !.val = v]]
  /\ UNCHANGED <<items, recs, chain, mutex, fault, store, stale>>

-----------------------------------------------------------------------------
(* kv777_write: everything between kv777_lock and kv777_unlock. *)

Enter(t, op) == At(t, "lock") /\ th[t].op = op /\ mutex = Nobody

\* The key is new: a record, an item and kv777_add.
WriteAdd(t) ==
  /\ Enter(t, "write")
  /\ None \in HashFind(th[t].key)
  /\ LET i == Len(items) + 1
         r == Len(recs) + 1
         linked == IF chain = <<>> THEN items
                   ELSE [items EXCEPT ![Last(chain)].next = i]
     IN  /\ items' = Append(linked, Item(th[t].key, r))
         /\ recs' = Append(recs, Record(th[t].val))
         /\ chain' = Append(chain, i)
  /\ store' = [store EXCEPT ![th[t].key] = th[t].val]
  /\ Return(t, <<>>)
  /\ UNCHANGED <<mutex, calls, fault, stale>>

\* A bug that returns with the mutex locked.
WriteSame_KeepsLock(t) ==
  /\ Enter(t, "write")
  /\ \E i \in HashFind(th[t].key) \ {None} : recs[items[i].rec].lo = th[t].val
  /\ mutex' = t
  /\ Return(t, <<>>)
  /\ UNCHANGED <<items, recs, chain, calls, fault, store, stale>>

\* The value is there already: unlock and return.
WriteSame(t) ==
  /\ Enter(t, "write")
  /\ \E i \in HashFind(th[t].key) \ {None} : recs[items[i].rec].lo = th[t].val
  /\ Return(t, <<>>)
  /\ UNCHANGED <<items, recs, chain, mutex, calls, fault, store, stale>>

\* Another value of the same size: memcpy over the record in the table.  The
\* first half of the copy.
WriteInPlace(t) ==
  /\ Enter(t, "write")
  /\ \E i \in HashFind(th[t].key) \ {None} :
       LET r == items[i].rec
       IN  /\ ValueSize[recs[r].lo] = ValueSize[th[t].val]
           /\ recs[r].lo # th[t].val
           /\ recs' = [recs EXCEPT ![r].lo = th[t].val]
           /\ th' = Noticed([th EXCEPT ![t].pc = "copy", ![t].rec = r],
                            th[t].key, th[t].val)
  /\ mutex' = t
  /\ UNCHANGED <<items, chain, calls, fault, store, stale>>

\* The second half, the CRC, the file and kv777_unlock.
WriteCopied(t) ==
  /\ At(t, "copy")
  /\ recs' = [recs EXCEPT ![th[t].rec].hi = th[t].val]
  /\ store' = [store EXCEPT ![th[t].key] = th[t].val]
  /\ mutex' = Nobody
  /\ Return(t, <<>>)
  /\ UNCHANGED <<items, chain, calls, fault, stale>>

\* A bug that resizes without the mutex.
WriteResize_Unlocks(t) ==
  /\ Enter(t, "write")
  /\ \E i \in HashFind(th[t].key) \ {None} :
       LET r == items[i].rec
       IN  /\ ValueSize[recs[r].lo] # ValueSize[th[t].val]
           /\ recs' = [recs EXCEPT ![r].live = FALSE]
           /\ items' = [items EXCEPT ![i].hkey = FALSE]
           /\ th' = Freed(t, [th EXCEPT ![t].pc = "install", ![t].ptr = i])
  /\ stale' = stale \cup {th[t].key}
  /\ UNCHANGED <<chain, mutex, calls, fault, store>>

\* A value of another size: kv777_free of the record ptr->item points to.
WriteResize(t) ==
  /\ Enter(t, "write")
  /\ \E i \in HashFind(th[t].key) \ {None} :
       LET r == items[i].rec
       IN  /\ ValueSize[recs[r].lo] # ValueSize[th[t].val]
           /\ recs' = [recs EXCEPT ![r].live = FALSE]
           /\ items' = [items EXCEPT ![i].hkey = FALSE]
           /\ th' = Freed(t, [th EXCEPT ![t].pc = "install", ![t].ptr = i])
  /\ stale' = stale \cup {th[t].key}
  /\ mutex' = t
  /\ UNCHANGED <<chain, calls, fault, store>>

\* ptr->item = kv777_hdditem(...), the file and kv777_unlock.
WriteInstall(t) ==
  /\ At(t, "install")
  /\ recs' = Append(recs, Record(th[t].val))
  /\ items' = [items EXCEPT ![th[t].ptr].rec = Len(recs) + 1]
  /\ store' = [store EXCEPT ![th[t].key] = th[t].val]
  /\ th' = Noticed([th EXCEPT ![t].pc = "idle"], th[t].key, th[t].val)
  /\ mutex' = Nobody
  /\ UNCHANGED <<chain, calls, fault, stale>>

Write(t) ==
  \/ WriteAdd(t) \/ WriteSame(t)
  \/ WriteInPlace(t) \/ WriteCopied(t)
  \/ WriteResize(t) \/ WriteInstall(t)

-----------------------------------------------------------------------------
(* kv777_delete. *)

Without(s, i) == SelectSeq(s, LAMBDA j : j # i)

\* HASH_DELETE: the predecessor skips i; i keeps its own hh.next.
Unlinked(i) ==
  [j \in DOMAIN items |->
     IF items[j].next = i /\ j \in Elems(chain)
     THEN [items[j] EXCEPT !.next = items[i].next] ELSE items[j]]

\* A bug that leaves the item in the table.
DeleteUnlink_Linked(t) ==
  /\ Enter(t, "delete")
  /\ \E i \in HashFind(th[t].key) \ {None} :
       /\ recs' = [recs EXCEPT ![items[i].rec].deleted = TRUE]
       /\ th' = Noticed([th EXCEPT ![t].pc = "free", ![t].ptr = i],
                        th[t].key, Absent)
  /\ store' = [store EXCEPT ![th[t].key] = Absent]
  /\ mutex' = t
  /\ UNCHANGED <<items, chain, calls, fault, stale>>

\* HASH_DELETE and the deleted bit of the record.
DeleteUnlink(t) ==
  /\ Enter(t, "delete")
  /\ \E i \in HashFind(th[t].key) \ {None} :
       /\ items' = Unlinked(i)
       /\ chain' = Without(chain, i)
       /\ recs' = [recs EXCEPT ![items[i].rec].deleted = TRUE]
       /\ th' = Noticed([th EXCEPT ![t].pc = "free", ![t].ptr = i],
                        th[t].key, Absent)
  /\ store' = [store EXCEPT ![th[t].key] = Absent]
  /\ mutex' = t
  /\ UNCHANGED <<calls, fault, stale>>

\* kv777_counters -> kv777_update frees the record and the item.  Then
\* kv777_lock, where kv777_unlock was meant: the thread waits for itself.
DeleteFree(t) ==
  /\ At(t, "free")
  /\ LET i == th[t].ptr
     IN  /\ items' = [items EXCEPT ![i].live = FALSE]
         /\ recs' = [recs EXCEPT ![items[i].rec].live = FALSE]
  /\ th' = Freed(t, [th EXCEPT ![t].pc = "held"])
  /\ UNCHANGED <<chain, mutex, calls, fault, store, stale>>

\* No such key: only the two locks.
DeleteMissing(t) ==
  /\ Enter(t, "delete")
  /\ None \in HashFind(th[t].key)
  /\ mutex' = t
  /\ Goto(t, "held")
  /\ UNCHANGED <<items, recs, chain, calls, fault, store, stale>>

Delete(t) == DeleteUnlink(t) \/ DeleteFree(t) \/ DeleteMissing(t)

-----------------------------------------------------------------------------
(* kv777_read. *)

\* The lookup; by itself, a bug that does not wait for the mutex.
ReadFind_Early(t) ==
  /\ At(t, "lock") /\ th[t].op = "read"
  /\ \E i \in HashFind(th[t].key) :
       LET found == [th[t] EXCEPT !.pc = IF i = None THEN "idle" ELSE "load",
                                  !.ptr = i,
                                  !.seen = {store[th[t].key]},
                                  !.sure = th[t].key \notin stale,
                                  !.out = IF i = None THEN <<Absent, Absent>>
                                                      ELSE <<>>]
       IN  th' = [th EXCEPT ![t] = found]
  /\ UNCHANGED <<items, recs, chain, mutex, calls, fault, store, stale>>

\* kv777_lock, HASH_FIND, kv777_unlock.
ReadFind(t) == Enter(t, "read") /\ ReadFind_Early(t)

\* ptr->item, now without the mutex, and the deleted bit of the record.
ReadLoad(t) ==
  /\ At(t, "load")
  /\ LET i == th[t].ptr
         r == items[i].rec
     IN  IF ~items[i].live \/ ~recs[r].live
         THEN Fault(t, "read")
         ELSE /\ th' = IF recs[r].deleted
                       THEN [th EXCEPT ![t].pc = "idle",
                                       ![t].out = <<Absent, Absent>>]
                       ELSE [th EXCEPT ![t].pc = "first", ![t].rec = r]
              /\ UNCHANGED <<items, recs, chain, mutex, calls, fault, history>>

\* memcpy(value,item->value,item->valuesize), or the caller's use of the
\* returned item->value: the first half,
ReadFirst(t) ==
  /\ At(t, "first")
  /\ IF ~recs[th[t].rec].live
     THEN Fault(t, "read")
     ELSE /\ th' = [th EXCEPT ![t].pc = "second",
                              ![t].lo = recs[th[t].rec].lo]
          /\ UNCHANGED <<items, recs, chain, mutex, calls, fault, history>>

\* and the second.
ReadSecond(t) ==
  /\ At(t, "second")
  /\ IF ~recs[th[t].rec].live
     THEN Fault(t, "read")
     ELSE /\ Return(t, <<th[t].lo, recs[th[t].rec].hi>>)
          /\ UNCHANGED <<items, recs, chain, mutex, calls, fault, history>>

Read(t) == ReadFind(t) \/ ReadLoad(t) \/ ReadFirst(t) \/ ReadSecond(t)

-----------------------------------------------------------------------------
(* kv777_iterate: HASH_ITER keeps the next item in tmp while the callback
   runs, and takes no lock.  The callback returns 0 here. *)

IterateBegin(t) ==
  /\ At(t, "lock") /\ th[t].op = "iterate"
  /\ th' = [th EXCEPT ![t] =
              [@ EXCEPT !.pc = IF chain = <<>> THEN "idle" ELSE "visit",
                        !.ptr = IF chain = <<>> THEN None ELSE chain[1],
                        !.tmp = IF chain = <<>> THEN None
                                ELSE items[chain[1]].next,
                        !.start = chain,
                        !.freed = \E u \in Threads : th[u].pc = "install"]]
  /\ UNCHANGED <<items, recs, chain, mutex, calls, fault, store, stale>>

\* Deleted items are passed over; the others go to the callback.
IterateVisit(t) ==
  /\ At(t, "visit")
  /\ LET i == th[t].ptr
         r == items[i].rec
     IN  IF ~items[i].live \/ ~recs[r].live
         THEN Fault(t, "iterate")
         ELSE /\ th' = [th EXCEPT ![t].pc = "advance",
                                  ![t].visited = IF recs[r].deleted THEN @
                                                 ELSE Append(@, i)]
              /\ UNCHANGED <<items, recs, chain, mutex, calls, fault, history>>

\* A bug that ends the iteration at a deleted item.
IterateAdvance_StopsAtDeleted(t) ==
  /\ At(t, "advance")
  /\ IF th[t].tmp = None \/ recs[items[th[t].ptr].rec].deleted
     THEN Return(t, <<>>)
     ELSE th' = [th EXCEPT ![t].pc = "visit", ![t].ptr = th[t].tmp,
                           ![t].tmp = items[th[t].tmp].next]
  /\ UNCHANGED <<items, recs, chain, mutex, calls, fault, store, stale>>

\* el = tmp, tmp = tmp->hh.next.
IterateAdvance(t) ==
  /\ At(t, "advance")
  /\ LET i == th[t].tmp
     IN  IF i # None /\ ~items[i].live
         THEN Fault(t, "iterate")
         ELSE /\ IF i = None
                 THEN Return(t, <<>>)
                 ELSE th' = [th EXCEPT ![t].pc = "visit", ![t].ptr = i,
                                       ![t].tmp = items[i].next]
              /\ UNCHANGED <<items, recs, chain, mutex, calls, fault, history>>

Iterate(t) == IterateBegin(t) \/ IterateVisit(t) \/ IterateAdvance(t)

-----------------------------------------------------------------------------
Step(t) == Write(t) \/ Delete(t) \/ Read(t) \/ Iterate(t)

Next ==
  \E t \in Threads :
    \/ \E k \in Keys, v \in Values : Begin(t, "write", k, v)
    \/ \E k \in Keys, op \in {"read", "delete"} : Begin(t, op, k, Absent)
    \/ Begin(t, "iterate", Absent, Absent)
    \/ Step(t)

Spec == Init /\ [][Next]_vars

\* Every thread keeps running; a mutex that stays free is got.
FairSpec == Spec /\ \A t \in Threads : WF_vars(Step(t))

-----------------------------------------------------------------------------
\* Items, records and thread positions have the shape of the C structures,
\* and every link leads to an allocated number.
TypeOK ==
  /\ \A i \in DOMAIN items :
       /\ items[i].key \in Keys /\ items[i].rec \in DOMAIN recs
       /\ items[i].next \in DOMAIN items \cup {None}
  /\ \A r \in DOMAIN recs : {recs[r].lo, recs[r].hi} \subseteq Values
  /\ Elems(chain) \subseteq DOMAIN items
  /\ mutex \in Threads \cup {Nobody}
  /\ \A t \in Threads :
       /\ th[t].pc \in {"idle", "lock", "copy", "install", "free", "held", "load",
                        "first", "second", "visit", "advance", "faulted"}
       /\ th[t].ptr \in DOMAIN items \cup {None}
       /\ th[t].rec \in DOMAIN recs \cup {None}
  /\ fault \in {"none", "read", "iterate"}

\* Whenever kv->mutex is free, the table is sound: hh.next leads from each
\* item to the following one, every item and its record are allocated, the
\* record is whole and not deleted, and a key no resize has touched has one
\* item, with the value last written.
TableSound ==
  mutex = Nobody =>
    /\ \A n \in 1..Len(chain) :
         LET i == chain[n]
         IN  /\ items[i].next = IF n < Len(chain) THEN chain[n + 1] ELSE None
             /\ items[i].live /\ recs[items[i].rec].live
             /\ recs[items[i].rec].lo = recs[items[i].rec].hi
             /\ ~recs[items[i].rec].deleted
    /\ \A k \in Keys \ stale :
         {recs[items[i].rec].lo : i \in {j \in Elems(chain) : items[j].key = k}}
           = {store[k]} \ {Absent}

\* Freed memory is read only by a call that overlaps the resizing kv777_write
\* or the kv777_delete that freed it: a read or an iteration that begins
\* after such a call has dealt with the table, and ends before the next one
\* frees anything, never does.
FaultNeedsOverlap ==
  \A t \in Threads : th[t].pc = "faulted" => th[t].freed

\* A read that returns, of a key no resize had touched at its lookup, returns
\* halves of values the key held, or was being given, while the read ran: a
\* torn value needs an overlapping write, and "not found" an absent key or an
\* overlapping kv777_delete.
ReadRegular ==
  \A t \in Threads :
    th[t].pc = "idle" /\ th[t].op = "read" /\ th[t].sure =>
      Elems(th[t].out) \subseteq th[t].seen

\* An iteration that returns has visited, once each and in the order of the
\* table, every item that was in the table from its start to its end.
IterateComplete ==
  \A t \in Threads :
    th[t].pc = "idle" /\ th[t].op = "iterate" =>
      /\ Cardinality(Elems(th[t].visited)) = Len(th[t].visited)
      /\ LET kept(s) == SelectSeq(s, LAMBDA i : i \in Elems(th[t].start)
                                               /\ i \in Elems(chain))
         IN  kept(th[t].visited) = kept(th[t].start)

\* Every call returns, unless a kv777_delete was called (it keeps the mutex)
\* or freed memory was read.
StoreCallsReturn ==
  \A t \in Threads :
    th[t].pc # "idle" ~>
      \/ th[t].pc = "idle"
      \/ fault # "none"
      \/ \E u \in Threads : th[u].pc = "held"

=============================================================================
