------------------------- MODULE KV777DurableProofs --------------------------
(***************************************************************************)
(* Durable of one kv777 store, for every set of keys, values and sizes,    *)
(* every file length and every point where a write may be cut off.         *)
(*                                                                         *)
(* The argument is about the records that a restart would load: they form  *)
(* a chain from the start of the file to the append position, the items of *)
(* the table stand in it, and the last value of a key is in the latest     *)
(* record of that key.  What torn appends left lies behind the chain and   *)
(* never makes a record, as the last word of its image is missing.  Here   *)
(* are the reload, the writes, deletes and purges.                         *)
(***************************************************************************)
EXTENDS KV777Proofs

\* The file stays, and so does the chain.
LEMMA SameChain ==
  ASSUME NEW C, NEW e, Chain(C, e), file' = file
  PROVE  Chain(C, e)'
<1>1. Torn(e)' BY DEF Chain, Torn, ItemSize, Aligned
<1> QED BY <1>1, ChainKept

\* While loading a search finds the one item of the key.
LEMMA LoadingFind ==
  ASSUME TypeOK, NEW C, NEW e, Loading(C, e), NEW k \in Keys, NEW old \in HashFind(k)
  PROVE  \A i \in table : i.key = k => i = old
BY DEF Loading, HashFind, ItemsOf

\* kv777_init reads the next record of the chain.
LEMMA LoadItemDurable == IInv /\ DurableInv /\ LoadItem => DurableInv'
<1> SUFFICES ASSUME IInv, DurableInv, LoadItem PROVE DurableInv' OBVIOUS
<1>1. phase = "loading" /\ UNCHANGED <<phase, mutex, file, fp, written, last, framed>>
  BY DEF LoadItem, history
<1>0. PICK k \in Keys, v \in Values : \E old \in HashFind(k) :
        /\ Loads(fpos, k, v) /\ fpos' = fpos + ItemSize(k, v)
        /\ table' = (table \ {old}) \cup {NewItem(k, v, fpos)}
  BY DEF LoadItem
<1>2. PICK old \in HashFind(k) :
        /\ Loads(fpos, k, v) /\ fpos' = fpos + ItemSize(k, v)
        /\ table' = (table \ {old}) \cup {NewItem(k, v, fpos)}
  BY <1>0
<1>3. Durable' /\ NotOpen' BY <1>1 DEF Durable, NotOpen, DurableInv
<1>4. ASSUME framed' PROVE \E C, e : Good(C, e)'
  <2>1. PICK C, e : Good(C, e) BY <1>1, <1>4 DEF DurableInv
  <2>2. Chain(C, e) /\ Loading(C, e) /\ LastOnFile(C) /\ fp /\ mutex = "free"
    BY <1>1, <2>1 DEF Good, DurableInv, NotOpen, IInv, DownEmpty
  <2>3. InChain(C) /\ AloneIsLatest(C) BY <2>1, <2>2 DEF Good
  <2>4. PICK r \in C : r.at = fpos
    <3>1. fpos # e BY <1>2, <2>2, NoneAtEnd DEF Chain, IInv
    <3> QED BY <2>2, <3>1 DEF Loading, StartsAt
  <2>5. r.key = k /\ r.value = v /\ fpos' = End(r) /\ fpos \in Nat
    <3>1. Loads(fpos, r.key, r.value) /\ r.key \in Keys /\ r.value \in Values /\ fpos \in Nat
      BY <2>2, <2>4 DEF Chain
    <3>2. r.key = k /\ r.value = v BY <1>2, <3>1, LoadsOne
    <3> QED BY <1>2, <2>4, <3>1, <3>2 DEF End
  <2>6. \A s \in C : s.at < fpos' => s.at < fpos \/ s = r
    <3>1. \A s \in C : /\ s = r \/ s.at >= End(r) \/ End(s) <= r.at
                       /\ s.at \in Nat /\ ItemSize(s.key, s.value) \in Nat
                       /\ ItemSize(s.key, s.value) >= 3
      BY <2>2, ItemSizeType DEF Chain
    <3> QED BY <2>4, <2>5, <3>1 DEF End
  <2>7. PICK new : /\ new = NewItem(k, v, fpos)
                   /\ new.key = k /\ new.value = v /\ new.offset = fpos /\ new.hkey
    <3> DEFINE n == NewItem(k, v, fpos)
    <3>1. n.key = k /\ n.value = v /\ n.offset = fpos /\ n.hkey BY Zenon DEF NewItem
    <3> HIDE DEF n
    <3> QED BY <3>1, Zenon DEF n
  <2>8. \A i \in table' : i = new \/ (i \in table /\ i.key # k)
    BY <1>2, <2>2, <2>7, LoadingFind DEF IInv
  <2>9. Loading(C, e)'
    <3>1. StartsAt(C, e, fpos)' BY <2>2, <2>5 DEF Chain, StartsAt
    <3>2. /\ \A i, j \in table' : i.key = j.key => i = j
          /\ \A i \in table' : i.hkey
      BY <2>2, <2>7, <2>8 DEF Loading
    <3>3. \A s \in C : s.at < fpos' => \E i \in table' : i.key = s.key
      <4>1. new \in table' BY <1>2, <2>7
      <4>2. \A i \in table : i.key # k => i \in table'
        <5>1. old = NoItem \/ old.key = k BY FindType DEF IInv
        <5>2. NoItem \notin table BY KVAssumption DEF IInv, TypeOK
        <5> QED BY <1>2, <5>1, <5>2
      <4> QED BY <2>2, <2>5, <2>6, <2>7, <4>1, <4>2 DEF Loading
    <3> QED BY <3>1, <3>2, <3>3 DEF Loading
  <2>10. InChain(C)' BY <2>3, <2>4, <2>5, <2>7, <2>8 DEF InChain
  <2>11. AloneIsLatest(C)'
    <3>1. \A i \in table : \A s \in C : s.key = i.key /\ s.at < fpos => s.at <= i.offset
      BY <2>2, <2>3 DEF AloneIsLatest, Loading
    <3>2. \A i \in table' : \A s \in C : s.key = i.key /\ s.at < fpos' => s.at <= i.offset
      <4>1. \A s \in C : s.at \in Nat BY <2>2 DEF Chain
      <4> QED BY <2>4, <2>5, <2>6, <2>7, <2>8, <3>1, <4>1
    <3> QED BY <3>2 DEF AloneIsLatest
  <2>12. Chain(C, e)' /\ LastOnFile(C)'
    BY <1>1, <2>2, SameChain DEF LastOnFile, Latest
  <2>13. Good(C, e)' BY <1>1, <2>9, <2>10, <2>11, <2>12 DEF Good
  <2> QED BY <2>13
<1> QED BY <1>3, <1>4 DEF DurableInv

\* kv777_init stops at the end of the chain: the table holds what the latest
\* records of the keys hold.
LEMMA LoadEndDurable == IInv /\ DurableInv /\ LoadEnd => DurableInv'
<1> SUFFICES ASSUME IInv, DurableInv, LoadEnd PROVE DurableInv' OBVIOUS
<1>1. /\ phase = "loading" /\ phase' = "open" /\ fp
      /\ UNCHANGED <<mutex, file, fp, fpos, table, written, last, framed>>
  BY DEF LoadEnd, history, IInv, DownEmpty
<1>2. NotOpen' BY <1>1 DEF NotOpen
<1>3. ASSUME NEW C, NEW e, Good(C, e)
      PROVE  /\ Good(C, e)'
             /\ \A k \in Keys : last[k] \in Values =>
                  \E i \in ItemsOf(k) : Newest(i) /\ i.value = last[k]
  <2>1. Chain(C, e) /\ Loading(C, e) /\ LastOnFile(C) /\ InChain(C) /\ AloneIsLatest(C)
    BY <1>1, <1>3 DEF Good, DurableInv, NotOpen
  <2>2. fpos = e
    <3>1. \A r \in C : r.key \in Keys /\ r.value \in Values /\ Loads(r.at, r.key, r.value)
      BY <2>1 DEF Chain
    <3>2. \A k \in Keys, v \in Values : ~Loads(fpos, k, v) BY DEF LoadEnd
    <3> QED BY <2>1, <3>1, <3>2 DEF Loading, StartsAt
  <2>3. Good(C, e)'
    <3>1. Chain(C, e)' /\ LastOnFile(C)'
      BY <1>1, <2>1, SameChain DEF LastOnFile, Latest
    <3>2. InChain(C)' /\ AloneIsLatest(C)'
      BY <1>1, <2>1 DEF InChain, AloneIsLatest
    <3> QED BY <1>1, <2>2, <3>1, <3>2 DEF Good
  <2>4. ASSUME NEW k \in Keys, last[k] \in Values
        PROVE  \E i \in ItemsOf(k) : Newest(i) /\ i.value = last[k]
    <3>1. PICK r \in C : /\ r.key = k /\ r.value = last[k]
                         /\ \A s \in C : s.key = k => s.at <= r.at
      BY <1>1, <2>1, <2>4 DEF LastOnFile, Latest
    <3>2. \A s \in C : /\ s.at \in Nat /\ ItemSize(s.key, s.value) \in Nat
                       /\ ItemSize(s.key, s.value) >= 3 /\ End(s) <= e
                       /\ s = r \/ s.at >= End(r) \/ End(s) <= r.at
      BY <2>1, ItemSizeType DEF Chain
    <3>3. r.at < fpos BY <2>1, <2>2, <3>2 DEF End, Chain
    <3>4. PICK i \in table : i.key = k BY <2>1, <3>1, <3>3 DEF Loading
    <3>5. \A j \in table : j.key = k => j = i BY <2>1, <3>4 DEF Loading
    <3>6. PICK s \in C : s.at = i.offset /\ s.key = k /\ s.value = i.value
      BY <2>1, <3>4 DEF InChain
    <3>7. r.at <= i.offset BY <2>1, <3>1, <3>3, <3>4, <3>5 DEF AloneIsLatest
    <3>8. s = r BY <3>1, <3>2, <3>6, <3>7 DEF End
    <3>9. Newest(i)
      <4>1. i.ind \in Nat BY DEF IInv, TypeOK, Item
      <4> QED BY <3>4, <3>5, <4>1 DEF Newest, ItemsOf
    <3> QED BY <3>1, <3>4, <3>6, <3>8, <3>9 DEF ItemsOf
  <2> QED BY <2>3, <2>4
<1>4. Durable'
  <2>1. \A k \in Keys : last[k] = Absent => ItemsOf(k) = {}
    <3>1. \A i \in table : i.key \in Keys /\ i.value \in Values /\ <<i.key, i.value>> \in written
      BY DEF IInv, OnlyWritten, TypeOK, Item
    <3>2. \A k \in Keys : last[k] = Absent => \A v \in Values : <<k, v>> \notin written
      BY <1>1 DEF DurableInv, NotOpen
    <3> QED BY ONLY <3>1, <3>2, Zenon DEF ItemsOf
  <2>2. framed => \A k \in Keys : last[k] \in Values =>
                    \E i \in ItemsOf(k) : Newest(i) /\ i.value = last[k]
    BY <1>3 DEF DurableInv
  <2> QED BY <1>1, <2>1, <2>2 DEF Durable, ItemsOf, Newest
<1> QED BY <1>1, <1>2, <1>3, <1>4 DEF DurableInv

\* kv777_delete: the file stays, and a key whose items are gone is absent.
LEMMA DeleteDurable ==
  ASSUME IInv, DurableInv, NEW k \in Keys, Delete(k)
  PROVE  DurableInv'
<1>1. PICK i \in HashFind(k) :
        /\ table' = table \ {i}
        /\ last' = [last EXCEPT ![k] = IF ItemsOf(k) \subseteq {i} THEN Absent ELSE Unsure]
  BY DEF Delete
<1>2. /\ phase = "open" /\ phase' = "open" /\ mutex' = "held"
      /\ UNCHANGED <<file, fp, fpos, written, framed>>
  BY DEF Delete
<1>3. NotOpen' BY <1>2 DEF NotOpen
<1>4. last'[k] \notin Values
  BY <1>1, KVAssumption DEF IInv, TypeOK
<1>5. \A q \in Keys \ {k} : last'[q] = last[q] BY <1>1 DEF IInv, TypeOK
<1>6. \A q \in Keys \ {k} : ItemsOf(q)' = ItemsOf(q)
  <2>1. i = NoItem \/ i.key = k BY FindType DEF IInv
  <2>2. NoItem \notin table BY KVAssumption DEF IInv, TypeOK
  <2> QED BY <1>1, <2>1, <2>2 DEF ItemsOf
<1>7. last'[k] = Absent => ItemsOf(k)' = {}
  <2>1. last'[k] = Absent => ItemsOf(k) \subseteq {i}
    BY <1>1, KVAssumption DEF IInv, TypeOK
  <2> QED BY <1>1, <2>1 DEF ItemsOf
<1>8. Durable'
  <2>1. framed => \A q \in Keys \ {k} :
           /\ last[q] = Absent => ItemsOf(q) = {}
           /\ last[q] \in Values =>
                \E j \in ItemsOf(q) : Newest(j) /\ j.value = last[q]
    BY <1>2 DEF DurableInv, Durable
  <2>2. ASSUME NEW q \in Keys \ {k}, NEW j \in ItemsOf(q), Newest(j) PROVE Newest(j)'
    <3>1. ItemsOf(j.key)' = ItemsOf(j.key) BY <1>6 DEF ItemsOf
    <3> QED BY <2>2, <3>1 DEF Newest
  <2>3. ASSUME framed', NEW q \in Keys
        PROVE  /\ last'[q] = Absent => ItemsOf(q)' = {}
               /\ last'[q] \in Values =>
                    \E j \in ItemsOf(q)' : Newest(j)' /\ j.value = last'[q]
    <3>1. CASE q = k BY <3>1, <1>4, <1>7
    <3>2. CASE q # k
      <4>1. last'[q] = last[q] /\ ItemsOf(q)' = ItemsOf(q) BY <3>2, <1>5, <1>6
      <4> QED BY <1>2, <2>1, <2>2, <2>3, <3>2, <4>1
    <3> QED BY <3>1, <3>2
  <2> QED BY <2>3 DEF Durable
<1>9. ASSUME framed' PROVE \E C, e : Good(C, e)'
  <2>1. PICK C, e : Good(C, e) BY <1>2, <1>9 DEF DurableInv
  <2>2. Chain(C, e)' BY <1>2, <2>1, SameChain DEF Good
  <2>3. LastOnFile(C)' BY <1>2, <1>4, <1>5, <2>1 DEF Good, LastOnFile, Latest
  <2>4. fp => InChain(C)' BY <1>1, <2>1 DEF Good, InChain
  <2>5. Good(C, e)' BY <1>2, <2>1, <2>2, <2>3, <2>4 DEF Good
  <2> QED BY <2>5
<1> QED BY <1>3, <1>8, <1>9 DEF DurableInv

\* An empty file is a chain without records.
LEMMA BlankChain ==
  ASSUME file = [w \in 0..FileWords - 1 |-> Blank]
  PROVE  Chain({}, 0)
<1>1. FileWords \in Nat BY KVAssumption
<1>2. \A w \in 0..FileWords - 1 : file[w] = Blank OBVIOUS
<1> QED BY <1>1, <1>2 DEF Chain, Torn, StartsAt

\* The same of the file a step leaves.
LEMMA BlankChainNext ==
  ASSUME file' = [w \in 0..FileWords - 1 |-> Blank]
  PROVE  Chain({}, 0)'
<1>1. FileWords \in Nat BY KVAssumption
<1>2. \A w \in 0..FileWords - 1 : file'[w] = Blank OBVIOUS
<1> QED BY <1>1, <1>2 DEF Chain, Torn, StartsAt

\* kv777_purge leaves no file and no item.
LEMMA PurgeDurable == IInv /\ DurableInv /\ Purge => DurableInv'
<1> SUFFICES ASSUME IInv, DurableInv, Purge PROVE DurableInv' OBVIOUS
<1>1. /\ phase' = "open" /\ ~fp' /\ table' = {}
      /\ file' = [w \in 0..FileWords - 1 |-> Blank]
      /\ last' = [k \in Keys |-> Absent]
  BY DEF Purge
<1>2. Durable'
  <2>1. \A k \in Keys : last'[k] = Absent /\ last'[k] \notin Values BY <1>1, KVAssumption
  <2> QED BY <1>1, <2>1 DEF Durable, ItemsOf
<1>3. NotOpen' BY <1>1 DEF NotOpen
<1>4. Good({}, 0)'
  <2>1. Chain({}, 0)' BY <1>1, BlankChainNext
  <2> QED BY <1>1, <2>1 DEF Good, LastOnFile
<1> QED BY <1>2, <1>3, <1>4 DEF DurableInv

\* Before the first start there is no file and nothing was written.
LEMMA InitDurable == Init => DurableInv
<1> SUFFICES ASSUME Init PROVE DurableInv OBVIOUS
<1>1. phase = "down" /\ mutex = "free" /\ ~fp /\ written = {} BY DEF Init
<1>2. \A k \in Keys : last[k] \notin Values BY KVAssumption DEF Init
<1>3. Good({}, 0)
  <2>1. Chain({}, 0) BY BlankChain DEF Init
  <2> QED BY <1>1, <1>2, <2>1 DEF Good, LastOnFile
<1> QED BY <1>1, <1>3 DEF DurableInv, Durable, NotOpen

\* A call of kv777_write that gets the mutex, and gives it back.
OnOpen == /\ phase = "open" /\ mutex = "free"
          /\ phase' = phase /\ mutex' = mutex /\ fp' = fp

\* It puts put in the place of i, or adds it.
Stored(k, v, i, put) ==
  /\ put.key = k /\ put.value = v /\ put.ind = IF i = NoItem THEN numkeys ELSE i.ind
  /\ table' = (table \ {i}) \cup {put}
  /\ last' = [last EXCEPT ![k] = IF i = NoItem THEN v
                                 ELSE IF ItemsOf(k) = {i} THEN v ELSE Unsure]

\* What a write makes of the history.
LEMMA StoredLast ==
  ASSUME TypeOK, NEW k \in Keys, NEW v \in Values, NEW i, NEW put, Stored(k, v, i, put)
  PROVE  /\ \A q \in Keys \ {k} : last'[q] = last[q]
         /\ last'[k] # Absent
         /\ last'[k] \in Values => last'[k] = v /\ (i = NoItem \/ ItemsOf(k) = {i})
<1>1. DOMAIN last = Keys BY DEF TypeOK
<1>2. last' = [last EXCEPT ![k] = IF i = NoItem THEN v
                                  ELSE IF ItemsOf(k) = {i} THEN v ELSE Unsure]
  BY DEF Stored
<1> QED BY ONLY <1>1, <1>2, KVAssumption, k \in Keys, v \in Values

\* What kv777_write leaves in the table: the item written is the newest of its
\* key when the write is known to be the last one.
LEMMA WriteTable ==
  ASSUME IInv, Durable, OnOpen, framed, NEW k \in Keys, NEW v \in Values,
         NEW i \in HashFind(k), NEW put \in Item, Stored(k, v, i, put)
  PROVE  Durable'
<1>0. /\ put.key = k /\ put.value = v /\ (i = NoItem => put.ind = numkeys)
      /\ table' = (table \ {i}) \cup {put}
  BY DEF Stored
<1>1. i = NoItem \/ (i \in table /\ i.key = k) BY FindType DEF IInv
<1>2. NoItem \notin table BY KVAssumption DEF IInv, TypeOK
<1>3. \A q \in Keys \ {k} : last'[q] = last[q] BY StoredLast DEF IInv
<1>4. /\ last'[k] # Absent
      /\ last'[k] \in Values => last'[k] = v /\ (i = NoItem \/ ItemsOf(k) = {i})
  BY StoredLast DEF IInv
<1>5. \A q \in Keys \ {k} : ItemsOf(q)' = ItemsOf(q)
  BY ONLY <1>0, <1>1, <1>2 DEF ItemsOf
<1>6. put \in ItemsOf(k)' BY ONLY <1>0 DEF ItemsOf
<1>7. ASSUME i = NoItem \/ ItemsOf(k) = {i} PROVE Newest(put)'
  <2>1. ASSUME NEW j \in ItemsOf(k)' PROVE j.ind <= put.ind
    <3>1. j = put \/ (j \in table /\ j # i /\ j.key = k) BY <1>0 DEF ItemsOf
    <3>2. put.ind \in Nat /\ \A m \in table : m.ind \in Nat /\ m.ind < numkeys /\ numkeys \in Nat
      BY DEF IInv, ItemsSound, TypeOK, Item
    <3> QED BY <1>0, <1>7, <3>1, <3>2 DEF ItemsOf
  <2> QED BY <1>0, <2>1 DEF Newest
<1>8. \A q \in Keys \ {k} :
         /\ last[q] = Absent => ItemsOf(q) = {}
         /\ last[q] \in Values =>
              \E j \in ItemsOf(q) : Newest(j) /\ j.value = last[q]
  BY DEF Durable, OnOpen
<1>9. ASSUME NEW q \in Keys \ {k}, NEW j \in ItemsOf(q), Newest(j) PROVE Newest(j)'
  <2>1. ItemsOf(j.key)' = ItemsOf(j.key) BY <1>5 DEF ItemsOf
  <2> QED BY <1>9, <2>1 DEF Newest
<1>10. ASSUME NEW q \in Keys
       PROVE  /\ last'[q] = Absent => ItemsOf(q)' = {}
              /\ last'[q] \in Values =>
                   \E j \in ItemsOf(q)' : Newest(j)' /\ j.value = last'[q]
  <2>1. CASE q = k BY ONLY <2>1, <1>0, <1>4, <1>6, <1>7
  <2>2. CASE q # k
    <3>1. last'[q] = last[q] /\ ItemsOf(q)' = ItemsOf(q) BY <2>2, <1>3, <1>5
    <3> QED BY ONLY <1>8, <1>9, <2>2, <3>1, q \in Keys
  <2> QED BY <2>1, <2>2
<1> QED BY ONLY <1>10 DEF Durable

\* What it leaves on file: C2 is the chain C with the record of put added at its
\* end, or put in the place of the record of i.
Recorded(C, C2, k, v, i, put) ==
  /\ \E s \in C2 : s.at = put.offset /\ s.key = k /\ s.value = v
  /\ \A s \in C2 : s \in C \/ (s.at = put.offset /\ s.key = k)
  /\ \A s \in C : s \in C2 \/ (i # NoItem /\ s.at = i.offset /\ s.key = k)

\* Then the file and the table it leaves are good.
LEMMA WriteGood ==
  ASSUME IInv, NEW C, NEW e, Good(C, e), NEW C2, NEW e2, Chain(C2, e2)',
         OnOpen, fp, fpos' = e2, NEW k \in Keys, NEW v \in Values, NEW i \in HashFind(k),
         NEW put \in Item, Stored(k, v, i, put), Recorded(C, C2, k, v, i, put),
         put.offset = e \/ (i # NoItem /\ put.offset = i.offset)
  PROVE  Good(C2, e2)'
<1>0. /\ put.key = k /\ put.value = v /\ put.ind = IF i = NoItem THEN numkeys ELSE i.ind
      /\ table' = (table \ {i}) \cup {put}
  BY DEF Stored
<1>a. /\ \E s \in C2 : s.at = put.offset /\ s.key = k /\ s.value = v
      /\ \A s \in C2 : s \in C \/ (s.at = put.offset /\ s.key = k)
      /\ \A s \in C : s \in C2 \/ (i # NoItem /\ s.at = i.offset /\ s.key = k)
  BY DEF Recorded
<1>1. i = NoItem \/ (i \in table /\ i.key = k) BY FindType DEF IInv
<1>2. NoItem \notin table BY KVAssumption DEF IInv, TypeOK
<1>b. Chain(C, e) /\ LastOnFile(C) /\ InChain(C) /\ AloneIsLatest(C) /\ fpos = e
  BY DEF Good, OnOpen
<1>3. e \in Nat BY ONLY <1>b, KVAssumption DEF Chain
<1>c. C \subseteq [at : Nat, key : Keys, value : Values] /\ \A s \in C : End(s) <= e
  BY ONLY <1>b DEF Chain
<1>4. \A s \in C : s.at \in Nat /\ s.at < e
  <2>1. \A s \in C : /\ s.at \in Nat /\ ItemSize(s.key, s.value) \in Nat
                     /\ ItemSize(s.key, s.value) >= 3 /\ End(s) <= e
    BY ONLY <1>c, ItemSizeType
  <2> QED BY ONLY <1>3, <2>1 DEF End
<1>5. \A j \in table : j # i => j # put /\ (i # NoItem => j.offset # i.offset)
  <2>1. \A j \in table : /\ j.offset \in Int /\ j.itemsize \in Nat /\ j.itemsize >= 3
                         /\ j.ind \in Nat /\ j.ind < numkeys /\ numkeys \in Nat
    <3>1. table \subseteq Item /\ numkeys \in Nat BY KVAssumption DEF IInv, TypeOK
    <3>2. \A j \in table : j.ind < numkeys /\ j.itemsize = ItemSize(j.key, j.value)
      BY DEF IInv, ItemsSound
    <3> QED BY ONLY <3>1, <3>2, ItemSizeType DEF Item
  <2>2. \A j \in table : j # i /\ i # NoItem => j.offset # i.offset
    BY <1>1, <2>1 DEF IInv, Disjoint, OnOpen
  <2>3. \A j \in table : j # i => j.ind # put.ind
    BY <1>0, <1>1, <2>1 DEF IInv, ItemsSound
  <2> QED BY <2>2, <2>3
<1>6. /\ put \in table' /\ \A j \in table : j # i => j \in table'
      /\ \A j \in table' : j = put \/ (j \in table /\ j # i)
  BY ONLY <1>0
<1>7. ASSUME i = NoItem \/ \A m \in table : m.key = k => m = i, NEW s \in C2, s.key = k
      PROVE  s.at <= put.offset
  <2>1. put.offset \in Int BY DEF Item
  <2>2. CASE s \notin C BY ONLY <1>a, <1>7, <2>1, <2>2
  <2>3. CASE s \in C /\ put.offset = e BY ONLY <1>3, <1>4, <2>3
  <2>4. CASE s \in C /\ i # NoItem /\ put.offset = i.offset
    <3>1. s.at < fpos BY ONLY <1>b, <1>4, <2>4
    <3>2. \A m \in table : m.key = i.key => m = i BY ONLY <1>1, <1>7, <2>4
    <3> QED BY ONLY <1>1, <1>7, <1>b, <2>4, <3>1, <3>2 DEF AloneIsLatest
  <2> QED BY ONLY <2>2, <2>3, <2>4, put.offset = e \/ (i # NoItem /\ put.offset = i.offset)
<1>8. InChain(C2)'
  <2>1. ASSUME NEW j \in table, j # i
        PROVE  \E s \in C2 : s.at = j.offset /\ s.key = j.key /\ s.value = j.value
    BY ONLY <1>a, <1>b, <1>5, <2>1 DEF InChain
  <2> QED BY ONLY <1>0, <1>a, <1>6, <2>1 DEF InChain
<1>9. AloneIsLatest(C2)'
  <2>1. SUFFICES ASSUME NEW j \in table', \A m \in table' : m.key = j.key => m = j,
                        NEW s \in C2, s.key = j.key
                 PROVE  s.at <= j.offset
    BY DEF AloneIsLatest
  <2>2. CASE j = put
    <3>1. \A m \in table : m.key = k => m = i BY ONLY <1>0, <1>5, <1>6, <2>1, <2>2
    <3> QED BY ONLY <1>0, <1>7, <2>1, <2>2, <3>1
  <2>3. CASE j # put
    <3>1. j \in table /\ j.key # k BY ONLY <1>0, <1>6, <2>1, <2>3
    <3>2. \A m \in table : m.key = j.key => m = j BY ONLY <1>1, <1>2, <1>6, <2>1, <3>1
    <3>3. s \in C /\ s.at < fpos BY ONLY <1>a, <1>b, <1>4, <2>1, <3>1
    <3> QED BY ONLY <1>b, <2>1, <3>1, <3>2, <3>3 DEF AloneIsLatest
  <2> QED BY <2>2, <2>3
<1>10. LastOnFile(C2)'
  <2>1. \A q \in Keys \ {k} : last'[q] = last[q] BY StoredLast DEF IInv
  <2>2. last'[k] \in Values => last'[k] = v /\ (i = NoItem \/ ItemsOf(k) = {i})
    BY StoredLast DEF IInv
  <2>3. ASSUME NEW q \in Keys, last'[q] \in Values PROVE Latest(C2, q, last'[q])
    <3>1. CASE q = k
      <4>1. i = NoItem \/ \A m \in table : m.key = k => m = i
        BY ONLY <2>2, <2>3, <3>1 DEF ItemsOf
      <4>2. last'[q] = v BY ONLY <2>2, <2>3, <3>1
      <4> QED BY ONLY <1>a, <1>7, <3>1, <4>1, <4>2 DEF Latest
    <3>2. CASE q # k
      <4>1. last'[q] = last[q] BY ONLY <2>1, <3>2, q \in Keys
      <4>2. PICK r \in C : /\ r.key = q /\ r.value = last[q]
                           /\ \A s \in C : s.key = q => s.at <= r.at
        BY <1>b, <2>3, <4>1 DEF LastOnFile, Latest
      <4>3. r \in C2 /\ \A s \in C2 : s.key = q => s.at <= r.at BY ONLY <1>a, <3>2, <4>2
      <4> QED BY ONLY <4>1, <4>2, <4>3 DEF Latest
    <3> QED BY <3>1, <3>2
  <2> QED BY ONLY <2>3 DEF LastOnFile, Latest
<1> QED BY <1>8, <1>9, <1>10 DEF Good, OnOpen

\* An append of kv777_update makes the chain one record longer.
LEMMA AppendChain ==
  ASSUME TypeOK, NEW C, NEW e, Chain(C, e), NEW k \in Keys, NEW v \in Values,
         <<k, v>> \notin ZeroCrc, e + ItemSize(k, v) <= FileWords,
         file' = ImageAt(e, k, v, ItemSize(k, v)), NEW r,
         r = [at |-> e, key |-> k, value |-> v]
  PROVE  Chain(C \cup {r}, e + ItemSize(k, v))'
<1> DEFINE n == ItemSize(k, v)
<1>1. n \in Nat /\ n >= 3 /\ FileWords \in Nat /\ e \in Nat
  BY ItemSizeType, KVAssumption DEF Chain
<1>2. /\ \A w \in 0..FileWords - 1 : w < e \/ w >= e + n => file'[w] = file[w]
      /\ n' = n
  <2>1. n' = n BY DEF ItemSize, Aligned
  <2> QED BY <1>1, <2>1, ImageWords
<1>3. \A s \in C : /\ s.at \in Nat /\ s.key \in Keys /\ s.value \in Values
                   /\ Loads(s.at, s.key, s.value) /\ End(s) <= e
                   /\ ItemSize(s.key, s.value) \in Nat /\ End(s) = s.at + ItemSize(s.key, s.value)
  BY ItemSizeType DEF Chain, End
<1>4. r.at = e /\ r.key = k /\ r.value = v /\ End(r) = e + n BY DEF End
<1>5. r \in [at : Nat, key : Keys, value : Values] BY <1>1
<1> HIDE DEF n
<1>6. \A s \in C : Loads(s.at, s.key, s.value)'
  <2> TAKE s \in C
  <2>1. \A w \in s.at..(s.at + ItemSize(s.key, s.value) - 1) : file'[w] = file[w]
    BY <1>1, <1>2, <1>3 DEF Chain
  <2> QED BY <1>3, <2>1, LoadsKept
<1>7. Loads(r.at, r.key, r.value)'
  <2>1. HoldsImage(e, k, v)' BY <1>1, ImageWritten
  <2> QED BY <1>4, <2>1 DEF Loads
<1>8. Torn(e + n)'
  <2>1. ASSUME NEW w \in e + n..FileWords - 1, file'[w] # Blank PROVE file'[w].part > w - (e + n)
    <3>1. file'[w] = file[w] /\ w \in e..FileWords - 1 /\ w \in 0..FileWords - 1
      BY ONLY <1>1, <1>2, w \in e + n..FileWords - 1
    <3>2. file[w] \in Word BY <2>1, <3>1 DEF TypeOK
    <3>3. file[w].part \in Nat /\ file[w].part >= w - e BY <2>1, <3>1, <3>2 DEF Chain, Torn, Word
    <3> QED BY ONLY <1>1, <3>1, <3>3
  <2>2. \A w \in e + n..FileWords - 1 : file'[w] # Blank => file'[w].part \in Int
    <3>1. \A w \in e + n..FileWords - 1 : file'[w] = file[w] /\ w \in 0..FileWords - 1
      BY ONLY <1>1, <1>2
    <3> QED BY <3>1 DEF TypeOK, Word
  <2>3. Torn(e + n)' <=> \A w \in e + n..FileWords - 1 : file'[w] # Blank =>
                           /\ file'[w].part >= w - (e + n)
                           /\ file'[w].part = w - (e + n) =>
                                file'[w].part # ItemSize(file'[w].key, file'[w].value) - 1
    BY <1>2 DEF Torn, ItemSize, Aligned
  <2> QED BY ONLY <1>1, <2>1, <2>2, <2>3
<1>9. \A s : End(s)' = End(s) BY DEF End, ItemSize, Aligned
<1>10. C \cup {r} \subseteq [at : Nat, key : Keys, value : Values] /\ e + n \in 0..FileWords
  BY <1>1, <1>5 DEF Chain, n
<1>11. StartsAt(C \cup {r}, e + n, 0) BY <1>4 DEF Chain, StartsAt
<1>12. \A s \in C \cup {r} : /\ End(s) <= e + n /\ StartsAt(C \cup {r}, e + n, End(s))
                             /\ \A t \in C \cup {r} : t = s \/ t.at >= End(s) \/ End(t) <= s.at
  <2>1. \A s \in C : /\ End(s) <= e + n /\ StartsAt(C \cup {r}, e + n, End(s))
                     /\ \A t \in C : t = s \/ t.at >= End(s) \/ End(t) <= s.at
    BY <1>1, <1>3, <1>4 DEF Chain, StartsAt
  <2>2. End(r) <= e + n /\ StartsAt(C \cup {r}, e + n, End(r)) BY <1>1, <1>4 DEF StartsAt
  <2>3. \A s \in C : End(s) <= r.at /\ r.at >= End(s) BY <1>1, <1>3, <1>4
  <2> QED BY ONLY <2>1, <2>2, <2>3
<1>13. Chain(C \cup {r}, e + n)'
  BY ONLY <1>2, <1>6, <1>7, <1>8, <1>9, <1>10, <1>11, <1>12 DEF Chain, StartsAt
<1> QED BY <1>13 DEF n

\* A rewrite of the same size puts a record in the place of the old one.
LEMMA RewriteChain ==
  ASSUME TypeOK, NEW C, NEW e, Chain(C, e), NEW k \in Keys, NEW v \in Values,
         <<k, v>> \notin ZeroCrc, NEW r \in C, r.key = k,
         ItemSize(k, r.value) = ItemSize(k, v),
         file' = ImageAt(r.at, k, v, ItemSize(k, v)), NEW q,
         q = [at |-> r.at, key |-> k, value |-> v]
  PROVE  Chain((C \ {r}) \cup {q}, e)'
<1> DEFINE n == ItemSize(k, v)
           D == (C \ {r}) \cup {q}
<1>1. n \in Nat /\ n >= 3 /\ FileWords \in Nat /\ e \in Nat /\ e <= FileWords
  BY ItemSizeType, KVAssumption DEF Chain
<1>2. \A s \in C : /\ s.at \in Nat /\ s.key \in Keys /\ s.value \in Values
                   /\ Loads(s.at, s.key, s.value) /\ End(s) <= e
                   /\ ItemSize(s.key, s.value) \in Nat /\ ItemSize(s.key, s.value) >= 3
                   /\ End(s) = s.at + ItemSize(s.key, s.value)
                   /\ s = r \/ s.at >= End(r) \/ End(s) <= r.at
  BY ItemSizeType DEF Chain, End
<1>3. q.at = r.at /\ q.key = k /\ q.value = v /\ End(q) = r.at + n /\ End(r) = r.at + n
  BY DEF End
<1>4. q \in [at : Nat, key : Keys, value : Values]
  BY ONLY <1>2, r \in C, k \in Keys, v \in Values, q = [at |-> r.at, key |-> k, value |-> v]
<1>5. \A w \in 0..FileWords - 1 : w < r.at \/ w >= r.at + n => file'[w] = file[w]
  BY <1>1, <1>2, ImageWords
<1> HIDE DEF n, D
<1>6. \A s \in C : s # r => Loads(s.at, s.key, s.value)'
  <2> SUFFICES ASSUME NEW s \in C, s # r PROVE Loads(s.at, s.key, s.value)' OBVIOUS
  <2>1. \A w \in s.at..(s.at + ItemSize(s.key, s.value) - 1) : file'[w] = file[w]
    BY ONLY <1>1, <1>2, <1>3, <1>5, r \in C, s \in C, s # r
  <2> QED BY ONLY <1>2, <2>1, LoadsKept, s \in C
<1>7. Loads(q.at, q.key, q.value)'
  <2>1. r.at + ItemSize(k, v) <= FileWords BY ONLY <1>1, <1>2, <1>3, r \in C DEF n
  <2>2. PICK p \in Nat : p = r.at BY ONLY <1>2, r \in C
  <2>3. HoldsImage(p, k, v)' BY <2>1, <2>2, ImageWritten
  <2> QED BY ONLY <1>3, <2>2, <2>3, <<k, v>> \notin ZeroCrc DEF Loads
<1>8. Torn(e)'
  <2>1. \A w \in e..FileWords - 1 : file'[w] = file[w] BY ONLY <1>1, <1>2, <1>3, <1>5, r \in C
  <2>2. Torn(e) BY DEF Chain
  <2> QED BY ONLY <2>1, <2>2 DEF Torn, ItemSize, Aligned
<1>9. \A s : End(s)' = End(s) BY DEF End, ItemSize, Aligned
<1>10. D \subseteq [at : Nat, key : Keys, value : Values] /\ e \in 0..FileWords
  BY <1>4 DEF Chain, D
<1>11. \A p : StartsAt(C, e, p) => StartsAt(D, e, p) BY <1>3 DEF StartsAt, D
<1>12. \A s \in C : /\ End(s) <= e /\ StartsAt(D, e, End(s))
                    /\ \A t \in C : t = s \/ t.at >= End(s) \/ End(t) <= s.at
  BY ONLY <1>11, Chain(C, e) DEF Chain
<1>13. \A s \in D : /\ End(s) <= e /\ StartsAt(D, e, End(s))
                    /\ \A t \in D : t = s \/ t.at >= End(s) \/ End(t) <= s.at
  <2>1. \A s \in D : \E r1 \in C : /\ r1.at = s.at /\ End(r1) = End(s)
                                   /\ s = q <=> r1 = r
                                   /\ s # q => s = r1
    BY ONLY <1>3, r \in C DEF D
  <2> QED BY ONLY <1>12, <2>1
<1>14. StartsAt(D, e, 0) BY <1>11 DEF Chain
<1>15. \A s \in D : Loads(s.at, s.key, s.value)' BY <1>6, <1>7 DEF D
<1>16. Chain(D, e)'
  BY ONLY <1>8, <1>9, <1>10, <1>13, <1>14, <1>15 DEF Chain, StartsAt
<1> QED BY <1>16 DEF D

\* kv777_write of a store on file that keeps its chain.
LEMMA StoreGood ==
  ASSUME IInv, NEW C, NEW e, Good(C, e), OnOpen, fp,
         NEW k \in Keys, NEW v \in Values, NEW i \in HashFind(k),
         NEW new \in Item, new = Target(i, k, v), Update(new), KeepsChain(i, new),
         NEW put \in Item, put = Placed(new), Stored(k, v, i, put)
  PROVE  \E D, f : Good(D, f)'
<1>1. /\ new.itemsize = ItemSize(k, v) /\ new.key = k /\ new.value = v
      /\ new.offset \in Int /\ ItemSize(k, v) \in Nat
      /\ \/ new.offset < 0
         \/ /\ i \in table /\ i # NoItem /\ new.offset = i.offset
            /\ new.itemsize <= i.itemsize
  <2>1. TypeOK BY DEF IInv
  <2>2. new.key = k /\ new.value = v BY <2>1, TargetType
  <2>3. new.offset \in Int /\ ItemSize(k, v) \in Nat BY ItemSizeType DEF Item
  <2> QED BY ONLY <2>2, <2>3, TargetPlace, IInv, k \in Keys, v \in Values, i \in HashFind(k),
             new = Target(i, k, v)
<1>a. TypeOK /\ Chain(C, e) /\ InChain(C) /\ fpos = e BY DEF Good, IInv, OnOpen
<1>b. e \in Nat BY ONLY <1>a, KVAssumption DEF Chain
<1>2. TypeOK /\ Chain(C, e) /\ InChain(C) /\ fpos = e /\ e \in Nat BY ONLY <1>a, <1>b
<1>3. <<k, v>> \notin ZeroCrc /\ (new.offset >= 0 => new.itemsize = i.itemsize)
  BY ONLY <1>1, KeepsChain(i, new) DEF KeepsChain
<1>4. CASE new.offset < 0
  <2>1. /\ e + ItemSize(k, v) <= FileWords /\ file' = ImageAt(e, k, v, ItemSize(k, v))
        /\ fpos' = e + ItemSize(k, v)
    BY ONLY <1>1, <1>2, <1>4, Update(new), fp DEF Update
  <2>2. put.offset = e
    <3>1. put = [new EXCEPT !.offset = fpos] BY <1>4 DEF Placed
    <3> QED BY ONLY <1>2, <3>1, new \in Item DEF Item
  <2>3. PICK r : r = [at |-> e, key |-> k, value |-> v] BY Zenon
  <2>4. r.at = put.offset /\ r.key = k /\ r.value = v BY <2>2, <2>3
  <2>5. Chain(C \cup {r}, e + ItemSize(k, v))'
    BY ONLY <1>2, <1>3, <2>1, <2>3, AppendChain, k \in Keys, v \in Values
  <2>6. PICK D, f : D = C \cup {r} /\ f = e + ItemSize(k, v) BY Zenon
  <2>7. Chain(D, f)' /\ fpos' = f
    <3>1. f' = f /\ (e + ItemSize(k, v))' = e + ItemSize(k, v) BY DEF ItemSize, Aligned
    <3> QED BY <2>1, <2>5, <2>6, <3>1 DEF Chain, StartsAt
  <2>8. Recorded(C, D, k, v, i, put) BY ONLY <2>4, <2>6 DEF Recorded
  <2>9. Good(D, f)'
    BY ONLY <2>2, <2>7, <2>8, WriteGood, IInv, Good(C, e), OnOpen, fp, k \in Keys,
       v \in Values, i \in HashFind(k), put \in Item, Stored(k, v, i, put)
  <2> QED BY <2>9
<1>5. CASE ~(new.offset < 0)
  <2>1. i \in table /\ i # NoItem /\ new.offset = i.offset /\ i.itemsize = ItemSize(k, v)
    BY <1>1, <1>3, <1>5
  <2>2. i.key = k /\ i.itemsize = ItemSize(k, i.value)
    BY <2>1, FindType DEF IInv, ItemsSound
  <2>3. PICK r \in C : r.at = i.offset /\ r.key = k /\ r.value = i.value
    BY <1>2, <2>1, <2>2 DEF InChain
  <2>4. /\ file' = ImageAt(r.at, k, v, ItemSize(k, v)) /\ fpos' = e
        /\ ItemSize(k, r.value) = ItemSize(k, v)
    BY ONLY <1>1, <1>2, <1>5, <2>1, <2>2, <2>3, Update(new), fp DEF Update
  <2>5. put.offset = i.offset BY <1>5, <2>1 DEF Placed
  <2>6. PICK q : q = [at |-> r.at, key |-> k, value |-> v] BY Zenon
  <2>7. q.at = put.offset /\ q.key = k /\ q.value = v BY <2>3, <2>5, <2>6
  <2>8. Chain((C \ {r}) \cup {q}, e)'
    BY ONLY <1>2, <1>3, <2>3, <2>4, <2>6, RewriteChain, k \in Keys, v \in Values
  <2>9. PICK D : D = (C \ {r}) \cup {q} BY Zenon
  <2>10. Chain(D, e)' BY <2>8, <2>9
  <2>11. Recorded(C, D, k, v, i, put) BY ONLY <2>1, <2>3, <2>7, <2>9 DEF Recorded
  <2>12. Good(D, e)'
    BY ONLY <2>1, <2>4, <2>5, <2>10, <2>11, WriteGood, IInv, Good(C, e), OnOpen, fp,
       k \in Keys, v \in Values, i \in HashFind(k), put \in Item, Stored(k, v, i, put)
  <2> QED BY <2>12
<1> QED BY <1>4, <1>5

\* A write of the value that is there changes neither table nor file.
LEMMA SameGood ==
  ASSUME IInv, NEW C, NEW e, Good(C, e), OnOpen, fp,
         NEW k \in Keys, NEW v \in Values, NEW i \in HashFind(k), i # NoItem,
         i \in Item, file' = file, fpos' = fpos, Stored(k, v, i, i)
  PROVE  Good(C, e)'
<1>1. i \in table /\ i.key = k /\ i.value = v BY FindType DEF IInv, Stored
<1>2. Chain(C, e) /\ InChain(C) /\ fpos = e BY DEF Good, OnOpen
<1>3. Chain(C, e)' BY <1>2, SameChain
<1>4. \E s \in C : s.at = i.offset /\ s.key = k /\ s.value = v
  BY ONLY <1>1, <1>2 DEF InChain
<1>5. Recorded(C, C, k, v, i, i) BY ONLY <1>4 DEF Recorded
<1>6. fpos' = e /\ i.offset = i.offset BY <1>2
<1> QED BY ONLY <1>3, <1>5, <1>6, WriteGood, IInv, Good(C, e), OnOpen, fp, k \in Keys,
           v \in Values, i \in HashFind(k), i # NoItem, i \in Item, Stored(k, v, i, i)

\* A store without a file: what is on file stays.
LEMMA RamGood ==
  ASSUME NEW C, NEW e, Good(C, e), OnOpen, ~fp, file' = file
  PROVE  Good(C, e)'
<1>1. Chain(C, e)' BY SameChain DEF Good
<1> QED BY <1>1 DEF Good, LastOnFile, OnOpen

\* kv777_write keeps what a restart needs.
LEMMA WriteDurable ==
  ASSUME IInv, DurableInv, NEW k \in Keys, NEW v \in Values, Write(k, v)
  PROVE  DurableInv'
<1> DEFINE Same == UNCHANGED <<file, fpos, table, framed>>
           Changed(i, new) == /\ Update(new)
                              /\ table' = (table \ {i}) \cup {Placed(new)}
                              /\ framed' = (framed /\ (fp => KeepsChain(i, new)))
           Last(i) == [last EXCEPT ![k] = IF i = NoItem THEN v
                                          ELSE IF ItemsOf(k) = {i} THEN v ELSE Unsure]
<1>1. PICK i \in HashFind(k) :
        /\ IF i # NoItem /\ i.value = v THEN Same ELSE Changed(i, Target(i, k, v))
        /\ last' = Last(i)
  BY Zenon DEF Write
<1>2. OnOpen BY DEF Write, OnOpen
<1>3. NotOpen' BY <1>2 DEF NotOpen, OnOpen
<1>4. i = NoItem \/ (i \in table /\ i \in Item /\ i.key = k /\ i # NoItem)
  BY FindType DEF IInv
<1>5. Durable /\ (framed => \E C, e : Good(C, e)) BY DEF DurableInv
<1> HIDE DEF Same, Changed, Last
<1>6. CASE i # NoItem /\ i.value = v
  <2>1. file' = file /\ fpos' = fpos /\ table' = table /\ framed' = framed
    BY ONLY <1>1, <1>6 DEF Same
  <2>2. i \in Item /\ Stored(k, v, i, i)
    <3>1. table' = (table \ {i}) \cup {i} BY ONLY <1>4, <1>6, <2>1
    <3> QED BY ONLY <1>1, <1>4, <1>6, <3>1 DEF Stored, Last
  <2>3. framed => Durable'
    BY ONLY <1>2, <1>5, <2>2, WriteTable, IInv, k \in Keys, v \in Values, i \in HashFind(k)
  <2>4. ASSUME framed' PROVE \E C, e : Good(C, e)'
    <3>1. PICK C, e : Good(C, e) BY ONLY <1>5, <2>1, <2>4
    <3>2. CASE fp
      <4>1. Good(C, e)'
        BY ONLY <1>2, <1>6, <2>1, <2>2, <3>1, <3>2, SameGood, IInv, k \in Keys,
           v \in Values, i \in HashFind(k)
      <4> QED BY <4>1
    <3>3. CASE ~fp
      <4>1. Good(C, e)' BY ONLY <1>2, <2>1, <3>1, <3>3, RamGood
      <4> QED BY <4>1
    <3> QED BY <3>2, <3>3
  <2>5. Durable' BY ONLY <2>1, <2>3 DEF Durable
  <2> QED BY ONLY <1>3, <2>4, <2>5 DEF DurableInv
<1>7. CASE ~(i # NoItem /\ i.value = v)
  <2>1. PICK new \in Item : new = Target(i, k, v) /\ new.key = k /\ new.value = v
    BY TargetType DEF IInv
  <2>2. Update(new) /\ table' = (table \ {i}) \cup {Placed(new)}
    <3>1. Changed(i, new) BY ONLY <1>1, <1>7, <2>1
    <3> QED BY ONLY <3>1 DEF Changed
  <2>3. framed' => framed /\ (fp => KeepsChain(i, new))
    <3>1. Changed(i, new) BY ONLY <1>1, <1>7, <2>1
    <3> QED BY ONLY <3>1, Zenon DEF Changed
  <2>4. new.ind = IF i = NoItem THEN numkeys ELSE i.ind BY <2>1, TargetPlace
  <2>5. PICK put \in Item :
          /\ put = Placed(new) /\ put.ind = new.ind /\ put.key = k /\ put.value = v
    <3>1. CASE fp /\ new.offset < 0
      <4> DEFINE n == [new EXCEPT !.offset = fpos]
      <4>1. n \in Item /\ n.ind = new.ind /\ n.key = k /\ n.value = v
        BY <2>1 DEF Item, IInv, TypeOK
      <4>2. n = Placed(new) BY <3>1 DEF Placed
      <4> HIDE DEF n
      <4> QED BY ONLY <4>1, <4>2
    <3>2. CASE ~(fp /\ new.offset < 0)
      <4>1. Placed(new) = new BY <3>2 DEF Placed
      <4> QED BY <4>1, <2>1
    <3> QED BY <3>1, <3>2
  <2>6. Stored(k, v, i, put) BY ONLY <1>1, <2>2, <2>4, <2>5 DEF Stored, Last
  <2>7. framed => Durable'
    BY ONLY <1>2, <1>5, <2>5, <2>6, WriteTable, IInv, k \in Keys, v \in Values,
       i \in HashFind(k)
  <2>8. ASSUME framed' PROVE \E C, e : Good(C, e)'
    <3>1. PICK C, e : Good(C, e) BY ONLY <1>5, <2>3, <2>8
    <3>2. CASE fp
      <4>1. KeepsChain(i, new) BY ONLY <2>3, <2>8, <3>2
      <4> QED BY ONLY <1>2, <2>1, <2>2, <2>5, <2>6, <3>1, <3>2, <4>1, StoreGood, IInv,
                 k \in Keys, v \in Values, i \in HashFind(k)
    <3>3. CASE ~fp
      <4>1. file' = file BY <2>2, <3>3 DEF Update, disk
      <4>2. Good(C, e)' BY ONLY <1>2, <3>1, <3>3, <4>1, RamGood
      <4> QED BY <4>2
    <3> QED BY <3>2, <3>3
  <2>9. Durable' BY ONLY <2>3, <2>7 DEF Durable
  <2> QED BY ONLY <1>3, <2>8, <2>9 DEF DurableInv
<1> QED BY <1>6, <1>7

\* Steps of the rest of the process.
LEMMA StutterDurable == DurableInv /\ UNCHANGED vars => DurableInv'
<1> SUFFICES ASSUME DurableInv, UNCHANGED vars PROVE DurableInv' OBVIOUS
<1>1. UNCHANGED <<phase, mutex, file, fp, fpos, table, written, last, framed>> BY DEF vars
<1>2. Durable' BY <1>1 DEF DurableInv, Durable, Newest, ItemsOf
<1>3. NotOpen' BY <1>1 DEF DurableInv, NotOpen
<1>4. ASSUME NEW C, NEW e, Good(C, e) PROVE Good(C, e)'
  <2>1. Chain(C, e)' BY <1>1, <1>4, SameChain DEF Good
  <2>2. LastOnFile(C) => LastOnFile(C)' BY <1>1 DEF LastOnFile, Latest
  <2>3. Loading(C, e) => Loading(C, e)' BY <1>1 DEF Loading, StartsAt
  <2>4. /\ InChain(C) => InChain(C)'
        /\ AloneIsLatest(C) => AloneIsLatest(C)'
    BY <1>1 DEF InChain, AloneIsLatest
  <2> QED BY <1>1, <1>4, <2>1, <2>2, <2>3, <2>4 DEF Good
<1> QED BY <1>1, <1>2, <1>3, <1>4 DEF DurableInv

\* Through any number of restarts and torn appends the newest item of a key
\* holds the last value kv777_write was given for it, as long as the chain of
\* records on file was not broken.
THEOREM StaysDurable == Spec => []Durable
<1>1. Init => DurableInv BY InitDurable
<1>2. IInv /\ DurableInv /\ [Next]_vars => DurableInv'
  <2> SUFFICES ASSUME IInv, DurableInv, [Next]_vars PROVE DurableInv' OBVIOUS
  <2>1. CASE Open BY <2>1, OpenDurable
  <2>2. CASE LoadItem BY <2>2, LoadItemDurable
  <2>3. CASE LoadEnd BY <2>3, LoadEndDurable
  <2>4. CASE Purge BY <2>4, PurgeDurable
  <2>5. CASE Crash BY <2>5, CrashDurable
  <2>6. CASE \E k \in Keys : Delete(k) BY <2>6, DeleteDurable
  <2>7. CASE \E k \in Keys, v \in Values : Write(k, v) BY <2>7, WriteDurable
  <2>8. CASE \E k \in Keys, v \in Values : CrashInAppend(k, v)
    BY <2>8, CrashInAppendDurable
  <2>9. CASE \E k \in Keys, v \in Values : CrashInRewrite(k, v)
    BY <2>9, CrashInRewriteDurable
  <2>10. CASE UNCHANGED vars BY <2>10, StutterDurable
  <2> QED BY <2>1, <2>2, <2>3, <2>4, <2>5, <2>6, <2>7, <2>8, <2>9, <2>10 DEF Next
<1>3. DurableInv => Durable BY DEF DurableInv
<1> QED BY <1>1, <1>2, <1>3, StoreSafe, PTL DEF Spec
=============================================================================
