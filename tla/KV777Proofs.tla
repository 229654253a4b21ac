----------------------------- MODULE KV777Proofs -----------------------------
(***************************************************************************)
(* Safety of one kv777 store, for every set of keys, values and sizes.     *)
(*                                                                         *)
(* After it, the invariant that Durable needs, and the steps that end or   *)
(* open a store; KV777DurableProofs has the others.                        *)
(***************************************************************************)
EXTENDS KV777, FiniteSetTheorems, TLAPS

\* Items are told apart by ptr->ind and know the size of their image.
ItemsSound ==
  /\ \A i \in table : i.ind < numkeys /\ i.itemsize = ItemSize(i.key, i.value)
  /\ \A i, j \in table : i.ind = j.ind => i = j

\* No two items of a store on file share a word.
Disjoint ==
  fp => \A i, j \in table :
          i # j => \/ i.offset + i.itemsize <= j.offset
                   \/ j.offset + j.itemsize <= i.offset

\* A process that is not running has no table and no open file; only a store
\* on file is loaded.
DownEmpty ==
  /\ phase = "down" => table = {} /\ ~fp
  /\ phase = "loading" => fp

\* The last word of an image is in the file only if its write completed.
LastWordWritten ==
  \A w \in 0..FileWords - 1, k \in Keys, v \in Values :
    file[w] = [key |-> k, value |-> v, part |-> ItemSize(k, v) - 1]
      => <<k, v>> \in written

Counted == IsFiniteSet(table) /\ netkeys = Cardinality(table)

IInv ==
  /\ TypeOK /\ ItemsSound /\ Disjoint /\ DownEmpty /\ ItemsOnDisk
  /\ LastWordWritten /\ OnlyWritten /\ Counted

-----------------------------------------------------------------------------
\* kv777_itemsize is a positive number of words.
LEMMA ItemSizeType ==
  \A k \in Keys, v \in Values : ItemSize(k, v) \in Nat /\ ItemSize(k, v) >= 3
<1>1. \A n \in Nat : Aligned(n) \in Nat
  BY DEF Aligned
<1>2. \A k \in Keys, v \in Values : KeySize[k] \in Nat /\ ValueSize[v] \in Nat
  BY KVAssumption
<1> QED BY <1>1, <1>2 DEF ItemSize

\* Writing an image leaves the images outside its extent whole.
LEMMA ImageKept ==
  ASSUME TypeOK, NEW p \in Int, NEW n \in Nat, NEW k, NEW v,
         NEW q \in Int, NEW k2 \in Keys, NEW v2 \in Values,
         file' = ImageAt(p, k, v, n), HoldsImage(q, k2, v2),
         q + ItemSize(k2, v2) <= p \/ p + n <= q
  PROVE  HoldsImage(q, k2, v2)'
<1>1. ItemSize(k2, v2) \in Nat BY ItemSizeType
<1>2. FileWords \in Nat BY KVAssumption
<1> QED BY <1>1, <1>2 DEF HoldsImage, ImageAt, ItemSize, Aligned

\* A whole image written at p is there.
LEMMA ImageWritten ==
  ASSUME TypeOK, NEW p \in Nat, NEW k \in Keys, NEW v \in Values,
         file' = ImageAt(p, k, v, ItemSize(k, v)),
         p + ItemSize(k, v) <= FileWords
  PROVE  HoldsImage(p, k, v)'
<1>1. ItemSize(k, v) \in Nat BY ItemSizeType
<1>2. FileWords \in Nat BY KVAssumption
<1> QED BY <1>1, <1>2 DEF HoldsImage, ImageAt, ItemSize, Aligned

\* The file keeps its type.
LEMMA ImageType ==
  ASSUME TypeOK, NEW p \in Int, NEW n \in Nat, NEW k \in Keys, NEW v \in Values
  PROVE  ImageAt(p, k, v, n) \in [0..FileWords - 1 -> Word \cup {Blank}]
<1>1. FileWords \in Nat BY KVAssumption
<1> QED BY <1>1 DEF ImageAt, TypeOK, Word

\* What HASH_FIND may give.
LEMMA FindType ==
  ASSUME TypeOK, NEW k \in Keys, NEW i \in HashFind(k)
  PROVE  i = NoItem \/ (i \in table /\ i \in Item /\ i.key = k /\ i # NoItem)
BY KVAssumption DEF HashFind, ItemsOf, TypeOK

\* The new item of a write has its type.
LEMMA TargetType ==
  ASSUME TypeOK, NEW k \in Keys, NEW v \in Values, NEW i \in HashFind(k)
  PROVE  /\ Target(i, k, v) \in Item
         /\ Target(i, k, v).key = k /\ Target(i, k, v).value = v
<1>1. ItemSize(k, v) \in Nat BY ItemSizeType
<1>2. KVAssumption BY KVAssumption
<1>3. i = NoItem \/ (i \in Item /\ i.key = k /\ i # NoItem) BY FindType
<1>4. NewItem(k, v, -1) \in Item BY <1>1, <1>2 DEF NewItem, Item, TypeOK
<1>5. ASSUME i \in Item PROVE Resized(i, k, v) \in Item
  <2> DEFINE o == IF ItemSize(k, v) > i.itemsize THEN -1 ELSE i.offset
  <2>1. o \in Int BY <1>5 DEF Item
  <2>2. Resized(i, k, v) = [i EXCEPT !.value = v, !.itemsize = ItemSize(k, v),
                                     !.offset = o, !.hkey = FALSE]
    BY DEF Resized
  <2> HIDE DEF o
  <2> QED BY <1>1, <1>5, <2>1, <2>2 DEF Item
<1> QED BY <1>1, <1>3, <1>4, <1>5 DEF Target, NewItem, Resized, Item

-----------------------------------------------------------------------------
\* Init and the steps that leave no item behind.
LEMMA InitInv == Init => IInv
<1> SUFFICES ASSUME Init PROVE IInv OBVIOUS
<1> USE KVAssumption
<1>1. TypeOK
  <2>1. 0 \in Nat /\ 0 \in Int /\ 0 \in 0..FileWords /\ 0 \in 0..MaxKeys OBVIOUS
  <2>2. file \in [0..FileWords - 1 -> Word \cup {Blank}] BY DEF Init
  <2>3. last \in [Keys -> Values \cup {Absent, Unsure}] BY DEF Init
  <2> QED BY <2>1, <2>2, <2>3, Zenon DEF Init, TypeOK
<1>2. LastWordWritten
  <2>1. \A k \in Keys, v \in Values :
          [key |-> k, value |-> v, part |-> ItemSize(k, v) - 1] \in Word
    BY ItemSizeType DEF Word
  <2> QED BY <2>1 DEF Init, LastWordWritten
<1>3. Counted BY FS_EmptySet DEF Init, Counted
<1> QED BY <1>1, <1>2, <1>3
        DEF Init, IInv, ItemsSound, Disjoint, DownEmpty, ItemsOnDisk, OnlyWritten

\* kv777_init up to its loop: the table is still empty.
LEMMA OpenInv == IInv /\ Open => IInv'
<1> SUFFICES ASSUME IInv, Open PROVE IInv' OBVIOUS
<1> USE KVAssumption DEF IInv
<1>1. TypeOK' BY DEF Open, TypeOK
<1>2. table' = {} /\ table = {} BY DEF Open, DownEmpty
<1>3. LastWordWritten' BY DEF Open, LastWordWritten
<1>4. Counted' BY DEF Open, Counted
<1> QED BY <1>1, <1>2, <1>3, <1>4
        DEF Open, ItemsSound, Disjoint, DownEmpty, ItemsOnDisk, OnlyWritten

\* The end of kv777_init only puts fp back behind the last good record.
LEMMA LoadEndInv == IInv /\ LoadEnd => IInv'
<1> SUFFICES ASSUME IInv, LoadEnd PROVE IInv' OBVIOUS
<1> USE DEF IInv, LoadEnd, history
<1>1. TypeOK' BY DEF TypeOK
<1>2. ItemsSound' /\ Disjoint' /\ DownEmpty' /\ OnlyWritten' /\ Counted'
  BY DEF ItemsSound, Disjoint, DownEmpty, OnlyWritten, Counted
<1>3. LastWordWritten' BY DEF LastWordWritten
<1>4. ItemsOnDisk' BY DEF ItemsOnDisk, HoldsImage
<1> QED BY <1>1, <1>2, <1>3, <1>4

\* The end of the process, whatever it left in the file.
LEMMA EndedInv ==
  ASSUME IInv, Ended, file' \in [0..FileWords - 1 -> Word \cup {Blank}],
         framed' \in BOOLEAN, LastWordWritten'
  PROVE  IInv'
<1> USE KVAssumption DEF IInv, Ended
<1>1. last' \in [Keys -> Values \cup {Absent, Unsure}] BY DEF TypeOK
<1>2. TypeOK'
  <2>1. 0 \in Nat /\ 0 \in Int /\ 0 \in 0..FileWords /\ 0 \in 0..MaxKeys OBVIOUS
  <2> QED BY <1>1, <2>1, Zenon DEF TypeOK
<1>3. Counted' BY FS_EmptySet DEF Counted
<1> QED BY <1>2, <1>3
        DEF ItemsSound, Disjoint, DownEmpty, ItemsOnDisk, OnlyWritten

\* kv777_purge leaves an empty table and an empty file.
LEMMA PurgeInv == IInv /\ Purge => IInv'
<1> SUFFICES ASSUME IInv, Purge PROVE IInv' OBVIOUS
<1> USE KVAssumption DEF IInv, Purge
<1>1. TypeOK'
  <2>1. 0 \in Nat /\ 0 \in Int /\ 0 \in 0..FileWords OBVIOUS
  <2>2. file' \in [0..FileWords - 1 -> Word \cup {Blank}] OBVIOUS
  <2>3. last' \in [Keys -> Values \cup {Absent, Unsure}] OBVIOUS
  <2> QED BY <2>1, <2>2, <2>3, Zenon DEF TypeOK
<1>2. Counted' BY FS_EmptySet DEF Counted
<1>3. \A k \in Keys, v \in Values :
        [key |-> k, value |-> v, part |-> ItemSize(k, v) - 1] \in Word
  BY ItemSizeType DEF Word
<1>4. LastWordWritten' BY <1>3 DEF LastWordWritten
<1> QED BY <1>1, <1>2, <1>4
        DEF ItemsSound, Disjoint, DownEmpty, ItemsOnDisk, OnlyWritten

\* A crash between calls leaves the file as it is.
LEMMA CrashInv == IInv /\ Crash => IInv'
<1> SUFFICES ASSUME IInv, Crash PROVE IInv' OBVIOUS
<1>1. LastWordWritten' BY DEF IInv, Crash, Ended, LastWordWritten
<1> QED BY <1>1, EndedInv DEF IInv, Crash, TypeOK

\* A torn image lacks its last word.
LEMMA TornImage ==
  ASSUME IInv, NEW k \in Keys, NEW v \in Values, NEW p \in Int, NEW n \in Nat,
         n < ItemSize(k, v), file' = ImageAt(p, k, v, n), written' = written
  PROVE  LastWordWritten' /\ file' \in [0..FileWords - 1 -> Word \cup {Blank}]
<1>1. file' \in [0..FileWords - 1 -> Word \cup {Blank}]
  BY ImageType DEF IInv
<1>2. ASSUME NEW w \in 0..FileWords - 1, NEW k2 \in Keys, NEW v2 \in Values,
             file'[w] = [key |-> k2, value |-> v2, part |-> ItemSize(k2, v2) - 1]
      PROVE  <<k2, v2>> \in written
  <2>1. CASE w >= p /\ w < p + n
    <3>1. file'[w] = [key |-> k, value |-> v, part |-> w - p]
      BY <2>1 DEF ImageAt
    <3>2. k2 = k /\ v2 = v /\ ItemSize(k2, v2) - 1 = w - p
      BY <3>1, <1>2
    <3> QED BY <3>2, <2>1, ItemSizeType, KVAssumption
  <2>2. CASE ~(w >= p /\ w < p + n)
    BY <2>2, <1>2 DEF ImageAt, IInv, LastWordWritten
  <2> QED BY <2>1, <2>2
<1> QED BY <1>1, <1>2 DEF LastWordWritten

\* A torn append leaves a partial image behind every whole record.
LEMMA CrashInAppendInv ==
  ASSUME IInv, NEW k \in Keys, NEW v \in Values, CrashInAppend(k, v)
  PROVE  IInv'
<1>1. PICK n \in Tears : n < ItemSize(k, v) /\ file' = ImageAt(fpos, k, v, n)
  BY DEF CrashInAppend
<1>2. n \in Nat /\ fpos \in Int BY KVAssumption DEF IInv, TypeOK
<1>3. Ended /\ framed' \in BOOLEAN /\ written' = written
  BY DEF CrashInAppend, Ended, IInv, TypeOK
<1>4. LastWordWritten' /\ file' \in [0..FileWords - 1 -> Word \cup {Blank}]
  BY <1>1, <1>2, <1>3, TornImage
<1> QED BY <1>3, <1>4, EndedInv

\* A torn rewrite mixes two images of one place; nothing is left in memory.
LEMMA CrashInRewriteInv ==
  ASSUME IInv, NEW k \in Keys, NEW v \in Values, CrashInRewrite(k, v)
  PROVE  IInv'
<1>1. PICK i \in HashFind(k) \ {NoItem} : \E n \in Tears :
        n < ItemSize(k, v) /\ file' = ImageAt(i.offset, k, v, n)
  BY DEF CrashInRewrite
<1>2. PICK n \in Tears : n < ItemSize(k, v) /\ file' = ImageAt(i.offset, k, v, n)
  BY <1>1
<1>3. i.offset \in Int BY FindType DEF IInv, Item
<1>4. n \in Nat BY KVAssumption
<1>5. Ended /\ framed' \in BOOLEAN /\ written' = written
  BY DEF CrashInRewrite, Ended
<1>6. LastWordWritten' /\ file' \in [0..FileWords - 1 -> Word \cup {Blank}]
  BY <1>2, <1>3, <1>4, <1>5, TornImage
<1> QED BY <1>5, <1>6, EndedInv

-----------------------------------------------------------------------------
\* Taking one item out of the table and putting one in its place, or just
\* adding one, keeps inds unique and the count right.
LEMMA SwapSound ==
  ASSUME IInv, NEW old, NEW new \in Item, old = NoItem \/ old \in table,
         numkeys' \in Nat, numkeys' >= numkeys, new.ind < numkeys',
         \A j \in table \ {old} : j.ind # new.ind,
         new.itemsize = ItemSize(new.key, new.value),
         table' = (table \ {old}) \cup {new}
  PROVE  /\ ItemsSound' /\ IsFiniteSet(table')
         /\ Cardinality(table') = netkeys + 1 - (IF old = NoItem THEN 0 ELSE 1)
<1> USE DEF IInv
<1>1. \A i \in table : i \in Item /\ i # NoItem BY KVAssumption DEF TypeOK
<1>2. \A i \in table : i.ind \in Nat BY <1>1 DEF Item
<1>3. ItemsSound' BY <1>2 DEF ItemsSound, TypeOK, Item, ItemSize, Aligned
<1>4. /\ IsFiniteSet(table \ {old})
      /\ Cardinality(table \ {old})
           = IF old \in table THEN Cardinality(table) - 1 ELSE Cardinality(table)
  BY FS_RemoveElement DEF Counted
<1>5. new \notin table \ {old} OBVIOUS
<1>6. IsFiniteSet(table') /\ Cardinality(table') = Cardinality(table \ {old}) + 1
  BY <1>4, <1>5, FS_AddElement
<1>7. Cardinality(table) \in Nat BY FS_CardinalityType DEF Counted
<1>8. old = NoItem <=> old \notin table BY <1>1
<1> QED BY <1>3, <1>4, <1>6, <1>7, <1>8 DEF Counted

\* The same for the places in the file.
LEMMA SwapPlaced ==
  ASSUME IInv, NEW old, NEW new \in Item, old = NoItem \/ old \in table,
         table' = (table \ {old}) \cup {new},
         phase # "down", fp, fp' = fp, fpos' \in Nat, fpos' >= fpos,
         HoldsImage(new.offset, new.key, new.value)',
         new.offset + new.itemsize <= fpos',
         \A j \in table \ {old} :
           /\ HoldsImage(j.offset, j.key, j.value)'
           /\ \/ new.offset + new.itemsize <= j.offset
              \/ j.offset + j.itemsize <= new.offset
  PROVE  Disjoint' /\ ItemsOnDisk'
<1> USE DEF IInv
<1>1. \A i \in table \cup {new} : i.offset \in Int /\ i.itemsize \in Nat
  BY DEF TypeOK, Item
<1>2. Disjoint' BY <1>1 DEF Disjoint
<1>3. \A i \in table' : i.offset + i.itemsize <= fpos'
  BY <1>1 DEF ItemsOnDisk, TypeOK
<1>4. \A i \in table' : HoldsImage(i.offset, i.key, i.value)' OBVIOUS
<1> QED BY <1>2, <1>3, <1>4 DEF ItemsOnDisk

\* A record kv777_init loads stands whole in the file, behind those of the
\* items already in the table, and holds a value that was written.
LEMMA LoadItemInv == IInv /\ LoadItem => IInv'
<1> SUFFICES ASSUME IInv, LoadItem PROVE IInv' OBVIOUS
<1> USE DEF IInv
<1>1. PICK k \in Keys, v \in Values : \E old \in HashFind(k) :
        /\ Loads(fpos, k, v)
        /\ table' = (table \ {old}) \cup {NewItem(k, v, fpos)}
        /\ fpos' = fpos + ItemSize(k, v)
        /\ netkeys' = netkeys + 1 - (IF old = NoItem THEN 0 ELSE 1)
        /\ totalvalues' = totalvalues + ValueSize[v] - OldSize(old)
  BY DEF LoadItem
<1>2. PICK old \in HashFind(k) :
        /\ Loads(fpos, k, v)
        /\ table' = (table \ {old}) \cup {NewItem(k, v, fpos)}
        /\ fpos' = fpos + ItemSize(k, v)
        /\ netkeys' = netkeys + 1 - (IF old = NoItem THEN 0 ELSE 1)
        /\ totalvalues' = totalvalues + ValueSize[v] - OldSize(old)
  BY <1>1
<1>3. ItemSize(k, v) \in Nat /\ FileWords \in Nat /\ MaxKeys \in Nat
  BY ItemSizeType, KVAssumption
<1>4. fpos \in Nat /\ fpos <= FileWords /\ numkeys \in Nat /\ numkeys < MaxKeys
  BY <1>3 DEF TypeOK, LoadItem
<1>5. PICK new \in Item :
        /\ new = NewItem(k, v, fpos)
        /\ new.ind = numkeys /\ new.key = k /\ new.value = v
        /\ new.offset = fpos /\ new.itemsize = ItemSize(k, v)
  <2> DEFINE n == NewItem(k, v, fpos)
  <2>1. n \in Item BY <1>3, <1>4 DEF NewItem, Item
  <2>2. /\ n.ind = numkeys /\ n.key = k /\ n.value = v
        /\ n.offset = fpos /\ n.itemsize = ItemSize(k, v)
    BY DEF NewItem
  <2> HIDE DEF n
  <2> QED BY <2>1, <2>2 DEF n
<1>6. old = NoItem \/ (old \in table /\ old \in Item /\ old # NoItem)
  BY FindType
<1>7. \A j \in table : j.ind \in Nat /\ j.ind < numkeys /\ j \in Item
  BY DEF ItemsSound, TypeOK, Item
<1>8. numkeys' = numkeys + 1 /\ phase = "loading" /\ UNCHANGED <<phase, mutex, file, fp, written, last, framed>>
  BY DEF LoadItem, history
<1>9. table' = (table \ {old}) \cup {new} BY <1>2, <1>5
<1>10. /\ ItemsSound' /\ IsFiniteSet(table')
       /\ Cardinality(table') = netkeys + 1 - (IF old = NoItem THEN 0 ELSE 1)
  <2>1. \A j \in table \ {old} : j.ind # new.ind BY <1>5, <1>7, <1>4
  <2>2. numkeys' \in Nat /\ numkeys' >= numkeys /\ new.ind < numkeys'
    BY <1>4, <1>5, <1>8
  <2> QED BY <1>5, <1>6, <1>9, <2>1, <2>2, SwapSound
<1>11. Counted' BY <1>2, <1>10 DEF Counted
<1>12. HoldsImage(fpos, k, v) /\ fpos + ItemSize(k, v) <= FileWords
  BY <1>2 DEF Loads, HoldsImage
<1>13. Disjoint' /\ ItemsOnDisk'
  <2>1. fp BY <1>8 DEF DownEmpty
  <2>2. \A j \in table : /\ HoldsImage(j.offset, j.key, j.value)'
                         /\ j.offset + j.itemsize <= new.offset
    BY <2>1, <1>5, <1>8 DEF ItemsOnDisk, HoldsImage
  <2>3. HoldsImage(new.offset, new.key, new.value)'
    BY <1>5, <1>8, <1>12 DEF HoldsImage
  <2>4. fpos' \in Nat /\ fpos' >= fpos /\ new.offset + new.itemsize <= fpos'
    BY <1>2, <1>3, <1>4, <1>5
  <2> QED BY <2>1, <2>2, <2>3, <2>4, <1>5, <1>6, <1>8, <1>9, SwapPlaced
<1>14. TypeOK'
  <2>1. table' \subseteq Item BY <1>5, <1>9 DEF TypeOK
  <2>2. fpos' \in 0..FileWords BY <1>2, <1>3, <1>4, <1>12
  <2>3. numkeys' \in 0..MaxKeys BY <1>3, <1>4, <1>8
  <2>4. netkeys' \in Nat BY <1>10, <1>11, FS_CardinalityType DEF Counted
  <2>5. OldSize(old) \in Int
    BY <1>6, KVAssumption DEF OldSize, Item
  <2>6. totalvalues' \in Int BY <1>2, <2>5, KVAssumption DEF TypeOK
  <2> QED BY <2>1, <2>2, <2>3, <2>4, <2>6, <1>8 DEF TypeOK
<1>15. LastWordWritten' BY <1>8 DEF LastWordWritten, ItemSize, Aligned
<1>16. <<k, v>> \in written
  <2> DEFINE w == fpos + ItemSize(k, v) - 1
  <2>1. w \in 0..FileWords - 1 /\ w \in fpos..w
    BY <1>3, <1>4, <1>12, ItemSizeType
  <2>2. file[w] = [key |-> k, value |-> v, part |-> w - fpos]
    BY <2>1, <1>12 DEF HoldsImage
  <2>3. w - fpos = ItemSize(k, v) - 1 BY <1>3, <1>4
  <2> HIDE DEF w
  <2> QED BY <2>1, <2>2, <2>3 DEF LastWordWritten
<1>17. OnlyWritten' BY <1>5, <1>8, <1>9, <1>16 DEF OnlyWritten
<1> QED BY <1>8, <1>10, <1>11, <1>13, <1>14, <1>15, <1>17 DEF DownEmpty

\* Where and under which ind kv777_write puts its record.
LEMMA TargetPlace ==
  ASSUME IInv, NEW k \in Keys, NEW v \in Values, NEW i \in HashFind(k),
         NEW new, new = Target(i, k, v)
  PROVE  /\ new.itemsize = ItemSize(k, v)
         /\ new.ind = IF i = NoItem THEN numkeys ELSE i.ind
         /\ \/ new.offset < 0
            \/ /\ i \in table /\ i # NoItem /\ new.offset = i.offset
               /\ new.itemsize <= i.itemsize
<1> USE DEF IInv
<1>1. i = NoItem \/ (i \in table /\ i \in Item /\ i.key = k /\ i # NoItem)
  BY FindType
<1>2. ItemSize(k, v) \in Nat BY ItemSizeType
<1>3. CASE i = NoItem BY <1>3 DEF Target, NewItem
<1>4. CASE i # NoItem /\ ValueSize[v] = ValueSize[i.value]
  <2>1. new = [i EXCEPT !.value = v] BY <1>4 DEF Target
  <2>2. i.itemsize = ItemSize(k, i.value) BY <1>1, <1>4 DEF ItemsSound
  <2>3. ItemSize(k, i.value) = ItemSize(k, v) BY <1>4 DEF ItemSize
  <2> QED BY <1>1, <1>2, <1>4, <2>1, <2>2, <2>3 DEF Item
<1>5. CASE i # NoItem /\ ValueSize[v] # ValueSize[i.value]
  <2>1. new = Resized(i, k, v) BY <1>5 DEF Target
  <2>2. /\ new.itemsize = ItemSize(k, v) /\ new.ind = i.ind
        /\ new.offset = IF ItemSize(k, v) > i.itemsize THEN -1 ELSE i.offset
    BY <1>1, <1>5, <2>1 DEF Resized, Item
  <2> QED BY <1>1, <1>2, <1>5, <2>2 DEF Item
<1> QED BY <1>3, <1>4, <1>5

\* A complete image makes its own pair written, and disturbs no other.
LEMMA WholeImage ==
  ASSUME IInv, NEW k \in Keys, NEW v \in Values, NEW p \in Int, NEW n \in Nat,
         file' = ImageAt(p, k, v, n) \/ file' = file,
         written' = written \cup {<<k, v>>}
  PROVE  LastWordWritten'
<1>1. ASSUME NEW w \in 0..FileWords - 1, NEW k2 \in Keys, NEW v2 \in Values,
             file'[w] = [key |-> k2, value |-> v2, part |-> ItemSize(k2, v2) - 1]
      PROVE  <<k2, v2>> \in written'
  <2>1. CASE file' = ImageAt(p, k, v, n) /\ w >= p /\ w < p + n
    <3>1. file'[w] = [key |-> k, value |-> v, part |-> w - p]
      BY <2>1 DEF ImageAt
    <3> QED BY <3>1, <1>1
  <2>2. CASE file'[w] = file[w]
    BY <2>2, <1>1 DEF IInv, LastWordWritten
  <2> QED BY <2>1, <2>2 DEF ImageAt
<1> QED BY <1>1 DEF LastWordWritten

\* What kv777_write leaves when it changes an item.
LEMMA StoreInv ==
  ASSUME IInv, NEW k \in Keys, NEW v \in Values, NEW i \in HashFind(k),
         NEW new \in Item, new = Target(i, k, v), phase = "open", fp' = fp,
         Update(new), NEW put \in Item, put = Placed(new),
         table' = (table \ {i}) \cup {put}
  PROVE  /\ Disjoint' /\ ItemsOnDisk'
         /\ file' \in [0..FileWords - 1 -> Word \cup {Blank}]
         /\ fpos' \in 0..FileWords
<1> USE DEF IInv
<1>1. i = NoItem \/ (i \in table /\ i \in Item /\ i.key = k /\ i # NoItem)
  BY FindType
<1>2. /\ new.itemsize = ItemSize(k, v)
      /\ \/ new.offset < 0
         \/ /\ i \in table /\ i # NoItem /\ new.offset = i.offset
            /\ new.itemsize <= i.itemsize
  BY TargetPlace
<1>3. new.key = k /\ new.value = v BY TargetType
<1>4. CASE ~fp
  <2>1. file' = file /\ fpos' = fpos BY <1>4 DEF Update, disk
  <2> QED BY <1>4, <2>1 DEF Disjoint, ItemsOnDisk, TypeOK
<1>5. CASE fp
  <2> DEFINE at == IF new.offset < 0 THEN fpos ELSE new.offset
  <2>1. /\ at + new.itemsize <= FileWords
        /\ file' = ImageAt(at, k, v, new.itemsize)
        /\ fpos' = IF new.offset < 0 THEN fpos + new.itemsize ELSE fpos
    BY <1>5, <1>3 DEF Update
  <2>2. fpos \in Nat /\ FileWords \in Nat /\ fpos <= FileWords
        /\ new.offset \in Int /\ new.itemsize \in Nat
    BY KVAssumption DEF TypeOK, Item
  <2>3. \A j \in table : /\ j \in Item /\ j.offset \in Nat /\ j.itemsize \in Nat
                         /\ j.key \in Keys /\ j.value \in Values
                         /\ HoldsImage(j.offset, j.key, j.value)
                         /\ j.itemsize = ItemSize(j.key, j.value)
                         /\ j.offset + j.itemsize <= fpos
    BY <1>5 DEF ItemsOnDisk, TypeOK, Item, HoldsImage, ItemsSound
  <2>4. at \in Nat /\ at + new.itemsize <= fpos' /\ fpos' \in Nat
        /\ fpos' >= fpos /\ fpos' <= FileWords
    BY <1>2, <2>1, <2>2, <2>3
  <2>5. /\ put.offset = at /\ put.itemsize = new.itemsize
        /\ put.key = k /\ put.value = v
    <3>1. CASE new.offset < 0
      <4>1. put = [new EXCEPT !.offset = fpos] BY <3>1, <1>5 DEF Placed
      <4> QED BY <4>1, <3>1, <1>3 DEF Item
    <3>2. CASE ~(new.offset < 0) BY <3>2, <1>3 DEF Placed
    <3> QED BY <3>1, <3>2
  <2>6. \A j \in table \ {i} : \/ at + new.itemsize <= j.offset
                               \/ j.offset + j.itemsize <= at
    <3>1. CASE new.offset < 0 BY <3>1, <2>3
    <3>2. CASE /\ i \in table /\ new.offset = i.offset /\ ~(new.offset < 0)
               /\ new.itemsize <= i.itemsize
      BY <3>2, <1>5, <2>2, <2>3 DEF Disjoint
    <3> QED BY <3>1, <3>2, <1>2
  <2> HIDE DEF at
  <2>7. PICK q \in Nat : q = at BY <2>4
  <2>8. \A j \in table \ {i} : HoldsImage(j.offset, j.key, j.value)'
    <3> TAKE j \in table \ {i}
    <3>1. j.offset + ItemSize(j.key, j.value) <= q \/ q + new.itemsize <= j.offset
      BY <2>3, <2>6, <2>7
    <3>2. file' = ImageAt(q, k, v, new.itemsize) BY <2>1, <2>7
    <3> QED BY <3>1, <3>2, <2>2, <2>3, ImageKept
  <2>9. HoldsImage(q, k, v)'
    <3>1. file' = ImageAt(q, k, v, ItemSize(k, v)) BY <2>1, <2>7, <1>2
    <3>2. q + ItemSize(k, v) <= FileWords BY <2>1, <2>7, <1>2
    <3> QED BY <3>1, <3>2, ImageWritten
  <2>10. Disjoint' /\ ItemsOnDisk'
    <3>1. put.offset = q /\ put.key = k /\ put.value = v BY <2>5, <2>7
    <3>2. HoldsImage(put.offset, put.key, put.value)' BY <3>1, <2>9
    <3>3. put.offset + put.itemsize <= fpos' BY <2>4, <2>5
    <3>4. \A j \in table \ {i} :
            \/ put.offset + put.itemsize <= j.offset
            \/ j.offset + j.itemsize <= put.offset
      BY <2>5, <2>6
    <3> QED BY <3>2, <3>3, <3>4, <2>4, <2>8, <1>1, <1>5, SwapPlaced
  <2>11. file' \in [0..FileWords - 1 -> Word \cup {Blank}]
    BY <2>1, <2>2, <2>4, ImageType
  <2> QED BY <2>2, <2>4, <2>10, <2>11
<1> QED BY <1>4, <1>5

\* kv777_write: nothing to do, an append behind every record, or a rewrite
\* within the room of the old record.
LEMMA WriteInv ==
  ASSUME IInv, NEW k \in Keys, NEW v \in Values, Write(k, v)
  PROVE  IInv'
<1> USE DEF IInv
<1> DEFINE Step(i) ==
      /\ i = NoItem => numkeys < MaxKeys
      /\ IF i # NoItem /\ i.value = v
         THEN UNCHANGED <<file, fpos, table, framed>>
         ELSE LET new == Target(i, k, v) IN
              /\ Update(new)
              /\ table' = (table \ {i}) \cup {Placed(new)}
              /\ framed' = (framed /\ (fp => KeepsChain(i, new)))
      /\ numkeys' = numkeys + (IF i = NoItem THEN 1 ELSE 0)
      /\ netkeys' = netkeys + (IF i = NoItem THEN 1 ELSE 0)
      /\ totalvalues' = totalvalues + ValueSize[v] - OldSize(i)
      /\ last' = [last EXCEPT ![k] = IF i = NoItem THEN v
                                     ELSE IF ItemsOf(k) = {i} THEN v ELSE Unsure]
<1>0. PICK i \in HashFind(k) : Step(i) BY DEF Write
<1>1. /\ i = NoItem => numkeys < MaxKeys
      /\ numkeys' = numkeys + (IF i = NoItem THEN 1 ELSE 0)
      /\ netkeys' = netkeys + (IF i = NoItem THEN 1 ELSE 0)
      /\ totalvalues' = totalvalues + ValueSize[v] - OldSize(i)
      /\ last' = [last EXCEPT ![k] = IF i = NoItem THEN v
                                     ELSE IF ItemsOf(k) = {i} THEN v ELSE Unsure]
  BY <1>0
<1> DEFINE Same == UNCHANGED <<file, fpos, table, framed>>
           Changed(new) == /\ Update(new)
                           /\ table' = (table \ {i}) \cup {Placed(new)}
                           /\ framed' = (framed /\ (fp => KeepsChain(i, new)))
<1>1a. IF i # NoItem /\ i.value = v THEN Same ELSE Changed(Target(i, k, v))
  BY <1>0
<1> HIDE DEF Step, Same, Changed
<1>2. /\ phase = "open" /\ written' = written \cup {<<k, v>>}
      /\ phase' = phase /\ mutex' = mutex /\ fp' = fp
  BY DEF Write
<1>3. i = NoItem \/ (i \in table /\ i \in Item /\ i.key = k /\ i # NoItem)
  BY FindType
<1>4. numkeys \in Nat /\ MaxKeys \in Nat /\ numkeys <= MaxKeys
  BY KVAssumption DEF TypeOK
<1>5. numkeys' \in 0..MaxKeys /\ numkeys' >= numkeys BY <1>1, <1>4
<1>6. totalvalues' \in Int
  <2>1. OldSize(i) \in Int BY <1>3, KVAssumption DEF OldSize, Item
  <2> QED BY <1>1, <2>1, KVAssumption DEF TypeOK
<1>7. last' \in [Keys -> Values \cup {Absent, Unsure}]
  <2>1. (IF i = NoItem THEN v ELSE IF ItemsOf(k) = {i} THEN v ELSE Unsure)
          \in Values \cup {Absent, Unsure}
    OBVIOUS
  <2> QED BY <1>1, <2>1 DEF TypeOK
<1>8. written' \subseteq Keys \X Values BY <1>2 DEF TypeOK
<1>9. CASE i # NoItem /\ i.value = v
  <2>1. /\ file' = file /\ fpos' = fpos /\ table' = table /\ framed' = framed
        /\ numkeys' = numkeys /\ netkeys' = netkeys
    BY <1>1, <1>1a, <1>9, <1>4 DEF TypeOK, Same
  <2>2. TypeOK' BY <1>2, <1>6, <1>7, <1>8, <2>1 DEF TypeOK
  <2>3. ItemsSound' /\ Disjoint' /\ DownEmpty' /\ OnlyWritten' /\ Counted'
    BY <1>2, <2>1 DEF ItemsSound, Disjoint, DownEmpty, OnlyWritten, Counted
  <2>4. ItemsOnDisk' BY <1>2, <2>1 DEF ItemsOnDisk, HoldsImage
  <2>5. LastWordWritten' BY <1>2, <2>1 DEF LastWordWritten, ItemSize, Aligned
  <2> QED BY <2>2, <2>3, <2>4, <2>5
<1>10. CASE ~(i # NoItem /\ i.value = v)
  <2>1. PICK new \in Item : new = Target(i, k, v) /\ new.key = k /\ new.value = v
    BY TargetType
  <2>2. /\ Update(new) /\ table' = (table \ {i}) \cup {Placed(new)}
        /\ framed' = (framed /\ (fp => KeepsChain(i, new)))
    <3>1. Changed(new) BY <1>1a, <1>10, <2>1
    <3> QED BY <3>1 DEF Changed
  <2>3. framed' \in BOOLEAN BY <2>2
  <2>4. /\ new.itemsize = ItemSize(k, v)
        /\ new.ind = IF i = NoItem THEN numkeys ELSE i.ind
    BY <2>1, TargetPlace
  <2>5. PICK put \in Item :
          /\ put = Placed(new) /\ put.ind = new.ind /\ put.key = k
          /\ put.value = v /\ put.itemsize = new.itemsize
    <3>1. CASE fp /\ new.offset < 0
      <4> DEFINE n == [new EXCEPT !.offset = fpos]
      <4>1. n \in Item /\ n.ind = new.ind /\ n.key = k /\ n.value = v
            /\ n.itemsize = new.itemsize
        BY <2>1 DEF Item, TypeOK
      <4>2. n = Placed(new) BY <3>1 DEF Placed
      <4> HIDE DEF n
      <4> QED BY <4>1, <4>2
    <3>2. CASE ~(fp /\ new.offset < 0)
      <4>1. Placed(new) = new BY <3>2 DEF Placed
      <4> QED BY <4>1, <2>1
    <3> QED BY <3>1, <3>2
  <2>6. table' = (table \ {i}) \cup {put} BY <2>2, <2>5
  <2>7. /\ Disjoint' /\ ItemsOnDisk'
        /\ file' \in [0..FileWords - 1 -> Word \cup {Blank}]
        /\ fpos' \in 0..FileWords
    BY <1>2, <2>1, <2>2, <2>5, <2>6, StoreInv
  <2>8. /\ ItemsSound' /\ IsFiniteSet(table')
        /\ Cardinality(table') = netkeys + 1 - (IF i = NoItem THEN 0 ELSE 1)
    <3>1. \A j \in table : j.ind \in Nat /\ j.ind < numkeys
      BY DEF ItemsSound, TypeOK, Item
    <3>2. \A j \in table \ {i} : j.ind # put.ind
      BY <3>1, <1>3, <1>4, <2>4, <2>5 DEF ItemsSound
    <3>3. numkeys' \in Nat /\ put.ind < numkeys'
      BY <3>1, <1>1, <1>3, <1>4, <2>4, <2>5
    <3>4. put.itemsize = ItemSize(put.key, put.value) BY <2>4, <2>5
    <3> QED BY <3>2, <3>3, <3>4, <1>3, <1>5, <2>6, SwapSound
  <2>9. Counted'
    <3>1. netkeys' = netkeys + (IF i = NoItem THEN 1 ELSE 0) /\ netkeys \in Nat
      BY <1>1 DEF TypeOK
    <3> QED BY <2>8, <3>1 DEF Counted
  <2>10. netkeys' \in Nat BY <2>9, FS_CardinalityType DEF Counted
  <2>11. table' \subseteq Item BY <2>6 DEF TypeOK
  <2>12. TypeOK'
    BY <1>2, <1>5, <1>6, <1>7, <1>8, <2>3, <2>7, <2>10, <2>11 DEF TypeOK
  <2>13. LastWordWritten'
    <3> DEFINE at == IF new.offset < 0 THEN fpos ELSE new.offset
    <3>1. file' = file \/ file' = ImageAt(at, k, v, new.itemsize)
      BY <2>1, <2>2 DEF Update, disk
    <3>2. at \in Int /\ new.itemsize \in Nat BY DEF TypeOK, Item
    <3> HIDE DEF at
    <3>3. PICK q \in Int : q = at BY <3>2
    <3> QED BY <3>1, <3>2, <3>3, <1>2, WholeImage
  <2>14. OnlyWritten' BY <1>2, <2>5, <2>6 DEF OnlyWritten
  <2>15. DownEmpty' BY <1>2 DEF DownEmpty
  <2> QED BY <2>7, <2>8, <2>9, <2>12, <2>13, <2>14, <2>15
<1> QED BY <1>9, <1>10

\* kv777_delete takes an item out of the table and leaves the file alone.
LEMMA DeleteInv ==
  ASSUME IInv, NEW k \in Keys, Delete(k)
  PROVE  IInv'
<1> USE DEF IInv
<1>1. PICK i \in HashFind(k) :
        /\ table' = table \ {i}
        /\ netkeys' = netkeys - (IF i = NoItem THEN 0 ELSE 1)
        /\ totalvalues' = totalvalues - OldSize(i)
        /\ last' = [last EXCEPT ![k] =
                      IF ItemsOf(k) \subseteq {i} THEN Absent ELSE Unsure]
  BY DEF Delete
<1>2. /\ phase = "open" /\ mutex' = "held"
      /\ UNCHANGED <<phase, file, fp, fpos, numkeys, written, framed>>
  BY DEF Delete
<1>3. i = NoItem \/ (i \in table /\ i \in Item /\ i # NoItem) BY FindType
<1>4. i = NoItem => i \notin table BY KVAssumption DEF TypeOK
<1>5. /\ IsFiniteSet(table')
      /\ Cardinality(table') = IF i \in table THEN Cardinality(table) - 1
                                              ELSE Cardinality(table)
  BY <1>1, FS_RemoveElement DEF Counted
<1>6. Counted'
  <2>1. Cardinality(table) \in Nat BY FS_CardinalityType DEF Counted
  <2> QED BY <1>1, <1>3, <1>4, <1>5, <2>1 DEF Counted
<1>7. TypeOK'
  <2>1. netkeys' \in Nat BY <1>6, FS_CardinalityType DEF Counted
  <2>2. OldSize(i) \in Int BY <1>3, KVAssumption DEF OldSize, Item
  <2>3. totalvalues' \in Int BY <1>1, <2>2 DEF TypeOK
  <2>4. last' \in [Keys -> Values \cup {Absent, Unsure}] BY <1>1 DEF TypeOK
  <2> QED BY <1>1, <1>2, <2>1, <2>3, <2>4 DEF TypeOK
<1>8. ItemsSound' /\ Disjoint' /\ DownEmpty' /\ OnlyWritten'
  BY <1>1, <1>2 DEF ItemsSound, Disjoint, DownEmpty, OnlyWritten
<1>9. ItemsOnDisk' BY <1>1, <1>2 DEF ItemsOnDisk, HoldsImage
<1>10. LastWordWritten' BY <1>2 DEF LastWordWritten, ItemSize, Aligned
<1> QED BY <1>6, <1>7, <1>8, <1>9, <1>10

\* Steps of the rest of the process.
LEMMA StutterInv == IInv /\ UNCHANGED vars => IInv'
<1> SUFFICES ASSUME IInv, UNCHANGED vars PROVE IInv' OBVIOUS
<1> USE DEF IInv, vars
<1>1. TypeOK' BY DEF TypeOK
<1>2. ItemsSound' /\ Disjoint' /\ DownEmpty' /\ OnlyWritten' /\ Counted'
  BY DEF ItemsSound, Disjoint, DownEmpty, OnlyWritten, Counted
<1>3. LastWordWritten' /\ ItemsOnDisk'
  BY DEF LastWordWritten, ItemsOnDisk, HoldsImage
<1> QED BY <1>1, <1>2, <1>3

\* The inductive invariant of a store: one step per action of kv777.c.
THEOREM StoreSafe == Spec => []IInv
<1>1. Init => IInv BY InitInv
<1>2. IInv /\ [Next]_vars => IInv'
  <2> SUFFICES ASSUME IInv, [Next]_vars PROVE IInv' OBVIOUS
  <2>1. CASE Open BY <2>1, OpenInv
  <2>2. CASE LoadItem BY <2>2, LoadItemInv
  <2>3. CASE LoadEnd BY <2>3, LoadEndInv
  <2>4. CASE Purge BY <2>4, PurgeInv
  <2>5. CASE Crash BY <2>5, CrashInv
  <2>6. CASE \E k \in Keys : Delete(k) BY <2>6, DeleteInv
  <2>7. CASE \E k \in Keys, v \in Values : Write(k, v) BY <2>7, WriteInv
  <2>8. CASE \E k \in Keys, v \in Values : CrashInAppend(k, v)
    BY <2>8, CrashInAppendInv
  <2>9. CASE \E k \in Keys, v \in Values : CrashInRewrite(k, v)
    BY <2>9, CrashInRewriteInv
  <2>10. CASE UNCHANGED vars BY <2>10, StutterInv
  <2> QED BY <2>1, <2>2, <2>3, <2>4, <2>5, <2>6, <2>7, <2>8, <2>9, <2>10
          DEF Next
<1> QED BY <1>1, <1>2, PTL DEF Spec

\* Type correctness; in particular kv->netkeys never goes below zero.
THEOREM TypeCorrect == Spec => []TypeOK
<1>1. IInv => TypeOK BY DEF IInv
<1> QED BY <1>1, StoreSafe, PTL

\* No append, rewrite, shrink or reload of kv777.c writes over the record of
\* another item, whatever the sizes of keys and values.
THEOREM RecordsKept == Spec => []ItemsOnDisk
<1>1. IInv => ItemsOnDisk BY DEF IInv
<1> QED BY <1>1, StoreSafe, PTL

\* kv777_init brings back completed writes only.
THEOREM NoTornValue == Spec => []OnlyWritten
<1>1. IInv => OnlyWritten BY DEF IInv
<1> QED BY <1>1, StoreSafe, PTL

-----------------------------------------------------------------------------
(* Durable.  What a reload would find is described by a set C of records and *)
(* the place e where the chain of them ends.                                 *)

End(r) == r.at + ItemSize(r.key, r.value)

\* A record of C begins at p, or the chain ends there.
StartsAt(C, e, p) == p = e \/ \E r \in C : r.at = p

\* From e on the file holds what torn appends left.  Each began at e or before
\* it, and one that began at e lacks the last word of its image.
Torn(e) ==
  \A w \in e..FileWords - 1 : file[w] # Blank =>
    /\ file[w].part >= w - e
    /\ file[w].part = w - e =>
         file[w].part # ItemSize(file[w].key, file[w].value) - 1

\* kv777_load goes through the records of C one by one, from 0 to e.
Chain(C, e) ==
  /\ C \subseteq [at : Nat, key : Keys, value : Values] /\ e \in 0..FileWords
  /\ StartsAt(C, e, 0)
  /\ \A r \in C : /\ Loads(r.at, r.key, r.value)
                  /\ End(r) <= e /\ StartsAt(C, e, End(r))
                  /\ \A s \in C : s = r \/ s.at >= End(r) \/ End(s) <= r.at
  /\ Torn(e)

Latest(C, k, v) ==
  \E r \in C : /\ r.key = k /\ r.value = v
               /\ \A s \in C : s.key = k => s.at <= r.at

\* The items of the table stand in the chain.
InChain(C) ==
  \A i \in table : \E r \in C : r.at = i.offset /\ r.key = i.key /\ r.value = i.value

\* An item that is alone with its key is the last record of the key read or
\* written.
AloneIsLatest(C) ==
  \A i \in table : (\A j \in table : j.key = i.key => j = i) =>
    \A r \in C : r.key = i.key /\ r.at < fpos => r.at <= i.offset

\* During kv777_init a key has one item, and each record passed an item.
Loading(C, e) ==
  /\ StartsAt(C, e, fpos)
  /\ \A i, j \in table : i.key = j.key => i = j
  /\ \A i \in table : i.hkey
  /\ \A r \in C : r.at < fpos => \E i \in table : i.key = r.key

\* While the store is on file, or down, the last values are those of the
\* latest records.
LastOnFile(C) ==
  (phase = "open" => fp) =>
    \A k \in Keys : last[k] \in Values => Latest(C, k, last[k])

Good(C, e) ==
  /\ Chain(C, e) /\ LastOnFile(C)
  /\ phase = "loading" => Loading(C, e)
  /\ phase = "open" /\ fp => fpos = e
  /\ fp => InChain(C)
  /\ fp /\ mutex = "free" => AloneIsLatest(C)

\* Before the store is open nobody holds its mutex, and a key is known to be
\* absent only if it was never written.
NotOpen ==
  phase # "open" => /\ mutex = "free"
                    /\ \A k \in Keys : last[k] = Absent => \A v \in Values : <<k, v>> \notin written

DurableInv == Durable /\ NotOpen /\ (framed => \E C, e : Good(C, e))

\* A word tells which image it is of: one record at most loads at a place.
LEMMA LoadsOne ==
  ASSUME NEW p \in Nat, NEW k \in Keys, NEW v \in Values, NEW k2 \in Keys,
         NEW v2 \in Values, Loads(p, k, v), Loads(p, k2, v2)
  PROVE  k2 = k /\ v2 = v
<1>1. p \in p..(p + ItemSize(k, v) - 1) /\ p \in p..(p + ItemSize(k2, v2) - 1)
  BY ItemSizeType
<1>2. /\ file[p] = [key |-> k, value |-> v, part |-> p - p]
      /\ file[p] = [key |-> k2, value |-> v2, part |-> p - p]
  BY <1>1 DEF Loads, HoldsImage
<1> QED BY ONLY <1>2

\* kv777_load ends at e: no torn append there makes a record.
LEMMA NoneAtEnd ==
  ASSUME TypeOK, NEW e \in 0..FileWords, Torn(e), NEW k \in Keys, NEW v \in Values
  PROVE  ~Loads(e, k, v)
<1> DEFINE w == e + ItemSize(k, v) - 1
<1>0. ItemSize(k, v) \in Nat /\ ItemSize(k, v) >= 3 /\ FileWords \in Nat
  BY ItemSizeType, KVAssumption
<1> SUFFICES ASSUME Loads(e, k, v) PROVE FALSE OBVIOUS
<1>1. w \in e..FileWords - 1 /\ w \in e..(e + ItemSize(k, v) - 1) /\ w - e = ItemSize(k, v) - 1
  BY <1>0 DEF Loads, HoldsImage
<1>2. file[w] = [key |-> k, value |-> v, part |-> w - e]
  BY <1>1 DEF Loads, HoldsImage
<1>3. file[w] # Blank
  <2>1. w - e \in Nat BY <1>0, <1>1
  <2> QED BY <1>2, <2>1, KVAssumption DEF Word
<1> HIDE DEF w
<1> QED BY <1>1, <1>2, <1>3 DEF Torn

\* A record whose words stay is still one that loads.
LEMMA LoadsKept ==
  ASSUME NEW p \in Nat, NEW k \in Keys, NEW v \in Values, Loads(p, k, v),
         \A w \in p..(p + ItemSize(k, v) - 1) : file'[w] = file[w]
  PROVE  Loads(p, k, v)'
BY DEF Loads, HoldsImage, ItemSize, Aligned

\* Torn appends leave the chain as it is, and so does all that leaves the file.
LEMMA ChainKept ==
  ASSUME NEW C, NEW e, Chain(C, e), Torn(e)', \A w \in 0..e - 1 : file'[w] = file[w]
  PROVE  Chain(C, e)'
<1>1. \A r \in C : r.at \in Nat /\ r.key \in Keys /\ r.value \in Values /\ End(r) <= e
  BY DEF Chain
<1>2. ASSUME NEW r \in C PROVE Loads(r.at, r.key, r.value)'
  <2>1. Loads(r.at, r.key, r.value) BY DEF Chain
  <2>2. e \in Nat BY KVAssumption DEF Chain
  <2>3. ItemSize(r.key, r.value) \in Nat BY <1>1, ItemSizeType
  <2>4. \A w \in r.at..(r.at + ItemSize(r.key, r.value) - 1) : file'[w] = file[w]
    BY <1>1, <2>2, <2>3 DEF End
  <2> QED BY <1>1, <2>1, <2>4, LoadsKept
<1>3. \A r \in C : End(r)' = End(r) BY DEF End, ItemSize, Aligned
<1> QED BY <1>2, <1>3 DEF Chain, StartsAt, End, ItemSize, Aligned

\* What a write of n words changes.
LEMMA ImageWords ==
  ASSUME NEW p \in Nat, NEW n \in Nat, NEW k, NEW v, file' = ImageAt(p, k, v, n)
  PROVE  /\ \A w \in 0..FileWords - 1 : w < p \/ w >= p + n => file'[w] = file[w]
         /\ \A w \in 0..FileWords - 1 :
              w >= p /\ w < p + n => file'[w] = [key |-> k, value |-> v, part |-> w - p]
<1>1. \A w \in 0..FileWords - 1 : w \in Int BY KVAssumption
<1> QED BY <1>1 DEF ImageAt

\* The end of the process: what is in the chain is what a restart will find.
LEMMA EndedDurable ==
  ASSUME IInv, DurableInv, Ended, framed' => \E C, e : Good(C, e) /\ Chain(C, e)'
  PROVE  DurableInv'
<1>1. phase' = "down" /\ mutex' = "free" /\ ~fp' /\ written' = written
  BY DEF Ended
<1>2. \A k \in Keys : last'[k] = IF \/ ~fp
                                    \/ last[k] = Absent /\ \E v \in Values : <<k, v>> \in written
                                 THEN Unsure ELSE last[k]
  BY DEF Ended
<1>3. Durable' BY <1>1 DEF Durable
<1>4. NotOpen'
  <2>1. \A k \in Keys : last'[k] = Absent => \A v \in Values : <<k, v>> \notin written'
    BY ONLY <1>1, <1>2, KVAssumption, Zenon
  <2> QED BY <1>1, <2>1 DEF NotOpen
<1>5. ASSUME framed' PROVE \E C, e : Good(C, e)'
  <2>1. PICK C, e : Good(C, e) /\ Chain(C, e)' BY <1>5
  <2>2. \A k \in Keys : last'[k] \in Values => fp /\ last'[k] = last[k]
    BY <1>2, KVAssumption
  <2>3. LastOnFile(C)'
    <3>1. \A k \in Keys : last'[k] \in Values => Latest(C, k, last'[k])
      BY <2>1, <2>2 DEF Good, LastOnFile
    <3> QED BY <3>1 DEF LastOnFile, Latest
  <2>4. Good(C, e)' BY <1>1, <2>1, <2>3 DEF Good
  <2> QED BY <2>4
<1> QED BY <1>3, <1>4, <1>5 DEF DurableInv

\* A crash between two calls leaves the file as it is.
LEMMA CrashDurable == IInv /\ DurableInv /\ Crash => DurableInv'
<1> SUFFICES ASSUME IInv, DurableInv, Crash PROVE DurableInv' OBVIOUS
<1>1. Ended /\ file' = file /\ framed' = framed BY DEF Crash
<1>2. ASSUME NEW C, NEW e, Good(C, e) PROVE Chain(C, e)'
  <2>1. Torn(e)' BY <1>1, <1>2 DEF Good, Chain, Torn, ItemSize, Aligned
  <2> QED BY <1>1, <1>2, <2>1, ChainKept DEF Good
<1> QED BY <1>1, <1>2, EndedDurable DEF DurableInv

\* A torn append changes the file behind the chain, and the image it leaves
\* lacks its last word.
LEMMA CrashInAppendDurable ==
  ASSUME IInv, DurableInv, NEW k \in Keys, NEW v \in Values, CrashInAppend(k, v)
  PROVE  DurableInv'
<1>1. PICK n \in Tears : /\ n < ItemSize(k, v) /\ fpos + n <= FileWords
                         /\ file' = ImageAt(fpos, k, v, n)
  BY DEF CrashInAppend
<1>2. Ended /\ framed' = framed /\ phase = "open" /\ fp BY DEF CrashInAppend
<1>3. n \in Nat /\ FileWords \in Nat /\ ItemSize(k, v) \in Nat /\ fpos \in Nat
  BY KVAssumption, ItemSizeType DEF IInv, TypeOK
<1>4. /\ \A w \in 0..FileWords - 1 : w < fpos \/ w >= fpos + n => file'[w] = file[w]
      /\ \A w \in 0..FileWords - 1 : w >= fpos /\ w < fpos + n =>
           file'[w] = [key |-> k, value |-> v, part |-> w - fpos]
  <2>1. PICK p \in Nat : p = fpos BY <1>3
  <2>2. /\ \A w \in 0..FileWords - 1 : w < p \/ w >= p + n => file'[w] = file[w]
        /\ \A w \in 0..FileWords - 1 : w >= p /\ w < p + n =>
             file'[w] = [key |-> k, value |-> v, part |-> w - p]
    BY ONLY <1>1, <1>3, <2>1, ImageWords
  <2> QED BY ONLY <2>1, <2>2
<1>5. ASSUME NEW C, NEW e, Good(C, e) PROVE Chain(C, e)'
  <2>1. e = fpos /\ Chain(C, e) /\ Torn(e) BY <1>2, <1>5 DEF Good, Chain
  <2>2. \A w \in 0..e - 1 : file'[w] = file[w] BY <1>1, <1>3, <1>4, <2>1
  <2>3. Torn(e)'
    <3>1. SUFFICES ASSUME NEW w \in e..FileWords - 1, file'[w] # Blank
                   PROVE  /\ file'[w].part >= w - e
                          /\ file'[w].part = w - e =>
                               file'[w].part # ItemSize(file'[w].key, file'[w].value) - 1
      BY DEF Torn, ItemSize, Aligned
    <3>2. CASE w < fpos + n
      <4>1. file'[w] = [key |-> k, value |-> v, part |-> w - fpos]
        BY <1>3, <1>4, <2>1, <3>2
      <4> QED BY <1>1, <1>3, <2>1, <3>2, <4>1
    <3>3. CASE ~(w < fpos + n)
      <4>1. file'[w] = file[w] BY <1>3, <1>4, <2>1, <3>3
      <4> QED BY <2>1, <3>1, <4>1 DEF Torn
    <3> QED BY <3>2, <3>3
  <2> QED BY <2>1, <2>2, <2>3, ChainKept
<1> QED BY <1>2, <1>5, EndedDurable DEF DurableInv

\* A torn rewrite breaks the chain.
LEMMA CrashInRewriteDurable ==
  ASSUME IInv, DurableInv, NEW k \in Keys, NEW v \in Values, CrashInRewrite(k, v)
  PROVE  DurableInv'
BY EndedDurable DEF CrashInRewrite

\* kv777_init opens the file, or goes on without one.
LEMMA OpenDurable == IInv /\ DurableInv /\ Open => DurableInv'
<1> SUFFICES ASSUME IInv, DurableInv, Open PROVE DurableInv' OBVIOUS
<1>1. /\ phase = "down" /\ UNCHANGED <<mutex, file, table, written, framed>>
      /\ fpos' = 0 /\ table = {}
  BY DEF Open, IInv, DownEmpty
<1>2. \/ fp' /\ phase' = "loading" /\ last' = last
      \/ ~fp' /\ phase' = "open" /\ last' = [k \in Keys |-> Unsure]
  BY KVAssumption DEF Open
<1>3. Durable'
  <2>1. phase' = "open" => \A k \in Keys : last'[k] = Unsure BY <1>2
  <2> QED BY <2>1, KVAssumption DEF Durable
<1>4. NotOpen' BY <1>1, <1>2 DEF DurableInv, NotOpen
<1>5. ASSUME framed' PROVE \E C, e : Good(C, e)'
  <2>1. PICK C, e : Good(C, e) BY <1>1, <1>5 DEF DurableInv
  <2>2. Torn(e)' BY <1>1, <2>1 DEF Good, Chain, Torn, ItemSize, Aligned
  <2>3. Chain(C, e)' BY <1>1, <2>1, <2>2, ChainKept DEF Good
  <2>4. LastOnFile(C)' BY <1>1, <1>2, <2>1 DEF Good, LastOnFile, Latest
  <2>5. Loading(C, e)' /\ InChain(C)' /\ AloneIsLatest(C)'
    <3>1. StartsAt(C, e, fpos)' BY <1>1, <2>1 DEF Good, Chain, StartsAt
    <3>2. \A r \in C : ~(r.at < fpos') BY <1>1, <2>1 DEF Good, Chain
    <3> QED BY <1>1, <3>1, <3>2 DEF Loading, InChain, AloneIsLatest
  <2>6. Good(C, e)' BY <1>2, <2>3, <2>4, <2>5 DEF Good
  <2> QED BY <2>6
<1> QED BY <1>3, <1>4, <1>5 DEF DurableInv
=============================================================================
