-------------------------------- MODULE KV777 --------------------------------
(***************************************************************************)
(* One kv777 store (src/plugins/KV/kv777.c): a hash table in memory backed *)
(* by a file of checksummed records.  Calls run one at a time here, as     *)
(* they do under kv->mutex.                                                *)
(*                                                                         *)
(* The file is counted in words of 4 bytes (KV777_ALIGNBITS = 2).  A word  *)
(* of a record's image is [key, value, part]: the part-th word of the      *)
(* image of that key and value.  A word never written is Blank, which is   *)
(* also what is found past the end of the file.  The CRC is taken to       *)
(* detect every mixture of words of different images.                      *)
(*                                                                         *)
(* Flags are kv777_defaultflags (every kv777_init in the program passes    *)
(* 0): rw, hdd and threadsafe set, no write-behind, no mmap.               *)
(***************************************************************************)
EXTENDS Integers, FiniteSets, FiniteSetsExt

CONSTANTS
  Keys, Values,
  KeySize, ValueSize,   \* sizes in bytes
  ZeroCrc,              \* the <<key, value>> pairs whose CRC-32 is 0
  Absent, Unsure, Blank, NoItem,
  FileWords,            \* bound: words the file may grow to
  MaxKeys,              \* bound: items added in one life of the process
  Tears,                \* bound: words after which a write may be cut off
  FopenResults          \* outcomes of fopen: TRUE, or BOOLEAN if it may fail

Aligned(bytes) == (bytes + 3) \div 4

\* sizeof(struct kv777_hdditem) is three words: crc, valuesize, keysize.
ItemSize(k, v) == 3 + Aligned(ValueSize[v]) + Aligned(KeySize[k])

Word == [key : Keys, value : Values, part : Nat]

\* hkey: the hash handle's key pointer still points into the live record.
Item == [ind : Nat, key : Keys, value : Values, offset : Int,
         itemsize : Nat, hkey : BOOLEAN]

ASSUME KVAssumption ==
  /\ IsFiniteSet(Keys) /\ IsFiniteSet(Values)
  /\ KeySize \in [Keys -> Nat] /\ ValueSize \in [Values -> Nat]
  /\ ZeroCrc \subseteq Keys \X Values
  /\ Absent \notin Values /\ Unsure \notin Values /\ Absent # Unsure
  /\ FileWords \in Nat /\ MaxKeys \in Nat /\ Tears \subseteq Nat \ {0}
  /\ FopenResults \subseteq BOOLEAN
  /\ Blank \notin Word /\ NoItem \notin Item

VARIABLES
  phase,      \* "down", "loading" (in kv777_init) or "open"
  mutex,      \* kv->mutex between calls: "free" or "held"
  file,       \* words of kv->fname
  fp,         \* kv->fp # 0
  fpos,       \* position of fp; while loading, kv->offset
  table,      \* kv->table, a set of kv777_item
  numkeys,    \* items ever added (source of ptr->ind)
  netkeys,    \* kv->netkeys
  totalvalues,\* kv->totalvalues, bytes
  written,    \* history: <<key, value>> pairs whose write returned
  last,       \* history: what a reader should find under each key
  framed      \* history: no step has broken the chain of records

disk == <<file, fpos>>
history == <<written, last, framed>>
vars == <<phase, mutex, file, fp, fpos, table, numkeys, netkeys, totalvalues,
          written, last, framed>>

-----------------------------------------------------------------------------
(* Hash table.  HASH_ADD puts the new item first in its bucket and
   HASH_FIND compares keys through hh.key.  A resized rewrite frees the
   record hh.key points into, so for such an item the comparison reads freed
   memory and may go either way. *)

ItemsOf(k) == {i \in table : i.key = k}

HashFind(k) ==
  LET newerMissed(i) == \A j \in ItemsOf(k) : j.ind > i.ind => ~j.hkey
  IN  {i \in ItemsOf(k) : newerMissed(i)}
        \cup {n \in {NoItem} : \A i \in ItemsOf(k) : ~i.hkey}

\* What kv777_read may return for k.
ReadResults(k) == {IF i = NoItem THEN Absent ELSE i.value : i \in HashFind(k)}

Newest(i) == \A j \in ItemsOf(i.key) : j.ind <= i.ind

-----------------------------------------------------------------------------
(* Record images in the file. *)

ImageAt(p, k, v, n) ==
  [w \in 0..FileWords - 1 |->
     IF w >= p /\ w < p + n THEN [key |-> k, value |-> v, part |-> w - p]
                            ELSE file[w]]

HoldsImage(p, k, v) ==
  /\ p >= 0 /\ p + ItemSize(k, v) <= FileWords
  /\ \A w \in p..(p + ItemSize(k, v) - 1) :
       file[w] = [key |-> k, value |-> v, part |-> w - p]

Loads_NoCrc(p, k, v) ==
  /\ p + ItemSize(k, v) <= FileWords
  /\ \A w \in p..p + 2 : file[w] = [key |-> k, value |-> v, part |-> w - p]

\* kv777_load accepts the record at p: header and body read, CRC not zero and
\* equal to the computed one.
Loads(p, k, v) == HoldsImage(p, k, v) /\ <<k, v>> \notin ZeroCrc

-----------------------------------------------------------------------------
(* What a write makes of the item HASH_FIND gave. *)

NewItem(k, v, offset) ==
  [ind |-> numkeys, key |-> k, value |-> v, offset |-> offset,
   itemsize |-> ItemSize(k, v), hkey |-> TRUE]

Resized_KeepsPlace(i, k, v) ==
  [i EXCEPT !.value = v, !.itemsize = ItemSize(k, v), !.hkey = FALSE]

Resized(i, k, v) ==
  [i EXCEPT !.value = v,
            !.itemsize = ItemSize(k, v),
            !.offset = IF ItemSize(k, v) > i.itemsize THEN -1 ELSE @,
            !.hkey = FALSE]

Target(i, k, v) ==
  IF i = NoItem THEN NewItem(k, v, -1)
  ELSE IF ValueSize[v] = ValueSize[i.value] THEN [i EXCEPT !.value = v]
  ELSE Resized(i, k, v)

\* kv777_update of a live item: append at fp, or write over the old image and
\* seek back.
Update(i) ==
  IF ~fp THEN UNCHANGED disk
  ELSE LET at == IF i.offset < 0 THEN fpos ELSE i.offset IN
       /\ at + i.itemsize <= FileWords
       /\ file' = ImageAt(at, i.key, i.value, i.itemsize)
       /\ fpos' = IF i.offset < 0 THEN fpos + i.itemsize ELSE fpos

Placed(i) == IF fp /\ i.offset < 0 THEN [i EXCEPT !.offset = fpos] ELSE i

\* The records after this one can still be reached by kv777_load.
KeepsChain(i, new) ==
  /\ <<new.key, new.value>> \notin ZeroCrc
  /\ new.offset >= 0 => new.itemsize = i.itemsize

OldSize(i) == IF i = NoItem THEN 0 ELSE ValueSize[i.value]

-----------------------------------------------------------------------------
Init ==
  /\ phase = "down" /\ mutex = "free"
  /\ file = [w \in 0..FileWords - 1 |-> Blank]
  /\ fp = FALSE /\ fpos = 0
  /\ table = {} /\ numkeys = 0 /\ netkeys = 0 /\ totalvalues = 0
  /\ written = {} /\ last = [k \in Keys |-> Absent] /\ framed = TRUE

\* kv777_init up to its loop.  When fopen fails the store is RAM only.
Open ==
  /\ phase = "down"
  /\ \E ok \in FopenResults :
       /\ fp' = ok
       /\ phase' = IF ok THEN "loading" ELSE "open"
       /\ last' = IF ok THEN last ELSE [k \in Keys |-> Unsure]
  /\ fpos' = 0
  /\ UNCHANGED <<mutex, file, table, numkeys, netkeys, totalvalues, written,
                 framed>>

\* One turn of kv777_init's loop: the record is added, after kv777_delete
\* (threadsafe is still 0, and the file is left as it is) of an earlier copy
\* of its key.
LoadItem ==
  /\ phase = "loading" /\ numkeys < MaxKeys
  /\ \E k \in Keys, v \in Values : \E old \in HashFind(k) :
       /\ Loads(fpos, k, v)
       /\ table' = (table \ {old}) \cup {NewItem(k, v, fpos)}
       /\ fpos' = fpos + ItemSize(k, v)
       /\ netkeys' = netkeys + 1 - (IF old = NoItem THEN 0 ELSE 1)
       /\ totalvalues' = totalvalues + ValueSize[v] - OldSize(old)
  /\ numkeys' = numkeys + 1
  /\ UNCHANGED <<phase, mutex, file, fp, history>>

LoadEnd_NoSeek ==
  /\ phase = "loading"
  /\ \A k \in Keys, v \in Values : ~Loads(fpos, k, v)
  /\ phase' = "open"
  /\ fpos' = Cardinality({w \in 0..FileWords - 1 : file[w] # Blank})
  /\ UNCHANGED <<mutex, file, fp, table, numkeys, netkeys, totalvalues, history>>

\* kv777_load returned 0: fp is put back behind the last good record.
LoadEnd ==
  /\ phase = "loading"
  /\ \A k \in Keys, v \in Values : ~Loads(fpos, k, v)
  /\ phase' = "open"
  /\ UNCHANGED <<mutex, file, fp, fpos, table, numkeys, netkeys, totalvalues,
                 history>>

\* kv777_write, with kv777_add, kv777_counters, kv777_update and fflush.
Write(k, v) ==
  /\ phase = "open" /\ mutex = "free"
  /\ \E i \in HashFind(k) :
       /\ i = NoItem => numkeys < MaxKeys
       /\ IF i # NoItem /\ i.value = v
          THEN UNCHANGED <<file, fpos, table, framed>>
          ELSE LET new == Target(i, k, v) IN
               /\ Update(new)
               /\ table' = (table \ {i}) \cup {Placed(new)}
               /\ framed' = (framed /\ (fp => KeepsChain(i, new)))
       /\ numkeys' = numkeys + (IF i = NoItem THEN 1 ELSE 0)
       /\ netkeys' = netkeys + (IF i = NoItem THEN 1 ELSE 0)
       /\ totalvalues' = totalvalues + ValueSize[v] - OldSize(i)
       /\ last' = [last EXCEPT ![k] =
                     IF i = NoItem THEN v
                     ELSE IF ItemsOf(k) = {i} THEN v ELSE Unsure]
  /\ written' = written \cup {<<k, v>>}
  /\ UNCHANGED <<phase, mutex, fp>>

\* kv777_delete.  kv777_update finds the deleted bit already set and writes
\* nothing; the call ends in a second kv777_lock of its own mutex, which the
\* default (non-recursive) pthread mutex never grants.
Delete(k) ==
  /\ phase = "open" /\ mutex = "free"
  /\ \E i \in HashFind(k) :
       /\ table' = table \ {i}
       /\ netkeys' = netkeys - (IF i = NoItem THEN 0 ELSE 1)
       /\ totalvalues' = totalvalues - OldSize(i)
       /\ last' = [last EXCEPT ![k] =
                     IF ItemsOf(k) \subseteq {i} THEN Absent ELSE Unsure]
  /\ mutex' = "held"
  /\ UNCHANGED <<phase, file, fp, fpos, numkeys, written, framed>>

\* kv777_purge and kv777_clear: the file is closed and removed, and the
\* store goes on in RAM.
Purge ==
  /\ phase = "open" /\ mutex = "free"
  /\ table' = {} /\ netkeys' = 0 /\ totalvalues' = 0
  /\ file' = [w \in 0..FileWords - 1 |-> Blank]
  /\ fp' = FALSE /\ fpos' = 0
  /\ last' = [k \in Keys |-> Absent]
  /\ UNCHANGED <<phase, mutex, numkeys, written, framed>>

\* The process ends; what fflush handed to the system stays.
Ended ==
  /\ phase' = "down" /\ mutex' = "free"
  /\ fp' = FALSE /\ fpos' = 0
  /\ table' = {} /\ numkeys' = 0 /\ netkeys' = 0 /\ totalvalues' = 0
  /\ last' = [k \in Keys |->
                IF \/ ~fp
                   \/ last[k] = Absent /\ \E v \in Values : <<k, v>> \in written
                THEN Unsure ELSE last[k]]
  /\ UNCHANGED written

Crash ==
  /\ phase # "down"
  /\ Ended
  /\ UNCHANGED <<file, framed>>

\* The process ends inside kv777_update's fwrite/fflush: only the first n
\* words of the image reached the file.
CrashInAppend(k, v) ==
  /\ phase = "open" /\ mutex = "free" /\ fp
  /\ \E i \in HashFind(k) : \E n \in Tears :
       /\ n < ItemSize(k, v)
       /\ i # NoItem => i.value # v
       /\ Target(i, k, v).offset < 0
       /\ fpos + n <= FileWords
       /\ file' = ImageAt(fpos, k, v, n)
  /\ Ended
  /\ UNCHANGED framed

CrashInRewrite(k, v) ==
  /\ phase = "open" /\ mutex = "free" /\ fp
  /\ \E i \in HashFind(k) \ {NoItem} : \E n \in Tears :
       /\ n < ItemSize(k, v)
       /\ i.value # v
       /\ Target(i, k, v).offset >= 0
       /\ file' = ImageAt(i.offset, k, v, n)
  /\ Ended
  /\ framed' = FALSE

Next ==
  \/ Open \/ LoadItem \/ LoadEnd \/ Purge \/ Crash
  \/ \E k \in Keys : Delete(k)
  \/ \E k \in Keys, v \in Values :
       Write(k, v) \/ CrashInAppend(k, v) \/ CrashInRewrite(k, v)

Spec == Init /\ [][Next]_vars

-----------------------------------------------------------------------------
(* Properties. *)

\* Every variable has its type (the fields of struct kv777 and kv777_item).
TypeOK ==
  /\ phase \in {"down", "loading", "open"} /\ mutex \in {"free", "held"}
  /\ file \in [0..FileWords - 1 -> Word \cup {Blank}]
  /\ fp \in BOOLEAN /\ fpos \in 0..FileWords
  /\ table \subseteq Item /\ numkeys \in 0..MaxKeys
  /\ netkeys \in Nat /\ totalvalues \in Int
  /\ written \subseteq Keys \X Values
  /\ last \in [Keys -> Values \cup {Absent, Unsure}] /\ framed \in BOOLEAN

\* While the store is open on a file, the image of every item of kv->table
\* stands whole at the item's offset, below the append position: no append,
\* rewrite in place, shrink or reload ever writes over another item's record.
ItemsOnDisk ==
  phase # "down" /\ fp =>
    \A i \in table : /\ i.offset + i.itemsize <= fpos
                     /\ HoldsImage(i.offset, i.key, i.value)

\* kv777_init only brings back values that a kv777_write of that key
\* completed: never a torn image, nor a mixture of two images left by rewrites
\* of different size and appends over a damaged tail.
OnlyWritten == \A i \in table : <<i.key, i.value>> \in written

\* As long as no rewrite has left a smaller record in an old place, no rewrite
\* in place was torn and no record has CRC 0, the newest item of each key
\* holds the last value written, through any number of restarts and torn
\* appends; and keys never written are not there.
Durable ==
  phase = "open" /\ framed =>
    \A k \in Keys :
      /\ last[k] = Absent => ItemsOf(k) = {}
      /\ last[k] \in Values =>
           \E i \in ItemsOf(k) : Newest(i) /\ i.value = last[k]

\* kv777_test counts an error when kv777_read after kv777_write does not find
\* the key or finds another value ("cant find key added").
ReadAfterWrite ==
  phase = "open" /\ framed =>
    \A k \in Keys : last[k] \in Values => ReadResults(k) = {last[k]}
=============================================================================
