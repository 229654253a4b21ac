------------------------------ MODULE Queue777 ------------------------------
(***************************************************************************)
(* A queue_t shared by threads (src/plugins/common/system777.c), the queue *)
(* between every pair of loops of the program: daemons, RPC calls, Pangea  *)
(* messages, pending trades.                                               *)
(*                                                                         *)
(* lock_queue makes the mutex on first use: it tests initflag, initialises *)
(* the mutex and sets initflag, with nothing to keep two threads from      *)
(* doing so at once.  Initialising a mutex that another thread is in       *)
(* leaves it unlocked (what the C library does with it), which `raced'     *)
(* records.  queue_delete returns the entry it took without unlocking.     *)
(*                                                                         *)
(* DL_APPEND, DL_DELETE and DL_COUNT read the list and then write it: two  *)
(* steps, so that two threads inside at once lose entries.                 *)
(***************************************************************************)
EXTENDS Naturals, Sequences

CONSTANTS
  Threads, Entries,
  Nothing,          \* no entry, a null result
  Nobody,
  MaxCalls          \* bound: calls made in a behaviour

ASSUME QueueAssumption ==
  Nobody \notin Threads /\ MaxCalls \in Nat

VARIABLES
  list,      \* queue->list
  initflag,  \* queue->initflag
  owner,     \* the thread in queue->mutex, or Nobody
  pc, op, arg, ret,
  snap,      \* the list as a thread in the mutex has read it
  calls,     \* calls begun
  raced,     \* history: the mutex was initialised with a thread in it
  kept       \* history: a queue_delete found an entry

vars == <<list, initflag, owner, pc, op, arg, ret, snap, calls, raced, kept>>

\* The abstract queue: a call takes effect when it leaves the list written.
AbsPc == [t \in Threads |-> CASE pc[t] = "idle" -> "idle"
                              [] pc[t] = "unlock" -> "done"
                              [] OTHER -> "called"]

Abs == INSTANCE Fifo WITH pc <- AbsPc

Ops == {"enqueue", "dequeue", "delete", "size"}

\* A queue_t is zeroed memory.
Init ==
  /\ list = <<>>
  /\ initflag = FALSE
  /\ owner = Nobody
  /\ pc = [t \in Threads |-> "idle"]
  /\ op = [t \in Threads |-> "size"]
  /\ arg = [t \in Threads |-> Nothing]
  /\ ret = [t \in Threads |-> Nothing]
  /\ snap = [t \in Threads |-> <<>>]
  /\ calls = 0
  /\ raced = FALSE /\ kept = FALSE

-----------------------------------------------------------------------------
Goto(t, from, to) == pc[t] = from /\ pc' = [pc EXCEPT ![t] = to]

\* queue_enqueue with an entry, or one of the other calls.
Call(t, o, e) ==
  /\ calls < MaxCalls
  /\ calls' = calls + 1
  /\ Goto(t, "idle", "flag")
  /\ op' = [op EXCEPT ![t] = o]
  /\ arg' = [arg EXCEPT ![t] = e]
  /\ ret' = [ret EXCEPT ![t] = Nothing]
  /\ UNCHANGED <<list, initflag, owner, snap, raced, kept>>

\* lock_queue: if ( queue->initflag == 0 )
Test(t) ==
  /\ Goto(t, "flag", IF initflag THEN "lock" ELSE "init")
  /\ UNCHANGED <<list, initflag, owner, op, arg, ret, snap, calls, raced, kept>>

\* portable_mutex_init
MutexInit(t) ==
  /\ Goto(t, "init", "set")
  /\ owner' = Nobody
  /\ raced' = (raced \/ owner # Nobody)
  /\ UNCHANGED <<list, initflag, op, arg, ret, snap, calls, kept>>

\* queue->initflag = 1
SetFlag(t) ==
  /\ Goto(t, "set", "lock")
  /\ initflag' = TRUE
  /\ UNCHANGED <<list, owner, op, arg, ret, snap, calls, raced, kept>>

\* portable_mutex_lock
Lock(t) ==
  /\ Goto(t, "lock", "read")
  /\ owner = Nobody
  /\ owner' = t
  /\ UNCHANGED <<list, initflag, op, arg, ret, snap, calls, raced, kept>>

\* The list operation reads the list
Get(t) ==
  /\ Goto(t, "read", "write")
  /\ snap' = [snap EXCEPT ![t] = list]
  /\ UNCHANGED <<list, initflag, owner, op, arg, ret, calls, raced, kept>>

\* A bug that takes off the newest entry.
Removed_Newest(l) == SubSeq(l, 1, Len(l) - 1)

\* DL_DELETE(queue->list,item) of the first entry.
Removed(l) == Tail(l)

\* and leaves it as the operation makes it.  DL_FOREACH in queue_delete stops
\* at the first entry, since it compares that entry with itself.
Put(t) ==
  LET l == snap[t]
  IN  /\ Goto(t, "write", "unlock")
      /\ list' = CASE op[t] = "enqueue" -> Append(l, arg[t])
                   [] op[t] = "size" -> l
                   [] OTHER -> IF l = <<>> THEN l ELSE Removed(l)
      /\ ret' = [ret EXCEPT ![t] =
                   CASE op[t] = "enqueue" -> Nothing
                     [] op[t] = "size" -> <<Len(l)>>
                     [] OTHER -> IF l = <<>> THEN Nothing ELSE <<Head(l)>>]
      /\ snap' = [snap EXCEPT ![t] = <<>>]
      /\ kept' = (kept \/ (op[t] = "delete" /\ l # <<>>))
      /\ UNCHANGED <<initflag, owner, op, arg, calls, raced>>

\* A bug that leaves the mutex locked when there was no entry.
Unlock_EmptyKept(t) ==
  /\ Goto(t, "unlock", "idle")
  /\ owner' = IF op[t] \in {"delete", "dequeue"} /\ ret[t] = Nothing
              THEN owner ELSE Nobody
  /\ UNCHANGED <<list, initflag, op, arg, ret, snap, calls, raced, kept>>

\* portable_mutex_unlock, which queue_delete skips when it found an entry.
Unlock(t) ==
  /\ Goto(t, "unlock", "idle")
  /\ owner' = IF op[t] = "delete" /\ ret[t] # Nothing THEN owner ELSE Nobody
  /\ UNCHANGED <<list, initflag, op, arg, ret, snap, calls, raced, kept>>

Step(t) ==
  \/ Test(t) \/ MutexInit(t) \/ SetFlag(t) \/ Lock(t)
  \/ Get(t) \/ Put(t) \/ Unlock(t)

Next ==
  \E t \in Threads :
    \/ \E e \in Entries : Call(t, "enqueue", e)
    \/ \E o \in Ops \ {"enqueue"} : Call(t, o, Nothing)
    \/ Step(t)

Spec == Init /\ [][Next]_vars

FairSpec == Spec /\ \A t \in Threads : WF_vars(Step(t))

-----------------------------------------------------------------------------
InMutex == {"read", "write", "unlock"}

\* Each call is at one of the steps of its function, with one list, one
\* owner of the mutex and a first-use flag.
TypeOK ==
  /\ list \in Seq(Entries)
  /\ initflag \in BOOLEAN
  /\ owner \in Threads \cup {Nobody}
  /\ pc \in [Threads -> {"idle", "flag", "init", "set", "lock"} \cup InMutex]
  /\ op \in [Threads -> Ops]
  /\ arg \in [Threads -> Entries \cup {Nothing}]
  /\ snap \in [Threads -> Seq(Entries)]
  /\ DOMAIN ret = Threads
  /\ calls \in Nat
  /\ raced \in BOOLEAN /\ kept \in BOOLEAN

\* Until two first uses race so that the mutex is initialised with a thread
\* in it, the queue is a first-in first-out list on which every call takes
\* effect at one instant: each step is a step of Fifo.
FifoUntilRace ==
  Abs!Init /\ [][Abs!Next \/ raced']_Abs!fifoVars

\* Every call returns, unless a queue_delete found an entry (it returns with
\* the mutex locked) or the first uses raced.
QueueCallsReturn ==
  \A t \in Threads :
    pc[t] # "idle" ~> (pc[t] = "idle" \/ kept \/ raced)

=============================================================================
