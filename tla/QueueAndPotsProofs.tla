------------------------- MODULE QueueAndPotsProofs --------------------------
(***************************************************************************)
(* Two short proofs that share nothing but this file: a queue_t implements *)
(* Fifo (Queue777), and the arithmetic of a pot is exact (PangeaPots).     *)
(***************************************************************************)
EXTENDS Queue777, PangeaPots, TLAPS

-----------------------------------------------------------------------------
(* For any number of threads, entries and calls, a queue_t whose first uses  *)
(* do not race implements Fifo.                                              *)
(*                                                                           *)
(* The argument is mutual exclusion.  A thread between lock_queue and the    *)
(* unlock owns the mutex, so the list it read is still the list when it      *)
(* writes it, and the write is the abstract step.  Only initialising the     *)
(* mutex under a thread that is in it breaks this, and `raced' remembers     *)
(* that for good.                                                            *)

\* A thread that is past lock_queue owns the mutex, and what it has read is
\* still the list.
Excluded ==
  \A t \in Threads :
    /\ pc[t] \in InMutex => owner = t
    /\ pc[t] = "write" => snap[t] = list

\* queue_enqueue brings an entry.
Brought == \A t \in Threads : op[t] = "enqueue" => arg[t] \in Entries

Inv == TypeOK /\ Brought /\ (~raced => Excluded)

\* A zeroed queue_t satisfies the invariant.
LEMMA InitInv == Init => Inv
<1> SUFFICES ASSUME Init PROVE Inv
  OBVIOUS
<1>1. TypeOK
  <2>1. <<>> \in Seq(Entries)
    OBVIOUS
  <2>2. snap \in [Threads -> Seq(Entries)] /\ list \in Seq(Entries)
    BY <2>1 DEF Init
  <2>3. pc \in [Threads -> {"idle", "flag", "init", "set", "lock"} \cup InMutex]
        /\ op \in [Threads -> Ops] /\ arg \in [Threads -> Entries \cup {Nothing}]
    BY DEF Init, Ops
  <2>4. DOMAIN ret = Threads /\ initflag \in BOOLEAN /\ raced \in BOOLEAN
        /\ kept \in BOOLEAN
        /\ owner \in Threads \cup {Nobody} /\ calls \in Nat
    BY DEF Init
  <2> QED BY <2>2, <2>3, <2>4 DEF TypeOK
<1>2. Brought
  BY DEF Init, Brought
<1>3. Excluded
  BY DEF Init, Excluded, InMutex
<1> QED BY <1>1, <1>2, <1>3 DEF Inv

\* A call that begins (queue_enqueue and the others) touches neither the
\* mutex nor the list.
LEMMA CallInv ==
  ASSUME Inv, NEW t \in Threads, NEW o \in Ops, NEW e \in Entries \cup {Nothing},
         o = "enqueue" => e \in Entries, Call(t, o, e)
  PROVE  Inv'
<1>1. TypeOK'
  BY DEF Inv, TypeOK, Call, Goto, InMutex
<1>2. Brought'
  BY DEF Inv, TypeOK, Brought, Call
<1>3. ~raced => Excluded'
  BY DEF Inv, TypeOK, Excluded, Call, Goto, InMutex
<1> QED
  BY <1>1, <1>2, <1>3 DEF Inv, Call

\* What the list operations return from a list of entries.
LEMMA PutList ==
  ASSUME NEW l \in Seq(Entries), NEW o \in Ops, NEW e,
         o = "enqueue" => e \in Entries
  PROVE  (CASE o = "enqueue" -> Append(l, e)
            [] o = "size" -> l
            [] OTHER -> IF l = <<>> THEN l ELSE Removed(l)) \in Seq(Entries)
  BY DEF Ops, Removed

\* The steps of lock_queue, of the list operation and of the unlock keep the
\* invariant.
LEMMA StepInv ==
  ASSUME Inv, NEW t \in Threads, Step(t)
  PROVE  Inv'
<1>1. CASE Test(t)
  BY <1>1 DEF Inv, TypeOK, Brought, Excluded, Test, Goto, InMutex
<1>2. CASE MutexInit(t)
  <2>1. TypeOK' /\ Brought'
    BY <1>2 DEF Inv, TypeOK, Brought, MutexInit, Goto, InMutex
  <2>2. ~raced' => Excluded'
    BY <1>2, QueueAssumption DEF Inv, TypeOK, Excluded, MutexInit, Goto, InMutex
  <2> QED BY <2>1, <2>2 DEF Inv
<1>3. CASE SetFlag(t)
  BY <1>3 DEF Inv, TypeOK, Brought, Excluded, SetFlag, Goto, InMutex
<1>4. CASE Lock(t)
  <2>1. TypeOK' /\ Brought'
    BY <1>4 DEF Inv, TypeOK, Brought, Lock, Goto, InMutex
  <2>2. ~raced' => Excluded'
    BY <1>4, QueueAssumption DEF Inv, TypeOK, Excluded, Lock, Goto, InMutex
  <2> QED BY <2>1, <2>2 DEF Inv
<1>5. CASE Get(t)
  BY <1>5 DEF Inv, TypeOK, Brought, Excluded, Get, Goto, InMutex
<1>6. CASE Put(t)
  <2>1. list' \in Seq(Entries)
    <3>1. list' = CASE op[t] = "enqueue" -> Append(snap[t], arg[t])
                    [] op[t] = "size" -> snap[t]
                    [] OTHER -> IF snap[t] = <<>> THEN snap[t] ELSE Removed(snap[t])
      BY <1>6 DEF Put
    <3>2. snap[t] \in Seq(Entries) /\ op[t] \in Ops
          /\ (op[t] = "enqueue" => arg[t] \in Entries)
      BY DEF Inv, TypeOK, Brought
    <3> QED BY <3>1, <3>2, PutList
  <2>2. TypeOK'
    BY <2>1, <1>6 DEF Inv, TypeOK, Put, Goto, InMutex
  <2>3. Brought'
    BY <1>6 DEF Inv, Brought, Put
  <2>4. ~raced' => Excluded'
    BY <1>6 DEF Inv, TypeOK, Excluded, Put, Goto, InMutex
  <2> QED BY <2>2, <2>3, <2>4 DEF Inv
<1>7. CASE Unlock(t)
  BY <1>7 DEF Inv, TypeOK, Brought, Excluded, Unlock, Goto, InMutex
<1> QED
  BY <1>1, <1>2, <1>3, <1>4, <1>5, <1>6, <1>7 DEF Step

\* Every step of the queue keeps the invariant.
LEMMA NextInv == Inv /\ [Next]_vars => Inv'
<1> SUFFICES ASSUME Inv, [Next]_vars PROVE Inv'
  OBVIOUS
<1>1. CASE UNCHANGED vars
  BY <1>1 DEF Inv, TypeOK, Brought, Excluded, vars
<1>2. CASE Next
  <2>1. PICK t \in Threads :
          \/ \E e \in Entries : Call(t, "enqueue", e)
          \/ \E o \in Ops \ {"enqueue"} : Call(t, o, Nothing)
          \/ Step(t)
    BY <1>2 DEF Next
  <2>2. CASE \E e \in Entries : Call(t, "enqueue", e)
    BY <2>2, CallInv DEF Ops
  <2>3. CASE \E o \in Ops \ {"enqueue"} : Call(t, o, Nothing)
    BY <2>3, CallInv
  <2>4. CASE Step(t)
    BY <2>4, StepInv
  <2> QED BY <2>1, <2>2, <2>3, <2>4
<1> QED BY <1>1, <1>2

\* The fields of a queue_t and the positions of the calls keep their types.
THEOREM QueueTypes == Spec => []TypeOK
<1>1. Inv => TypeOK
  BY DEF Inv
<1> QED BY InitInv, NextInv, <1>1, PTL DEF Spec

\* The steps before the list is written are invisible in the abstract queue.
LEMMA Hidden ==
  ASSUME TypeOK, NEW t \in Threads, Step(t), ~Put(t), ~Unlock(t)
  PROVE  UNCHANGED Abs!fifoVars
<1>1. UNCHANGED <<list, op, arg, ret>>
  BY DEF Step, Test, MutexInit, SetFlag, Lock, Get
<1>2. PICK a \in {"flag", "init", "set", "lock", "read"},
           b \in {"init", "set", "lock", "read", "write"} : Goto(t, a, b)
  BY DEF Step, Test, MutexInit, SetFlag, Lock, Get
<1>3. AbsPc' = AbsPc
  BY <1>2 DEF AbsPc, Goto, TypeOK
<1> QED BY <1>1, <1>3 DEF Abs!fifoVars

\* Beginning a call is the abstract Call.
LEMMA CallAbs ==
  ASSUME TypeOK, NEW t \in Threads, NEW o \in Ops, NEW e \in Entries \cup {Nothing},
         Call(t, o, e)
  PROVE  Abs!Next
<1>1. AbsPc[t] = "idle" /\ AbsPc' = [AbsPc EXCEPT ![t] = "called"]
  BY DEF Call, Goto, AbsPc, TypeOK
<1>2. Abs!Call(t, o, e)
  BY <1>1 DEF Call, Abs!Call
<1> QED BY <1>2 DEF Abs!Next, Ops, Abs!Ops

\* Writing the list, while the mutex excludes the other threads, is the
\* instant at which the call takes effect.
LEMMA PutAbs ==
  ASSUME TypeOK, Excluded, NEW t \in Threads, Put(t)
  PROVE  Abs!Next
<1>1. AbsPc[t] = "called" /\ AbsPc' = [AbsPc EXCEPT ![t] = "done"]
  BY DEF Put, Goto, AbsPc, TypeOK
<1>2. snap[t] = list
  BY DEF Put, Goto, Excluded
<1>3. list' = Abs!After(op[t], arg[t], list)
  BY <1>2 DEF Put, Removed, Abs!After
<1>4. ret' = [ret EXCEPT ![t] = Abs!Result(op[t], list)]
  BY <1>2 DEF Put, Abs!Result
<1>5. Abs!Do(t)
  BY <1>1, <1>3, <1>4 DEF Put, Abs!Do
<1> QED BY <1>5 DEF Abs!Next

\* The unlock, or queue_delete's return without one, is the abstract Return.
LEMMA UnlockAbs ==
  ASSUME TypeOK, NEW t \in Threads, Unlock(t)
  PROVE  Abs!Next
<1>1. AbsPc[t] = "done" /\ AbsPc' = [AbsPc EXCEPT ![t] = "idle"]
  BY DEF Unlock, Goto, AbsPc, TypeOK
<1>2. Abs!Return(t)
  BY <1>1 DEF Unlock, Abs!Return
<1> QED BY <1>2 DEF Abs!Next

\* A zeroed queue_t is an empty abstract queue.
LEMMA InitAbs == Init => Abs!Init
  BY DEF Init, Abs!Init, AbsPc

\* Every step is a step of Fifo, or leaves it unchanged, or comes after a
\* race of first uses.
LEMMA NextAbs == Inv /\ [Next]_vars => [Abs!Next \/ raced']_Abs!fifoVars
<1> SUFFICES ASSUME Inv, [Next]_vars
             PROVE  Abs!Next \/ raced' \/ UNCHANGED Abs!fifoVars
  BY DEF Abs!fifoVars
<1>0. TypeOK /\ (raced => raced')
  <2>1. TypeOK
    BY DEF Inv
  <2>2. ASSUME raced PROVE raced'
    BY <2>2 DEF Next, Step, Call, Test, MutexInit, SetFlag, Lock, Get, Put,
                Unlock, vars
  <2> QED BY <2>1, <2>2
<1>1. CASE UNCHANGED vars
  BY <1>1 DEF vars, Abs!fifoVars, AbsPc
<1>2. CASE Next
  <2>1. PICK t \in Threads :
          \/ \E e \in Entries : Call(t, "enqueue", e)
          \/ \E o \in Ops \ {"enqueue"} : Call(t, o, Nothing)
          \/ Step(t)
    BY <1>2 DEF Next
  <2>2. CASE \E e \in Entries : Call(t, "enqueue", e)
    BY <2>2, <1>0, CallAbs DEF Ops
  <2>3. CASE \E o \in Ops \ {"enqueue"} : Call(t, o, Nothing)
    BY <2>3, <1>0, CallAbs
  <2>4. CASE Put(t)
    BY <2>4, <1>0, PutAbs DEF Inv
  <2>5. CASE Unlock(t)
    BY <2>5, <1>0, UnlockAbs
  <2>6. CASE Step(t) /\ ~Put(t) /\ ~Unlock(t)
    BY <2>6, <1>0, Hidden
  <2> QED BY <2>1, <2>2, <2>3, <2>4, <2>5, <2>6
<1> QED BY <1>1, <1>2

\* A queue_t is a first-in first-out queue on which every call of queue_*
\* takes effect at one instant, until two first uses race in lock_queue.
THEOREM QueueIsFifo == Spec => FifoUntilRace
  BY InitInv, NextInv, InitAbs, NextAbs, PTL DEF Spec, FifoUntilRace

-----------------------------------------------------------------------------
(* The arithmetic of a pot, for every pot, number of winners, rake and cap   *)
(* (pangea_winnings, pangeafunds.c:552).                                     *)

(***************************************************************************)
(* Integer division rounds down: the quotient times the divisor is at most *)
(* the dividend and less than a divisor short of it (the C division of     *)
(* pangea_winnings).                                                       *)
(***************************************************************************)
LEMMA DivBounds ==
  ASSUME NEW a \in Nat, NEW b \in Nat \ {0}
  PROVE  /\ a \div b \in Nat
         /\ b * (a \div b) <= a
         /\ a < b * (a \div b) + b
<1>1. a \div b \in Int /\ a % b \in 0..b - 1 /\ a = b * (a \div b) + (a % b)
  OBVIOUS
<1>2. a \div b >= 0
  BY <1>1, SMT
<1> QED
  BY <1>1, <1>2, SMT

\* The share of a winner before the cap.
Share(total, n, m) == (total * (1000 - m)) \div (1000 * n)

(***************************************************************************)
(* Dividing k thousandths of a total among n winners pays out at most the  *)
(* total and keeps less than the other thousandths and a chip a winner.    *)
(***************************************************************************)
LEMMA FullShare ==
  ASSUME NEW total \in Nat, NEW n \in Nat \ {0}, NEW m \in Nat, m <= 1000
  PROVE  /\ Share(total, n, m) \in Nat
         /\ Share(total, n, m) * n \in Nat
         /\ Share(total, n, m) * n <= total
         /\ 1000 * (total - Share(total, n, m) * n) < m * total + 1000 * n
<1> DEFINE full == Share(total, n, m)
           a == total * (1000 - m)
           b == 1000 * n
           q == full * n
<1>1. a \in Nat /\ b \in Nat \ {0} /\ total * m \in Nat
  <2>1. 1000 - m \in Nat /\ m \in Nat
    OBVIOUS
  <2> QED
    BY <2>1, SMT
<1>2. full \in Nat /\ b * full <= a /\ a < b * full + b
  <2> HIDE DEF a, b
  <2>1. full = a \div b
    BY DEF a, b, Share
  <2> HIDE DEF full
  <2> QED
    BY <1>1, <2>1, DivBounds
<1>3. q \in Nat /\ b * full = 1000 * q
  BY <1>2, SMT
<1>4. a = 1000 * total - m * total /\ m * total \in Nat
  <2>1. m \in Int
    OBVIOUS
  <2> QED
    BY <1>1, <2>1, SMT
<1> HIDE DEF a, q
<1>5. 1000 * q <= 1000 * total - m * total
  BY <1>2, <1>3, <1>4
<1>6. q <= total
  BY <1>3, <1>4, <1>5
<1>7. 1000 * total - m * total < 1000 * q + 1000 * n
  BY <1>2, <1>3, <1>4
<1>8. 1000 * (total - q) < m * total + 1000 * n
  <2> DEFINE mt == m * total
  <2>1. mt \in Nat /\ 1000 * total - mt < 1000 * q + 1000 * n
    BY <1>4, <1>7
  <2> HIDE DEF mt
  <2>2. 1000 * (total - q) < mt + 1000 * n
    BY <2>1, <1>3
  <2> QED
    BY <2>2 DEF mt
<1> QED
  BY <1>2, <1>3, <1>6, <1>8 DEF q

(***************************************************************************)
(* The host's part of what is kept is a part of it.                        *)
(***************************************************************************)
LEMMA RakeShare ==
  ASSUME NEW cut \in Nat, NEW m \in Nat \ {0}, NEW k \in Nat, k <= m
  PROVE  (cut * k) \div m \in 0..cut
<1> DEFINE a == cut * k
           q == a \div m
<1>1. a \in Nat /\ a <= cut * m
  BY SMT
<1>2. q \in Nat /\ m * q <= a
  <2> HIDE DEF a
  <2> QED
    BY <1>1, DivBounds
<1>3. m * q <= m * cut
  <2>1. cut * m = m * cut /\ m * cut \in Nat /\ m * q \in Nat
    BY <1>2, SMT
  <2> HIDE DEF a, q
  <2> QED
    BY <1>1, <1>2, <2>1
<1> HIDE DEF q
<1>4. q <= cut
  <2> SUFFICES ASSUME q >= cut + 1 PROVE FALSE
    BY <1>2
  <2>1. m * q >= m * cut + m
    BY <1>2, SMT
  <2> QED
    BY <2>1, <1>3, <1>2, SMT
<1> QED
  BY <1>2, <1>4 DEF q

(***************************************************************************)
(* What a pot pays is exact, whatever is in it, however many share it and  *)
(* wherever the cap cuts in: the shares and the two rakes are natural      *)
(* numbers and add up to the pot, so the unsigned subtractions of          *)
(* pangea_winnings never wrap and "pangea_split total error" is never      *)
(* printed; and the rakes together exceed neither the cap nor the table's  *)
(* percentage by more than the rounding of the shares.                     *)
(***************************************************************************)
THEOREM WinningsExact ==
  ASSUME NEW total \in Nat, NEW n \in Nat \ {0}, NEW m \in 0..1000,
         NEW maxrake \in Nat,
         NEW w, w = pangea_winnings(total, n, m, maxrake)
  PROVE  /\ w.split \in Nat /\ w.rake \in Nat /\ w.pangearake \in Nat
         /\ w.split * n + w.rake + w.pangearake = total
         /\ w.rake + w.pangearake < maxrake + n
         /\ 1000 * (w.rake + w.pangearake) < m * total + 1000 * n
<1> DEFINE full  == Share(total, n, m)
           split == IF total - full * n > maxrake THEN (total - maxrake) \div n ELSE full
           cut  == total - split * n
           rake  == IF m > MinRakeMillis
                    THEN (cut * (m - MinRakeMillis)) \div m ELSE 0
<1>1. w = [split |-> split, rake |-> rake, pangearake |-> cut - rake]
  BY DEF pangea_winnings, Share
<1>2. /\ full \in Nat /\ full * n \in Nat /\ full * n <= total
      /\ 1000 * (total - full * n) < m * total + 1000 * n
  BY FullShare
<1> HIDE DEF full
<1>3. m * total \in Nat
  <2>1. m \in Nat
    OBVIOUS
  <2> QED
    BY <2>1, SMT
<1>4. split \in Nat /\ split * n \in Nat /\ split * n <= total
      /\ total - split * n < maxrake + n
      /\ 1000 * (total - split * n) < m * total + 1000 * n
  <2>1. CASE total - full * n > maxrake
    <3> DEFINE q == (total - maxrake) \div n
    <3>1. split = q
      BY <2>1
    <3>2. total - maxrake \in Nat
      BY <1>2, <2>1
    <3>3. q \in Nat /\ n * q <= total - maxrake /\ total - maxrake < n * q + n
      BY <3>2, DivBounds
    <3> HIDE DEF q
    <3>4. n * q = q * n /\ q * n \in Nat
      BY <3>3, SMT
    <3>5. q * n <= total /\ total - q * n < maxrake + n
      BY <3>3, <3>4
    <3>6. q >= full
      <4> SUFFICES ASSUME full >= q + 1 PROVE FALSE
        BY <1>2, <3>3
      <4>1. full * n >= q * n + n
        BY <1>2, <3>3, SMT
      <4> QED
        BY <4>1, <1>2, <2>1, <3>3, <3>4
    <3>7. q * n >= full * n
      BY <1>2, <3>3, <3>6, SMT
    <3>8. 1000 * (total - q * n) < m * total + 1000 * n
      BY <3>7, <3>4, <1>2, <1>3
    <3> QED
      BY <3>1, <3>3, <3>4, <3>5, <3>8
  <2>2. CASE ~(total - full * n > maxrake)
    <3>1. split = full
      BY <2>2
    <3>2. total - full * n < maxrake + n
      BY <2>2, <1>2
    <3> QED
      BY <3>1, <3>2, <1>2
  <2> QED
    BY <2>1, <2>2
<1> HIDE DEF split
<1>5. cut \in Nat
  BY <1>4
<1> HIDE DEF cut
<1>6. rake \in 0..cut
  <2>1. CASE m > MinRakeMillis
    <3>1. m \in Nat \ {0} /\ m - MinRakeMillis \in Nat /\ m - MinRakeMillis <= m
      BY <2>1, RakeAssumption
    <3>2. (cut * (m - MinRakeMillis)) \div m \in 0..cut
      BY <3>1, <1>5, RakeShare
    <3> QED
      BY <2>1, <3>2
  <2>2. CASE ~(m > MinRakeMillis)
    BY <2>2, <1>5
  <2> QED
    BY <2>1, <2>2
<1> HIDE DEF rake
<1>7. w.split = split /\ w.rake = rake /\ w.pangearake = cut - rake
  BY <1>1
<1>8. w.rake + w.pangearake = cut /\ w.rake \in Nat /\ w.pangearake \in Nat
  BY <1>5, <1>6, <1>7
<1>9. split * n + cut = total
  BY <1>4 DEF cut
<1>10. split * n + rake + (cut - rake) = total
  <2> DEFINE sn == split * n
  <2>1. sn \in Nat /\ sn + cut = total /\ rake \in Nat
    BY <1>4, <1>5, <1>6, <1>9
  <2> HIDE DEF sn
  <2>2. sn + rake + (cut - rake) = total
    BY <2>1, <1>5
  <2> QED
    BY <2>2 DEF sn
<1>11. cut < maxrake + n /\ 1000 * cut < m * total + 1000 * n
  BY <1>4 DEF cut
<1> QED
  BY <1>4, <1>7, <1>8, <1>10, <1>11
=============================================================================
