---------------------------- MODULE DaemonsProofs ----------------------------
(***************************************************************************)
(* For any threads, daemons and times: a daemon_info that find_daemoninfo  *)
(* has returned is not freed while it is used, and none is freed twice, as *)
(* long as no use takes longer than DAEMONFREE_MARGIN_SECONDS.             *)
(***************************************************************************)
EXTENDS Daemons, SequenceTheorems, FiniteSetTheorems, TLAPS

\* What a thread holds is live, and was searched at most hold ticks ago: the
\* fact that keeps update_Daemoninfos from freeing it.
Held ==
  \A t \in Threads : Holding(t) => mem[ptr[t]] = "live" /\ age[ptr[t]] <= hold[t]

\* What find_daemoninfo has read from the list has been allocated.
ReadAllocated ==
  \A t \in Threads : pc[t] = "compare" => mem[ptr[t]] # "unused"

Inv ==
  /\ TypeOK /\ ListedOnce /\ ReadAllocated
  /\ fault # "use"
  /\ fault = "none" => Held

USE DEF Holding, Goto, Use, StartFind, Leave, list, process, search

\* The registry is empty and no thread is in it when the program starts.
LEMMA InitInv == Init => Inv
BY DaemonsAssumption DEF Init, Inv, TypeOK, ListedOnce, ReadAllocated, Held

\* A step that leaves the list, the queue and the memory alone keeps every
\* daemon on them once.
LEMMA ListKept ==
  ASSUME ListedOnce, UNCHANGED <<infos, queue, mem>>
  PROVE  ListedOnce'
BY DEF ListedOnce

\* A step that moves no thread and frees nothing keeps what searches read
\* allocated.
LEMMA ReadKept ==
  ASSUME ReadAllocated, UNCHANGED <<mem, pc, ptr>>
  PROVE  ReadAllocated'
BY DEF ReadAllocated

\* update_Daemoninfos keeps every daemon on the list or the queue once, and
\* frees only listed ones that have expired.
LEMMA UpdateKeeps ==
  ASSUME TypeOK, ListedOnce, NEW t \in Threads, NEW s, Update(t, s)
  PROVE  /\ infos' \in Seq(Daemons) /\ queue' \in Seq(Daemons)
         /\ mem' \in [Daemons -> {"unused", "live", "freed"}]
         /\ \A d \in Daemons : mem[d] # "unused" => mem'[d] # "unused"
         /\ \A d \in Daemons : ~Expired(d) => mem'[d] = mem[d]
         /\ ListedOnce'
<1> PICK n \in 0..Len(infos) : \E f \in [1..n -> 1..Len(infos)] :
      /\ Compact(f, n)
      /\ infos' = [j \in 1..n |-> infos[f[j]]] \o queue
  BY DEF Update
<1> PICK f \in [1..n -> 1..Len(infos)] :
      /\ Compact(f, n)
      /\ infos' = [j \in 1..n |-> infos[f[j]]] \o queue
  OBVIOUS
<1> DEFINE g == [j \in 1..n |-> infos[f[j]]]
<1>1. infos \in Seq(Daemons) /\ queue \in Seq(Daemons)
  BY DEF TypeOK
<1>2. g \in Seq(Daemons) /\ Len(g) = n /\ n \in Nat
  BY <1>1
<1>3. /\ infos' \in Seq(Daemons) /\ Len(infos') = n + Len(queue)
      /\ \A i \in 1..n : infos'[i] = infos[f[i]]
      /\ \A i \in 1..Len(queue) : infos'[n + i] = queue[i]
  <2>1. infos' = g \o queue
    OBVIOUS
  <2>2. \A i \in 1..n : g[i] = infos[f[i]]
    OBVIOUS
  <2> HIDE DEF g
  <2>3. /\ infos' \in Seq(Daemons) /\ Len(infos') = n + Len(queue)
        /\ \A i \in 1..n + Len(queue) :
             infos'[i] = IF i <= n THEN g[i] ELSE queue[i - n]
    <3>1. /\ g \o queue \in Seq(Daemons) /\ Len(g \o queue) = Len(g) + Len(queue)
          /\ \A i \in 1..Len(g) + Len(queue) :
               (g \o queue)[i] = IF i <= Len(g) THEN g[i] ELSE queue[i - Len(g)]
      BY <1>1, <1>2, ConcatProperties
    <3> QED
      BY <1>2, <2>1, <3>1
  <2>4. /\ \A i \in 1..n : i \in 1..n + Len(queue) /\ i <= n
        /\ \A i \in 1..Len(queue) : /\ n + i \in 1..n + Len(queue)
                                   /\ ~(n + i <= n) /\ n + i - n = i
    BY <1>1, <1>2
  <2>5. \A i \in 1..n : infos'[i] = infos[f[i]]
    <3> TAKE i \in 1..n
    <3>1. infos'[i] = g[i]
      BY <2>3, <2>4
    <3> QED
      BY <2>2, <3>1
  <2>6. \A i \in 1..Len(queue) : infos'[n + i] = queue[i]
    <3> TAKE i \in 1..Len(queue)
    <3>1. n + i \in 1..n + Len(queue) /\ ~(n + i <= n) /\ n + i - n = i
      BY <2>4
    <3>2. infos'[n + i] = queue[n + i - n]
      BY <2>3, <3>1
    <3> QED
      BY <3>1, <3>2
  <2> QED
    BY <2>3, <2>5, <2>6
<1>4. queue' = <<>> /\ mem' \in [Daemons -> {"unused", "live", "freed"}]
  BY DEF Update, TypeOK
<1>5. \A d \in Daemons : mem[d] # "unused" => mem'[d] # "unused"
  BY DEF Update
<1>6. \A d \in Daemons : ~Expired(d) => mem'[d] = mem[d]
  BY DEF Update
<1>7. ListedOnce'
  <2>1. ASSUME NEW i \in 1..n, NEW j \in 1..n, infos[f[i]] = infos[f[j]]
        PROVE  i = j
    <3>1. f[i] \in 1..Len(infos) /\ f[j] \in 1..Len(infos)
      OBVIOUS
    <3>2. f[i] = f[j]
      BY <2>1, <3>1 DEF ListedOnce
    <3>3. i \in Int /\ j \in Int /\ f[i] \in Int /\ f[j] \in Int
      BY <1>1, <1>2, <3>1
    <3>4. (i < j => f[i] < f[j]) /\ (j < i => f[j] < f[i])
      BY DEF Compact
    <3> QED
      BY <3>2, <3>3, <3>4
  <2>2. ASSUME NEW i \in 1..Len(infos'), NEW j \in 1..Len(infos'),
               infos'[i] = infos'[j], i <= j
        PROVE  i = j
    <3> i \in Int /\ j \in Int /\ Len(queue) \in Nat
      BY <1>1, <1>2, <1>3
    <3>1. CASE j <= n
      BY <1>1, <1>2, <1>3, <2>1, <2>2, <3>1
    <3>2. CASE i > n
      <4>1. /\ i - n \in 1..Len(queue) /\ j - n \in 1..Len(queue)
            /\ n + (i - n) = i /\ n + (j - n) = j
        BY <1>2, <1>3, <2>2, <3>2
      <4>2. queue[i - n] = queue[j - n]
        BY <1>3, <2>2, <4>1
      <4> QED
        BY <1>2, <4>1, <4>2 DEF ListedOnce
    <3>3. CASE i <= n /\ j > n
      <4>1. /\ i \in 1..n /\ j - n \in 1..Len(queue) /\ n + (j - n) = j
        BY <1>2, <1>3, <2>2, <3>3
      <4>2. infos[f[i]] = queue[j - n] /\ f[i] \in 1..Len(infos)
        BY <1>3, <2>2, <4>1
      <4> QED
        BY <4>1, <4>2 DEF ListedOnce
    <3> QED
      BY <1>2, <3>1, <3>2, <3>3
  <2>3. ASSUME NEW d \in Daemons
        PROVE  mem'[d] = "live" <=> \E i \in 1..Len(infos') : infos'[i] = d
    <3>1. ASSUME mem'[d] = "live" PROVE \E i \in 1..Len(infos') : infos'[i] = d
      <4>1. mem[d] = "live"
        BY <3>1 DEF Update
      <4>2. CASE \E i \in 1..Len(infos) : infos[i] = d
        <5> PICK i \in 1..Len(infos) : infos[i] = d
          BY <4>2
        <5>1. ~Expired(d)
          BY <3>1 DEF Update
        <5>2. PICK j \in 1..n : f[j] = i
          BY <5>1 DEF Compact
        <5> QED
          BY <1>1, <1>2, <1>3, <5>2
      <4>3. CASE \E i \in 1..Len(queue) : queue[i] = d
        <5> PICK i \in 1..Len(queue) : queue[i] = d
          BY <4>3
        <5>1. n + i \in 1..Len(infos')
          BY <1>1, <1>2, <1>3
        <5> QED
          BY <1>3, <5>1
      <4> QED
        BY <4>1, <4>2, <4>3 DEF ListedOnce
    <3>2. ASSUME NEW i \in 1..Len(infos'), infos'[i] = d PROVE mem'[d] = "live"
      <4>1. CASE i <= n
        <5>1. i \in 1..n /\ f[i] \in 1..Len(infos) /\ infos[f[i]] = d
          BY <1>2, <1>3, <3>2, <4>1
        <5>2. ~Expired(d) /\ mem[d] = "live"
          BY <5>1 DEF Compact, ListedOnce
        <5> QED
          BY <1>6, <5>2
      <4>2. CASE i > n
        <5>1. i - n \in 1..Len(queue) /\ n + (i - n) = i
          BY <1>1, <1>2, <1>3, <4>2
        <5>2. queue[i - n] = d
          BY <1>3, <3>2, <5>1
        <5>3. mem[d] = "live" /\ ~\E k \in 1..Len(infos) : infos[k] = d
          BY <5>1, <5>2 DEF ListedOnce
        <5> QED
          BY <5>3 DEF Update
      <4> QED
        BY <1>2, <1>3, <4>1, <4>2
    <3> QED
      BY <3>1, <3>2
  <2>4. Len(queue') = 0
    BY <1>4
  <2>5. \A i, j \in 1..Len(infos') : infos'[i] = infos'[j] => i = j
    <3> SUFFICES ASSUME NEW i \in 1..Len(infos'), NEW j \in 1..Len(infos'),
                        infos'[i] = infos'[j]
                 PROVE  i = j
      OBVIOUS
    <3>1. i <= j \/ j <= i
      BY <1>1, <1>2, <1>3
    <3> QED
      BY <2>2, <3>1
  <2> QED
    BY <2>3, <2>4, <2>5 DEF ListedOnce
<1> QED
  BY <1>3, <1>4, <1>5, <1>6, <1>7

\* launch_daemon queues a daemon that stood nowhere, or changes nothing.
LEMMA LaunchKeeps ==
  ASSUME TypeOK, ListedOnce, NEW n, NEW a \in {"init", "external"},
         Launch(n, a), infos' = infos
  PROVE  /\ queue' \in Seq(Daemons)
         /\ mem' \in [Daemons -> {"unused", "live", "freed"}]
         /\ agent' \in [Daemons -> {"off", "init", "up", "external", "ended"}]
         /\ \A d \in Daemons : mem[d] # "unused" => mem'[d] = mem[d]
         /\ ListedOnce'
<1>1. infos \in Seq(Daemons) /\ queue \in Seq(Daemons)
  BY DEF TypeOK
<1>2. CASE UNCHANGED <<mem, queue, agent>>
  BY <1>2 DEF TypeOK, ListedOnce
<1>3. ASSUME NEW d \in Daemons, mem[d] = "unused",
             mem' = [mem EXCEPT ![d] = "live"], queue' = Append(queue, d),
             agent' = [agent EXCEPT ![d] = a]
      PROVE  /\ queue' \in Seq(Daemons)
             /\ mem' \in [Daemons -> {"unused", "live", "freed"}]
             /\ agent' \in [Daemons -> {"off", "init", "up", "external", "ended"}]
             /\ \A e \in Daemons : mem[e] # "unused" => mem'[e] = mem[e]
             /\ ListedOnce'
  <2>1. /\ Len(queue) \in Nat /\ Len(queue') = Len(queue) + 1
        /\ queue'[Len(queue) + 1] = d
        /\ \A i \in 1..Len(queue) : queue'[i] = queue[i]
    BY <1>1, <1>3
  <2>2. /\ \A i \in 1..Len(infos) : infos[i] # d
        /\ \A i \in 1..Len(queue) : queue[i] # d
    BY <1>3 DEF ListedOnce
  <2>3. \A i \in 1..Len(queue') : i = Len(queue) + 1 \/ i \in 1..Len(queue)
    BY <2>1
  <2>4. \A e \in Daemons : mem'[e] = IF e = d THEN "live" ELSE mem[e]
    BY <1>3 DEF TypeOK
  <2>5. \A i, j \in 1..Len(queue') : queue'[i] = queue'[j] => i = j
    BY <2>1, <2>2, <2>3 DEF ListedOnce
  <2>6. \A i \in 1..Len(infos) : \A j \in 1..Len(queue') : infos[i] # queue'[j]
    BY <2>1, <2>2, <2>3 DEF ListedOnce
  <2>7. ASSUME NEW e \in Daemons
        PROVE  (\E i \in 1..Len(queue') : queue'[i] = e)
                 <=> e = d \/ \E i \in 1..Len(queue) : queue[i] = e
    <3>1. \A i \in 1..Len(queue) : i \in 1..Len(queue')
      BY <2>1
    <3>2. Len(queue) + 1 \in 1..Len(queue')
      BY <2>1
    <3> QED
      BY <2>1, <2>3, <3>1, <3>2
  <2>8. ListedOnce'
    BY <2>4, <2>5, <2>6, <2>7 DEF ListedOnce
  <2> QED
    BY <1>1, <1>3, <2>4, <2>8 DEF TypeOK
<1> QED
  BY <1>2, <1>3 DEF Launch

\* A thread that lets its daemon go (to a label where it holds none) keeps the
\* rest of the invariant, if the step frees nothing that was searched lately.
LEMMA LetGo ==
  ASSUME TypeOK, ReadAllocated, Held, NEW t \in Threads,
         NEW l \in {"idle", "find", "missing", "external", "recv"},
         pc' = [pc EXCEPT ![t] = l], age' = age,
         idx' \in [Threads -> Nat \ {0}],
         ptr' \in [Threads -> Daemons \cup {NoDaemon}],
         goal' \in [Threads -> Daemons \cup Names \cup {NoDaemon}],
         hold' \in [Threads -> 0..MaxHold],
         \A u \in Threads : u # t => ptr'[u] = ptr[u] /\ hold'[u] = hold[u],
         infos' \in Seq(Daemons), queue' \in Seq(Daemons),
         mem' \in [Daemons -> {"unused", "live", "freed"}],
         stage' \in [Daemons -> {"new", "ready", "methods"}],
         agent' \in [Daemons -> {"off", "init", "up", "external", "ended"}],
         fault' \in {"none", "search", "use"},
         \A d \in Daemons : mem[d] # "unused" => mem'[d] # "unused",
         \A d \in Daemons : mem[d] = "live" /\ age[d] <= MaxHold => mem'[d] = "live"
  PROVE  TypeOK' /\ ReadAllocated' /\ Held'
<1> USE DaemonsAssumption
<1>2. \A u \in Threads : u # t => /\ pc'[u] = pc[u] /\ ptr'[u] = ptr[u]
                                 /\ hold'[u] = hold[u]
  BY DEF TypeOK
<1>3. pc'[t] = l
  BY DEF TypeOK
<1>1. TypeOK'
  <2>1. \A u \in Threads : (Holding(u) \/ pc[u] = "compare")' => ptr'[u] \in Daemons
    BY <1>2, <1>3 DEF TypeOK
  <2>2. pc' \in [Threads -> {"idle", "find", "compare", "missing", "call", "recv",
                            "process", "enroll", "external", "busy"}]
    BY DEF TypeOK
  <2>3. age' \in [Daemons -> 0..Margin + 1]
    BY DEF TypeOK
  <2> QED
    BY <2>1, <2>2, <2>3 DEF TypeOK
<1>4. ReadAllocated'
  <2>1. \A u \in Threads : pc[u] = "compare" => ptr[u] \in Daemons /\ mem[ptr[u]] # "unused"
    BY DEF TypeOK, ReadAllocated
  <2> QED
    BY <1>2, <1>3, <2>1 DEF ReadAllocated
<1>5. ASSUME NEW u \in Threads, u # t, Holding(u)
      PROVE  mem'[ptr[u]] = "live" /\ age[ptr[u]] <= hold[u]
  <2>1. ptr[u] \in Daemons
    BY <1>5 DEF TypeOK
  <2>2. mem[ptr[u]] = "live" /\ age[ptr[u]] <= hold[u]
    BY <1>5 DEF Held
  <2>3. age[ptr[u]] \in 0..Margin + 1 /\ hold[u] \in 0..MaxHold
    BY <2>1 DEF TypeOK
  <2>4. age[ptr[u]] <= MaxHold
    BY ONLY <2>2, <2>3, DaemonsAssumption
  <2> QED
    BY <2>1, <2>2, <2>4
<1>6. Held'
  <2>1. SUFFICES ASSUME NEW u \in Threads, Holding(u)'
                 PROVE  (mem[ptr[u]] = "live" /\ age[ptr[u]] <= hold[u])'
    BY DEF Held
  <2>2. u # t
    BY <1>3, <2>1
  <2>3. Holding(u) /\ ptr'[u] = ptr[u] /\ hold'[u] = hold[u]
    BY <1>2, <2>1, <2>2
  <2> QED
    BY <1>5, <2>2, <2>3
<1> QED
  BY <1>1, <1>4, <1>6

\* LetGo, for a thread whose locals start anew (Leave and StartFind).
LEMMA StartAnew ==
  ASSUME TypeOK, ReadAllocated, Held, NEW t \in Threads,
         NEW l \in {"idle", "find", "missing", "external", "recv"},
         NEW g \in Daemons \cup Names \cup {NoDaemon},
         pc' = [pc EXCEPT ![t] = l], idx' = [idx EXCEPT ![t] = 1],
         ptr' = [ptr EXCEPT ![t] = NoDaemon], goal' = [goal EXCEPT ![t] = g],
         hold' = [hold EXCEPT ![t] = 0], age' = age,
         infos' \in Seq(Daemons), queue' \in Seq(Daemons),
         mem' \in [Daemons -> {"unused", "live", "freed"}],
         stage' \in [Daemons -> {"new", "ready", "methods"}],
         agent' \in [Daemons -> {"off", "init", "up", "external", "ended"}],
         fault' \in {"none", "search", "use"},
         \A d \in Daemons : mem[d] # "unused" => mem'[d] # "unused",
         \A d \in Daemons : mem[d] = "live" /\ age[d] <= MaxHold => mem'[d] = "live"
  PROVE  TypeOK' /\ ReadAllocated' /\ Held'
<1>1. /\ idx' \in [Threads -> Nat \ {0}]
      /\ ptr' \in [Threads -> Daemons \cup {NoDaemon}]
      /\ goal' \in [Threads -> Daemons \cup Names \cup {NoDaemon}]
      /\ hold' \in [Threads -> 0..MaxHold]
      /\ \A u \in Threads : u # t => ptr'[u] = ptr[u] /\ hold'[u] = hold[u]
  BY DaemonsAssumption DEF TypeOK
<1> HIDE DEF Holding
<1> QED
  BY <1>1, LetGo

\* LetGo, for a thread whose locals stay.
LEMMA MoveOn ==
  ASSUME TypeOK, ReadAllocated, Held, NEW t \in Threads,
         NEW l \in {"idle", "find", "missing", "external", "recv"},
         pc' = [pc EXCEPT ![t] = l], UNCHANGED <<idx, ptr, goal, hold, age>>,
         infos' \in Seq(Daemons), queue' \in Seq(Daemons),
         mem' \in [Daemons -> {"unused", "live", "freed"}],
         stage' \in [Daemons -> {"new", "ready", "methods"}],
         agent' \in [Daemons -> {"off", "init", "up", "external", "ended"}],
         fault' \in {"none", "search", "use"},
         \A d \in Daemons : mem[d] # "unused" => mem'[d] # "unused",
         \A d \in Daemons : mem[d] = "live" /\ age[d] <= MaxHold => mem'[d] = "live"
  PROVE  TypeOK' /\ ReadAllocated' /\ Held'
<1>1. /\ idx' \in [Threads -> Nat \ {0}]
      /\ ptr' \in [Threads -> Daemons \cup {NoDaemon}]
      /\ goal' \in [Threads -> Daemons \cup Names \cup {NoDaemon}]
      /\ hold' \in [Threads -> 0..MaxHold] /\ age' = age
      /\ \A u \in Threads : u # t => ptr'[u] = ptr[u] /\ hold'[u] = hold[u]
  BY DEF TypeOK
<1> HIDE DEF Holding
<1> QED
  BY <1>1, LetGo

\* The steps of a thread that leave the list, the queue and the memory alone
\* keep the invariant.
LEMMA SearchInv ==
  ASSUME Inv, fault = "none", NEW t \in Threads,
         Load(t) \/ Compare(t)
  PROVE  Inv'
<1> USE DaemonsAssumption
<1>1. TypeOK /\ ListedOnce /\ ReadAllocated /\ Held
  BY DEF Inv
<1>2. ListedOnce'
  BY <1>1, ListKept DEF Load, Compare
<1>3. CASE Load(t)
  <2>1. CASE idx[t] <= Len(infos)
    <3>1. /\ idx[t] \in 1..Len(infos) /\ infos[idx[t]] \in Daemons
      BY <1>1, <2>1 DEF TypeOK
    <3>2. mem[infos[idx[t]]] = "live"
      BY <1>1, <3>1 DEF ListedOnce
    <3>3. /\ ptr' = [ptr EXCEPT ![t] = infos[idx[t]]]
          /\ pc' = [pc EXCEPT ![t] = "compare"]
          /\ UNCHANGED <<list, stage, age, process, fault, idx, goal, kind, hold>>
      BY <1>1, <1>3, <2>1 DEF Load, TypeOK
    <3>4. TypeOK'
      BY <1>1, <3>1, <3>3 DEF TypeOK
    <3>5. ReadAllocated' /\ Held'
      BY <1>1, <3>1, <3>2, <3>3 DEF TypeOK, ReadAllocated, Held
    <3> QED
      BY <1>2, <3>3, <3>4, <3>5 DEF Inv
  <2>2. CASE idx[t] > Len(infos)
    <3> PICK l \in {"missing", "external", "recv"} : pc' = [pc EXCEPT ![t] = l]
      BY <1>3, <2>2, <1>1 DEF Load, TypeOK
    <3>1. UNCHANGED <<list, stage, age, process, fault>>
      BY <1>3 DEF Load
    <3>2. CASE UNCHANGED search
      <4>1. TypeOK' /\ ReadAllocated' /\ Held'
        BY <1>1, <3>1, <3>2, MoveOn DEF TypeOK
      <4> QED
        BY <1>2, <3>1, <4>1 DEF Inv
    <3>3. CASE Leave(t, "recv")
      <4>1. TypeOK' /\ ReadAllocated' /\ Held'
        BY <1>1, <3>1, <3>3, StartAnew DEF TypeOK
      <4> QED
        BY <1>2, <3>1, <4>1 DEF Inv
    <3> QED
      BY <1>1, <1>3, <2>2, <3>2, <3>3 DEF Load, TypeOK
  <2> QED
    BY <1>1, <2>1, <2>2 DEF TypeOK
<1>4. CASE Compare(t)
  <2>1. pc[t] = "compare" /\ ptr[t] \in Daemons /\ mem[ptr[t]] # "unused"
    BY <1>1, <1>4 DEF Compare, TypeOK, ReadAllocated
  <2>2. fault' \in {"none", "search"} /\ (fault' = "none" => mem[ptr[t]] = "live")
    BY <1>1, <1>4, <2>1 DEF Compare, TypeOK
  <2>3. CASE Matches(ptr[t], goal[t])
    <3>1. /\ age' = [age EXCEPT ![ptr[t]] = 0]
          /\ \E l \in {"call", "enroll", "process"} : pc' = [pc EXCEPT ![t] = l]
          /\ UNCHANGED <<list, stage, process, idx, ptr, goal, kind, hold>>
      BY <1>4, <2>3 DEF Compare
    <3>2. TypeOK'
      BY <1>1, <2>1, <2>2, <3>1 DEF TypeOK
    <3>3. ReadAllocated'
      BY <1>1, <3>1 DEF TypeOK, ReadAllocated
    <3>4. fault' = "none" => Held'
      BY <1>1, <2>1, <2>2, <3>1 DEF TypeOK, Held
    <3> QED
      BY <1>2, <2>2, <3>2, <3>3, <3>4 DEF Inv
  <2>4. CASE ~Matches(ptr[t], goal[t])
    <3>1. /\ idx' = [idx EXCEPT ![t] = @ + 1]
          /\ ptr' = [ptr EXCEPT ![t] = NoDaemon]
          /\ pc' = [pc EXCEPT ![t] = "find"]
          /\ UNCHANGED <<list, stage, age, process, goal, kind, hold>>
      BY <1>4, <2>4 DEF Compare
    <3>2. TypeOK'
      BY <1>1, <2>2, <3>1 DEF TypeOK
    <3>3. ReadAllocated' /\ Held'
      BY <1>1, <3>1 DEF TypeOK, ReadAllocated, Held
    <3> QED
      BY <1>2, <2>2, <3>2, <3>3 DEF Inv
  <2> QED
    BY <2>3, <2>4
<1> QED
  BY <1>3, <1>4

\* A thread finds what it holds live, so that no use of it is a fault.
LEMMA UseIsSafe ==
  ASSUME Inv, fault = "none", NEW t \in Threads, Holding(t)
  PROVE  ptr[t] \in Daemons /\ mem[ptr[t]] = "live" /\ (Use(ptr[t]) => fault' = "none")
BY DEF Inv, TypeOK, Held

\* update_Daemoninfos frees nothing that was searched within MaxHold.
LEMMA UpdateSpares ==
  ASSUME TypeOK, ListedOnce, NEW t \in Threads, NEW s, Update(t, s)
  PROVE  \A d \in Daemons : mem[d] = "live" /\ age[d] <= MaxHold => mem'[d] = "live"
<1>1. \A d \in Daemons : age[d] <= MaxHold => ~Expired(d)
  BY DaemonsAssumption DEF TypeOK, Expired
<1> QED
  BY <1>1, UpdateKeeps

\* plugin_method keeps the invariant.
LEMMA CallerInv ==
  ASSUME Inv, fault = "none", NEW t \in Threads,
         Call(t) \/ Autoload(t) \/ Invoke(t)
  PROVE  Inv'
<1>1. TypeOK /\ ListedOnce /\ ReadAllocated /\ Held
  BY DEF Inv
<1>2. CASE Call(t)
  <2> PICK n \in Names : StartFind(t, "call", n)
    BY <1>2 DEF Call
  <2>1. UNCHANGED <<list, stage, age, process, fault>>
    BY <1>2 DEF Call
  <2>2. TypeOK' /\ ReadAllocated' /\ Held'
    BY <1>1, <2>1, StartAnew DEF TypeOK
  <2>3. ListedOnce'
    BY <1>1, <2>1, ListKept
  <2> QED
    BY <2>1, <2>2, <2>3 DEF Inv
<1>3. CASE Autoload(t)
  <2>1. /\ Launch(goal[t], "init") /\ Leave(t, "idle")
        /\ UNCHANGED <<infos, stage, age, fault>>
    BY <1>3 DEF Autoload
  <2>2. /\ queue' \in Seq(Daemons)
        /\ mem' \in [Daemons -> {"unused", "live", "freed"}]
        /\ agent' \in [Daemons -> {"off", "init", "up", "external", "ended"}]
        /\ \A d \in Daemons : mem[d] # "unused" => mem'[d] = mem[d]
        /\ ListedOnce'
    BY <1>1, <2>1, LaunchKeeps
  <2>3. TypeOK' /\ ReadAllocated' /\ Held'
    BY <1>1, <2>1, <2>2, StartAnew DEF TypeOK
  <2> QED
    BY <2>1, <2>2, <2>3 DEF Inv
<1>4. CASE Invoke(t)
  <2>1. /\ Leave(t, "idle") /\ UNCHANGED <<list, stage, age, process>>
        /\ Holding(t) /\ Use(ptr[t])
    BY <1>4 DEF Invoke
  <2>2. fault' = "none"
    BY <2>1, UseIsSafe
  <2>3. TypeOK' /\ ReadAllocated' /\ Held'
    BY <1>1, <2>1, <2>2, StartAnew DEF TypeOK
  <2>4. ListedOnce'
    BY <1>1, <2>1, ListKept
  <2> QED
    BY <2>2, <2>3, <2>4 DEF Inv
<1> QED
  BY <1>2, <1>3, <1>4

\* poll_daemons, and the registrations it handles, keep the invariant.
LEMMA PollInv ==
  ASSUME Inv, fault = "none", NEW t \in Threads,
         Poll(t) \/ Recv(t) \/ PollEnd(t) \/ Register(t) \/ Enroll(t) \/ External(t)
  PROVE  Inv'
<1>1. TypeOK /\ ListedOnce /\ ReadAllocated /\ Held
  BY DEF Inv
<1>2. CASE Poll(t)
  <2>1. /\ Update(t, "none") /\ pc' = [pc EXCEPT ![t] = "recv"]
        /\ UNCHANGED <<stage, age, process, search, fault>>
    BY <1>2 DEF Poll
  <2>2. /\ infos' \in Seq(Daemons) /\ queue' \in Seq(Daemons)
        /\ mem' \in [Daemons -> {"unused", "live", "freed"}]
        /\ \A d \in Daemons : mem[d] # "unused" => mem'[d] # "unused"
        /\ ListedOnce'
    BY <1>1, <2>1, UpdateKeeps
  <2>3. \A d \in Daemons : mem[d] = "live" /\ age[d] <= MaxHold => mem'[d] = "live"
    BY <1>1, <2>1, UpdateSpares
  <2>4. TypeOK' /\ ReadAllocated' /\ Held'
    BY <1>1, <2>1, <2>2, <2>3, MoveOn DEF TypeOK
  <2> QED
    BY <2>1, <2>2, <2>4 DEF Inv
<1>3. CASE Recv(t)
  <2> PICK d \in Daemons : StartFind(t, Head(msgs[d]), d)
    BY <1>3 DEF Recv
  <2>1. UNCHANGED <<list, stage, age, agent, fault>>
    BY <1>3 DEF Recv
  <2>2. TypeOK' /\ ReadAllocated' /\ Held'
    BY <1>1, <2>1, StartAnew DEF TypeOK
  <2>3. ListedOnce'
    BY <1>1, <2>1, ListKept
  <2> QED
    BY <2>1, <2>2, <2>3 DEF Inv
<1>4. CASE PollEnd(t)
  <2>1. /\ pc' = [pc EXCEPT ![t] = "idle"]
        /\ UNCHANGED <<list, stage, age, process, search, fault>>
    BY <1>4 DEF PollEnd
  <2>2. TypeOK' /\ ReadAllocated' /\ Held'
    BY <1>1, <2>1, MoveOn DEF TypeOK
  <2>3. ListedOnce'
    BY <1>1, <2>1, ListKept
  <2> QED
    BY <2>1, <2>2, <2>3 DEF Inv
<1>5. CASE Register(t)
  <2>1. Holding(t) /\ Use(ptr[t])
    BY <1>5 DEF Register
  <2>2. fault' = "none" /\ ptr[t] \in Daemons
    BY <2>1, UseIsSafe
  <2> DEFINE n == Name[ptr[t]]
  <2>3. n \in Names
    BY <2>2 DEF Names
  <2>4. /\ \E s : Update(t, s)
        /\ StartFind(t, "enroll", n)
        /\ stage' = [stage EXCEPT ![ptr[t]] = Readied(ptr[t])]
        /\ UNCHANGED <<age, process>>
    BY <1>5 DEF Register
  <2> PICK s : Update(t, s)
    BY <2>4
  <2>5. stage' \in [Daemons -> {"new", "ready", "methods"}]
    BY <1>1, <2>2, <2>4 DEF TypeOK, Readied
  <2>6. /\ infos' \in Seq(Daemons) /\ queue' \in Seq(Daemons)
        /\ mem' \in [Daemons -> {"unused", "live", "freed"}]
        /\ \A d \in Daemons : mem[d] # "unused" => mem'[d] # "unused"
        /\ ListedOnce'
    BY <1>1, UpdateKeeps
  <2>7. \A d \in Daemons : mem[d] = "live" /\ age[d] <= MaxHold => mem'[d] = "live"
    BY <1>1, UpdateSpares
  <2> HIDE DEF n
  <2>8. TypeOK' /\ ReadAllocated' /\ Held'
    BY <1>1, <2>2, <2>3, <2>4, <2>5, <2>6, <2>7, StartAnew DEF TypeOK
  <2> QED
    BY <2>2, <2>6, <2>8 DEF Inv
<1>6. CASE Enroll(t)
  <2>1. /\ Leave(t, "recv") /\ UNCHANGED <<list, age, process>>
        /\ stage' = [stage EXCEPT ![ptr[t]] = "methods"]
        /\ Holding(t) /\ Use(ptr[t])
    BY <1>6 DEF Enroll
  <2>2. fault' = "none" /\ ptr[t] \in Daemons
    BY <2>1, UseIsSafe
  <2>3. TypeOK' /\ ReadAllocated' /\ Held'
    BY <1>1, <2>1, <2>2, StartAnew DEF TypeOK
  <2>4. ListedOnce'
    BY <1>1, <2>1, ListKept
  <2> QED
    BY <2>2, <2>3, <2>4 DEF Inv
<1>7. CASE External(t)
  <2>1. /\ Launch(goal[t], "external") /\ StartFind(t, "again", goal[t])
        /\ UNCHANGED <<infos, stage, age, fault>>
    BY <1>7 DEF External
  <2>2. /\ queue' \in Seq(Daemons)
        /\ mem' \in [Daemons -> {"unused", "live", "freed"}]
        /\ agent' \in [Daemons -> {"off", "init", "up", "external", "ended"}]
        /\ \A d \in Daemons : mem[d] # "unused" => mem'[d] = mem[d]
        /\ ListedOnce'
    BY <1>1, <2>1, LaunchKeeps
  <2>3. goal[t] \in Daemons \cup Names \cup {NoDaemon}
    BY <1>1 DEF TypeOK
  <2>4. TypeOK' /\ ReadAllocated' /\ Held'
    BY <1>1, <2>1, <2>2, <2>3, StartAnew DEF TypeOK
  <2> QED
    BY <2>1, <2>2, <2>4 DEF Inv
<1> QED
  BY <1>2, <1>3, <1>4, <1>5, <1>6, <1>7

\* The requests of agents that poll_daemons runs keep the invariant.
LEMMA RequestInv ==
  ASSUME Inv, fault = "none", NEW t \in Threads,
         BeginRequest(t) \/ EndRequest(t)
  PROVE  Inv'
<1>1. TypeOK /\ ListedOnce /\ ReadAllocated /\ Held
  BY DEF Inv
<1>2. ListedOnce'
  BY <1>1, ListKept DEF BeginRequest, EndRequest
<1>3. fault' = "none" /\ ptr[t] \in Daemons /\ Holding(t)
  BY UseIsSafe DEF BeginRequest, EndRequest
<1>4. CASE BeginRequest(t)
  <2>1. /\ pc' = [pc EXCEPT ![t] = "busy"]
        /\ stage' = [stage EXCEPT ![ptr[t]] = Readied(ptr[t])]
        /\ UNCHANGED <<list, age, process, search>>
    BY <1>4 DEF BeginRequest
  <2>2. TypeOK'
    BY <1>1, <1>3, <2>1 DEF TypeOK, Readied
  <2>3. ReadAllocated' /\ Held'
    BY <1>1, <1>3, <2>1 DEF TypeOK, ReadAllocated, Held
  <2> QED
    BY <1>2, <1>3, <2>2, <2>3 DEF Inv
<1>5. CASE EndRequest(t)
  <2>1. Leave(t, "recv") /\ UNCHANGED <<list, stage, age, process>>
    BY <1>5 DEF EndRequest
  <2>2. TypeOK' /\ ReadAllocated' /\ Held'
    BY <1>1, <1>3, <2>1, StartAnew DEF TypeOK
  <2> QED
    BY <1>2, <1>3, <2>2 DEF Inv
<1> QED
  BY <1>4, <1>5

\* Agents come, send and go without touching the list.
LEMMA AgentInv ==
  ASSUME Inv, NEW d \in Daemons,
         AgentRegisters(d) \/ AgentRequests(d) \/ AgentEnds(d)
  PROVE  Inv'
<1>1. agent' \in [Daemons -> {"off", "init", "up", "external", "ended"}]
  <2>1. agent \in [Daemons -> {"off", "init", "up", "external", "ended"}]
    BY DEF Inv, TypeOK
  <2>2. CASE AgentRegisters(d)
    BY <2>1, <2>2 DEF AgentRegisters
  <2>3. CASE AgentRequests(d)
    BY <2>1, <2>3 DEF AgentRequests
  <2>4. CASE AgentEnds(d)
    BY <2>1, <2>4 DEF AgentEnds
  <2> QED
    BY <2>2, <2>3, <2>4
<1>2. UNCHANGED <<list, stage, age, pc, search, fault>>
  BY DEF AgentRegisters, AgentRequests, AgentEnds
<1>3. TypeOK'
  BY <1>1, <1>2 DEF Inv, TypeOK
<1>4. ListedOnce' /\ ReadAllocated'
  BY <1>2, ListKept, ReadKept DEF Inv
<1>5. fault' = "none" => Held'
  BY <1>2 DEF Inv, Held
<1> QED
  BY <1>2, <1>3, <1>4, <1>5 DEF Inv

\* Time passes for the last search of a daemon and for its holders alike, and
\* no holder exceeds MaxHold.
LEMMA TickInv == ASSUME Inv, Tick PROVE Inv'
<1> USE DaemonsAssumption
<1>1. UNCHANGED <<list, stage, process, pc, idx, ptr, goal, kind, fault>>
  BY DEF Tick
<1>2. TypeOK'
  <2>1. age' \in [Daemons -> 0..Margin + 1]
    BY DEF Inv, TypeOK, Tick
  <2>2. hold' \in [Threads -> 0..MaxHold]
    BY DEF Inv, TypeOK, Tick
  <2> QED
    BY <1>1, <2>1, <2>2 DEF Inv, TypeOK
<1>3. ListedOnce' /\ ReadAllocated'
  BY <1>1, ListKept, ReadKept DEF Inv
<1>4. ASSUME Held, NEW t \in Threads, Holding(t)
      PROVE  mem[ptr[t]] = "live" /\ age'[ptr[t]] <= hold'[t]
  <2>1. /\ ptr[t] \in Daemons /\ mem[ptr[t]] = "live" /\ age[ptr[t]] <= hold[t]
        /\ age[ptr[t]] \in Int /\ hold[t] \in Int
    BY <1>4 DEF Inv, TypeOK, Held
  <2>2. /\ hold'[t] = hold[t] + 1
        /\ age'[ptr[t]] = age[ptr[t]] \/ age'[ptr[t]] = age[ptr[t]] + 1
    BY <1>4, <2>1 DEF Tick
  <2> QED
    BY <2>1, <2>2
<1>5. Held => Held'
  BY <1>1, <1>4 DEF Held
<1> QED
  BY <1>1, <1>2, <1>3, <1>5 DEF Inv

\* The invariant holds in every state of every execution.
THEOREM RegistrySafe == Spec => []Inv
<1>1. Inv /\ [Next]_vars => Inv'
  <2> SUFFICES ASSUME Inv, [Next]_vars PROVE Inv'
    OBVIOUS
  <2>1. CASE Next
    <3>1. fault = "none"
      BY <2>1 DEF Next
    <3>2. ASSUME NEW t \in Callers, Call(t) PROVE Inv'
      BY <3>1, <3>2, CallerInv, DaemonsAssumption
    <3>3. ASSUME NEW t \in Threads, ThreadStep(t) PROVE Inv'
      BY <3>1, <3>3, SearchInv, CallerInv, PollInv, RequestInv DEF ThreadStep
    <3>4. ASSUME NEW d \in Daemons,
                 AgentRegisters(d) \/ AgentRequests(d) \/ AgentEnds(d)
          PROVE  Inv'
      BY <3>4, AgentInv
    <3>5. CASE Tick
      BY <3>5, TickInv
    <3> QED
      BY <2>1, <3>2, <3>3, <3>4, <3>5 DEF Next
  <2>2. CASE UNCHANGED vars
    <3>1. TypeOK'
      BY <2>2 DEF vars, Inv, TypeOK
    <3>2. ListedOnce' /\ ReadAllocated'
      BY <2>2, ListKept, ReadKept DEF vars, Inv
    <3>3. fault' = "none" => Held'
      BY <2>2 DEF vars, Inv, Held
    <3> QED
      BY <2>2, <3>1, <3>2, <3>3 DEF vars, Inv
  <2> QED
    BY <2>1, <2>2
<1> QED
  BY InitInv, <1>1, PTL DEF Spec

\* Every variable of the registry keeps its type.
THEOREM RegistryTypes == Spec => []TypeOK
<1>1. Inv => TypeOK
  BY DEF Inv
<1> QED
  BY RegistrySafe, <1>1, PTL

\* find_daemoninfo's result is not freed by update_Daemoninfos while it is
\* used, for any number of threads and daemons, as long as no use exceeds the
\* margin.
THEOREM UseSafe == Spec => []NoUseAfterFree
<1>1. Inv => NoUseAfterFree
  BY DEF Inv, NoUseAfterFree, Held
<1> QED
  BY RegistrySafe, <1>1, PTL

\* A daemon is on the list or the queue exactly once while it is live, so that
\* update_Daemoninfos frees each at most once.
THEOREM NeverFreedTwice == Spec => []ListedOnce
<1>1. Inv => ListedOnce
  BY DEF Inv
<1> QED
  BY RegistrySafe, <1>1, PTL

-----------------------------------------------------------------------------
(* What a search of find_daemoninfo has passed and has still to pass. *)

\* As long as no other thread compacted the list under t's search, the search
\* stands at its own row, and an agent that was listed when it began is still
\* ahead of it.
Sound(t) ==
  /\ seen[t] # "moved" =>
       /\ pc[t] = "compare" => idx[t] \in 1..Len(infos) /\ ptr[t] = infos[idx[t]]
       /\ Searching(t) /\ seen[t] = "listed" =>
            \E i \in idx[t]..Len(infos) : Matches(infos[i], goal[t])
  /\ pc[t] \in {"missing", "external"} => seen[t] # "listed"

\* So do all the searches, and a fault in one of them has that reason.
SearchSound ==
  /\ seen \in [Threads -> {"none", "listed", "moved"}]
  /\ \A t \in Threads : Sound(t)
  /\ FaultyOnlyWhenMoved

\* An injection between intervals does not go from a longer to a shorter one.
LEMMA Pigeons ==
  ASSUME NEW a \in Nat, NEW b \in Nat, NEW c \in Nat, NEW d \in Nat, a <= b,
         NEW f \in [a..b -> c..d], \A i, j \in a..b : f[i] = f[j] => i = j
  PROVE  b - a <= d - c
<1> SUFFICES ASSUME d - c < b - a PROVE FALSE
  OBVIOUS
<1> DEFINE S == a..b  T == c..d
<1>1. IsFiniteSet(S) /\ Cardinality(S) = b - a + 1
  BY FS_Interval, a \in Int, b \in Int, ~(a > b)
<1>2. f[a] \in T /\ c <= d
  OBVIOUS
<1>3. IsFiniteSet(T) /\ Cardinality(T) = d - c + 1
  BY <1>2, FS_Interval, c \in Int, d \in Int, ~(c > d)
<1>4. Cardinality(T) < Cardinality(S) /\ f \in [S -> T]
  BY <1>1, <1>3
<1> HIDE DEF S, T
<1>5. \E x, y \in S : x # y /\ f[x] = f[y]
  BY ONLY <1>1, <1>3, <1>4, FS_PigeonHole
<1> QED
  BY <1>5 DEF S

\* The rows update_Daemoninfos keeps, when it keeps them all, stay in place.
LEMMA OntoIncreasing ==
  ASSUME NEW n \in Nat, NEW m \in Nat, NEW f \in [1..n -> 1..m],
         \A i, j \in 1..n : i < j => f[i] < f[j],
         \A i \in 1..m : \E j \in 1..n : f[j] = i
  PROVE  n = m /\ \A j \in 1..n : f[j] = j
<1>2. \A i, j \in 1..n : f[i] = f[j] => i = j
  <2> SUFFICES ASSUME NEW i \in 1..n, NEW j \in 1..n, i < j, f[i] = f[j] PROVE FALSE
    OBVIOUS
  <2>1. f[i] < f[j] /\ f[i] \in Int /\ f[j] \in Int
    OBVIOUS
  <2> QED
    BY <2>1
<1>3. n <= m
  <2>1. CASE n = 0
    BY <2>1
  <2>2. CASE n > 0
    <3>1. n - 1 <= m - 1
      BY <1>2, <2>2, Pigeons, 1 \in Nat, 1 <= n
    <3> QED
      BY <3>1
  <2> QED
    BY <2>1, <2>2
<1>4. m <= n
  <2> DEFINE g == [i \in 1..m |-> CHOOSE j \in 1..n : f[j] = i]
  <2>1. g \in [1..m -> 1..n] /\ \A i \in 1..m : f[g[i]] = i
    OBVIOUS
  <2>2. \A x, y \in 1..m : g[x] = g[y] => x = y
    BY <2>1
  <2> HIDE DEF g
  <2>3. CASE m > 0
    <3>1. m - 1 <= n - 1
      BY <2>1, <2>2, <2>3, Pigeons, 1 \in Nat, 1 <= m
    <3> QED
      BY <3>1
  <2> QED
    BY <2>3
<1>5. ASSUME NEW j \in 1..n PROVE f[j] >= j
  <2> DEFINE g == [i \in 1..j |-> f[i]]
  <2>1. f[j] \in Nat /\ f[j] <= m /\ j \in Nat /\ 1 <= j
    OBVIOUS
  <2>2. \A i \in 1..j : f[i] \in 1..f[j] /\ g[i] = f[i]
    <3> SUFFICES ASSUME NEW i \in 1..j PROVE f[i] \in 1..f[j]
      OBVIOUS
    <3>1. i \in 1..n /\ (i = j \/ i < j)
      BY <2>1
    <3>2. f[i] \in 1..m /\ f[j] \in 1..m /\ (i < j => f[i] < f[j])
      BY <3>1
    <3> QED
      BY <3>1, <3>2
  <2>3. \A x, y \in 1..j : g[x] = g[y] => x = y
    BY <1>2, <2>2
  <2>4. g \in [1..j -> 1..f[j]]
    BY <2>2
  <2> HIDE DEF g
  <2>5. j - 1 <= f[j] - 1
    BY <2>1, <2>3, <2>4, Pigeons
  <2> QED
    BY <2>1, <2>5
<1>6. ASSUME NEW j \in 1..n PROVE f[j] <= j
  <2> DEFINE g == [i \in j..n |-> f[i]]
  <2>1. f[j] \in Nat /\ f[j] <= m /\ j \in Nat /\ 1 <= j /\ j <= n
    OBVIOUS
  <2>2. \A i \in j..n : f[i] \in f[j]..m /\ g[i] = f[i]
    <3> SUFFICES ASSUME NEW i \in j..n PROVE f[i] \in f[j]..m
      OBVIOUS
    <3>1. i \in 1..n /\ (i = j \/ j < i)
      BY <2>1
    <3>2. f[i] \in 1..m /\ f[j] \in 1..m /\ (j < i => f[j] < f[i])
      BY <3>1
    <3> QED
      BY <3>1, <3>2
  <2>3. \A x, y \in j..n : g[x] = g[y] => x = y
    BY <1>2, <2>2
  <2>4. g \in [j..n -> f[j]..m]
    BY <2>2
  <2> HIDE DEF g
  <2>5. n - j <= m - f[j]
    BY <2>1, <2>3, <2>4, Pigeons
  <2> QED
    BY <1>3, <1>4, <2>1, <2>5
<1> QED
  BY <1>3, <1>4, <1>5, <1>6

\* update_Daemoninfos moves no row when nothing on the list has expired.
LEMMA UpdateStays ==
  ASSUME TypeOK, NEW t \in Threads, NEW s, Update(t, s),
         \A i \in 1..Len(infos) : ~Expired(infos[i])
  PROVE  \A i \in 1..Len(infos) : i \in 1..Len(infos') /\ infos'[i] = infos[i]
<1> PICK n \in 0..Len(infos) : \E f \in [1..n -> 1..Len(infos)] :
      /\ Compact(f, n)
      /\ infos' = [j \in 1..n |-> infos[f[j]]] \o queue
  BY DEF Update
<1> PICK f \in [1..n -> 1..Len(infos)] :
      /\ Compact(f, n)
      /\ infos' = [j \in 1..n |-> infos[f[j]]] \o queue
  OBVIOUS
<1> DEFINE g == [j \in 1..n |-> infos[f[j]]]
<1>1. infos \in Seq(Daemons) /\ queue \in Seq(Daemons) /\ n \in Nat /\ Len(infos) \in Nat
  BY DEF TypeOK
<1>2. n = Len(infos) /\ \A j \in 1..n : f[j] = j
  <2>1. /\ \A i, j \in 1..n : i < j => f[i] < f[j]
        /\ \A i \in 1..Len(infos) : \E j \in 1..n : f[j] = i
    BY DEF Compact
  <2> QED
    BY <1>1, <2>1, OntoIncreasing
<1>3. g \in Seq(Daemons) /\ Len(g) = n /\ \A j \in 1..n : g[j] = infos[j]
  BY <1>1, <1>2
<1>4. infos' = g \o queue
  OBVIOUS
<1> HIDE DEF g
<1>5. /\ Len(infos') = Len(g) + Len(queue) /\ Len(queue) \in Nat
      /\ \A i \in 1..Len(g) + Len(queue) :
           infos'[i] = IF i <= Len(g) THEN g[i] ELSE queue[i - Len(g)]
  <2>1. /\ Len(g \o queue) = Len(g) + Len(queue)
        /\ \A i \in 1..Len(g) + Len(queue) :
             (g \o queue)[i] = IF i <= Len(g) THEN g[i] ELSE queue[i - Len(g)]
    BY <1>1, <1>3, ConcatProperties
  <2>2. Len(queue) \in Nat
    BY <1>1
  <2> HIDE <1>3
  <2> QED
    BY ONLY <1>4, <2>1, <2>2
<1> QED
  BY <1>1, <1>2, <1>3, <1>5

\* A step of another thread keeps a search sound: it leaves the list alone, or
\* updates it.
LEMMA OtherSound ==
  ASSUME TypeOK, NEW u \in Threads, Sound(u),
         UNCHANGED <<pc[u], idx[u], ptr[u], goal[u]>>,
         \/ UNCHANGED <<infos, seen[u]>>
         \/ \E t \in Threads : t # u /\ \E s : Update(t, s)
  PROVE  Sound(u)'
<1>1. CASE UNCHANGED <<infos, seen[u]>>
  BY <1>1 DEF Sound, Searching
<1>2. ASSUME NEW t \in Threads, t # u, NEW s, Update(t, s)
      PROVE  Sound(u)'
  <2>1. seen'[u] = IF Moved(u) THEN "moved" ELSE seen[u]
    BY <1>2 DEF Update
  <2>2. CASE Moved(u)
    BY <2>1, <2>2 DEF Sound, Moved, Searching
  <2>3. CASE ~Moved(u) /\ ~Searching(u)
    <3>1. seen'[u] = seen[u] /\ pc'[u] = pc[u]
      BY <2>1, <2>3
    <3>2. pc[u] # "compare" /\ ~Searching(u)'
      BY <2>3, <3>1 DEF Searching
    <3> QED
      BY ONLY <3>1, <3>2, Sound(u) DEF Sound
  <2>4. CASE ~Moved(u) /\ Searching(u)
    <3>1. \A i \in 1..Len(infos) : i \in 1..Len(infos') /\ infos'[i] = infos[i]
      BY <1>2, <2>4, UpdateStays DEF Moved
    <3>2. idx[u] \in Nat \ {0} /\ Len(infos) \in Nat
      BY DEF TypeOK
    <3>3. \A i \in idx[u]..Len(infos) : i \in 1..Len(infos)
      BY <3>2
    <3>4. \A i \in idx[u]..Len(infos) : i \in idx[u]..Len(infos') /\ infos'[i] = infos[i]
      BY <3>1, <3>2, <3>3
    <3> QED
      BY <2>1, <2>4, <3>1, <3>4 DEF Sound, Searching, Matches
  <2> QED
    BY <2>2, <2>3, <2>4
<1> QED
  BY <1>1, <1>2

\* The step of a thread keeps its own search sound.
LEMMA OwnSound ==
  ASSUME Inv, SearchSound, NEW t \in Threads, Call(t) \/ ThreadStep(t)
  PROVE  /\ Sound(t)' /\ seen' \in [Threads -> {"none", "listed", "moved"}]
<1>0. /\ TypeOK /\ Sound(t) /\ idx[t] \in Nat \ {0} /\ Len(infos) \in Nat
      /\ seen \in [Threads -> {"none", "listed", "moved"}]
  BY DEF Inv, SearchSound, TypeOK
<1>d. t \in DOMAIN pc /\ t \in DOMAIN idx /\ t \in DOMAIN ptr /\ t \in DOMAIN goal
  BY DEF Inv, TypeOK
<1>1. ASSUME NEW l, NEW g, Listed(l, g) = "listed"
      PROVE  \E i \in 1..Len(l) : Matches(l[i], g)
  BY <1>1 DEF Listed
<1>2. \A l, g : Listed(l, g) \in {"listed", "none"}
  BY DEF Listed
<1>3. ASSUME NEW k, NEW g, StartFind(t, k, g), seen'[t] = Listed(infos', g),
             seen' \in [Threads -> {"none", "listed", "moved"}]
      PROVE  Sound(t)'
  <2>1. pc'[t] = "find" /\ idx'[t] = 1 /\ goal'[t] = g
    BY <1>3, <1>d DEF StartFind
  <2>2. seen'[t] = "listed" => \E i \in 1..Len(infos') : Matches(infos'[i], g)
    BY <1>1, <1>3
  <2> QED
    BY ONLY <2>1, <2>2 DEF Sound, Matches
<1>4. ASSUME NEW l \in {"idle", "recv", "call", "process", "busy", "enroll"},
             pc' = [pc EXCEPT ![t] = l]
      PROVE  Sound(t)'
  BY <1>0, <1>4 DEF TypeOK, Sound, Searching
<1>5. CASE Call(t) \/ Recv(t)
  <2>1. PICK k, g : StartFind(t, k, g) /\ seen' = [seen EXCEPT ![t] = Listed(infos, g)]
    BY <1>5 DEF Call, Recv
  <2>2. infos' = infos
    BY <1>5 DEF Call, Recv
  <2> QED
    BY <1>0, <1>2, <1>3, <2>1, <2>2
<1>6. CASE External(t)
  <2>1. StartFind(t, "again", goal[t]) /\ seen' = [seen EXCEPT ![t] = Listed(infos, goal[t])]
        /\ infos' = infos
    BY <1>6 DEF External
  <2> QED
    BY <1>0, <1>2, <1>3, <2>1
<1>7. CASE Register(t)
  <2> DEFINE g == Name[ptr[t]]
  <2>1. StartFind(t, "enroll", g) /\ Update(t, Listed(infos', g))
    BY <1>7 DEF Register
  <2>2. seen' = [u \in Threads |-> IF u = t THEN Listed(infos', g)
                                   ELSE IF Moved(u) THEN "moved" ELSE seen[u]]
    BY <2>1 DEF Update
  <2> HIDE DEF g
  <2> QED
    BY <1>0, <1>2, <1>3, <2>1, <2>2
<1>8. CASE Poll(t)
  <2>1. seen' = [u \in Threads |-> IF u = t THEN "none"
                                   ELSE IF Moved(u) THEN "moved" ELSE seen[u]]
    BY <1>8 DEF Poll, Update
  <2> QED
    BY <1>0, <1>4, <1>8, <2>1 DEF Poll
<1>9. CASE Autoload(t) \/ Invoke(t) \/ PollEnd(t) \/ Enroll(t) \/ BeginRequest(t) \/ EndRequest(t)
  BY <1>0, <1>4, <1>9 DEF Autoload, Invoke, PollEnd, Enroll, BeginRequest, EndRequest
<1>10. CASE Load(t)
  <2>1. infos' = infos /\ pc[t] = "find" /\ pc \in [Threads -> {"idle", "find", "compare", "missing",
                         "call", "recv", "process", "enroll", "external", "busy"}]
    BY <1>0, <1>10 DEF Load, TypeOK
  <2>2. CASE idx[t] <= Len(infos)
    <3>1. ptr' = [ptr EXCEPT ![t] = infos[idx[t]]] /\ pc' = [pc EXCEPT ![t] = "compare"]
          /\ UNCHANGED <<idx, goal, seen>>
      BY <1>0, <1>10, <2>2 DEF Load
    <3>2. ptr'[t] = infos[idx[t]] /\ idx[t] \in 1..Len(infos) /\ pc'[t] = "compare"
      BY <1>0, <1>d, <2>1, <2>2, <3>1
    <3> QED
      BY <1>0, <2>1, <3>1, <3>2 DEF Sound, Searching, Matches
  <2>3. CASE idx[t] > Len(infos) /\ UNCHANGED <<search, seen>>
    <3>1. seen[t] # "listed"
      <4>1. seen[t] = "listed" => \E i \in idx[t]..Len(infos) : Matches(infos[i], goal[t])
        BY <1>0, <2>1 DEF Sound, Searching
      <4>2. idx[t]..Len(infos) = {}
        BY <1>0, <2>3
      <4> QED
        BY <4>1, <4>2
    <3>2. pc'[t] \in {"missing", "external", "recv"}
      BY <1>0, <1>10, <2>1, <2>3 DEF Load
    <3> QED
      BY <1>0, <2>3, <3>1, <3>2 DEF Sound, Searching
  <2>4. CASE Leave(t, "recv")
    BY <1>0, <1>4, <2>4
  <2> QED
    BY <1>0, <1>10, <2>2, <2>3, <2>4 DEF Load
<1>11. CASE Compare(t)
  <2>1. infos' = infos /\ pc[t] = "compare" /\ UNCHANGED <<goal, seen>>
    BY <1>11 DEF Compare
  <2>2. CASE Matches(ptr[t], goal[t])
    <3>1. \E l \in {"call", "enroll", "process"} : pc' = [pc EXCEPT ![t] = l]
      BY <1>11, <2>2 DEF Compare
    <3> QED
      BY <1>0, <1>4, <2>1, <3>1
  <2>3. CASE ~Matches(ptr[t], goal[t])
    <3>1. idx'[t] = idx[t] + 1 /\ pc'[t] = "find"
      BY <1>d, <1>11, <2>3 DEF Compare
    <3>2. ASSUME seen[t] = "listed"
          PROVE  \E i \in idx'[t]..Len(infos) : Matches(infos[i], goal[t])
      <4>1. PICK i \in idx[t]..Len(infos) : Matches(infos[i], goal[t])
        BY <1>0, <2>1, <3>2 DEF Sound, Searching
      <4>2. i # idx[t]
        <5>1. ptr[t] = infos[idx[t]]
          BY <1>0, <2>1, <3>2 DEF Sound
        <5> QED
          BY <2>3, <4>1, <5>1
      <4>3. idx[t] \in Nat \ {0} /\ Len(infos) \in Nat
        BY <1>0
      <4> QED
        BY ONLY <3>1, <4>1, <4>2, <4>3
    <3> QED
      BY <1>0, <2>1, <3>1, <3>2 DEF Sound, Searching, Matches
  <2> QED
    BY <1>0, <2>1, <2>2, <2>3
<1> QED
  BY <1>5, <1>6, <1>7, <1>8, <1>9, <1>10, <1>11 DEF ThreadStep

\* The other threads' locals are their own.
LEMMA OthersSound ==
  ASSUME Inv, SearchSound, NEW t \in Threads, Call(t) \/ ThreadStep(t),
         NEW u \in Threads, u # t
  PROVE  Sound(u)'
<1>1. TypeOK /\ Sound(u) /\ seen \in [Threads -> {"none", "listed", "moved"}]
  BY DEF Inv, SearchSound
<1>2. UNCHANGED <<pc[u], idx[u], ptr[u], goal[u]>>
  <2>1. \/ UNCHANGED pc \/ \E l : pc' = [pc EXCEPT ![t] = l]
    BY DEF Call, ThreadStep, Load, Compare, Autoload, Invoke, Poll, Recv, PollEnd, Register,
       Enroll, External, BeginRequest, EndRequest
  <2>2. \/ UNCHANGED idx \/ \E l : idx' = [idx EXCEPT ![t] = l]
    BY DEF Call, ThreadStep, Load, Compare, Autoload, Invoke, Poll, Recv, PollEnd, Register,
       Enroll, External, BeginRequest, EndRequest
  <2>3. \/ UNCHANGED ptr \/ \E l : ptr' = [ptr EXCEPT ![t] = l]
    BY DEF Call, ThreadStep, Load, Compare, Autoload, Invoke, Poll, Recv, PollEnd, Register,
       Enroll, External, BeginRequest, EndRequest
  <2>4. \/ UNCHANGED goal \/ \E l : goal' = [goal EXCEPT ![t] = l]
    BY DEF Call, ThreadStep, Load, Compare, Autoload, Invoke, Poll, Recv, PollEnd, Register,
       Enroll, External, BeginRequest, EndRequest
  <2> QED
    BY <1>1, <2>1, <2>2, <2>3, <2>4 DEF TypeOK
<1>3. CASE Poll(t) \/ Register(t)
  <2>1. \E s : Update(t, s)
    BY <1>3 DEF Poll, Register
  <2> QED
    BY <1>1, <1>2, <2>1, OtherSound
<1>4. CASE ~(Poll(t) \/ Register(t))
  <2>1. infos' = infos /\ (UNCHANGED seen \/ \E l : seen' = [seen EXCEPT ![t] = l])
    BY <1>4 DEF Call, ThreadStep, Load, Compare, Autoload, Invoke, Recv, PollEnd, Enroll,
       External, BeginRequest, EndRequest
  <2>2. seen'[u] = seen[u]
    BY <1>1, <2>1
  <2> QED
    BY <1>1, <1>2, <2>1, <2>2, OtherSound
<1> QED
  BY <1>3, <1>4

\* A search that reads freed memory had the list moved under it.
LEMMA FaultSound ==
  ASSUME Inv, SearchSound, fault = "none", NEW t \in Threads, Call(t) \/ ThreadStep(t)
  PROVE  FaultyOnlyWhenMoved'
<1> SUFFICES ASSUME fault' = "search" PROVE \E u \in Threads : seen'[u] = "moved"
  BY DEF FaultyOnlyWhenMoved
<1>1. Compare(t)
  BY DEF Call, ThreadStep, Load, Autoload, Invoke, Poll, Recv, PollEnd, Register, Enroll,
     External, BeginRequest, EndRequest
<1>2. pc[t] = "compare" /\ mem[ptr[t]] = "freed" /\ seen' = seen
  BY <1>1 DEF Compare
<1>3. ASSUME seen[t] # "moved" PROVE FALSE
  <2>1. idx[t] \in 1..Len(infos) /\ ptr[t] = infos[idx[t]]
    BY <1>2, <1>3 DEF SearchSound, Sound
  <2>2. infos[idx[t]] \in Daemons
    BY <2>1 DEF Inv, TypeOK
  <2> QED
    BY <1>2, <2>1, <2>2 DEF Inv, ListedOnce
<1> QED
  BY <1>2, <1>3

\* What holds of the searches holds in every state of every execution.
THEOREM SearchesSound == Spec => []SearchSound
<1>1. Init => SearchSound
  BY DEF Init, SearchSound, Sound, Searching, FaultyOnlyWhenMoved
<1>2. Inv /\ SearchSound /\ [Next]_vars => SearchSound'
  <2> SUFFICES ASSUME Inv, SearchSound, [Next]_vars PROVE SearchSound'
    OBVIOUS
  <2>1. ASSUME fault = "none", NEW t \in Threads, Call(t) \/ ThreadStep(t)
        PROVE  SearchSound'
    <3>1. Sound(t)' /\ seen' \in [Threads -> {"none", "listed", "moved"}]
      BY <2>1, OwnSound
    <3>2. \A u \in Threads : u # t => Sound(u)'
      BY <2>1, OthersSound
    <3>3. FaultyOnlyWhenMoved'
      BY <2>1, FaultSound
    <3> QED
      BY <3>1, <3>2, <3>3 DEF SearchSound
  <2>2. CASE UNCHANGED <<infos, pc, idx, ptr, goal, fault, seen>>
    BY <2>2 DEF SearchSound, Sound, Searching, FaultyOnlyWhenMoved
  <2>3. CASE Next
    BY <2>1, <2>2, <2>3, DaemonsAssumption
       DEF Next, AgentRegisters, AgentRequests, AgentEnds, Tick
  <2> QED
    BY <2>2, <2>3 DEF vars
<1> QED
  BY <1>1, <1>2, RegistrySafe, PTL DEF Spec

\* For any number of threads and agents, find_daemoninfo reads a freed entry
\* only when update_Daemoninfos compacted the list during that very search.
THEOREM FaultsExplained == Spec => []FaultyOnlyWhenMoved
<1>1. SearchSound => FaultyOnlyWhenMoved
  BY DEF SearchSound
<1> QED
  BY <1>1, SearchesSound, PTL

\* For any number of threads and agents, a listed agent is loaded or launched
\* again only when the list was compacted during the search for it.
THEOREM LoadsExplained == Spec => []NoNeedlessLoad
<1>1. SearchSound => NoNeedlessLoad
  BY DEF SearchSound, Sound, NoNeedlessLoad
<1> QED
  BY <1>1, SearchesSound, PTL
=============================================================================
