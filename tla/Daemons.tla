------------------------------- MODULE Daemons -------------------------------
(***************************************************************************)
(* The registry of agents (Daemoninfos, DaemonQ) in src/plugins/agents/    *)
(* plugins.h: launch_daemon queues a daemon_info, update_Daemoninfos lists *)
(* what is queued and frees what has finished, find_daemoninfo searches    *)
(* the list without a lock, poll_daemons registers agents and handles      *)
(* their requests, plugin_method loads a bundled agent it cannot find.     *)
(*                                                                         *)
(* A daemon d stands for one daemon_info; Name[d] is its agent.  Time is   *)
(* counted in ticks; Margin is DAEMONFREE_MARGIN_SECONDS.                  *)
(***************************************************************************)
EXTENDS Integers, Sequences

CONSTANTS
  Threads, Daemons, Name,
  Callers,      \* the threads that call plugin_method; all of them poll
  MaxDaemons,   \* length of Daemoninfos
  Margin,       \* ticks a finished daemon is kept after the last search
  MaxHold,      \* ticks a request of an agent may take (PLUGINTIMEOUT)
  Requests,     \* bound: Requests[d]: requests d makes after registering
  NoDaemon

ASSUME DaemonsAssumption ==
  /\ MaxDaemons \in Nat /\ Margin \in Nat /\ Requests \in [Daemons -> Nat]
  /\ MaxHold \in 0..Margin
  /\ Callers \subseteq Threads /\ NoDaemon \notin Daemons

Names == {Name[d] : d \in Daemons}

VARIABLES
  infos,     \* Daemoninfos[0 .. Numdaemons-1]
  queue,     \* DaemonQ
  mem,       \* mem[d]: "unused", "live" or "freed"
  stage,     \* stage[d]: "new", "ready" (readyflag) or "methods" (and those)
  age,       \* age[d]: ticks since lastsearch, at most Margin + 1
  agent,     \* agent[d]: "off", "init", "up", "external" or "ended" (finished)
  msgs,      \* msgs[d]: what d has sent to SUPERNET.pullsock
  reqs,      \* reqs[d]: requests it may still make
  pc, idx, ptr, goal, kind, hold, \* threads: position, i, dp, search, message
  fault,     \* a freed daemon_info was read: in a "search" or in a "use"
  crossed,   \* history: d's registration may miss the list (see Registered)
  seen       \* history of t's search: "listed" at its start, list "moved"

list == <<infos, queue, mem>>
process == <<agent, msgs, reqs>>
search == <<idx, ptr, goal, kind, hold>>
vars == <<infos, queue, mem, stage, age, agent, msgs, reqs,
          pc, idx, ptr, goal, kind, hold, fault, crossed, seen>>

Init ==
  /\ infos = <<>> /\ queue = <<>>
  /\ mem = [d \in Daemons |-> "unused"] /\ stage = [d \in Daemons |-> "new"]
  /\ age = [d \in Daemons |-> Margin + 1]
  /\ agent = [d \in Daemons |-> "off"] /\ reqs = Requests
  /\ msgs = [d \in Daemons |-> <<>>]
  /\ pc = [t \in Threads |-> "idle"] /\ idx = [t \in Threads |-> 1]
  /\ ptr = [t \in Threads |-> NoDaemon] /\ goal = [t \in Threads |-> NoDaemon]
  /\ kind = [t \in Threads |-> "none"] /\ hold = [t \in Threads |-> 0]
  /\ fault = "none" /\ crossed = [d \in Daemons |-> FALSE]
  /\ seen = [t \in Threads |-> "none"]

Goto(t, label) == pc' = [pc EXCEPT ![t] = label]

Finished(d) == agent[d] = "ended"
Searching(t) == pc[t] \in {"find", "compare"}
Holding(t) == pc[t] \in {"call", "process", "busy", "enroll"}

\* The locals of find_daemoninfo and of its caller go out of scope.
Leave(t, label) ==
  /\ Goto(t, label)
  /\ idx' = [idx EXCEPT ![t] = 1] /\ ptr' = [ptr EXCEPT ![t] = NoDaemon]
  /\ goal' = [goal EXCEPT ![t] = NoDaemon]
  /\ kind' = [kind EXCEPT ![t] = "none"] /\ hold' = [hold EXCEPT ![t] = 0]
  /\ seen' = [seen EXCEPT ![t] = "none"]

\* A use of dp reads freed memory if it has been freed.
Use(d) == fault' = IF mem[d] = "freed" THEN "use" ELSE fault

-----------------------------------------------------------------------------
(* find_daemoninfo. *)

\* A search is for a name (plugin_method, register_daemon) or for a daemonid
\* (poll_daemons).
Matches(d, g) == d = g \/ Name[d] = g
Listed(l, g) == IF \E i \in 1..Len(l) : Matches(l[i], g) THEN "listed" ELSE "none"

StartFind(t, k, g) ==
  /\ Goto(t, "find")
  /\ kind' = [kind EXCEPT ![t] = k]
  /\ goal' = [goal EXCEPT ![t] = g]
  /\ idx' = [idx EXCEPT ![t] = 1]
  /\ ptr' = [ptr EXCEPT ![t] = NoDaemon]
  /\ hold' = [hold EXCEPT ![t] = 0]

Load_SkipsLast(t) ==
  /\ pc[t] = "find"
  /\ \/ /\ idx[t] < Len(infos)
        /\ ptr' = [ptr EXCEPT ![t] = infos[idx[t]]]
        /\ Goto(t, "compare")
        /\ UNCHANGED <<idx, goal, kind, hold, seen>>
     \/ /\ idx[t] >= Len(infos) /\ kind[t] = "call"
        /\ Goto(t, "missing")
        /\ UNCHANGED <<search, seen>>
     \/ /\ idx[t] >= Len(infos) /\ kind[t] = "enroll"
        /\ Goto(t, "external")
        /\ UNCHANGED <<search, seen>>
     \/ /\ idx[t] >= Len(infos) /\ kind[t] \in {"register", "request", "again"}
        /\ Leave(t, "recv")
  /\ UNCHANGED <<list, stage, age, process, fault, crossed>>

\* dp = Daemoninfos[i]; at the end of the list the caller gets 0.
Load(t) ==
  /\ pc[t] = "find"
  /\ \/ /\ idx[t] <= Len(infos)
        /\ ptr' = [ptr EXCEPT ![t] = infos[idx[t]]]
        /\ Goto(t, "compare")
        /\ UNCHANGED <<idx, goal, kind, hold, seen>>
     \/ /\ idx[t] > Len(infos) /\ kind[t] = "call"
        /\ Goto(t, "missing")
        /\ UNCHANGED <<search, seen>>
     \/ /\ idx[t] > Len(infos) /\ kind[t] = "enroll"
        /\ Goto(t, "external")
        /\ UNCHANGED <<search, seen>>
     \/ /\ idx[t] > Len(infos) /\ kind[t] \in {"register", "request", "again"}
        /\ Leave(t, "recv")
  /\ UNCHANGED <<list, stage, age, process, fault, crossed>>

Compare_NoTouch(t) ==
  /\ pc[t] = "compare"
  /\ fault' = IF mem[ptr[t]] = "freed" THEN "search" ELSE fault
  /\ \/ /\ Matches(ptr[t], goal[t])
        /\ Goto(t, CASE kind[t] = "call" -> "call"
                     [] kind[t] \in {"enroll", "again"} -> "enroll"
                     [] OTHER -> "process")
        /\ UNCHANGED <<age, idx, ptr>>
     \/ /\ ~Matches(ptr[t], goal[t])
        /\ idx' = [idx EXCEPT ![t] = @ + 1]
        /\ ptr' = [ptr EXCEPT ![t] = NoDaemon]
        /\ Goto(t, "find")
        /\ UNCHANGED age
  /\ UNCHANGED <<list, stage, process, goal, kind, hold, crossed, seen>>

\* dp is compared, and its lastsearch set when it is the one.
Compare(t) ==
  /\ pc[t] = "compare"
  /\ fault' = IF mem[ptr[t]] = "freed" THEN "search" ELSE fault
  /\ \/ /\ Matches(ptr[t], goal[t])
        /\ age' = [age EXCEPT ![ptr[t]] = 0]
        /\ Goto(t, CASE kind[t] = "call" -> "call"
                     [] kind[t] \in {"enroll", "again"} -> "enroll"
                     [] OTHER -> "process")
        /\ UNCHANGED <<idx, ptr>>
     \/ /\ ~Matches(ptr[t], goal[t])
        /\ idx' = [idx EXCEPT ![t] = @ + 1]
        /\ ptr' = [ptr EXCEPT ![t] = NoDaemon]
        /\ Goto(t, "find")
        /\ UNCHANGED age
  /\ UNCHANGED <<list, stage, process, goal, kind, hold, crossed, seen>>

-----------------------------------------------------------------------------
(* update_Daemoninfos, under its mutex, in thread t; s is what t's own search *)
(* (if it starts one in the same step) has seen.                              *)

Expired_Reversed(d) == Finished(d) /\ age[d] < Margin

Expired(d) == Finished(d) /\ age[d] > Margin

\* The list without the expired daemons: f[j] is the row the j-th comes from.
Compact(f, n) ==
  /\ \A i, j \in 1..n : i < j => f[i] < f[j]
  /\ \A i \in 1..Len(infos) : ~Expired(infos[i]) <=> \E j \in 1..n : f[j] = i

\* The list is compacted under u's search.
Moved(u) == Searching(u) /\ \E i \in 1..Len(infos) : Expired(infos[i])

Update_KeepsFreed(t, s) ==
  /\ infos' = infos \o queue
  /\ queue' = <<>>
  /\ mem' = [d \in Daemons |->
               IF Expired(d) /\ \E i \in 1..Len(infos) : infos[i] = d
               THEN "freed" ELSE mem[d]]
  /\ seen' = [u \in Threads |-> IF u = t THEN s
                                ELSE IF Moved(u) THEN "moved" ELSE seen[u]]
  /\ crossed' = [d \in Daemons |->
                   \/ crossed[d]
                   \/ \E u \in Threads : u # t /\ Moved(u) /\ goal[u] = d]

Update_KeepsQueue(t, s) ==
  /\ \E n \in 0..Len(infos) : \E f \in [1..n -> 1..Len(infos)] :
       /\ Compact(f, n)
       /\ infos' = [j \in 1..n |-> infos[f[j]]] \o queue
  /\ queue' = queue
  /\ mem' = [d \in Daemons |->
               IF Expired(d) /\ \E i \in 1..Len(infos) : infos[i] = d
               THEN "freed" ELSE mem[d]]
  /\ seen' = [u \in Threads |-> IF u = t THEN s
                                ELSE IF Moved(u) THEN "moved" ELSE seen[u]]
  /\ crossed' = [d \in Daemons |->
                   \/ crossed[d]
                   \/ \E u \in Threads : u # t /\ Moved(u) /\ goal[u] = d]

Update(t, s) ==
  /\ \E n \in 0..Len(infos) : \E f \in [1..n -> 1..Len(infos)] :
       /\ Compact(f, n)
       /\ infos' = [j \in 1..n |-> infos[f[j]]] \o queue
  /\ queue' = <<>>
  /\ mem' = [d \in Daemons |->
               IF Expired(d) /\ \E i \in 1..Len(infos) : infos[i] = d
               THEN "freed" ELSE mem[d]]
  /\ seen' = [u \in Threads |-> IF u = t THEN s
                                ELSE IF Moved(u) THEN "moved" ELSE seen[u]]
  /\ crossed' = [d \in Daemons |->
                   \/ crossed[d]
                   \/ \E u \in Threads : u # t /\ Moved(u) /\ goal[u] = d]

-----------------------------------------------------------------------------
(* plugin_method up to the sending of the request (AgentRPC goes on). *)

Call(t) ==
  /\ pc[t] = "idle"
  /\ \E n \in Names : /\ StartFind(t, "call", n)
                      /\ seen' = [seen EXCEPT ![t] = Listed(infos, n)]
  /\ UNCHANGED <<list, stage, age, process, fault, crossed>>

\* Thread u is in the loop of poll_daemons, past its update.
Receiving(u) ==
  \/ pc[u] \in {"recv", "process", "busy", "enroll", "external"}
  \/ Searching(u) /\ kind[u] # "call"

\* launch_daemon, for an agent that begins in state a.
Launch(n, a) ==
  \/ /\ Len(infos) < MaxDaemons
     /\ \E d \in Daemons :
          /\ mem[d] = "unused" /\ Name[d] = n
          /\ mem' = [mem EXCEPT ![d] = "live"]
          /\ queue' = Append(queue, d)
          /\ agent' = [agent EXCEPT ![d] = a]
          /\ crossed' = [crossed EXCEPT ![d] = \E u \in Threads : Receiving(u)]
  \/ /\ \/ Len(infos) >= MaxDaemons
        \/ \A d \in Daemons : Name[d] = n => mem[d] # "unused"
     /\ UNCHANGED <<mem, queue, agent, crossed>>

\* No such agent: language_func and launch_daemon of a bundled one, and the
\* AUTOLOAD error.
Autoload(t) ==
  /\ pc[t] = "missing"
  /\ Launch(goal[t], "init")
  /\ Leave(t, "idle")
  /\ UNCHANGED <<infos, stage, age, msgs, reqs, fault>>

\* The checks of readyflag and the methods; the request is sent if all hold.
Invoke(t) ==
  /\ pc[t] = "call"
  /\ Use(ptr[t])
  /\ Leave(t, "idle")
  /\ UNCHANGED <<list, stage, age, process, crossed>>

-----------------------------------------------------------------------------
(* poll_daemons. *)

Poll_NoUpdate(t) ==
  /\ pc[t] = "idle"
  /\ Goto(t, "recv")
  /\ UNCHANGED <<list, seen, crossed, stage, age, process, search, fault>>

Poll(t) ==
  /\ pc[t] = "idle"
  /\ Update(t, "none")
  /\ Goto(t, "recv")
  /\ UNCHANGED <<stage, age, process, search, fault>>

Recv(t) ==
  /\ pc[t] = "recv"
  /\ \E d \in Daemons :
       /\ msgs[d] # <<>>
       /\ msgs' = [msgs EXCEPT ![d] = Tail(@)]
       /\ StartFind(t, Head(msgs[d]), d)
       /\ seen' = [seen EXCEPT ![t] = Listed(infos, d)]
  /\ UNCHANGED <<list, stage, age, agent, reqs, fault, crossed>>

PollEnd(t) ==
  /\ pc[t] = "recv" /\ \A d \in Daemons : msgs[d] = <<>>
  /\ Goto(t, "idle")
  /\ UNCHANGED <<list, stage, age, process, search, fault, crossed, seen>>

Readied(d) == IF stage[d] = "new" THEN "ready" ELSE stage[d]

\* process_plugin_message of a registration: call_SuperNET_JSON calls
\* register_daemon, which updates the list and searches it by name and id.
Register(t) ==
  /\ pc[t] = "process" /\ kind[t] = "register"
  /\ Use(ptr[t])
  /\ stage' = [stage EXCEPT ![ptr[t]] = Readied(ptr[t])]
  /\ Update(t, Listed(infos', Name[ptr[t]]))
  /\ StartFind(t, "enroll", Name[ptr[t]])
  /\ UNCHANGED <<age, process>>

Enroll(t) ==
  /\ pc[t] = "enroll"
  /\ Use(ptr[t])
  /\ stage' = [stage EXCEPT ![ptr[t]] = "methods"]
  /\ Leave(t, "recv")
  /\ UNCHANGED <<list, age, process, crossed>>

\* register_daemon did not find it: it launches an external_agent of the name
\* and searches again.
External(t) ==
  /\ pc[t] = "external"
  /\ Launch(goal[t], "external")
  /\ StartFind(t, "again", goal[t])
  /\ seen' = [seen EXCEPT ![t] = Listed(infos, goal[t])]
  /\ UNCHANGED <<infos, stage, age, msgs, reqs, fault>>

\* Any other request of an agent runs plugin_method or the like in this
\* thread, for up to its timeout, and then replies through dp.
BeginRequest(t) ==
  /\ pc[t] = "process" /\ kind[t] = "request"
  /\ Use(ptr[t])
  /\ stage' = [stage EXCEPT ![ptr[t]] = Readied(ptr[t])]
  /\ Goto(t, "busy")
  /\ UNCHANGED <<list, age, process, search, crossed, seen>>

EndRequest(t) ==
  /\ pc[t] = "busy"
  /\ Use(ptr[t])
  /\ Leave(t, "recv")
  /\ UNCHANGED <<list, stage, age, process, crossed>>

-----------------------------------------------------------------------------
(* Agents (main of plugin777.c), _daemon_loop, and time. *)

AgentRegisters(d) ==
  /\ agent[d] = "init"
  /\ agent' = [agent EXCEPT ![d] = "up"]
  /\ msgs' = [msgs EXCEPT ![d] = Append(@, "register")]
  /\ UNCHANGED <<list, stage, age, reqs, pc, search, fault, crossed, seen>>

AgentRequests(d) ==
  /\ agent[d] = "up" /\ reqs[d] > 0
  /\ reqs' = [reqs EXCEPT ![d] = @ - 1]
  /\ msgs' = [msgs EXCEPT ![d] = Append(@, "request")]
  /\ UNCHANGED <<list, stage, age, agent, pc, search, fault, crossed, seen>>

\* The process ends, and _daemon_loop sets dp->finished.
AgentEnds(d) ==
  /\ agent[d] \in {"init", "up", "external"}
  /\ agent' = [agent EXCEPT ![d] = "ended"]
  /\ UNCHANGED <<list, stage, age, msgs, reqs, pc, search, fault, crossed, seen>>

\* A thread that holds a daemon is done with it within MaxHold.
Tick ==
  /\ \A t \in Threads : Holding(t) => hold[t] < MaxHold
  /\ \E d \in Daemons : age[d] <= Margin
  /\ age' = [d \in Daemons |-> IF age[d] <= Margin THEN age[d] + 1 ELSE age[d]]
  /\ hold' = [t \in Threads |-> IF Holding(t) THEN hold[t] + 1 ELSE hold[t]]
  /\ UNCHANGED <<list, stage, process, pc, idx, ptr, goal, kind, fault, crossed,
                 seen>>

ThreadStep(t) ==
  \/ Load(t) \/ Compare(t) \/ Autoload(t) \/ Invoke(t) \/ Poll(t) \/ Recv(t)
  \/ PollEnd(t) \/ Register(t) \/ Enroll(t) \/ External(t) \/ BeginRequest(t)
  \/ EndRequest(t)

Next ==
  /\ fault = "none"
  /\ \/ \E t \in Callers : Call(t)
     \/ \E t \in Threads : ThreadStep(t)
     \/ \E d \in Daemons : AgentRegisters(d) \/ AgentRequests(d) \/ AgentEnds(d)
     \/ Tick

Spec == Init /\ [][Next]_vars

\* Threads are scheduled, time passes, and no thread stops polling:
\* SuperNET_agentloop and the loops that wait for an agent or for an answer
\* call poll_daemons again and again.
Fairness ==
  /\ \A t \in Threads : /\ WF_vars(fault = "none" /\ ThreadStep(t))
                        /\ SF_vars(fault = "none" /\ Poll(t))
  /\ SF_vars(fault = "none" /\ Tick)

FairSpec == Spec /\ Fairness

-----------------------------------------------------------------------------
(* Properties. *)

\* Every variable has its type (daemon_info and the locals of the threads).
TypeOK ==
  /\ infos \in Seq(Daemons) /\ queue \in Seq(Daemons)
  /\ mem \in [Daemons -> {"unused", "live", "freed"}]
  /\ stage \in [Daemons -> {"new", "ready", "methods"}]
  /\ age \in [Daemons -> 0..Margin + 1]
  /\ agent \in [Daemons -> {"off", "init", "up", "external", "ended"}]
  /\ ptr \in [Threads -> Daemons \cup {NoDaemon}]
  /\ goal \in [Threads -> Daemons \cup Names \cup {NoDaemon}]
  /\ hold \in [Threads -> 0..MaxHold] /\ idx \in [Threads -> Nat \ {0}]
  /\ pc \in [Threads -> {"idle", "find", "compare", "missing", "call", "recv",
                         "process", "enroll", "external", "busy"}]
  /\ fault \in {"none", "search", "use"}
  /\ \A t \in Threads : Holding(t) \/ pc[t] = "compare" => ptr[t] \in Daemons

\* Once find_daemoninfo has returned dp, no update_Daemoninfos of any thread
\* frees it before the caller is done, though callers hold no lock and the
\* agent may end at any moment: DAEMONFREE_MARGIN_SECONDS after lastsearch
\* covers the longest use.  Freed memory is read in a search alone.
NoUseAfterFree ==
  /\ fault # "use"
  /\ fault = "none" => \A t \in Threads : Holding(t) => mem[ptr[t]] = "live"

\* A search reads a freed daemon_info only when another thread compacted the
\* list under it.
FaultyOnlyWhenMoved ==
  fault = "search" => \E t \in Threads : seen[t] = "moved"

\* A daemon is on the list or the queue exactly once while it is live, and
\* nowhere once freed, so that update_Daemoninfos frees nothing twice.
ListedOnce ==
  /\ \A i, j \in 1..Len(infos) : infos[i] = infos[j] => i = j
  /\ \A i, j \in 1..Len(queue) : queue[i] = queue[j] => i = j
  /\ \A i \in 1..Len(infos) : \A j \in 1..Len(queue) : infos[i] # queue[j]
  /\ \A d \in Daemons :
       mem[d] = "live" <=> \/ \E i \in 1..Len(infos) : infos[i] = d
                          \/ \E i \in 1..Len(queue) : queue[i] = d

\* "too many daemons, cant create anymore": launch_daemon refuses what
\* Daemoninfos has no room for, so that update_Daemoninfos, which appends all
\* that is queued without a test, stays within the array.
ListFits == Len(infos) <= MaxDaemons

\* plugin_method loads another copy of an agent (and register_daemon launches
\* an external one) that was on the list when its search began only if the
\* list was compacted under the search.
NoNeedlessLoad ==
  \A t \in Threads : pc[t] \in {"missing", "external"} => seen[t] # "listed"

\* An agent that sends its registration gets its methods into the registry (on
\* the first daemon of its name), unless it was launched while a thread was
\* inside the loop of poll_daemons (that thread may receive the registration
\* before the daemon is on the list), the list was compacted under the search
\* for it, or it ended.
Registered ==
  \A d \in Daemons :
    agent[d] = "up" ~>
      \/ \E e \in Daemons : Name[e] = Name[d] /\ stage[e] = "methods"
      \/ crossed[d] \/ Finished(d) \/ fault # "none"

\* A daemon whose process has ended is freed at last if its name is no longer
\* searched (every search renews lastsearch).
FinishedFreed ==
  \A d \in Daemons :
    <>[](\A t \in Threads : goal[t] # Name[d]) =>
      ((Finished(d)) ~> (mem[d] = "freed" \/ fault # "none"))
=============================================================================
