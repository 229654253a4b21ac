------------------------------ MODULE AgentRPC -------------------------------
(***************************************************************************)
(* A call of an agent's method: plugin_method (src/plugins/agents/         *)
(* plugins.h) registers the address of its result in SUPERNET.tags, sends  *)
(* the request to the agent and polls, as other threads do, for replies;   *)
(* whoever receives a reply looks its tag up and stores or sends it        *)
(* (transport.h, plugin777.c).  Nothing here takes a lock, so every step   *)
(* below is one access to shared state.                                    *)
(*                                                                         *)
(* The agent is registered, ready and has the method (Daemons has those    *)
(* early returns).  A call is <<caller, k>>, its k-th call; the agent's    *)
(* answer to a call is the call itself.                                    *)
(***************************************************************************)
EXTENDS Integers, FiniteSets

CONSTANTS
  Callers,      \* threads that call plugin_method
  Pollers,      \* threads that only run poll_daemons (SuperNET_agentloop)
  ApiCallers,   \* callers with a socket (issue_cgicall of an API message)
  ClientTags,   \* tags a request may bring along in its JSON
  NumTags,      \* NUM_PLUGINTAGS
  MaxCalls,     \* bound: calls of each caller
  Asyncs,       \* values of the async flag (timeout 0): subset of BOOLEAN
  Losses,       \* may a message be lost, a request go unanswered: ditto
  NoTag, Nobody, Nothing, TimedOut, NullTag

Workers == Callers \cup Pollers
Calls == UNION {{c} \X (1..MaxCalls[c]) : c \in Callers}
Tag == Calls \cup ClientTags
Message == [tag : Tag \cup {NoTag}, call : Calls]

\* NoTag, Nobody and the returned strings that are no answer are null pointers
\* and constants of the code.
ASSUME RPCAssumption ==
  /\ ApiCallers \subseteq Callers /\ Callers \cap Pollers = {}
  /\ NumTags \in Nat \ {0} /\ MaxCalls \in [Callers -> Nat]
  /\ Asyncs \subseteq BOOLEAN /\ Losses \subseteq BOOLEAN
  /\ NoTag \notin Tag /\ Nobody \notin Callers
  /\ Nothing \notin Calls \cup Message /\ {TimedOut, NullTag} \cap Calls = {}

\* A row of SUPERNET.tags: tag, address of the result, socket of the caller
\* ("zero" is 0, "local" is -1).
Row == [tag : Tag \cup {NoTag}, dest : Callers \cup {Nobody},
        sock : {"zero", "local", "api"}]
Clear == [tag |-> NoTag, dest |-> Nobody, sock |-> "zero"]

VARIABLES
  pc,        \* where each thread is
  calls,     \* calls[c]: calls c has begun
  tag,       \* tag[c]: tag of c's current call
  slot,      \* slot[t]: i in add_tagstr or get_tagstr
  cell,      \* cell[c]: *retstrp, a word of c's stack
  got,       \* got[t]: the reply t is processing
  to,        \* to[t]: dest and retsock as get_tagstr left them
  tags,      \* SUPERNET.tags
  requests,  \* on their way to the agent
  replies,   \* on their way to SUPERNET.pullsock
  result,    \* result[c]: what c's last call returned
  sent,      \* history: answers sent on the API socket
  left,      \* history: calls that returned without their answer
  lost,      \* history: a message was lost or left unanswered
  mixed      \* history: a row was written over, or a tag stands in two rows

rpc == <<calls, tag, slot, cell, result, left>>
poll == <<got, to>>
net == <<requests, replies>>
vars == <<pc, calls, tag, slot, cell, got, to, tags, requests, replies,
          result, sent, left, lost, mixed>>

Current(c) == <<c, calls[c]>>

Goto(t, label) == pc' = [pc EXCEPT ![t] = label]

Return(c, value) ==
  /\ result' = [result EXCEPT ![c] = value]
  /\ left' = IF value = Current(c) THEN left ELSE left \cup {Current(c)}

-----------------------------------------------------------------------------
Init ==
  /\ pc = [t \in Workers |-> IF t \in Pollers THEN "recv" ELSE "idle"]
  /\ calls = [c \in Callers |-> 0] /\ tag = [c \in Callers |-> NoTag]
  /\ slot = [t \in Workers |-> 1]
  /\ cell = [c \in Callers |-> Nothing] /\ result = [c \in Callers |-> Nothing]
  /\ got = [t \in Workers |-> Nothing] /\ to = [t \in Workers |-> Clear]
  /\ tags = [i \in 1..NumTags |-> Clear]
  /\ requests = {} /\ replies = {} /\ sent = {} /\ left = {}
  /\ lost = FALSE /\ mixed = FALSE

Call_KeepsCell(c) ==
  /\ pc[c] = "idle" /\ calls[c] < MaxCalls[c]
  /\ calls' = [calls EXCEPT ![c] = @ + 1]
  /\ \E t \in {<<c, calls[c] + 1>>} \cup ClientTags :
       tag' = [tag EXCEPT ![c] = t]
  /\ slot' = [slot EXCEPT ![c] = 1]
  /\ Goto(c, "scan")
  /\ UNCHANGED <<cell, poll, tags, net, result, sent, left, lost, mixed>>

\* plugin_method up to send_to_daemon's tag: the request's own, or a random
\* one, which no other call has.
Call(c) ==
  /\ pc[c] = "idle" /\ calls[c] < MaxCalls[c]
  /\ calls' = [calls EXCEPT ![c] = @ + 1]
  /\ cell' = [cell EXCEPT ![c] = Nothing]
  /\ \E t \in {<<c, calls[c] + 1>>} \cup ClientTags :
       tag' = [tag EXCEPT ![c] = t]
  /\ slot' = [slot EXCEPT ![c] = 1]
  /\ Goto(c, "scan")
  /\ UNCHANGED <<poll, tags, net, result, sent, left, lost, mixed>>

\* A remote request without a tag is sent, and "null tag from send_to_daemon"
\* is returned at once.
CallUntagged(c) ==
  /\ pc[c] = "idle" /\ calls[c] < MaxCalls[c]
  /\ calls' = [calls EXCEPT ![c] = @ + 1]
  /\ cell' = [cell EXCEPT ![c] = Nothing]
  /\ requests' = requests \cup {[tag |-> NoTag, call |-> Current(c)']}
  /\ result' = [result EXCEPT ![c] = NullTag]
  /\ left' = left \cup {Current(c)'}
  /\ UNCHANGED <<pc, tag, slot, poll, tags, replies, sent, lost, mixed>>

\* Back in plugin_method with the tag: an asynchronous call returns, its frame
\* and *retstrp with it, another goes on to wait_for_daemon.
Proceed(c) ==
  \E async \in Asyncs :
    IF async THEN Goto(c, "idle") /\ Return(c, Nothing)
             ELSE Goto(c, "wait") /\ UNCHANGED <<result, left>>

Scan_RetriesWhenFull(c) ==
  /\ pc[c] = "scan"
  /\ LET row == tags[slot[c]] IN
     \/ row.tag = tag[c] /\ Proceed(c) /\ UNCHANGED slot
     \/ row.tag = NoTag /\ Goto(c, "settag") /\ UNCHANGED <<slot, result, left>>
     \/ /\ row.tag \notin {tag[c], NoTag}
        /\ slot' = [slot EXCEPT ![c] = (@ % NumTags) + 1]
        /\ UNCHANGED <<pc, result, left>>
  /\ UNCHANGED <<calls, tag, cell, poll, tags, net, sent, lost, mixed>>

\* One turn of add_tagstr's loop.  A duplicate, or a full table, is not sent
\* but waited for all the same: send_to_daemon still returns the tag.
Scan(c) ==
  /\ pc[c] = "scan"
  /\ LET row == tags[slot[c]] IN
     \/ row.tag = tag[c] /\ Proceed(c) /\ UNCHANGED slot
     \/ row.tag = NoTag /\ Goto(c, "settag") /\ UNCHANGED <<slot, result, left>>
     \/ /\ row.tag \notin {tag[c], NoTag}
        /\ IF slot[c] < NumTags
           THEN /\ slot' = [slot EXCEPT ![c] = @ + 1]
                /\ UNCHANGED <<pc, result, left>>
           ELSE Proceed(c) /\ UNCHANGED slot
  /\ UNCHANGED <<calls, tag, cell, poll, tags, net, sent, lost, mixed>>

SetTag(c) ==
  /\ pc[c] = "settag"
  /\ mixed' = (\/ mixed
               \/ tags[slot[c]].tag # NoTag
               \/ \E i \in 1..NumTags : tags[i].tag = tag[c])
  /\ tags' = [tags EXCEPT ![slot[c]].tag = tag[c], ![slot[c]].dest = Nobody]
  /\ Goto(c, "setdest")
  /\ UNCHANGED <<rpc, poll, net, sent, lost>>

SetDest(c) ==
  /\ pc[c] = "setdest"
  /\ tags' = [tags EXCEPT ![slot[c]].dest = c]
  /\ Goto(c, "setsock")
  /\ UNCHANGED <<rpc, poll, net, sent, lost, mixed>>

SetSock(c) ==
  /\ pc[c] = "setsock"
  /\ tags' = [tags EXCEPT ![slot[c]].sock =
                IF c \in ApiCallers THEN "api" ELSE "local"]
  /\ Goto(c, "send")
  /\ UNCHANGED <<rpc, poll, net, sent, lost, mixed>>

\* nn_local_broadcast to the agent; an error is only logged.
Send(c) ==
  /\ pc[c] = "send"
  /\ \E loss \in Losses :
       /\ requests' = IF loss THEN requests
                      ELSE requests \cup {[tag |-> tag[c], call |-> Current(c)]}
       /\ lost' = (lost \/ loss)
  /\ Proceed(c)
  /\ UNCHANGED <<calls, tag, slot, cell, poll, tags, replies, sent, mixed>>

-----------------------------------------------------------------------------
(* wait_for_daemon, and poll_daemons in whichever thread runs it. *)

\* The timeout has passed: *destp is overwritten and returned.
TimeOut(c) ==
  /\ pc[c] = "wait"
  /\ cell' = [cell EXCEPT ![c] = TimedOut]
  /\ Return(c, TimedOut)
  /\ Goto(c, "idle")
  /\ UNCHANGED <<calls, tag, slot, poll, tags, net, sent, lost, mixed>>

Poll(c) ==
  /\ pc[c] = "wait"
  /\ Goto(c, "recv")
  /\ UNCHANGED <<rpc, poll, tags, net, sent, lost, mixed>>

\* nn_recv on SUPERNET.pullsock.  A reply that names no agent (a JSON array
\* carries no daemonid) is dropped.
Recv(t) ==
  /\ pc[t] = "recv"
  /\ \E m \in replies :
       /\ replies' = replies \ {m}
       /\ \E dropped \in Losses :
            /\ lost' = (lost \/ dropped)
            /\ IF dropped THEN UNCHANGED <<pc, got, slot>>
               ELSE /\ Goto(t, IF m.tag = NoTag THEN "recv" ELSE "find")
                    /\ got' = [got EXCEPT ![t] = IF m.tag = NoTag THEN Nothing ELSE m]
                    /\ slot' = [slot EXCEPT ![t] = 1]
  /\ UNCHANGED <<calls, tag, cell, to, tags, requests, result, sent, left,
                 mixed>>

NothingToRecv(c) ==
  /\ c \in Callers /\ pc[c] = "recv" /\ replies = {}
  /\ Goto(c, "check")
  /\ UNCHANGED <<rpc, poll, tags, net, sent, lost, mixed>>

\* get_tagstr: the first row with the tag.  Without one, or with a row whose
\* third word is still 0, retsock keeps the garbage of process_plugin_message's
\* stack: a negative number, or one that is a socket.
Find(t) ==
  /\ pc[t] = "find"
  /\ LET rows == {i \in 1..NumTags : tags[i].tag = got[t].tag} IN
     IF rows = {}
     THEN /\ \E sock \in {"local", "api"} :
               to' = [to EXCEPT ![t] = [Clear EXCEPT !.sock = sock]]
          /\ Goto(t, "put")
          /\ UNCHANGED slot
     ELSE \E i \in rows :
          /\ \A j \in rows : i <= j
          /\ \E sock \in IF tags[i].sock = "zero" THEN {"local", "api"}
                         ELSE {tags[i].sock} :
               to' = [to EXCEPT ![t] = [tags[i] EXCEPT !.sock = sock]]
          /\ slot' = [slot EXCEPT ![t] = i]
          /\ Goto(t, "clear")
  /\ UNCHANGED <<calls, tag, cell, got, tags, net, result, sent, left, lost, mixed>>

ClearRow_KeepsTag(t) ==
  /\ pc[t] = "clear"
  /\ tags' = [tags EXCEPT ![slot[t]].dest = Nobody, ![slot[t]].sock = "zero"]
  /\ Goto(t, "put")
  /\ UNCHANGED <<rpc, poll, net, sent, lost, mixed>>

ClearRow(t) ==
  /\ pc[t] = "clear"
  /\ tags' = [tags EXCEPT ![slot[t]] = Clear]
  /\ Goto(t, "put")
  /\ UNCHANGED <<rpc, poll, net, sent, lost, mixed>>

Put_Both(t) ==
  /\ pc[t] = "put"
  /\ sent' = IF to[t].sock = "api" THEN sent \cup {got[t].call} ELSE sent
  /\ cell' = IF to[t].dest # Nobody
             THEN [cell EXCEPT ![to[t].dest] = got[t].call] ELSE cell
  /\ got' = [got EXCEPT ![t] = Nothing] /\ to' = [to EXCEPT ![t] = Clear]
  /\ Goto(t, "recv")
  /\ UNCHANGED <<calls, tag, slot, tags, net, result, left, lost, mixed>>

\* The end of process_plugin_message: the reply goes to the socket or, for a
\* caller without one, to the address from the table.
Put(t) ==
  /\ pc[t] = "put"
  /\ sent' = IF to[t].sock = "api" THEN sent \cup {got[t].call} ELSE sent
  /\ cell' = IF to[t].sock # "api" /\ to[t].dest # Nobody
             THEN [cell EXCEPT ![to[t].dest] = got[t].call] ELSE cell
  /\ got' = [got EXCEPT ![t] = Nothing] /\ to' = [to EXCEPT ![t] = Clear]
  /\ Goto(t, "recv")
  /\ UNCHANGED <<calls, tag, slot, tags, net, result, left, lost, mixed>>

\* Back in wait_for_daemon: a result is returned, else it goes round again.
Check(c) ==
  /\ pc[c] = "check"
  /\ IF cell[c] # Nothing THEN Goto(c, "idle") /\ Return(c, cell[c])
                          ELSE Goto(c, "wait") /\ UNCHANGED <<result, left>>
  /\ UNCHANGED <<calls, tag, slot, cell, poll, tags, net, sent, lost, mixed>>

\* The agent's main loop: process_plugin_json answers a request or, for some,
\* returns nothing to send.
Answer ==
  /\ \E m \in requests :
       /\ requests' = requests \ {m}
       /\ \E silent \in Losses :
            /\ replies' = IF silent THEN replies ELSE replies \cup {m}
            /\ lost' = (lost \/ silent)
  /\ UNCHANGED <<pc, rpc, poll, tags, sent, mixed>>

CallStep(c) ==
  \/ Call(c) \/ CallUntagged(c) \/ Scan(c) \/ SetTag(c) \/ SetDest(c)
  \/ SetSock(c) \/ Send(c) \/ TimeOut(c) \/ Poll(c) \/ NothingToRecv(c)
  \/ Check(c)

PollStep(t) == Recv(t) \/ Find(t) \/ ClearRow(t) \/ Put(t)

Next ==
  \/ \E c \in Callers : CallStep(c)
  \/ \E t \in Workers : PollStep(t)
  \/ Answer

Spec == Init /\ [][Next]_vars

\* Threads and the agent process are scheduled; a thread in wait_for_daemon
\* that keeps going round sees the clock pass its timeout.
Fairness ==
  /\ \A c \in Callers :
       /\ WF_vars(Scan(c) \/ SetTag(c) \/ SetDest(c) \/ SetSock(c) \/ Send(c)
                  \/ Poll(c) \/ NothingToRecv(c) \/ Check(c))
       /\ SF_vars(TimeOut(c))
  /\ \A t \in Workers : WF_vars(PollStep(t))
  /\ WF_vars(Answer)

FairSpec == Spec /\ Fairness

-----------------------------------------------------------------------------
(* Properties. *)

\* Every variable has its type (SUPERNET.tags and the locals of the calls).
TypeOK ==
  /\ pc \in [Workers -> {"idle", "scan", "settag", "setdest", "setsock",
                         "send", "wait", "recv", "find", "clear", "put", "check"}]
  /\ result \in [Callers -> Calls \cup {Nothing, TimedOut, NullTag}]
  /\ calls \in [Callers -> Nat] /\ \A c \in Callers : calls[c] \in 0..MaxCalls[c]
  /\ tag \in [Callers -> Tag \cup {NoTag}] /\ slot \in [Workers -> 1..NumTags]
  /\ cell \in [Callers -> Calls \cup {Nothing, TimedOut}]
  /\ got \in [Workers -> Message \cup {Nothing}] /\ to \in [Workers -> Row]
  /\ tags \in [1..NumTags -> Row]
  /\ requests \subseteq Message /\ replies \subseteq Message
  /\ sent \subseteq Calls /\ left \subseteq Calls
  /\ lost \in BOOLEAN /\ mixed \in BOOLEAN

\* plugin_method returns the answer to its own request, or the late answer to
\* an earlier request of the same thread that had returned without one (the
\* reply is stored through the address of the dead frame, where the new call
\* has its result); an answer for another thread only after two threads took
\* one row of the table, or a tag came to stand in it twice.
OwnAnswer ==
  \A c \in Callers :
    pc[c] = "idle" /\ result[c] \in Calls /\ ~mixed =>
      result[c][1] = c /\ (result[c] = Current(c) \/ result[c] \in left)

\* A row of SUPERNET.tags is taken only while its call is being registered or
\* sent, or its reply is still to come, as long as no message is lost:
\* process_plugin_message gives back the row of every reply it handles, however
\* late, so that the table fills up with the rows of lost messages only.
RowsInUse ==
  ~mixed /\ ~lost =>
    \A i \in 1..NumTags : tags[i].tag # NoTag =>
      \/ \E c \in Callers : tag[c] = tags[i].tag /\ slot[c] = i
                          /\ pc[c] \in {"setdest", "setsock", "send"}
      \/ \E m \in requests \cup replies : m.tag = tags[i].tag
      \/ \E t \in Workers : got[t] # Nothing /\ got[t].tag = tags[i].tag
                          /\ pc[t] \in {"find", "clear"}

\* The answer to a call with a socket goes out on the socket and never into
\* the caller's *retstrp: the string is not given away twice, and
\* wait_for_daemon holds the API thread until its timeout.
ApiOnSocket ==
  ~mixed => \A c \in ApiCallers : result[c] \notin Calls

\* A call of plugin_method returns, also when its tag is a duplicate, the
\* table is full, or messages are lost.
EveryCallReturns == \A c \in Callers : pc[c] # "idle" ~> pc[c] = "idle"

\* As long as every request is answered and no message is lost, each row of
\* SUPERNET.tags that is taken is given back, after any timeouts and races
\* (a tag that came to stand in two rows apart: its one reply clears one).
RowsGivenBack ==
  \A i \in 1..NumTags :
    tags[i].tag # NoTag ~> (tags[i].tag = NoTag \/ lost \/ mixed)
=============================================================================
