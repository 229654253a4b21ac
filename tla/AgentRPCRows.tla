----------------------------- MODULE AgentRPCRows -----------------------------
(***************************************************************************)
(* The table SUPERNET.tags and the messages of plugin_method (AgentRPC),   *)
(* for any number of callers, pollers, rows and calls.  SUPERNET.tags has  *)
(* no lock, so the argument is about who may touch a row: the caller that  *)
(* registers it, then nobody while its one message is under way, then the  *)
(* one thread that handles the reply.                                      *)
(***************************************************************************)
EXTENDS AgentRPC, TLAPS

\* add_tagstr has written the tag and the request is not sent yet; the reply
\* is received and its row not cleared yet; the third word of a caller's row.
Registering(c) == pc[c] \in {"setdest", "setsock", "send"}
Handling(t) == pc[t] \in {"find", "clear"}
Kind(c) == IF c \in ApiCallers THEN "api" ELSE "local"

\* The row add_tagstr made for the call m is about.
RowOf(m) == [tag |-> m.tag, dest |-> m.call[1], sock |-> Kind(m.call[1])]

\* Call k has returned without its answer, or its caller waits for it.
Waiting == {"wait", "recv", "find", "clear", "put", "check"}
Awaited(k) == k \in left \/ (k = Current(k[1]) /\ pc[k[1]] \in Waiting)

\* What each thread is about: a call has a number and a tag, and a thread
\* handles a reply that has one.
Busy ==
  /\ \A c \in Callers : pc[c] # "idle" => calls[c] > 0 /\ tag[c] \in Tag
  /\ \A t \in Workers : pc[t] \in {"find", "clear", "put"} =>
       got[t] \in Message /\ got[t].tag # NoTag
  /\ \A t \in Pollers : pc[t] \in {"recv", "find", "clear", "put"}

\* A tag stands in one row of SUPERNET.tags.
OneRow ==
  \A i, j \in 1..NumTags : tags[i].tag = tags[j].tag /\ tags[i].tag # NoTag => i = j

\* Two callers do not register one tag.
OneRegistrar ==
  \A c, d \in Callers : Registering(c) /\ Registering(d) /\ tag[c] = tag[d] => c = d

\* The row a caller registers holds what it has written, and nothing about
\* its tag is under way.
Registered ==
  \A c \in Callers : Registering(c) =>
    /\ tags[slot[c]].tag = tag[c]
    /\ pc[c] # "setdest" => tags[slot[c]].dest = c
    /\ pc[c] = "send" => tags[slot[c]].sock = Kind(c)
    /\ \A m \in requests \cup replies : m.tag # tag[c]
    /\ \A t \in Workers : Handling(t) => got[t].tag # tag[c]

\* A tag is in one request or one reply.
OneMessage ==
  /\ \A m, n \in requests \cup replies : m.tag = n.tag /\ m.tag # NoTag => m = n
  /\ \A m \in requests \cap replies : m.tag = NoTag

\* A reply is with one thread, and then in no message.
OneHandler ==
  \A t \in Workers : Handling(t) =>
    /\ \A m \in requests \cup replies : m.tag # got[t].tag
    /\ \A u \in Workers : Handling(u) /\ got[u].tag = got[t].tag => u = t

\* The row of a message is there until the handler of the reply clears it.
RowKept ==
  /\ \A m \in requests \cup replies :
       m.tag # NoTag => \E i \in 1..NumTags : tags[i] = RowOf(m)
  /\ \A t \in Workers :
       /\ pc[t] = "find" => \E i \in 1..NumTags : tags[i] = RowOf(got[t])
       /\ pc[t] = "clear" => tags[slot[t]] = RowOf(got[t])
       /\ pc[t] \in {"clear", "put"} => to[t] = RowOf(got[t])

\* A thread is in process_plugin_message with a reply.
Serving(t) == pc[t] \in {"find", "clear", "put"}

\* Neither a request nor a reply of call k is on its way or being handled.
NotUnderWay(k) ==
  /\ \A m \in requests \cup replies : m.call # k
  /\ \A t \in Workers : Serving(t) => got[t].call # k

\* A call is sent at most once and answered at most once: until it is sent,
\* and once its answer is stored, nothing about it is under way.
OneAnswer ==
  /\ requests \cap replies = {}
  /\ \A m, n \in requests \cup replies : m.call = n.call => m = n
  /\ \A t, u \in Workers :
       Serving(t) /\ Serving(u) /\ got[t].call = got[u].call => t = u
  /\ \A m \in requests \cup replies : \A t \in Workers :
       Serving(t) => got[t].call # m.call
  /\ \A m \in requests \cup replies : m.call[2] <= calls[m.call[1]]
  /\ \A t \in Workers : Serving(t) => got[t].call[2] <= calls[got[t].call[1]]
  /\ \A c \in Callers :
       /\ pc[c] \in {"scan", "settag", "setdest", "setsock", "send"} =>
            NotUnderWay(Current(c)) /\ cell[c] # Current(c)
       /\ cell[c] = Current(c) => NotUnderWay(Current(c))

\* Every answer that may still come is awaited.
Expected ==
  /\ \A m \in requests \cup replies : Awaited(m.call)
  /\ \A t \in Workers : Serving(t) => Awaited(got[t].call)

\* What is stored for c, and what c returned, is an answer to c.
Delivered ==
  \A c \in Callers :
    /\ cell[c] \in Calls =>
         c \notin ApiCallers /\ cell[c][1] = c /\ (cell[c] = Current(c) \/ cell[c] \in left)
    /\ result[c] \in Calls => c \notin ApiCallers /\ result[c][1] = c
    /\ pc[c] = "idle" /\ result[c] \in Calls => result[c] = Current(c) \/ result[c] \in left

\* What holds of the rows and the messages until a row is written over.
Rows == OneRow /\ OneRegistrar /\ Registered /\ OneMessage /\ OneHandler /\ RowKept

\* The table and the answers are in order until a row is written over.
Inv == /\ TypeOK /\ Busy /\ OneAnswer /\ Expected
       /\ ~mixed => Rows /\ RowsInUse /\ Delivered

-----------------------------------------------------------------------------
(* Calls. *)

\* A call is a pair of its caller and its number.
LEMMA CallPair ==
  /\ \A k \in Calls : k = <<k[1], k[2]>> /\ k[1] \in Callers
  /\ \A c \in Callers, n \in Nat : <<c, n>> \in Calls <=> n \in 1..MaxCalls[c]
BY RPCAssumption DEF Calls

\* The current call of a thread in plugin_method is one of its calls.
LEMMA CurrentCall ==
  ASSUME TypeOK, Busy, NEW c \in Callers, pc[c] # "idle"
  PROVE  Current(c) \in Calls
<1>1. calls[c] \in Nat /\ calls[c] \in 0..MaxCalls[c] /\ MaxCalls[c] \in Nat
  BY RPCAssumption DEF TypeOK
<1> QED
  BY <1>1, CallPair DEF Busy, Current

-----------------------------------------------------------------------------
(* The rows of SUPERNET.tags. *)

\* A step of a call that neither registers nor handles a reply leaves the rows
\* as they are.
LEMMA Aside ==
  ASSUME TypeOK, Rows, RowsInUse, NEW c \in Callers,
         NEW l \in {"idle", "scan", "settag", "wait", "recv", "check"},
         pc[c] \in {"idle", "scan", "settag", "wait", "recv", "check"},
         pc' = [pc EXCEPT ![c] = l],
         \A d \in Callers : d # c => tag'[d] = tag[d],
         \A t \in Workers : t # c => slot'[t] = slot[t],
         UNCHANGED <<got, to, tags, requests, replies, lost, mixed>>
  PROVE  Rows' /\ RowsInUse'
<1>1. \A t \in Workers :
        /\ Handling(t)' <=> Handling(t)
        /\ pc'[t] \in {"find", "clear", "put"} => pc'[t] = pc[t] /\ slot'[t] = slot[t]
  BY DEF TypeOK, Handling
<1>2. \A d \in Callers :
        /\ Registering(d)' <=> Registering(d)
        /\ Registering(d) => d # c /\ pc'[d] = pc[d]
                            /\ slot'[d] = slot[d] /\ tag'[d] = tag[d]
  BY DEF TypeOK, Registering, Workers
<1>3. OneRow' /\ OneMessage'
  BY DEF Rows, OneRow, OneMessage
<1>4. OneRegistrar'
  BY <1>2 DEF Rows, OneRegistrar
<1>5. Registered'
  BY <1>1, <1>2 DEF Rows, Registered, Registering, Handling, Kind
<1>6. OneHandler'
  BY <1>1 DEF Rows, OneHandler, Handling
<1>7. RowKept'
  <2>1. \A m \in (requests \cup replies)' :
          m.tag # NoTag => \E i \in 1..NumTags : tags'[i] = RowOf(m)
    BY DEF Rows, RowKept
  <2>2. \A t \in Workers :
          /\ pc'[t] = "find" => \E i \in 1..NumTags : tags'[i] = RowOf(got'[t])
          /\ pc'[t] = "clear" => tags'[slot'[t]] = RowOf(got'[t])
          /\ pc'[t] \in {"clear", "put"} => to'[t] = RowOf(got'[t])
    BY <1>1 DEF Rows, RowKept
  <2> QED
    BY <2>1, <2>2 DEF RowKept
<1>8. RowsInUse'
  <2> SUFFICES ASSUME ~mixed', ~lost', NEW i \in 1..NumTags, tags'[i].tag # NoTag
               PROVE  \/ \E d \in Callers : tag'[d] = tags'[i].tag /\ slot'[d] = i
                                           /\ Registering(d)'
                      \/ \E m \in (requests \cup replies)' : m.tag = tags'[i].tag
                      \/ \E t \in Workers : got'[t] # Nothing /\ got'[t].tag = tags'[i].tag
                                            /\ Handling(t)'
    BY DEF RowsInUse, Registering, Handling
  <2> QED
    BY <1>1, <1>2 DEF RowsInUse, Registering, Handling
<1> QED
  BY <1>3, <1>4, <1>5, <1>6, <1>7, <1>8 DEF Rows

\* Nobody else is about c's tag.
Own(c) ==
  /\ \A d \in Callers : Registering(d) /\ d # c => tag[d] # tag[c]
  /\ \A m \in requests \cup replies : m.tag # tag[c]
  /\ \A t \in Workers : Handling(t) => got[t].tag # tag[c]

\* A caller that writes its own row of the table disturbs no other.
LEMMA OwnRow ==
  ASSUME TypeOK, Busy, Rows, RowsInUse, NEW c \in Callers, Own(c),
         pc[c] \in {"settag", "setdest", "setsock"},
         NEW l \in {"setdest", "setsock", "send"},
         pc' = [pc EXCEPT ![c] = l],
         tags[slot[c]].tag \in {tag[c], NoTag},
         \A j \in 1..NumTags : j # slot[c] => tags'[j] = tags[j] /\ tags[j].tag # tag[c],
         tags'[slot[c]].tag = tag[c],
         l # "setdest" => tags'[slot[c]].dest = c,
         l = "send" => tags'[slot[c]].sock = Kind(c),
         ~mixed, UNCHANGED <<tag, slot, got, to, requests, replies, lost>>
  PROVE  Rows' /\ RowsInUse'
<1> USE RPCAssumption
<1>0. tag[c] \in Tag /\ tag[c] # NoTag /\ slot[c] \in 1..NumTags /\ c \in Workers
  BY DEF Busy, TypeOK, Workers
<1>1. \A t \in Workers :
        /\ Handling(t)' <=> Handling(t)
        /\ pc'[t] \in {"find", "clear", "put"} => pc'[t] = pc[t]
        /\ Handling(t) => got[t].tag # NoTag
  BY DEF TypeOK, Handling, Busy
<1>2. \A d \in Callers : d # c =>
        /\ Registering(d)' <=> Registering(d)
        /\ pc'[d] = pc[d]
  BY DEF TypeOK, Registering, Workers
<1>3. Registering(c)' /\ pc'[c] = l
  BY <1>0 DEF TypeOK, Registering
<1>4. \A d \in Callers : Registering(d) /\ d # c => slot[d] # slot[c] /\ slot[d] \in 1..NumTags
  BY <1>0 DEF Own, Rows, Registered, Busy, Registering, TypeOK, Workers
<1>5. \A m \in Message : m.tag # NoTag /\ m.tag # tag[c] =>
        \A i \in 1..NumTags : tags[i] = RowOf(m) => i # slot[c] /\ tags'[i] = RowOf(m)
  BY DEF RowOf
<1>6. OneRow'
  BY <1>0 DEF Rows, OneRow
<1>7. OneRegistrar'
  BY <1>2, <1>3 DEF Own, Rows, OneRegistrar
<1>8. Registered'
  <2> SUFFICES ASSUME NEW d \in Callers, Registering(d)'
               PROVE  /\ tags'[slot'[d]].tag = tag'[d]
                      /\ pc'[d] # "setdest" => tags'[slot'[d]].dest = d
                      /\ pc'[d] = "send" => tags'[slot'[d]].sock = Kind(d)
                      /\ \A m \in (requests \cup replies)' : m.tag # tag'[d]
                      /\ \A t \in Workers : Handling(t)' => got'[t].tag # tag'[d]
    BY DEF Registered
  <2>1. CASE d = c
    BY <1>1, <1>3, <2>1 DEF Own, Handling
  <2>2. CASE d # c
    <3>1. Registering(d) /\ pc'[d] = pc[d] /\ tags'[slot[d]] = tags[slot[d]]
      BY <1>2, <1>4, <2>2
    <3> QED
      BY <1>1, <3>1 DEF Rows, Registered, Handling
  <2> QED
    BY <2>1, <2>2
<1>9. OneMessage' /\ OneHandler'
  BY <1>1 DEF Rows, OneMessage, OneHandler, Handling
<1>10. RowKept'
  <2>1. \A m \in (requests \cup replies)' :
          m.tag # NoTag => \E i \in 1..NumTags : tags'[i] = RowOf(m)
    BY <1>5 DEF Rows, RowKept, TypeOK, Own
  <2>2. \A t \in Workers :
          /\ pc'[t] = "find" => \E i \in 1..NumTags : tags'[i] = RowOf(got'[t])
          /\ pc'[t] = "clear" => tags'[slot'[t]] = RowOf(got'[t])
          /\ pc'[t] \in {"clear", "put"} => to'[t] = RowOf(got'[t])
    BY <1>1, <1>5 DEF Rows, RowKept, TypeOK, Own, Handling, Busy
  <2> QED
    BY <2>1, <2>2 DEF RowKept
<1>11. RowsInUse'
  <2> SUFFICES ASSUME ~lost', NEW i \in 1..NumTags, tags'[i].tag # NoTag
               PROVE  \/ \E d \in Callers : tag'[d] = tags'[i].tag /\ slot'[d] = i
                                           /\ Registering(d)'
                      \/ \E m \in (requests \cup replies)' : m.tag = tags'[i].tag
                      \/ \E t \in Workers : got'[t] # Nothing /\ got'[t].tag = tags'[i].tag
                                            /\ Handling(t)'
    BY DEF RowsInUse, Registering, Handling
  <2>1. CASE i = slot[c]
    BY <1>3, <2>1
  <2>2. CASE i # slot[c]
    BY <1>1, <1>2, <2>2 DEF RowsInUse, Registering, Handling
  <2> QED
    BY <2>1, <2>2
<1> QED
  BY <1>6, <1>7, <1>8, <1>9, <1>10, <1>11 DEF Rows

\* add_tagstr registers a call in a row that is its own.
LEMMA RegisterRows ==
  ASSUME TypeOK, Busy, Rows, RowsInUse, ~mixed, ~mixed', NEW c \in Callers,
         SetTag(c) \/ SetDest(c) \/ SetSock(c)
  PROVE  Rows' /\ RowsInUse'
<1> USE RPCAssumption
<1>0. slot[c] \in 1..NumTags /\ tag[c] # NoTag /\ tags \in [1..NumTags -> Row] /\ c \in Workers
  <2>1. pc[c] \in {"settag", "setdest", "setsock"}
    BY DEF SetTag, SetDest, SetSock
  <2> QED
    BY <2>1 DEF TypeOK, Busy, Workers
<1>1. CASE SetTag(c)
  <2>1. tags[slot[c]].tag = NoTag /\ \A i \in 1..NumTags : tags[i].tag # tag[c]
    BY <1>1 DEF SetTag
  <2>2. Own(c)
    <3>1. \A d \in Callers : Registering(d) => tag[d] # tag[c]
      <4>1. \A d \in Callers : slot[d] \in 1..NumTags
        BY DEF TypeOK, Workers
      <4> QED
        BY <2>1, <4>1 DEF Rows, Registered
    <3>2. \A m \in requests \cup replies : m.tag # tag[c]
      <4>1. \A m \in requests \cup replies :
              m.tag # NoTag => \E i \in 1..NumTags : tags[i] = RowOf(m)
        BY DEF Rows, RowKept
      <4>2. \A m : RowOf(m).tag = m.tag
        BY DEF RowOf
      <4> QED
        BY <1>0, <2>1, <4>1, <4>2
    <3>3. \A t \in Workers : Handling(t) => got[t].tag # tag[c]
      <4>1. \A t \in Workers : Handling(t) => \E i \in 1..NumTags : tags[i] = RowOf(got[t])
        BY DEF Rows, RowKept, Handling, TypeOK
      <4>2. \A m : RowOf(m).tag = m.tag
        BY DEF RowOf
      <4> QED
        BY <2>1, <4>1, <4>2
    <3> QED
      BY <3>1, <3>2, <3>3 DEF Own
  <2>3. /\ pc[c] = "settag" /\ pc' = [pc EXCEPT ![c] = "setdest"]
        /\ tags' = [tags EXCEPT ![slot[c]].tag = tag[c], ![slot[c]].dest = Nobody]
        /\ UNCHANGED <<tag, slot, got, to, requests, replies, lost>>
    BY <1>1 DEF SetTag, Goto, rpc, poll, net
  <2>4. \A j \in 1..NumTags : j # slot[c] => tags'[j] = tags[j] /\ tags[j].tag # tag[c]
    BY <1>0, <2>1, <2>3
  <2>5. tags'[slot[c]].tag = tag[c]
    BY <1>0, <2>3 DEF Row
  <2> QED
    BY <2>1, <2>2, <2>3, <2>4, <2>5, OwnRow
<1>2. CASE SetDest(c) \/ SetSock(c)
  <2>1. Registering(c) /\ tags[slot[c]].tag = tag[c]
    BY <1>2 DEF SetDest, SetSock, Registering, Rows, Registered
  <2>2. Own(c)
    BY <2>1 DEF Own, Rows, OneRegistrar, Registered
  <2>3. /\ pc[c] \in {"setdest", "setsock"}
        /\ UNCHANGED <<tag, slot, got, to, requests, replies, lost, mixed>>
    BY <1>2 DEF SetDest, SetSock, rpc, poll, net
  <2>4. \A j \in 1..NumTags : j # slot[c] => tags'[j] = tags[j] /\ tags[j].tag # tag[c]
    BY <1>0, <1>2, <2>1 DEF SetDest, SetSock, Rows, OneRow
  <2>5. CASE SetDest(c)
    <3>1. tags'[slot[c]].tag = tag[c] /\ tags'[slot[c]].dest = c
      BY <1>0, <2>1, <2>5 DEF SetDest, Row
    <3>2. pc' = [pc EXCEPT ![c] = "setsock"]
      BY <2>5 DEF SetDest, Goto
    <3> QED
      BY <2>1, <2>2, <2>3, <2>4, <3>1, <3>2, OwnRow
  <2>6. CASE SetSock(c)
    <3>1. tags[slot[c]].dest = c
      BY <2>1, <2>6 DEF SetSock, Rows, Registered
    <3>2. /\ tags'[slot[c]].tag = tag[c] /\ tags'[slot[c]].dest = c
          /\ tags'[slot[c]].sock = Kind(c)
      BY <1>0, <2>1, <2>6, <3>1 DEF SetSock, Row, Kind
    <3>3. pc' = [pc EXCEPT ![c] = "send"]
      BY <2>6 DEF SetSock, Goto
    <3> QED
      BY <2>1, <2>2, <2>3, <2>4, <3>2, <3>3, OwnRow
  <2> QED
    BY <1>2, <2>5, <2>6
<1> QED
  BY <1>1, <1>2

\* send_to_daemon sends a request whose row is complete.
LEMMA SendRows ==
  ASSUME TypeOK, Busy, Rows, RowsInUse, ~mixed, NEW c \in Callers, Send(c)
  PROVE  Rows' /\ RowsInUse'
<1> DEFINE m0 == [tag |-> tag[c], call |-> Current(c)]
<1>0. c \in Workers /\ slot[c] \in 1..NumTags /\ Registering(c)
  BY DEF Send, TypeOK, Workers, Registering
<1>1. \/ requests' = requests /\ lost'
      \/ requests' = requests \cup {m0} /\ (lost => lost')
  BY DEF Send
<1>2. UNCHANGED <<tag, slot, got, to, tags, replies, mixed>>
  BY DEF Send, poll
<1>3. PICK l \in {"idle", "wait"} : pc' = [pc EXCEPT ![c] = l]
  BY DEF Send, Proceed, Goto
<1>4. tags[slot[c]] = RowOf(m0) /\ tag[c] # NoTag
  <2>1. tags[slot[c]] \in Row
    BY <1>0 DEF TypeOK
  <2>2. tags[slot[c]].tag = tag[c] /\ tags[slot[c]].dest = c /\ tags[slot[c]].sock = Kind(c)
    BY <1>0 DEF Send, Rows, Registered
  <2>3. tag[c] # NoTag
    BY RPCAssumption DEF Busy, Send
  <2> QED
    BY <2>1, <2>2, <2>3 DEF Row, RowOf, Current
<1>5. \A m \in (requests \cup replies)' : m \in requests \cup replies \/ m = m0
  BY <1>1, <1>2
<1>6. \A t \in Workers :
        /\ pc'[t] \in {"find", "clear"} <=> pc[t] \in {"find", "clear"}
        /\ pc'[t] \in {"find", "clear", "put"} => pc'[t] = pc[t]
  BY <1>3 DEF TypeOK, Send
<1>7. \A d \in Callers : Registering(d)' <=> Registering(d) /\ d # c
  BY <1>3 DEF TypeOK, Registering, Workers
<1>8. OneRow' /\ OneRegistrar'
  BY <1>2, <1>7 DEF Rows, OneRow, OneRegistrar
<1>9. \A m \in requests \cup replies : m.tag # tag[c]
  BY <1>0 DEF Rows, Registered
<1>10. Registered'
  <2> SUFFICES ASSUME NEW d \in Callers, Registering(d)'
               PROVE  /\ tags'[slot'[d]].tag = tag'[d]
                      /\ pc'[d] # "setdest" => tags'[slot'[d]].dest = d
                      /\ pc'[d] = "send" => tags'[slot'[d]].sock = Kind(d)
                      /\ \A m \in (requests \cup replies)' : m.tag # tag'[d]
                      /\ \A t \in Workers : Handling(t)' => got'[t].tag # tag'[d]
    BY DEF Registered
  <2>1. Registering(d) /\ d # c /\ pc'[d] = pc[d]
    BY <1>3, <1>7 DEF TypeOK, Workers
  <2>2. tag[d] # tag[c]
    BY <1>0, <2>1 DEF Rows, OneRegistrar
  <2> QED
    BY <1>2, <1>5, <1>6, <2>1, <2>2 DEF Rows, Registered, Handling
<1>11. OneMessage'
  <2>1. \A m, n \in (requests \cup replies)' : m.tag = n.tag /\ m.tag # NoTag => m = n
    BY <1>5, <1>9 DEF Rows, OneMessage
  <2>2. \A m \in (requests \cap replies)' : m.tag = NoTag
    BY <1>1, <1>2, <1>9 DEF Rows, OneMessage
  <2> QED
    BY <2>1, <2>2 DEF OneMessage
<1>12. OneHandler'
  <2>1. \A t \in Workers : Handling(t) => got[t].tag # tag[c]
    BY <1>0 DEF Rows, Registered
  <2> QED
    BY <1>2, <1>5, <1>6, <2>1 DEF Rows, OneHandler, Handling
<1>13. RowKept'
  <2>1. \A m \in (requests \cup replies)' :
          m.tag # NoTag => \E i \in 1..NumTags : tags'[i] = RowOf(m)
    BY <1>0, <1>2, <1>4, <1>5 DEF Rows, RowKept
  <2>2. \A t \in Workers :
          /\ pc'[t] = "find" => \E i \in 1..NumTags : tags'[i] = RowOf(got'[t])
          /\ pc'[t] = "clear" => tags'[slot'[t]] = RowOf(got'[t])
          /\ pc'[t] \in {"clear", "put"} => to'[t] = RowOf(got'[t])
    BY <1>2, <1>6 DEF Rows, RowKept
  <2> QED
    BY <2>1, <2>2 DEF RowKept
<1>14. RowsInUse'
  <2> SUFFICES ASSUME ~lost', NEW i \in 1..NumTags, tags'[i].tag # NoTag
               PROVE  \/ \E d \in Callers : tag'[d] = tags'[i].tag /\ slot'[d] = i
                                           /\ Registering(d)'
                      \/ \E m \in (requests \cup replies)' : m.tag = tags'[i].tag
                      \/ \E t \in Workers : got'[t] # Nothing /\ got'[t].tag = tags'[i].tag
                                            /\ Handling(t)'
    BY DEF RowsInUse, Registering, Handling
  <2>1. ~lost /\ requests' = requests \cup {m0}
    BY <1>1
  <2>2. CASE i = slot[c]
    <3>1. m0 \in (requests \cup replies)' /\ m0.tag = tags'[i].tag
      BY <1>2, <1>4, <2>1, <2>2 DEF RowOf
    <3> QED
      BY <3>1
  <2>3. CASE i # slot[c]
    BY <1>2, <1>6, <1>7, <2>1, <2>3 DEF RowsInUse, Registering, Handling
  <2> QED
    BY <2>2, <2>3
<1> QED
  BY <1>8, <1>10, <1>11, <1>12, <1>13, <1>14 DEF Rows

\* A request that the agent takes, answers or leaves, and one without a tag,
\* leave the rows as they are.
LEMMA AnswerRows ==
  ASSUME TypeOK, Busy, Rows, RowsInUse, ~mixed, NEW m0,
         \/ requests' = requests \cup {m0} /\ m0.tag = NoTag /\ replies' = replies
            /\ (lost => lost')
         \/ m0 \in requests /\ requests' = requests \ {m0} /\ replies' = replies /\ lost'
         \/ m0 \in requests /\ requests' = requests \ {m0}
            /\ replies' = replies \cup {m0} /\ (lost => lost'),
         UNCHANGED <<pc, tag, slot, got, to, tags>>
  PROVE  Rows' /\ RowsInUse'
<1>1. \A m \in (requests \cup replies)' : m \in requests \cup replies \/ m.tag = NoTag
  OBVIOUS
<1>2. /\ \A d \in Callers : Registering(d) => tag[d] # NoTag
      /\ \A t \in Workers : Handling(t) => got[t].tag # NoTag
  BY RPCAssumption DEF Busy, Registering, Handling
<1>3. OneRow' /\ OneRegistrar'
  BY DEF Rows, OneRow, OneRegistrar, Registering
<1>4. Registered'
  <2>1. \A d \in Callers : Registering(d) =>
          \A m \in (requests \cup replies)' : m.tag # tag[d]
    BY <1>1, <1>2 DEF Rows, Registered
  <2> QED
    BY <2>1 DEF Rows, Registered, Registering, Handling, Kind
<1>5. OneMessage'
  <2>1. \A m, n \in (requests \cup replies)' : m.tag = n.tag /\ m.tag # NoTag => m = n
    BY <1>1 DEF Rows, OneMessage
  <2>2. \A m \in (requests \cap replies)' : m.tag = NoTag
    BY DEF Rows, OneMessage
  <2> QED
    BY <2>1, <2>2 DEF OneMessage
<1>6. OneHandler'
  <2>1. \A t \in Workers : Handling(t) =>
          \A m \in (requests \cup replies)' : m.tag # got[t].tag
    BY <1>1, <1>2 DEF Rows, OneHandler
  <2> QED
    BY <2>1 DEF Rows, OneHandler, Handling
<1>7. RowKept'
  <2>1. \A m \in (requests \cup replies)' :
          m.tag # NoTag => \E i \in 1..NumTags : tags[i] = RowOf(m)
    BY <1>1 DEF Rows, RowKept
  <2> QED
    BY <2>1 DEF Rows, RowKept, RowOf, Kind
<1>8. RowsInUse'
  <2>1. ~lost' => \A m \in requests \cup replies : m \in (requests \cup replies)'
    OBVIOUS
  <2> QED
    BY <2>1 DEF RowsInUse
<1> QED
  BY <1>3, <1>4, <1>5, <1>6, <1>7, <1>8 DEF Rows

\* poll_daemons receives a reply, or loses one, or one without a tag.
LEMMA RecvRows ==
  ASSUME TypeOK, Busy, Rows, RowsInUse, ~mixed, NEW t \in Workers, Recv(t)
  PROVE  Rows' /\ RowsInUse'
<1>1. PICK m0 \in replies :
        /\ replies' = replies \ {m0} /\ requests' = requests
        /\ \/ lost' /\ UNCHANGED <<pc, got, slot>>
           \/ /\ lost => lost'
              /\ pc' = [pc EXCEPT ![t] = IF m0.tag = NoTag THEN "recv" ELSE "find"]
              /\ got' = [got EXCEPT ![t] = IF m0.tag = NoTag THEN Nothing ELSE m0]
              /\ slot' = [slot EXCEPT ![t] = 1]
  BY DEF Recv, Goto
<1>2. UNCHANGED <<tag, to, tags>> /\ pc[t] = "recv" /\ m0 \in Message
  BY DEF Recv, TypeOK
<1>3. \A u \in Workers :
        \/ u # t /\ pc'[u] = pc[u] /\ got'[u] = got[u] /\ slot'[u] = slot[u]
        \/ u = t /\ pc'[u] = "recv"
        \/ u = t /\ pc'[u] = "find" /\ got'[u] = m0 /\ m0.tag # NoTag
  BY <1>1, <1>2 DEF TypeOK
<1>4. \A m \in (requests \cup replies)' : m \in requests \cup replies
  BY <1>1
<1>5. m0.tag # NoTag => \A m \in (requests \cup replies)' : m.tag # m0.tag
  BY <1>1 DEF Rows, OneMessage
<1>a. m0 \in requests \cup replies
  BY <1>1
<1>b. Registered /\ OneHandler
  BY DEF Rows
<1>6. OneRow'
  BY <1>2 DEF Rows, OneRow
<1>7. \A d \in Callers : pc'[d] \in {"setdest", "setsock", "send"} =>
        Registering(d) /\ pc'[d] = pc[d] /\ slot'[d] = slot[d]
  BY <1>3 DEF Registering, Workers
<1>8. OneRegistrar'
  BY <1>2, <1>7 DEF Rows, OneRegistrar, Registering
<1>9. Registered'
  <2>1. \A d \in Callers : Registering(d) =>
          \A u \in Workers : pc'[u] \in {"find", "clear"} => got'[u].tag # tag[d]
    BY ONLY <1>3, <1>a, <1>b DEF Registered, Handling
  <2> QED
    BY ONLY <1>2, <1>4, <1>7, <1>b, <2>1 DEF Registered, Registering, Handling, Kind
<1>10. OneMessage'
  BY <1>1, <1>4 DEF Rows, OneMessage
<1>11. OneHandler'
  BY ONLY <1>3, <1>4, <1>5, <1>a, <1>b DEF OneHandler, Handling
<1>12. RowKept'
  <2>1. \A m \in (requests \cup replies)' :
          m.tag # NoTag => \E i \in 1..NumTags : tags'[i] = RowOf(m)
    BY <1>2, <1>4 DEF Rows, RowKept
  <2>2. \A u \in Workers :
          /\ pc'[u] = "find" => \E i \in 1..NumTags : tags'[i] = RowOf(got'[u])
          /\ pc'[u] = "clear" => tags'[slot'[u]] = RowOf(got'[u])
          /\ pc'[u] \in {"clear", "put"} => to'[u] = RowOf(got'[u])
    BY <1>2, <1>3 DEF Rows, RowKept
  <2> QED
    BY <2>1, <2>2 DEF RowKept
<1>13. RowsInUse'
  <2> SUFFICES ASSUME ~lost', NEW i \in 1..NumTags, tags[i].tag # NoTag
               PROVE  \/ \E d \in Callers : tag[d] = tags[i].tag /\ slot'[d] = i
                                           /\ pc'[d] \in {"setdest", "setsock", "send"}
                      \/ \E m \in (requests \cup replies)' : m.tag = tags[i].tag
                      \/ \E u \in Workers : got'[u] # Nothing /\ got'[u].tag = tags[i].tag
                                            /\ pc'[u] \in {"find", "clear"}
    BY <1>2 DEF RowsInUse
  <2>1. CASE m0.tag = tags[i].tag
    <3>1. pc'[t] = "find" /\ got'[t] = m0 /\ m0 # Nothing
      BY <1>1, <1>2, <2>1, RPCAssumption DEF TypeOK
    <3> QED
      BY <2>1, <3>1
  <2>2. CASE m0.tag # tags[i].tag
    BY <1>1, <1>2, <1>3, <2>2 DEF RowsInUse, Workers
  <2> QED
    BY <2>1, <2>2
<1> QED
  BY <1>6, <1>8, <1>9, <1>10, <1>11, <1>12, <1>13 DEF Rows

\* get_tagstr finds the row of the reply, and no other.
LEMMA FindRows ==
  ASSUME TypeOK, Busy, Rows, RowsInUse, ~mixed, NEW t \in Workers, Find(t)
  PROVE  Rows' /\ RowsInUse'
<1>1. PICK i \in 1..NumTags : tags[i] = RowOf(got[t])
  BY DEF Find, Rows, RowKept
<1>2. pc[t] = "find" /\ UNCHANGED <<tag, got, tags, requests, replies, lost, mixed>>
  BY DEF Find, net
<1>3. tags[i].tag = got[t].tag /\ tags[i].sock \in {"local", "api"} /\ got[t].tag # NoTag
  BY <1>1, <1>2 DEF RowOf, Kind, Busy
<1>4. {j \in 1..NumTags : tags[j].tag = got[t].tag} = {i}
  BY <1>3 DEF Rows, OneRow
<1>5. /\ slot' = [slot EXCEPT ![t] = i] /\ pc' = [pc EXCEPT ![t] = "clear"]
      /\ to' = [to EXCEPT ![t] = [tags[i] EXCEPT !.sock = tags[i].sock]]
  BY <1>3, <1>4 DEF Find, Goto
<1>6. [tags[i] EXCEPT !.sock = tags[i].sock] = tags[i]
  BY DEF TypeOK, Row
<1>7. \A u \in Workers :
        \/ u # t /\ pc'[u] = pc[u] /\ slot'[u] = slot[u] /\ to'[u] = to[u]
        \/ u = t /\ pc'[u] = "clear" /\ slot'[u] = i /\ to'[u] = tags[i]
  BY <1>5, <1>6 DEF TypeOK
<1>8. OneRow' /\ OneMessage'
  BY <1>2 DEF Rows, OneRow, OneMessage
<1>9. \A d \in Callers : pc'[d] \in {"setdest", "setsock", "send"} <=>
        Registering(d) /\ pc'[d] = pc[d] /\ slot'[d] = slot[d]
  BY <1>2, <1>7 DEF Registering, Workers
<1>10. OneRegistrar'
  BY <1>2, <1>9 DEF Rows, OneRegistrar, Registering
<1>11. Registered'
  BY <1>2, <1>7, <1>9 DEF Rows, Registered, Registering, Handling, Kind
<1>12. OneHandler'
  BY <1>2, <1>7 DEF Rows, OneHandler, Handling
<1>13. RowKept'
  <2>1. \A m \in (requests \cup replies)' :
          m.tag # NoTag => \E j \in 1..NumTags : tags'[j] = RowOf(m)
    BY <1>2 DEF Rows, RowKept
  <2>2. \A u \in Workers :
          /\ pc'[u] = "find" => \E j \in 1..NumTags : tags'[j] = RowOf(got'[u])
          /\ pc'[u] = "clear" => tags'[slot'[u]] = RowOf(got'[u])
          /\ pc'[u] \in {"clear", "put"} => to'[u] = RowOf(got'[u])
    BY <1>1, <1>2, <1>7 DEF Rows, RowKept
  <2> QED
    BY <2>1, <2>2 DEF RowKept
<1>14. RowsInUse'
  <2>1. \A d \in Callers : pc[d] \in {"setdest", "setsock", "send"} =>
          pc'[d] = pc[d] /\ slot'[d] = slot[d]
    BY <1>2, <1>7 DEF Workers
  <2>2. \A u \in Workers : pc[u] \in {"find", "clear"} => pc'[u] \in {"find", "clear"}
    BY <1>7
  <2> QED
    BY <1>2, <2>1, <2>2 DEF RowsInUse
<1> QED
  BY <1>8, <1>10, <1>11, <1>12, <1>13, <1>14 DEF Rows

=============================================================================
