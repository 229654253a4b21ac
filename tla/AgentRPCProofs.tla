---------------------------- MODULE AgentRPCProofs ----------------------------
(***************************************************************************)
(* What plugin_method returns, proved for any number of callers, pollers,  *)
(* rows and calls (AgentRPC), from what AgentRPCRows shows of the rows and *)
(* the messages.                                                           *)
(***************************************************************************)
EXTENDS AgentRPCRows

-----------------------------------------------------------------------------
(* The last steps of a reply keep the rows in order. *)

\* The thread that handles a reply clears the row of its tag only.
LEMMA ClearRows ==
  ASSUME TypeOK, Busy, Rows, RowsInUse, ~mixed, NEW t \in Workers, ClearRow(t)
  PROVE  Rows' /\ RowsInUse'
<1>1. /\ pc[t] = "clear" /\ pc' = [pc EXCEPT ![t] = "put"]
      /\ tags' = [tags EXCEPT ![slot[t]] = Clear]
  BY DEF ClearRow, Goto
<1>0. pc[t] = "clear" /\ UNCHANGED <<tag, slot, got, to, requests, replies, lost, mixed>>
  BY DEF ClearRow, rpc, poll, net
<1>2. /\ slot[t] \in 1..NumTags /\ tags[slot[t]] = RowOf(got[t])
      /\ tags[slot[t]].tag = got[t].tag /\ got[t].tag # NoTag
  BY <1>1 DEF TypeOK, Rows, RowKept, RowOf, Busy
<1>3. /\ \A j \in 1..NumTags : j # slot[t] => tags'[j] = tags[j] /\ tags[j].tag # got[t].tag
      /\ tags'[slot[t]].tag = NoTag
  BY <1>1, <1>2 DEF TypeOK, Rows, OneRow, Clear
<1>4. \A u \in Workers :
        \/ u # t /\ pc'[u] = pc[u]
        \/ u = t /\ pc'[u] = "put"
  BY <1>1 DEF TypeOK
<1>5. OneRow' /\ OneMessage'
  BY <1>0, <1>3 DEF Rows, OneRow, OneMessage
<1>6. \A d \in Callers : pc'[d] \in {"setdest", "setsock", "send"} <=>
        Registering(d) /\ pc'[d] = pc[d]
  BY <1>4 DEF Registering, Workers
<1>7. OneRegistrar'
  BY <1>0, <1>6 DEF Rows, OneRegistrar, Registering
<1>8. Registered'
  <2>1. \A d \in Callers : Registering(d) => tags'[slot[d]] = tags[slot[d]]
    BY <1>0, <1>2, <1>3 DEF Rows, Registered, Handling, TypeOK, Workers
  <2> QED
    BY <1>0, <1>4, <1>6, <2>1 DEF Rows, Registered, Registering, Handling, Kind
<1>9. OneHandler'
  BY <1>0, <1>4 DEF Rows, OneHandler, Handling
<1>10. \A m \in Message : m.tag # got[t].tag =>
         \A i \in 1..NumTags : tags[i] = RowOf(m) => tags'[i] = RowOf(m)
  BY <1>2, <1>3 DEF RowOf
<1>11. RowKept'
  <2>1. \A m \in (requests \cup replies)' :
          m.tag # NoTag => \E i \in 1..NumTags : tags'[i] = RowOf(m)
    <3>1. \A m \in requests \cup replies : m \in Message
      BY DEF TypeOK
    <3>2. \A m \in requests \cup replies : m.tag # NoTag =>
            m.tag # got[t].tag /\ \E i \in 1..NumTags : tags[i] = RowOf(m)
      BY <1>0 DEF Rows, RowKept, OneHandler, Handling
    <3> QED
      BY <1>0, <1>10, <3>1, <3>2
  <2>2. \A u \in Workers :
          /\ pc'[u] = "find" => \E i \in 1..NumTags : tags'[i] = RowOf(got'[u])
          /\ pc'[u] = "clear" => tags'[slot'[u]] = RowOf(got'[u])
          /\ pc'[u] \in {"clear", "put"} => to'[u] = RowOf(got'[u])
    <3>1. \A u \in Workers : u # t /\ Handling(u) =>
            got[u] \in Message /\ got[u].tag # got[t].tag /\ slot[u] \in 1..NumTags
      BY <1>0 DEF Rows, OneHandler, Handling, TypeOK, Busy
    <3> QED
      BY <1>0, <1>4, <1>10, <3>1 DEF Rows, RowKept, Handling
  <2> QED
    BY <2>1, <2>2 DEF RowKept
<1>12. RowsInUse'
  <2> SUFFICES ASSUME ~lost', NEW i \in 1..NumTags, tags'[i].tag # NoTag
               PROVE  \/ \E d \in Callers : tag[d] = tags'[i].tag /\ slot[d] = i
                                           /\ pc'[d] \in {"setdest", "setsock", "send"}
                      \/ \E m \in (requests \cup replies)' : m.tag = tags'[i].tag
                      \/ \E u \in Workers : got[u] # Nothing /\ got[u].tag = tags'[i].tag
                                            /\ pc'[u] \in {"find", "clear"}
    BY <1>0 DEF RowsInUse
  <2>1. i # slot[t] /\ tags'[i] = tags[i] /\ tags[i].tag # got[t].tag
    BY <1>3
  <2> QED
    BY <1>0, <1>4, <2>1 DEF RowsInUse, Workers
<1> QED
  BY <1>5, <1>7, <1>8, <1>9, <1>11, <1>12 DEF Rows

\* Storing or sending a reply touches no row.
LEMMA PutRows ==
  ASSUME TypeOK, Busy, Rows, RowsInUse, ~mixed, NEW t \in Workers, Put(t)
  PROVE  Rows' /\ RowsInUse'
<1>1. /\ pc[t] = "put" /\ pc' = [pc EXCEPT ![t] = "recv"]
      /\ got' = [got EXCEPT ![t] = Nothing] /\ to' = [to EXCEPT ![t] = Clear]
  BY DEF Put, Goto
<1>0. pc[t] = "put" /\ UNCHANGED <<tag, slot, tags, requests, replies, lost, mixed>>
  BY DEF Put, net
<1>2. \A u \in Workers :
        \/ u # t /\ pc'[u] = pc[u] /\ got'[u] = got[u] /\ to'[u] = to[u]
        \/ u = t /\ pc'[u] = "recv"
  BY <1>1 DEF TypeOK
<1>3. \A d \in Callers : pc'[d] \in {"setdest", "setsock", "send"} <=>
        Registering(d) /\ pc'[d] = pc[d]
  BY <1>2 DEF Registering, Workers
<1>4. OneRow' /\ OneMessage'
  BY <1>0 DEF Rows, OneRow, OneMessage
<1>5. OneRegistrar'
  BY <1>0, <1>3 DEF Rows, OneRegistrar, Registering
<1>6. Registered'
  BY <1>0, <1>2, <1>3 DEF Rows, Registered, Registering, Handling, Kind
<1>7. OneHandler'
  BY <1>0, <1>2 DEF Rows, OneHandler, Handling
<1>8. RowKept'
  BY <1>0, <1>2 DEF Rows, RowKept, RowOf, Kind
<1>9. RowsInUse'
  BY <1>0, <1>2 DEF RowsInUse, Workers
<1> QED
  BY <1>4, <1>5, <1>6, <1>7, <1>8, <1>9 DEF Rows

-----------------------------------------------------------------------------
(* One answer to a call. *)

\* A step of a call that sends and receives nothing keeps it so.
LEMMA AsideAnswer ==
  ASSUME TypeOK, OneAnswer, NEW c \in Callers,
         NEW l \in {"idle", "scan", "settag", "setdest", "setsock", "send",
                   "wait", "recv", "check"},
         ~Serving(c), pc' = [pc EXCEPT ![c] = l],
         l \in {"scan", "settag", "setdest", "setsock", "send"} =>
           pc[c] \in {"scan", "settag", "setdest", "setsock", "send"},
         \A d \in Callers : cell'[d] = cell[d] \/ cell'[d] # Current(d),
         UNCHANGED <<calls, got, requests, replies>>
  PROVE  OneAnswer'
<1>1. \A t \in Workers : pc'[t] \in {"find", "clear", "put"} <=> Serving(t)
  BY DEF TypeOK, Serving
<1>2. \A d \in Callers : pc'[d] \in {"scan", "settag", "setdest", "setsock", "send"} =>
        pc[d] \in {"scan", "settag", "setdest", "setsock", "send"}
  BY DEF TypeOK, Workers
<1>3. \A d \in Callers : /\ Current(d)' = Current(d)
                         /\ NotUnderWay(Current(d)) => NotUnderWay(Current(d))'
  BY <1>1 DEF Current, NotUnderWay, Serving
<1>4. \A d \in Callers :
        /\ pc'[d] \in {"scan", "settag", "setdest", "setsock", "send"} =>
             NotUnderWay(Current(d))' /\ cell'[d] # Current(d)'
        /\ cell'[d] = Current(d)' => NotUnderWay(Current(d))'
  BY <1>2, <1>3 DEF OneAnswer
<1> QED
  BY <1>1, <1>4 DEF OneAnswer, Serving

\* A new call has a number no message has.
LEMMA CallAnswer ==
  ASSUME TypeOK, Busy, OneAnswer, NEW c \in Callers, Call(c) \/ CallUntagged(c)
  PROVE  OneAnswer'
<1>1. /\ calls' = [calls EXCEPT ![c] = calls[c] + 1]
      /\ cell' = [cell EXCEPT ![c] = Nothing] /\ pc[c] = "idle"
      /\ UNCHANGED <<got, replies>>
      /\ calls[c] < MaxCalls[c]
  BY DEF Call, CallUntagged, poll, net
<1>2. calls \in [Callers -> Nat] /\ cell \in [Callers -> Calls \cup {Nothing, TimedOut}]
  BY DEF TypeOK
<1>3. /\ \A d \in Callers : d # c => Current(d)' = Current(d)
      /\ Current(c)' = <<c, calls[c] + 1>> /\ Current(c)' \in Calls
  BY <1>1, <1>2, CallPair, RPCAssumption DEF Current
<1>4. \A k \in Calls : k[2] <= calls[k[1]] => k # Current(c)' /\ k[2] <= calls'[k[1]]
  BY <1>1, <1>2, <1>3, CallPair DEF Calls
<1>5. /\ \A m \in requests \cup replies : m.call \in Calls
      /\ \A t \in Workers : Serving(t) => got[t].call \in Calls
  BY DEF TypeOK, Message, Busy, Serving
<1>6. \/ requests' = requests
      \/ requests' = requests \cup {[tag |-> NoTag, call |-> Current(c)']}
  BY DEF Call, CallUntagged, net
<1>7. \A t \in Workers : pc'[t] \in {"find", "clear", "put"} <=> Serving(t)
  BY <1>1 DEF TypeOK, Serving, Call, CallUntagged, Goto, Workers
<1>8. NotUnderWay(Current(c)')
  BY <1>4, <1>5 DEF OneAnswer, NotUnderWay
<1>9. /\ requests' \cap replies' = {}
      /\ \A m, n \in requests' \cup replies' : m.call = n.call => m = n
      /\ \A t, u \in Workers :
           Serving(t)' /\ Serving(u)' /\ got'[t].call = got'[u].call => t = u
      /\ \A m \in requests' \cup replies' : \A t \in Workers :
           Serving(t)' => got'[t].call # m.call
  BY <1>1, <1>6, <1>7, <1>8 DEF OneAnswer, NotUnderWay, Serving
<1>10. /\ \A m \in requests' \cup replies' : m.call[2] <= calls'[m.call[1]]
       /\ \A t \in Workers : Serving(t)' => got'[t].call[2] <= calls'[got'[t].call[1]]
  <2>1. Current(c)'[2] <= calls'[Current(c)'[1]]
    BY <1>1, <1>2, <1>3
  <2> QED
    BY <1>1, <1>4, <1>5, <1>6, <1>7, <2>1 DEF OneAnswer, Serving
<1>11. ASSUME NEW d \in Callers
       PROVE  /\ pc'[d] \in {"scan", "settag", "setdest", "setsock", "send"} =>
                   NotUnderWay(Current(d))' /\ cell'[d] # Current(d)'
              /\ cell'[d] = Current(d)' => NotUnderWay(Current(d))'
  <2>1. CASE d # c
    <3>1. pc'[d] = pc[d] /\ cell'[d] = cell[d] /\ Current(d)' = Current(d)
      BY <1>1, <1>2, <1>3, <2>1 DEF TypeOK, Call, CallUntagged, Goto, Workers
    <3>2. Current(c)' # Current(d)
      BY <1>3, <2>1 DEF Current
    <3> QED
      BY <1>1, <1>6, <1>7, <3>1, <3>2 DEF OneAnswer, NotUnderWay, Serving
  <2>2. CASE d = c
    <3>1. cell'[d] # Current(d)'
      BY <1>1, <1>2, <1>3, <2>2, RPCAssumption
    <3>2. CASE Call(c)
      BY <1>1, <1>7, <1>8, <2>2, <3>1, <3>2 DEF Call, NotUnderWay, Serving, net
    <3>3. CASE CallUntagged(c)
      BY <1>1, <2>2, <3>1, <3>3 DEF CallUntagged
    <3> QED
      BY <3>2, <3>3
  <2> QED
    BY <2>1, <2>2
<1> QED
  BY <1>9, <1>10, <1>11 DEF OneAnswer

\* The request of a call is its first message.
LEMMA SendAnswer ==
  ASSUME TypeOK, Busy, OneAnswer, NEW c \in Callers, Send(c)
  PROVE  OneAnswer'
<1> DEFINE m0 == [tag |-> tag[c], call |-> Current(c)]
<1>1. \/ requests' = requests
      \/ requests' = requests \cup {m0}
  BY DEF Send
<1>2. PICK l \in {"idle", "wait"} : pc' = [pc EXCEPT ![c] = l]
  BY DEF Send, Proceed, Goto
<1>3. UNCHANGED <<calls, cell, got, replies>> /\ pc[c] = "send"
  BY DEF Send, poll
<1>4. \A t \in Workers : pc'[t] \in {"find", "clear", "put"} <=> Serving(t)
  BY <1>2, <1>3 DEF TypeOK, Serving
<1>5. NotUnderWay(Current(c)) /\ cell[c] # Current(c)
  BY <1>3 DEF OneAnswer
<1>6. /\ requests' \cap replies' = {}
      /\ \A m, n \in requests' \cup replies' : m.call = n.call => m = n
      /\ \A t, u \in Workers :
           Serving(t)' /\ Serving(u)' /\ got'[t].call = got'[u].call => t = u
      /\ \A m \in requests' \cup replies' : \A t \in Workers :
           Serving(t)' => got'[t].call # m.call
  BY <1>1, <1>3, <1>4, <1>5 DEF OneAnswer, NotUnderWay, Serving
<1>7. /\ \A m \in requests' \cup replies' : m.call[2] <= calls'[m.call[1]]
      /\ \A t \in Workers : Serving(t)' => got'[t].call[2] <= calls'[got'[t].call[1]]
  <2>1. m0.call[2] <= calls[m0.call[1]]
    BY DEF Current, TypeOK
  <2> QED
    BY <1>1, <1>3, <1>4, <2>1 DEF OneAnswer, Serving
<1>8. ASSUME NEW d \in Callers
      PROVE  /\ pc'[d] \in {"scan", "settag", "setdest", "setsock", "send"} =>
                  NotUnderWay(Current(d))' /\ cell'[d] # Current(d)'
             /\ cell'[d] = Current(d)' => NotUnderWay(Current(d))'
  <2>1. CASE d = c
    BY <1>2, <1>3, <1>5, <2>1 DEF TypeOK, Current, Workers
  <2>2. CASE d # c
    <3>1. Current(d) # Current(c) /\ pc'[d] = pc[d]
      BY <1>2, <2>2 DEF Current, TypeOK, Workers
    <3> QED
      BY <1>1, <1>3, <1>4, <3>1 DEF OneAnswer, NotUnderWay, Serving, Current
  <2> QED
    BY <2>1, <2>2
<1> QED
  BY <1>6, <1>7, <1>8 DEF OneAnswer

\* The agent answers a request once, or not at all.
LEMMA AnswerAnswer ==
  ASSUME TypeOK, OneAnswer, Answer
  PROVE  OneAnswer'
<1>1. PICK m0 \in requests :
        /\ requests' = requests \ {m0}
        /\ replies' = replies \/ replies' = replies \cup {m0}
  BY DEF Answer
<1>2. UNCHANGED <<pc, calls, cell, got>>
  BY DEF Answer, rpc, poll
<1>3. \A m \in requests' \cup replies' : m \in requests \cup replies
  BY <1>1
<1>4. \A d \in Callers :
        Current(d)' = Current(d) /\ (NotUnderWay(Current(d)) => NotUnderWay(Current(d))')
  BY <1>2, <1>3 DEF Current, NotUnderWay, Serving
<1>5. \A d \in Callers :
        /\ pc'[d] \in {"scan", "settag", "setdest", "setsock", "send"} =>
             NotUnderWay(Current(d))' /\ cell'[d] # Current(d)'
        /\ cell'[d] = Current(d)' => NotUnderWay(Current(d))'
  BY <1>2, <1>4 DEF OneAnswer
<1> QED
  BY <1>1, <1>2, <1>3, <1>5 DEF OneAnswer, Serving

\* A reply that is received, looked up and stored, or lost on the way, is the
\* one answer of its call.
LEMMA PollAnswer ==
  ASSUME TypeOK, Busy, OneAnswer, NEW t \in Workers, PollStep(t)
  PROVE  OneAnswer'
<1>0. UNCHANGED <<calls, requests>> /\ \A d \in Callers : Current(d)' = Current(d)
  BY DEF PollStep, Recv, Find, ClearRow, Put, Current, rpc, net
<1>1. CASE Recv(t)
  <2>1. PICK m0 \in replies :
          /\ replies' = replies \ {m0} /\ UNCHANGED cell
          /\ \A u \in Workers :
               \/ u # t /\ pc'[u] = pc[u] /\ got'[u] = got[u]
               \/ u = t /\ pc'[u] = "recv"
               \/ u = t /\ pc'[u] = "find" /\ got'[u] = m0
    BY <1>1 DEF Recv, Goto, TypeOK
  <2>2. \A m \in requests' \cup replies' : m \in requests \cup replies /\ m.call # m0.call
    BY <1>0, <2>1 DEF OneAnswer
  <2>3. \A d \in Callers : NotUnderWay(Current(d)) => NotUnderWay(Current(d))'
    BY <1>0, <2>1, <2>2 DEF NotUnderWay, Serving
  <2>4. \A d \in Callers :
          /\ pc'[d] \in {"scan", "settag", "setdest", "setsock", "send"} =>
               NotUnderWay(Current(d))' /\ cell'[d] # Current(d)'
          /\ cell'[d] = Current(d)' => NotUnderWay(Current(d))'
    BY <1>0, <2>1, <2>3 DEF OneAnswer, Workers
  <2> QED
    BY <1>0, <2>1, <2>2, <2>4 DEF OneAnswer, Serving
<1>2. CASE Find(t) \/ ClearRow(t)
  <2>1. UNCHANGED <<cell, got, replies>>
    BY <1>2 DEF Find, ClearRow, rpc, poll, net
  <2>2. \A u \in Workers : \/ u # t /\ pc'[u] = pc[u]
                           \/ u = t /\ Serving(u) /\ pc'[u] \in {"clear", "put"}
    BY <1>2 DEF Find, ClearRow, Goto, TypeOK, Serving
  <2>3. \A d \in Callers : NotUnderWay(Current(d)) => NotUnderWay(Current(d))'
    BY <1>0, <2>1, <2>2 DEF NotUnderWay, Serving
  <2>4. \A d \in Callers :
          /\ pc'[d] \in {"scan", "settag", "setdest", "setsock", "send"} =>
               NotUnderWay(Current(d))' /\ cell'[d] # Current(d)'
          /\ cell'[d] = Current(d)' => NotUnderWay(Current(d))'
    BY <1>0, <2>1, <2>2, <2>3 DEF OneAnswer, Workers
  <2> QED
    BY <1>0, <2>1, <2>2, <2>4 DEF OneAnswer, Serving
<1>3. CASE Put(t)
  <2>1. /\ replies' = replies /\ Serving(t)
        /\ \A u \in Workers : \/ u # t /\ pc'[u] = pc[u] /\ got'[u] = got[u]
                              \/ u = t /\ pc'[u] = "recv"
        /\ \A d \in Callers : cell'[d] = cell[d] \/ cell'[d] = got[t].call
    BY <1>3 DEF Put, Goto, TypeOK, Serving, net
  <2>2. \A d \in Callers : /\ NotUnderWay(Current(d)) => NotUnderWay(Current(d))'
                           /\ got[t].call = Current(d) => NotUnderWay(Current(d))'
    <3>1. \A d \in Callers : NotUnderWay(Current(d)) => NotUnderWay(Current(d))'
      BY <1>0, <2>1 DEF NotUnderWay, Serving
    <3>2. \A d \in Callers : got[t].call = Current(d) => NotUnderWay(Current(d))'
      BY <1>0, <2>1 DEF OneAnswer, NotUnderWay, Serving
    <3> QED
      BY <3>1, <3>2
  <2>3. \A d \in Callers :
          /\ pc'[d] \in {"scan", "settag", "setdest", "setsock", "send"} =>
               NotUnderWay(Current(d))' /\ cell'[d] # Current(d)'
          /\ cell'[d] = Current(d)' => NotUnderWay(Current(d))'
    <3>1. \A d \in Callers : NotUnderWay(Current(d)) => got[t].call # Current(d)
      BY <2>1 DEF NotUnderWay
    <3> QED
      BY <1>0, <2>1, <2>2, <3>1 DEF OneAnswer, Workers
  <2> QED
    BY <1>0, <2>1, <2>3 DEF OneAnswer, Serving
<1> QED
  BY <1>1, <1>2, <1>3 DEF PollStep

-----------------------------------------------------------------------------
(* Late answers. *)

\* A caller stops waiting when it has its answer, or leaves it behind.
LEMMA AwaitedKept ==
  ASSUME Expected, NEW c \in Callers, left \subseteq left',
         \A d \in Callers : d # c => pc'[d] = pc[d] /\ calls'[d] = calls[d],
         pc[c] \in Waiting =>
           /\ calls'[c] = calls[c]
           /\ pc'[c] \in Waiting \/ Current(c) \in left' \/ NotUnderWay(Current(c))
  PROVE  \A k \in Calls : NotUnderWay(k) \/ Awaited(k)'
<1> SUFFICES ASSUME NEW k \in Calls, ~NotUnderWay(k) PROVE Awaited(k)'
  OBVIOUS
<1>1. Awaited(k) /\ k[1] \in Callers
  BY CallPair DEF Expected, NotUnderWay
<1>2. CASE k \in left
  BY <1>2 DEF Awaited
<1>3. CASE k = Current(k[1]) /\ pc[k[1]] \in Waiting
  <2>1. calls'[k[1]] = calls[k[1]] /\ (pc'[k[1]] \in Waiting \/ k \in left')
    BY <1>1, <1>3
  <2> QED
    BY <1>3, <2>1 DEF Awaited, Current
<1> QED
  BY <1>1, <1>2, <1>3 DEF Awaited

\* Every step of plugin_method leaves every answer under way awaited.
LEMMA CallExpected ==
  ASSUME TypeOK, Busy, OneAnswer, Expected, NEW c \in Callers, CallStep(c)
  PROVE  Expected'
<1>1. /\ left \subseteq left' /\ UNCHANGED <<got, replies>>
      /\ \A d \in Workers : d # c => pc'[d] = pc[d]
      /\ \A d \in Callers : d # c => calls'[d] = calls[d]
  <2>1. \/ left' = left \/ left' = left \cup {Current(c)} \/ left' = left \cup {Current(c)'}
    BY DEF CallStep, Call, CallUntagged, Scan, Proceed, Return, SetTag, SetDest, SetSock, Send,
           TimeOut, Poll, NothingToRecv, Check, rpc
  <2>2. UNCHANGED <<got, replies>>
    BY DEF CallStep, Call, CallUntagged, Scan, SetTag, SetDest, SetSock, Send, TimeOut, Poll,
           NothingToRecv, Check, poll, net
  <2>3. \/ pc' = pc
        \/ \E l \in {"idle", "scan", "settag", "setdest", "setsock", "send", "wait", "recv",
                    "check"} : pc' = [pc EXCEPT ![c] = l]
    BY DEF CallStep, Call, CallUntagged, Scan, Proceed, SetTag, SetDest, SetSock, Send, TimeOut,
           Poll, NothingToRecv, Check, Goto
  <2>4. calls' = calls \/ calls' = [calls EXCEPT ![c] = @ + 1]
    BY DEF CallStep, Call, CallUntagged, Scan, SetTag, SetDest, SetSock, Send, TimeOut, Poll,
           NothingToRecv, Check, rpc
  <2> QED
    BY <2>1, <2>2, <2>3, <2>4 DEF TypeOK
<1>2. pc[c] \in Waiting =>
        /\ calls'[c] = calls[c]
        /\ pc'[c] \in Waiting \/ Current(c) \in left' \/ NotUnderWay(Current(c))
  <2> SUFFICES ASSUME pc[c] \in Waiting
               PROVE  /\ calls'[c] = calls[c]
                      /\ pc'[c] \in Waiting \/ Current(c) \in left' \/ NotUnderWay(Current(c))
    OBVIOUS
  <2>0. Current(c) \in Calls /\ c \in Workers
    BY CurrentCall DEF Waiting, Workers
  <2>1. CASE TimeOut(c)
    BY <2>0, <2>1, RPCAssumption DEF TimeOut, Return
  <2>2. CASE Poll(c) \/ NothingToRecv(c)
    BY <2>0, <2>2 DEF Poll, NothingToRecv, Goto, Waiting, TypeOK, rpc
  <2>3. CASE Check(c)
    <3>1. CASE cell[c] # Nothing
      BY <2>3, <3>1 DEF Check, Return, OneAnswer
    <3>2. CASE cell[c] = Nothing
      BY <2>0, <2>3, <3>2 DEF Check, Goto, Waiting, TypeOK
    <3> QED
      BY <3>1, <3>2
  <2> QED
    BY <2>1, <2>2, <2>3 DEF Waiting, CallStep, Call, CallUntagged, Scan, SetTag, SetDest, SetSock,
       Send
<1>3. \A k \in Calls : NotUnderWay(k) \/ Awaited(k)'
  BY <1>1, <1>2, AwaitedKept DEF Workers
<1>4. \A t \in Workers : pc'[t] \in {"find", "clear", "put"} => Serving(t)
  BY <1>1 DEF CallStep, Call, CallUntagged, Scan, Proceed, SetTag, SetDest, SetSock, Send,
         TimeOut, Poll, NothingToRecv, Check, Goto, TypeOK, Serving
<1>5. \A t \in Workers : pc'[t] \in {"find", "clear", "put"} => Awaited(got[t].call)'
  <2>1. \A t \in Workers : Serving(t) =>
          got[t].call \in Calls /\ ~NotUnderWay(got[t].call) /\ got'[t] = got[t]
    BY <1>1 DEF NotUnderWay, Busy, Serving, Message
  <2> QED
    BY <1>3, <1>4, <2>1 DEF Awaited, Current
<1>6. \A m \in requests \cup replies : Awaited(m.call)'
  BY <1>3 DEF NotUnderWay, TypeOK, Message
<1>7. \A m \in requests' : m \in requests \/ Awaited(m.call)'
  <2>1. CASE CallUntagged(c)
    BY <2>1 DEF CallUntagged, Awaited
  <2>2. CASE Send(c)
    <3>1. Current(c) \in Calls /\ c \in Workers /\ Current(c)' = Current(c)
      BY <2>2, CurrentCall DEF Send, Workers, Current
    <3>2. Current(c) \in left' \/ pc'[c] = "wait"
      BY <2>2, <3>1, RPCAssumption DEF Send, Proceed, Return, Goto, TypeOK
    <3>3. Awaited(Current(c))'
      BY <3>1, <3>2 DEF Awaited, Current, Waiting
    <3> QED
      BY <2>2, <3>1, <3>3 DEF Send
  <2> QED
    BY <2>1, <2>2 DEF CallStep, Call, Scan, SetTag, SetDest, SetSock, TimeOut, Poll,
       NothingToRecv, Check, net
<1> QED
  BY <1>1, <1>5, <1>6, <1>7 DEF Expected, Serving

\* So does every step of poll_daemons, and of the agent.
LEMMA PollExpected ==
  ASSUME TypeOK, Busy, Expected, (\E t \in Workers : PollStep(t)) \/ Answer
  PROVE  Expected'
<1>1. UNCHANGED <<calls, left>>
  BY DEF PollStep, Recv, Find, ClearRow, Put, Answer, rpc
<1>2. ASSUME \A t \in Workers : pc[t] \in Waiting => pc'[t] \in Waiting
      PROVE  \A k \in Calls : Awaited(k) => Awaited(k)'
  BY <1>1, <1>2, CallPair DEF Awaited, Current, Workers
<1>3. CASE Answer
  <2>1. UNCHANGED <<pc, got>> /\ \A m \in (requests \cup replies)' : m \in requests \cup replies
    BY <1>3 DEF Answer, poll
  <2> QED
    BY <1>1, <2>1 DEF Expected, Awaited, Serving, Current
<1>4. ASSUME NEW t \in Workers, PollStep(t) PROVE Expected'
  <2>1. /\ \A u \in Workers : u # t => pc'[u] = pc[u] /\ got'[u] = got[u]
        /\ pc'[t] \in {"recv", "find", "clear", "put"}
        /\ \A m \in (requests \cup replies)' : m \in requests \cup replies
        /\ pc'[t] \in {"find", "clear", "put"} =>
             (Serving(t) /\ got'[t] = got[t]) \/ got'[t] \in replies
    <3>1. CASE Recv(t)
      BY <3>1 DEF Recv, Goto, TypeOK
    <3>2. CASE Find(t) \/ ClearRow(t)
      BY <3>2 DEF Find, ClearRow, Goto, TypeOK, Serving, poll, net
    <3>3. CASE Put(t)
      BY <3>3 DEF Put, Goto, TypeOK, net
    <3> QED
      BY <1>4, <3>1, <3>2, <3>3 DEF PollStep
  <2>2. \A u \in Workers : pc[u] \in Waiting => pc'[u] \in Waiting
    BY <2>1 DEF Waiting
  <2>3. \A u \in Workers : pc'[u] \in {"find", "clear", "put"} =>
          Awaited(got'[u].call) /\ got'[u].call \in Calls
    <3>1. \A u \in Workers : Serving(u) => Awaited(got[u].call) /\ got[u].call \in Calls
      BY DEF Expected, Busy, Serving, Message
    <3>2. \A m \in replies : Awaited(m.call) /\ m.call \in Calls
      BY DEF Expected, TypeOK, Message
    <3> QED
      BY <2>1, <3>1, <3>2 DEF Serving
  <2>4. \A m \in (requests \cup replies)' : Awaited(m.call) /\ m.call \in Calls
    BY <2>1 DEF Expected, TypeOK, Message
  <2>5. \A k \in Calls : Awaited(k) =>
          k \in left' \/ (k = <<k[1], calls'[k[1]]>> /\ pc'[k[1]] \in Waiting)
    BY <1>2, <2>2 DEF Awaited, Current
  <2>6. \A m \in (requests \cup replies)' : Awaited(m.call)'
    BY <2>4, <2>5 DEF Awaited, Current
  <2>7. \A u \in Workers : Serving(u)' => Awaited(got[u].call)'
    BY <2>3, <2>5 DEF Awaited, Current, Serving
  <2> QED
    BY <2>6, <2>7 DEF Expected
<1> QED
  BY <1>3, <1>4

\* What plugin_method returns is an answer to the thread's own call.
LEMMA CallDelivered ==
  ASSUME TypeOK, Busy, Delivered, NEW c \in Callers, CallStep(c)
  PROVE  Delivered'
<1> USE RPCAssumption
<1>1. CASE Call(c) \/ CallUntagged(c)
  <2>1. /\ \A d \in Callers : d # c => Current(d)' = Current(d) /\ cell'[d] = cell[d]
                                      /\ result'[d] = result[d] /\ pc'[d] = pc[d]
        /\ cell'[c] = Nothing /\ left \subseteq left'
        /\ result'[c] = NullTag \/ (result'[c] = result[c] /\ pc'[c] = "scan")
    BY <1>1 DEF Call, CallUntagged, Goto, TypeOK, Current, Workers
  <2> QED
    BY <2>1 DEF Delivered
<1>2. CASE ~(Call(c) \/ CallUntagged(c))
  <2>1. /\ calls' = calls /\ \A d \in Callers : Current(d)' = Current(d)
        /\ \A d \in Callers : d # c => pc'[d] = pc[d]
    <3>1. calls' = calls
      BY <1>2 DEF CallStep, Scan, SetTag, SetDest, SetSock, Send, TimeOut, Poll, NothingToRecv,
         Check, rpc
    <3>2. \/ pc' = pc
          \/ \E l \in {"idle", "scan", "settag", "setdest", "setsock", "send", "wait", "recv",
                      "check"} : pc' = [pc EXCEPT ![c] = l]
      BY <1>2 DEF CallStep, Scan, Proceed, SetTag, SetDest, SetSock, Send, TimeOut,
         Poll, NothingToRecv, Check, Goto
    <3> QED
      BY <3>1, <3>2 DEF TypeOK, Current, Workers
  <2>2. CASE UNCHANGED <<result, left, cell>> /\ pc'[c] # "idle"
    BY <2>1, <2>2 DEF Delivered
  <2>3. CASE \E v \in {Nothing, TimedOut, cell[c]} :
               /\ Return(c, v)
               /\ cell' = cell \/ cell' = [cell EXCEPT ![c] = TimedOut]
    <3>1. /\ left \subseteq left'
          /\ \A d \in Callers : d # c => cell'[d] = cell[d] /\ result'[d] = result[d]
          /\ cell'[c] \in Calls => cell'[c] = cell[c]
          /\ result'[c] \in Calls => result'[c] = cell[c]
      BY <2>3 DEF Return, TypeOK
    <3> QED
      BY <2>1, <3>1 DEF Delivered
  <2>4. CASE Scan(c) \/ Send(c)
    <3>1. UNCHANGED cell
      BY <2>4 DEF Scan, Send
    <3>2. (UNCHANGED <<result, left>> /\ pc'[c] # "idle") \/ Return(c, Nothing)
      BY <2>4 DEF Scan, Send, Proceed, Goto, TypeOK, Workers
    <3> QED
      BY <2>2, <2>3, <3>1, <3>2
  <2>5. CASE TimeOut(c)
    BY <2>3, <2>5 DEF TimeOut
  <2>6. CASE Check(c)
    <3>1. UNCHANGED cell
      BY <2>6 DEF Check
    <3>2. (UNCHANGED <<result, left>> /\ pc'[c] # "idle") \/ Return(c, cell[c])
      BY <2>6 DEF Check, Goto, TypeOK, Workers
    <3> QED
      BY <2>2, <2>3, <3>1, <3>2
  <2>7. CASE SetTag(c) \/ SetDest(c) \/ SetSock(c) \/ Poll(c) \/ NothingToRecv(c)
    BY <2>2, <2>7 DEF SetTag, SetDest, SetSock, Poll, NothingToRecv, Goto, TypeOK, Workers, rpc
  <2> QED
    BY <1>2, <2>4, <2>5, <2>6, <2>7 DEF CallStep
<1> QED
  BY <1>1, <1>2

\* A reply is stored for the thread whose call it answers, unless that thread
\* has a socket.
LEMMA PollDelivered ==
  ASSUME TypeOK, Busy, Rows, Expected, Delivered, (\E t \in Workers : PollStep(t)) \/ Answer
  PROVE  Delivered'
<1> USE RPCAssumption
<1>1. UNCHANGED <<calls, left, result>> /\ \A d \in Callers : Current(d)' = Current(d)
  BY DEF PollStep, Recv, Find, ClearRow, Put, Answer, Current, rpc
<1>2. \A d \in Callers : pc'[d] = "idle" => pc[d] = "idle"
  <2>1. pc' = pc \/ \E t \in Workers, l \in {"recv", "find", "clear", "put"} : pc' = [pc EXCEPT ![t] = l]
    BY DEF PollStep, Recv, Find, ClearRow, Put, Answer, Goto
  <2> QED
    BY <2>1 DEF TypeOK, Workers
<1>3. CASE UNCHANGED cell
  BY <1>1, <1>2, <1>3 DEF Delivered
<1>4. ASSUME NEW t \in Workers, Put(t) PROVE Delivered'
  <2>1. /\ pc[t] = "put" /\ got[t] \in Message /\ got[t].call \in Calls
        /\ to[t] = RowOf(got[t])
    BY <1>4 DEF Put, Busy, Message, Rows, RowKept
  <2>2. /\ to[t].dest = got[t].call[1] /\ to[t].sock = Kind(got[t].call[1])
        /\ got[t].call[1] \in Callers
    BY <2>1, CallPair DEF RowOf
  <2>3. got[t].call \in left \/ got[t].call = Current(got[t].call[1])
    BY <2>1 DEF Expected, Serving, Awaited
  <2>4. CASE Kind(got[t].call[1]) = "api"
    BY <1>3, <1>4, <2>2, <2>4 DEF Put
  <2>5. CASE got[t].call[1] \notin ApiCallers
    <3>1. cell' = [cell EXCEPT ![got[t].call[1]] = got[t].call]
      BY <1>4, <2>2, <2>5 DEF Put, Kind
    <3> QED
      BY <1>1, <1>2, <2>1, <2>2, <2>3, <2>5, <3>1 DEF Delivered, TypeOK
  <2> QED
    BY <2>4, <2>5 DEF Kind
<1> QED
  BY <1>3, <1>4 DEF PollStep, Recv, Find, ClearRow, Answer, rpc

-----------------------------------------------------------------------------
(* Types. *)

\* What a call returns, or does not yet return, has its type.
LEMMA ReturnTypes ==
  ASSUME TypeOK, NEW c \in Callers, Current(c) \in Calls,
         \/ \E v \in Calls \cup {Nothing, TimedOut, NullTag} : Return(c, v)
         \/ UNCHANGED <<result, left>>
  PROVE  /\ left' \subseteq Calls
         /\ result' \in [Callers -> Calls \cup {Nothing, TimedOut, NullTag}]
<1>1. left' = left \/ left' = left \cup {Current(c)}
  BY DEF Return
<1>2. /\ left \subseteq Calls
      /\ result \in [Callers -> Calls \cup {Nothing, TimedOut, NullTag}]
  BY DEF TypeOK
<1>3. \/ result' = result
      \/ \E v \in Calls \cup {Nothing, TimedOut, NullTag} :
           result' = [result EXCEPT ![c] = v]
  BY DEF Return
<1> QED
  BY <1>1, <1>2, <1>3

\* After send_to_daemon a call returns nothing or waits.
LEMMA ProceedTypes ==
  ASSUME TypeOK, NEW c \in Callers, Current(c) \in Calls, Proceed(c)
  PROVE  /\ left' \subseteq Calls
         /\ result' \in [Callers -> Calls \cup {Nothing, TimedOut, NullTag}]
         /\ \E l \in {"idle", "wait"} : pc' = [pc EXCEPT ![c] = l]
<1>1. \/ pc' = [pc EXCEPT ![c] = "idle"] /\ Return(c, Nothing)
      \/ pc' = [pc EXCEPT ![c] = "wait"] /\ UNCHANGED <<result, left>>
  BY DEF Proceed, Goto
<1> QED
  BY <1>1, ReturnTypes

\* A row stays a row when one of its words is written.
LEMMA RowTypes ==
  ASSUME tags \in [1..NumTags -> Row], NEW i \in 1..NumTags,
         NEW g \in Tag \cup {NoTag}, NEW d \in Callers \cup {Nobody},
         NEW s \in {"zero", "local", "api"},
         \/ tags' = [tags EXCEPT ![i].tag = g, ![i].dest = d]
         \/ tags' = [tags EXCEPT ![i].dest = d]
         \/ tags' = [tags EXCEPT ![i].sock = s]
  PROVE  tags' \in [1..NumTags -> Row]
BY DEF Row

\* Every step of plugin_method keeps the types.
LEMMA CallTypes ==
  ASSUME TypeOK, Busy, NEW c \in Callers, CallStep(c)
  PROVE  TypeOK' /\ Busy'
<1> USE RPCAssumption DEF Workers
<1>0. c \in Workers /\ Current(c)' = <<c, calls'[c]>>
  BY DEF Current
<1>1. CASE Call(c)
  <2>1. <<c, calls[c] + 1>> \in Calls
    BY <1>1, CallPair DEF Call, TypeOK
  <2>2. calls' \in [Callers -> Nat] /\ \A d \in Callers : calls'[d] \in 0..MaxCalls[d]
    BY <1>1 DEF Call, TypeOK
  <2>3. PICK t \in Tag : tag' = [tag EXCEPT ![c] = t]
    <3>1. \E t \in {<<c, calls[c] + 1>>} \cup ClientTags : tag' = [tag EXCEPT ![c] = t]
      BY <1>1 DEF Call
    <3> QED
      BY ONLY <2>1, <3>1 DEF Tag
  <2>4. TypeOK'
    <3>1. /\ pc' = [pc EXCEPT ![c] = "scan"] /\ slot' = [slot EXCEPT ![c] = 1]
          /\ cell' = [cell EXCEPT ![c] = Nothing]
          /\ UNCHANGED <<result, left, got, to, tags, requests, replies, sent, lost, mixed>>
      BY <1>1 DEF Call, Goto, poll, net
    <3>2. 1 \in 1..NumTags
      BY RPCAssumption
    <3> QED
      BY <2>2, <2>3, <3>1, <3>2 DEF TypeOK
  <2>5. Busy'
    BY <1>1, <2>3 DEF Call, TypeOK, Busy, Goto, poll, net
  <2> QED
    BY <2>4, <2>5
<1>2. CASE CallUntagged(c)
  <2>1. Current(c)' \in Calls
    <3>1. calls'[c] = calls[c] + 1 /\ calls[c] \in Nat /\ calls[c] < MaxCalls[c]
      BY <1>2 DEF CallUntagged, TypeOK
    <3>2. calls'[c] \in 1..MaxCalls[c]
      BY <3>1
    <3> QED
      BY <1>0, <3>2, CallPair
  <2>2. calls' \in [Callers -> Nat] /\ \A d \in Callers : calls'[d] \in 0..MaxCalls[d]
    BY <1>2 DEF CallUntagged, TypeOK
  <2>3. TypeOK'
    BY <1>2, <2>1, <2>2 DEF CallUntagged, TypeOK, Message, poll
  <2>4. Busy'
    BY <1>2 DEF CallUntagged, TypeOK, Busy, poll
  <2> QED
    BY <2>3, <2>4
<1>3. CASE Scan(c)
  <2>1. Current(c) \in Calls
    BY <1>3, CurrentCall DEF Scan
  <2>2. left' \subseteq Calls /\ result' \in [Callers -> Calls \cup {Nothing, TimedOut, NullTag}]
    BY <1>3, <2>1, ReturnTypes, ProceedTypes DEF Scan
  <2>3. slot' \in [Workers -> 1..NumTags]
    <3>1. \/ slot' = slot
          \/ slot' = [slot EXCEPT ![c] = slot[c] + 1] /\ slot[c] < NumTags
      BY <1>3 DEF Scan
    <3>2. slot \in [Workers -> 1..NumTags] /\ NumTags \in Nat
      BY RPCAssumption DEF TypeOK
    <3> QED
      BY <1>0, <3>1, <3>2
  <2>4. \E l \in {"idle", "wait", "scan", "settag"} : pc' = [pc EXCEPT ![c] = l]
    <3>1. CASE Proceed(c)
      BY <2>1, <3>1, ProceedTypes
    <3>2. CASE pc' = pc
      BY <1>3, <3>2 DEF Scan, TypeOK
    <3> QED
      BY <1>3, <3>1, <3>2 DEF Scan, Goto
  <2>5. TypeOK'
    <3>1. UNCHANGED <<calls, tag, cell, got, to, tags, requests, replies, sent, lost, mixed>>
      BY <1>3 DEF Scan, poll, net
    <3> QED
      BY <2>2, <2>3, <2>4, <3>1 DEF TypeOK
  <2>6. Busy'
    BY <1>3, <2>4 DEF Scan, TypeOK, Busy, poll
  <2> QED
    BY <2>5, <2>6
<1>4. CASE SetTag(c)
  <2>1. tags' \in [1..NumTags -> Row]
    BY <1>0, <1>4, RowTypes DEF SetTag, TypeOK
  <2>2. TypeOK'
    BY <1>4, <2>1 DEF SetTag, TypeOK, Goto, rpc, poll, net
  <2>3. Busy'
    BY <1>4 DEF SetTag, TypeOK, Busy, Goto, rpc, poll
  <2> QED
    BY <2>2, <2>3
<1>5. CASE SetDest(c) \/ SetSock(c)
  <2>1. tags' \in [1..NumTags -> Row]
    BY <1>0, <1>5, RowTypes DEF SetDest, SetSock, TypeOK
  <2>2. /\ pc[c] \in {"setdest", "setsock"}
        /\ \E l \in {"setsock", "send"} : pc' = [pc EXCEPT ![c] = l]
        /\ UNCHANGED <<calls, tag, slot, cell, result, left, got, to>>
        /\ UNCHANGED <<requests, replies, sent, lost>> /\ mixed' \in BOOLEAN
    BY <1>5 DEF SetDest, SetSock, Goto, rpc, poll, net, TypeOK
  <2>3. TypeOK'
    BY <2>1, <2>2 DEF TypeOK
  <2>4. Busy'
    BY <1>0, <2>2, RPCAssumption DEF TypeOK, Busy, Workers
  <2> QED
    BY <2>3, <2>4
<1>6. CASE Send(c)
  <2>1. Current(c) \in Calls
    BY <1>6, CurrentCall DEF Send
  <2>2. left' \subseteq Calls /\ result' \in [Callers -> Calls \cup {Nothing, TimedOut, NullTag}]
    BY <1>6, <2>1, ProceedTypes DEF Send
  <2>3. requests' \subseteq Message
    BY <1>6, <2>1 DEF Send, TypeOK, Message
  <2>4. \E l \in {"idle", "wait"} : pc' = [pc EXCEPT ![c] = l]
    BY <1>6 DEF Send, Proceed, Goto
  <2>5. TypeOK'
    BY <1>6, <2>2, <2>3, <2>4 DEF Send, TypeOK, poll
  <2>6. Busy'
    BY <1>6, <2>4 DEF Send, TypeOK, Busy, poll
  <2> QED
    BY <2>5, <2>6
<1>7. CASE TimeOut(c)
  <2>1. Current(c) \in Calls
    BY <1>7, CurrentCall DEF TimeOut
  <2>2. TypeOK'
    BY <1>7, <2>1 DEF TimeOut, Return, TypeOK, Goto, poll, net
  <2>3. Busy'
    BY <1>7 DEF TimeOut, TypeOK, Busy, Goto, poll
  <2> QED
    BY <2>2, <2>3
<1>8. CASE Poll(c) \/ NothingToRecv(c)
  <2>1. /\ pc[c] \in {"wait", "recv"} /\ \E l \in {"recv", "check"} : pc' = [pc EXCEPT ![c] = l]
        /\ UNCHANGED <<calls, tag, slot, cell, result, left, got, to>>
        /\ UNCHANGED <<tags, requests, replies, sent, lost, mixed>>
    BY <1>8 DEF Poll, NothingToRecv, Goto, rpc, poll, net
  <2>2. TypeOK'
    BY <2>1 DEF TypeOK
  <2>3. Busy'
    BY <1>0, <2>1, RPCAssumption DEF TypeOK, Busy, Workers
  <2> QED
    BY <2>2, <2>3
<1>9. CASE Check(c)
  <2>1. Current(c) \in Calls
    BY <1>9, CurrentCall DEF Check
  <2>2. left' \subseteq Calls /\ result' \in [Callers -> Calls \cup {Nothing, TimedOut, NullTag}]
    BY <1>9, <2>1, ReturnTypes DEF Check, TypeOK
  <2>3. \E l \in {"idle", "wait"} : pc' = [pc EXCEPT ![c] = l]
    BY <1>9 DEF Check, Goto
  <2>4. TypeOK'
    BY <1>9, <2>2, <2>3 DEF Check, TypeOK, poll, net
  <2>5. Busy'
    BY <1>9, <2>3 DEF Check, TypeOK, Busy, poll
  <2> QED
    BY <2>4, <2>5
<1> QED
  BY <1>1, <1>2, <1>3, <1>4, <1>5, <1>6, <1>7, <1>8, <1>9 DEF CallStep

\* Every step of poll_daemons, and of the agent, keeps the types.
LEMMA PollTypes ==
  ASSUME TypeOK, Busy, NEW t \in Workers, PollStep(t)
  PROVE  TypeOK' /\ Busy'
<1>0. Clear \in Row
  BY DEF Clear, Row
<1>1. CASE Recv(t)
  <2>1. PICK m \in replies, dropped \in Losses :
          /\ replies' = replies \ {m} /\ lost' = (lost \/ dropped)
          /\ IF dropped THEN UNCHANGED <<pc, got, slot>>
             ELSE /\ pc' = [pc EXCEPT ![t] = IF m.tag = NoTag THEN "recv" ELSE "find"]
                  /\ got' = [got EXCEPT ![t] = IF m.tag = NoTag THEN Nothing ELSE m]
                  /\ slot' = [slot EXCEPT ![t] = 1]
    BY <1>1 DEF Recv, Goto
  <2>2. m \in Message /\ 1 \in 1..NumTags /\ pc[t] = "recv"
    BY <1>1, RPCAssumption DEF TypeOK, Recv
  <2>3. lost' \in BOOLEAN
    BY <2>1
  <2>4. got' \in [Workers -> Message \cup {Nothing}] /\ slot' \in [Workers -> 1..NumTags]
    BY <2>1, <2>2 DEF TypeOK
  <2>5. \E l \in {"recv", "find"} : pc' = [pc EXCEPT ![t] = l]
    BY <2>1, <2>2 DEF TypeOK
  <2>6. TypeOK'
    BY <1>1, <2>1, <2>3, <2>4, <2>5 DEF Recv, TypeOK
  <2>7. Busy'
    <3>1. UNCHANGED <<calls, tag>>
      BY <1>1 DEF Recv
    <3>2. t \in Callers => pc[t] # "idle"
      BY <2>2
    <3>3. pc'[t] = "find" => got'[t] \in Message /\ got'[t].tag # NoTag
      BY <2>1, <2>2 DEF TypeOK
    <3>4. \A u \in Workers : u # t => pc'[u] = pc[u] /\ got'[u] = got[u]
      BY <2>1 DEF TypeOK
    <3> QED
      BY <2>2, <2>5, <3>1, <3>2, <3>3, <3>4 DEF TypeOK, Busy, Workers
  <2> QED
    BY <2>6, <2>7
<1>2. CASE Find(t)
  <2>1. \E r \in Row : to' = [to EXCEPT ![t] = r]
    BY <1>2, <1>0 DEF Find, TypeOK, Row, Clear
  <2>2. slot' \in [Workers -> 1..NumTags]
    BY <1>2 DEF Find, TypeOK
  <2>3. \E l \in {"put", "clear"} : pc' = [pc EXCEPT ![t] = l]
    BY <1>2 DEF Find, Goto
  <2>4. TypeOK'
    BY <1>2, <2>1, <2>2, <2>3 DEF Find, TypeOK, net
  <2>5. Busy'
    BY <1>2, <2>3 DEF Find, TypeOK, Busy, Workers
  <2> QED
    BY <2>4, <2>5
<1>3. CASE ClearRow(t)
  <2>1. TypeOK'
    BY <1>3, <1>0 DEF ClearRow, TypeOK, Goto, rpc, poll, net
  <2>2. Busy'
    BY <1>3 DEF ClearRow, TypeOK, Busy, Workers, Goto, rpc, poll
  <2> QED
    BY <2>1, <2>2
<1>4. CASE Put(t)
  <2>1. got[t].call \in Calls
    BY <1>4 DEF Put, Busy, Message
  <2>2. sent' \subseteq Calls
    BY <1>4, <2>1 DEF Put, TypeOK
  <2>3. cell' \in [Callers -> Calls \cup {Nothing, TimedOut}]
    BY <1>4, <2>1 DEF Put, TypeOK, Row
  <2>4. TypeOK'
    BY <1>4, <1>0, <2>2, <2>3 DEF Put, TypeOK, Goto, net
  <2>5. Busy'
    BY <1>4 DEF Put, TypeOK, Busy, Workers, Goto
  <2> QED
    BY <2>4, <2>5
<1> QED
  BY <1>1, <1>2, <1>3, <1>4 DEF PollStep

\* The agent's answers keep the types.
LEMMA AnswerTypes == TypeOK /\ Busy /\ Answer => TypeOK' /\ Busy'
<1> SUFFICES ASSUME TypeOK, Busy, Answer PROVE TypeOK' /\ Busy'
  OBVIOUS
<1>1. lost' \in BOOLEAN
  BY DEF Answer
<1>2. requests' \subseteq Message /\ replies' \subseteq Message
  BY DEF Answer, TypeOK
<1> QED
  BY <1>1, <1>2 DEF Answer, TypeOK, Busy, rpc, poll

-----------------------------------------------------------------------------
(* The theorems. *)

\* Every step of a call keeps the rows in order.
LEMMA CallRows ==
  ASSUME TypeOK, Busy, Rows, RowsInUse, ~mixed, ~mixed', NEW c \in Callers, CallStep(c)
  PROVE  Rows' /\ RowsInUse'
<1>1. CASE SetTag(c) \/ SetDest(c) \/ SetSock(c)
  BY <1>1, RegisterRows
<1>2. CASE Send(c)
  BY <1>2, SendRows
<1>3. CASE CallUntagged(c)
  <2>1. [tag |-> NoTag, call |-> Current(c)'].tag = NoTag
    OBVIOUS
  <2> QED
    BY <1>3, <2>1, AnswerRows DEF CallUntagged, poll
<1>4. CASE Call(c)
  BY <1>4, Aside DEF Call, Goto, TypeOK, poll, net
<1>5. CASE Scan(c)
  <2>1. \/ pc' = [pc EXCEPT ![c] = "idle"] \/ pc' = [pc EXCEPT ![c] = "wait"]
        \/ pc' = [pc EXCEPT ![c] = "settag"] \/ pc' = [pc EXCEPT ![c] = "scan"]
    BY <1>5 DEF Scan, Proceed, Goto, TypeOK
  <2>2. \A t \in Workers : t # c => slot'[t] = slot[t]
    BY <1>5 DEF Scan, TypeOK
  <2>3. UNCHANGED <<tag, got, to, tags, requests, replies, lost, mixed>> /\ pc[c] = "scan"
    BY <1>5 DEF Scan, poll, net
  <2> QED
    BY <2>1, <2>2, <2>3, Aside
<1>6. CASE TimeOut(c) \/ Poll(c) \/ NothingToRecv(c)
  BY <1>6, Aside DEF TimeOut, Poll, NothingToRecv, Goto, rpc, poll, net
<1>7. CASE Check(c)
  BY <1>7, Aside DEF Check, Goto, poll, net
<1> QED
  BY <1>1, <1>2, <1>3, <1>4, <1>5, <1>6, <1>7 DEF CallStep

\* Every step of a call keeps its answer single.
LEMMA CallStepAnswer ==
  ASSUME TypeOK, Busy, OneAnswer, NEW c \in Callers, CallStep(c)
  PROVE  OneAnswer'
<1>1. CASE Call(c) \/ CallUntagged(c)
  BY <1>1, CallAnswer
<1>2. CASE Send(c)
  BY <1>2, SendAnswer
<1>3. CASE Scan(c)
  <2>1. \E l \in {"idle", "wait", "settag", "scan"} : pc' = [pc EXCEPT ![c] = l]
    BY <1>3 DEF Scan, Proceed, Goto, TypeOK
  <2>2. UNCHANGED <<calls, cell, got, requests, replies>> /\ pc[c] = "scan"
    BY <1>3 DEF Scan, poll, net
  <2> QED
    BY <2>1, <2>2, AsideAnswer DEF Serving
<1>4. CASE SetTag(c) \/ SetDest(c) \/ SetSock(c)
  BY <1>4, AsideAnswer DEF SetTag, SetDest, SetSock, Goto, Serving, rpc, poll, net
<1>5. CASE TimeOut(c)
  <2>1. Current(c) # TimedOut
    BY <1>5, CurrentCall, RPCAssumption DEF TimeOut
  <2>2. \A d \in Callers : cell'[d] = cell[d] \/ cell'[d] # Current(d)
    BY <1>5, <2>1 DEF TimeOut, TypeOK
  <2> QED
    BY <1>5, <2>2, AsideAnswer DEF TimeOut, Goto, Serving, poll, net
<1>6. CASE Poll(c) \/ NothingToRecv(c)
  BY <1>6, AsideAnswer DEF Poll, NothingToRecv, Goto, Serving, rpc, poll, net
<1>7. CASE Check(c)
  BY <1>7, AsideAnswer DEF Check, Goto, Serving, poll, net
<1> QED
  BY <1>1, <1>2, <1>3, <1>4, <1>5, <1>6, <1>7 DEF CallStep

\* Every step of poll_daemons, and of the agent, keeps the rows in order.
LEMMA PollRows ==
  ASSUME TypeOK, Busy, Rows, RowsInUse, ~mixed, (\E t \in Workers : PollStep(t)) \/ Answer
  PROVE  Rows' /\ RowsInUse'
<1>1. CASE Answer
  <2>1. PICK m0 \in requests :
          /\ requests' = requests \ {m0}
          /\ \/ replies' = replies /\ lost'
             \/ replies' = replies \cup {m0} /\ (lost => lost')
    BY <1>1 DEF Answer
  <2>2. UNCHANGED <<pc, tag, slot, got, to, tags>>
    BY <1>1 DEF Answer, rpc, poll
  <2> QED
    BY <2>1, <2>2, AnswerRows
<1> QED
  BY <1>1, RecvRows, FindRows, ClearRows, PutRows DEF PollStep

\* The invariant holds when no call has been made.
LEMMA InitInv == Init => Inv
<1> SUFFICES ASSUME Init PROVE Inv
  OBVIOUS
<1> USE RPCAssumption
<1>1. \A t \in Workers : pc[t] \in {"idle", "recv"} /\ (t \in Callers => pc[t] = "idle")
  BY DEF Init, Workers
<1>2. Clear \in Row /\ Clear.tag = NoTag
  BY DEF Clear, Row
<1>3. TypeOK
  <2>1. pc \in [Workers -> {"idle", "scan", "settag", "setdest", "setsock",
                            "send", "wait", "recv", "find", "clear", "put", "check"}]
    BY DEF Init
  <2>2. calls \in [Callers -> Nat] /\ \A c \in Callers : calls[c] \in 0..MaxCalls[c]
    BY DEF Init
  <2>3. to \in [Workers -> Row] /\ tags \in [1..NumTags -> Row]
    BY <1>2 DEF Init
  <2>4. lost \in BOOLEAN /\ mixed \in BOOLEAN
    BY DEF Init
  <2>5. slot \in [Workers -> 1..NumTags]
    BY DEF Init
  <2> QED
    BY <2>1, <2>2, <2>3, <2>4, <2>5 DEF Init, TypeOK
<1>4. Busy
  BY <1>1 DEF Busy, Init, Workers
<1>5. \A i \in 1..NumTags : tags[i].tag = NoTag
  BY <1>2 DEF Init
<1>6. Rows /\ RowsInUse
  BY <1>1, <1>5 DEF Rows, OneRow, OneRegistrar, Registered, OneMessage, OneHandler, RowKept,
     RowsInUse, Registering, Handling, Workers, Init
<1>7. OneAnswer /\ Expected
  BY <1>1 DEF OneAnswer, Expected, NotUnderWay, Serving, Init, Workers
<1>8. Delivered
  BY DEF Delivered, Init
<1> QED
  BY <1>3, <1>4, <1>6, <1>7, <1>8 DEF Inv

\* Every step of a caller, of poll_daemons and of the agent keeps it.
LEMMA NextInv == Inv /\ [Next]_vars => Inv'
<1> SUFFICES ASSUME Inv, [Next]_vars PROVE Inv'
  OBVIOUS
<1>1. TypeOK /\ Busy /\ OneAnswer /\ Expected /\ (~mixed => Rows /\ RowsInUse /\ Delivered)
  BY DEF Inv
<1>2. CASE \E c \in Callers : CallStep(c)
  <2>1. PICK c \in Callers : CallStep(c)
    BY <1>2
  <2>2. TypeOK' /\ Busy'
    BY <1>1, <2>1, CallTypes
  <2>3. OneAnswer' /\ Expected'
    BY <1>1, <2>1, CallStepAnswer, CallExpected
  <2>4. ~mixed' => ~mixed
    BY <2>1 DEF CallStep, Call, CallUntagged, Scan, SetTag, SetDest, SetSock, Send, TimeOut,
       Poll, NothingToRecv, Check
  <2>5. ~mixed' => (Rows /\ RowsInUse)' /\ Delivered'
    BY <1>1, <2>1, <2>4, CallRows, CallDelivered
  <2> QED
    BY <2>2, <2>3, <2>5 DEF Inv
<1>3. CASE (\E t \in Workers : PollStep(t)) \/ Answer
  <2>1. TypeOK' /\ Busy'
    BY <1>1, <1>3, PollTypes, AnswerTypes
  <2>2. OneAnswer' /\ Expected'
    BY <1>1, <1>3, PollAnswer, AnswerAnswer, PollExpected
  <2>3. mixed' = mixed
    BY <1>3 DEF PollStep, Recv, Find, ClearRow, Put, Answer
  <2>4. ~mixed' => (Rows /\ RowsInUse)' /\ Delivered'
    BY <1>1, <1>3, <2>3, PollRows, PollDelivered
  <2> QED
    BY <2>1, <2>2, <2>4 DEF Inv
<1>4. CASE UNCHANGED vars
  <2>1. TypeOK' /\ Busy'
    BY <1>1, <1>4 DEF vars, TypeOK, Busy
  <2>2. OneAnswer'
    BY <1>1, <1>4 DEF vars, OneAnswer, Serving, NotUnderWay, Current
  <2>3. Expected'
    BY <1>1, <1>4 DEF vars, Expected, Serving, Awaited, Current
  <2>4. ~mixed' => Rows'
    BY <1>1, <1>4 DEF vars, Rows, OneRow, OneRegistrar, Registered, OneMessage, OneHandler,
       RowKept, Registering, Handling
  <2>5. ~mixed' => RowsInUse' /\ Delivered'
    BY <1>1, <1>4 DEF vars, RowsInUse, Delivered, Current
  <2> QED
    BY <2>1, <2>2, <2>3, <2>4, <2>5 DEF Inv
<1> QED
  BY <1>2, <1>3, <1>4 DEF Next

\* The table and the messages of plugin_method agree: a row is taken by one
\* caller, stays as add_tagstr wrote it until the one reply is handled, and a
\* call is sent and answered at most once.
THEOREM TableInv == Spec => []Inv
BY InitInv, NextInv, PTL DEF Spec

\* Every variable of the calls keeps its type.
THEOREM CallsTyped == Spec => []TypeOK
<1>1. Inv => TypeOK
  BY DEF Inv
<1> QED
  BY <1>1, TableInv, PTL

\* For any number of threads, calls and rows, plugin_method returns an answer
\* of its own thread's, and an earlier one only of a call that had left.
THEOREM AnswersOwn == Spec => []OwnAnswer
<1>1. Inv => OwnAnswer
  BY DEF Inv, Delivered, OwnAnswer
<1> QED
  BY <1>1, TableInv, PTL

\* For any number of threads, calls and rows, process_plugin_message leaves no
\* row of SUPERNET.tags behind whose reply has been handled.
THEOREM NoStaleRow == Spec => []RowsInUse
<1>1. Inv => RowsInUse
  <2>1. mixed => RowsInUse
    BY DEF RowsInUse
  <2> QED
    BY <2>1 DEF Inv
<1> QED
  BY <1>1, TableInv, PTL

\* For any number of threads, calls and rows, the answer to a call with a
\* socket is never stored through its *retstrp.
THEOREM ApiAnswers == Spec => []ApiOnSocket
<1>1. Inv => ApiOnSocket
  BY RPCAssumption DEF Inv, Delivered, ApiOnSocket
<1> QED
  BY <1>1, TableInv, PTL
=============================================================================
