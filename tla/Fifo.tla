-------------------------------- MODULE Fifo --------------------------------
(***************************************************************************)
(* What a queue_t promises the threads that share it: each call takes      *)
(* effect at one instant between its beginning and its return, on one      *)
(* first-in first-out list.  queue_delete is a second way to take the      *)
(* oldest entry: it compares each entry with itself.                       *)
(***************************************************************************)
EXTENDS Naturals, Sequences

CONSTANTS Threads, Entries, Nothing

VARIABLES
  list,   \* the entries, oldest first
  pc,     \* "idle", "called" or "done"
  op,     \* the call each thread is in
  arg,    \* the entry a queue_enqueue brings
  ret     \* what the last call returned

fifoVars == <<list, pc, op, arg, ret>>

Ops == {"enqueue", "dequeue", "delete", "size"}

Init ==
  /\ list = <<>>
  /\ pc = [t \in Threads |-> "idle"]
  /\ op = [t \in Threads |-> "size"]
  /\ arg = [t \in Threads |-> Nothing]
  /\ ret = [t \in Threads |-> Nothing]

Call(t, o, e) ==
  /\ pc[t] = "idle"
  /\ pc' = [pc EXCEPT ![t] = "called"]
  /\ op' = [op EXCEPT ![t] = o]
  /\ arg' = [arg EXCEPT ![t] = e]
  /\ ret' = [ret EXCEPT ![t] = Nothing]
  /\ UNCHANGED list

\* The list after the call o with entry e, and what the call returns.
After(o, e, l) ==
  CASE o = "enqueue" -> Append(l, e)
    [] o = "size" -> l
    [] OTHER -> IF l = <<>> THEN l ELSE Tail(l)

Result(o, l) ==
  CASE o = "enqueue" -> Nothing
    [] o = "size" -> <<Len(l)>>
    [] OTHER -> IF l = <<>> THEN Nothing ELSE <<Head(l)>>

Do(t) ==
  /\ pc[t] = "called"
  /\ list' = After(op[t], arg[t], list)
  /\ ret' = [ret EXCEPT ![t] = Result(op[t], list)]
  /\ pc' = [pc EXCEPT ![t] = "done"]
  /\ UNCHANGED <<op, arg>>

Return(t) ==
  /\ pc[t] = "done"
  /\ pc' = [pc EXCEPT ![t] = "idle"]
  /\ UNCHANGED <<list, op, arg, ret>>

Next ==
  \E t \in Threads :
    \/ \E o \in Ops, e \in Entries \cup {Nothing} : Call(t, o, e)
    \/ Do(t)
    \/ Return(t)

Spec == Init /\ [][Next]_fifoVars

=============================================================================
