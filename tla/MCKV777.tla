------------------------------- MODULE MCKV777 -------------------------------
(* Instances of KV777 for TLC. *)
EXTENDS KV777Durable

CONSTANTS a, b, short, other, long

\* Sizes in bytes: "short" and "other" differ in size but fill the same number
\* of words; "long" needs one word more.
MCKeySize == [k \in Keys |-> 4]
MCValueSize == [v \in Values |-> IF v = short THEN 3 ELSE IF v = other THEN 4 ELSE 5]
MCFixedSize == [v \in Values |-> 4]
MCZeroCrc == {<<b, long>>}
MCNoZeroCrc == {}
=============================================================================
