------------------------------ MODULE MCJumblr -------------------------------
(* An instance of Jumblr for TLC: three nodes and two lists.  ann's order is  *)
(* cut to what ann1 can pay, and ann2 does not pay for it; bob's is above the *)
(* maximum; cy donates what is left over and the others share it.  The sums   *)
(* make every branch of jumblr_cointx possible.                               *)
EXTENDS Jumblr, TLC

CONSTANTS ann, bob, cy, ann1, ann2, bob1, cy1

MCOwner == (ann1 :> ann) @@ (ann2 :> ann) @@ (bob1 :> bob) @@ (cy1 :> cy)
MCValue == (ann1 :> 15) @@ (ann2 :> 14) @@ (bob1 :> 27) @@ (cy1 :> 26)
MCAsk == (ann :> 9) @@ (bob :> 18) @@ (cy :> 16)
MCLists == {<<ann, bob, cy>>, <<bob, cy, ann>>}

\* Each node may prepare a second coin, so that two shuffles can overlap.
MCPrepares == [n \in Nodes |-> 2]
=============================================================================
