---------------------------- MODULE MCPangeaHand ----------------------------
(* Instances of PangeaHand for TLC. *)
EXTENDS PangeaHand, TLC

CONSTANTS Small, Big,   \* the stacks the seats start with
          OnTable       \* at most so many chips together

MCStacks == {s \in [Players -> Small..Big] : SumFunction(s) <= OnTable}
=============================================================================
