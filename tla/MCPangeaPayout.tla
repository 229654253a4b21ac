--------------------------- MODULE MCPangeaPayout ---------------------------
(* Instances of PangeaPayout for TLC. *)
EXTENDS PangeaPayout, TLC
=============================================================================
