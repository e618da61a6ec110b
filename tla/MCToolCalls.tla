----------------------------- MODULE MCToolCalls ------------------------------
(* Instances of ToolCalls for TLC. *)
EXTENDS ToolCallsProps, TLC
===============================================================================
