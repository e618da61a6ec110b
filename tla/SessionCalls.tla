----------------------------- MODULE SessionCalls ------------------------------
(* The tool calls of a conversation that may be under way at one time. *)
CONSTANT Calls
===============================================================================
