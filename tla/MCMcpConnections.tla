--------------------------- MODULE MCMcpConnections ---------------------------
(* Instances of McpConnections for TLC. *)
EXTENDS McpConnectionsProps, TLC

Symmetry == Permutations(Servers) \union Permutations(Sessions) \union Permutations(Configs)
===============================================================================
