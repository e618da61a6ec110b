---------------------------- MODULE MCPluginGateway ----------------------------
(* Instances of PluginGateway for TLC. *)
EXTENDS PluginGatewayProps, TLC

Symmetry == Permutations(Clients) \union Permutations(Sockets)
===============================================================================
