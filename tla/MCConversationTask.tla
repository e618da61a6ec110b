-------------------------- MODULE MCConversationTask --------------------------
(* Instances of ConversationTask for TLC. *)
EXTENDS ConversationTaskProps, TLC

Symmetry == Permutations(Messages) \union Permutations(Handles) \union Permutations(Requests)
===============================================================================
