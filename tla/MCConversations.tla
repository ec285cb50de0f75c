-------------------------- MODULE MCConversations --------------------------
(* Small instances of Conversations for TLC. *)
EXTENDS Conversations, TLC

CONSTANTS a, b, k, c1, c2

(* One child, of the conversation that exists at the start. *)
OneKid == [x \in {k} |-> a]

Symmetry == Permutations(Callers)
=============================================================================
