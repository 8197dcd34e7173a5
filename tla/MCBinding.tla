------------------------------ MODULE MCBinding ------------------------------
(* Binding on small sets of chats, accounts and keys, all interchangeable. *)
EXTENDS Binding, TLC

Symmetry == Permutations(Chats) \cup Permutations(Accounts) \cup Permutations(Tokens)
=============================================================================
