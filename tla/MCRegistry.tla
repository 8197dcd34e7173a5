----------------------------- MODULE MCRegistry -----------------------------
(* Registry on small sets of chats and accounts. *)
EXTENDS Registry, TLC

\* Accounts are interchangeable; chats are not, only some of them write.
Symmetry == Permutations(Accounts)
=============================================================================
