------------------------- MODULE MCTicketLifecycle -------------------------
(* TicketLifecycle on small sets of chats, requests and tickets. *)
EXTENDS TicketLifecycle, TLC

\* Chats, requests and tickets are interchangeable: no operator picks one.
Symmetry ==
    Permutations(Chats) \cup Permutations(Keys) \cup Permutations(Tickets)
=============================================================================
