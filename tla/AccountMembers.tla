--------------------------- MODULE AccountMembers ---------------------------
(***************************************************************************)
(* What the registry promises about the chats bound to Zoho accounts: a    *)
(* chat is on at most one account, an account holds at most                *)
(* MaxChatsPerAccount of them, and they come and go one at a time.         *)
(***************************************************************************)
EXTENDS Naturals, FiniteSets

CONSTANTS Chats, Accounts, MaxChatsPerAccount

VARIABLE members    \* cf_telegram_chat_id of each account

Unbound(c) == \A a \in Accounts : c \notin members[a]

Init == members = [a \in Accounts |-> {}]

Join(c, a) ==
    /\ Unbound(c)
    /\ Cardinality(members[a]) < MaxChatsPerAccount
    /\ members' = [members EXCEPT ![a] = @ \cup {c}]

Leave(c, a) ==
    /\ c \in members[a]
    /\ members' = [members EXCEPT ![a] = @ \ {c}]

\* The operator deletes the account, and its bindings with it.
Dissolve(a) == members' = [members EXCEPT ![a] = {}]

Next ==
    \/ \E c \in Chats, a \in Accounts : Join(c, a) \/ Leave(c, a)
    \/ \E a \in Accounts : Dissolve(a)

Spec == Init /\ [][Next]_members
=============================================================================
