---------------------------- MODULE ReplyChannel ----------------------------
(***************************************************************************)
(* What the poller promises to a client about the replies of an operator:  *)
(* a channel that may leave some out but never repeats or reorders one,    *)
(* carries only the operator's public replies, and ends with the closure   *)
(* notice.                                                                 *)
(***************************************************************************)
EXTENDS Naturals, Sequences

VARIABLES
    comments,   \* what is posted on the ticket, in order
    delivered,  \* which of it the client got, in order
    noticed     \* the closure notice is out

channel == <<comments, delivered, noticed>>

Init ==
    /\ comments = <<>>
    /\ delivered = <<>>
    /\ noticed = FALSE

Post ==
    /\ Len(comments') = Len(comments) + 1
    /\ comments = SubSeq(comments', 1, Len(comments))
    /\ UNCHANGED <<delivered, noticed>>

Deliver(i) ==
    /\ ~noticed
    /\ comments[i].kind = "reply"
    /\ \A n \in DOMAIN delivered : delivered[n] < i
    /\ delivered' = Append(delivered, i)
    /\ UNCHANGED <<comments, noticed>>

Notice ==
    /\ ~noticed
    /\ noticed' = TRUE
    /\ UNCHANGED <<comments, delivered>>

Next == Post \/ Notice \/ \E i \in DOMAIN comments : Deliver(i)

Spec == Init /\ [][Next]_channel
=============================================================================
