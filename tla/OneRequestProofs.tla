-------------------------- MODULE OneRequestProofs --------------------------
(***************************************************************************)
(* One request per chat: OneRequestPerChat, WatchedIsMapped and            *)
(* TrackedUntilClosed of TicketLifecycle, for every set of chats, requests *)
(* and tickets, over crashes, restarts, lost answers of Zoho, dead         *)
(* contexts and truncated lists.  They need a Redis that answers, keys     *)
(* that do not expire, no unbinding and no second binding: TLC has a       *)
(* counterexample for each.  NobodyStranded needs other things: that       *)
(* nothing crashes, no context ends and Redis answers.                     *)
(***************************************************************************)
EXTENDS TicketLifecycleProofs

Undisturbed == Env \subseteq {"crash", "lost", "deadline", "overflow"}

-----------------------------------------------------------------------------
(* The types the requests depend on; the times of the tickets are no matter. *)

Types ==
    /\ fsm \in [Chats -> Saved \cup {"absent"}]
    /\ ticket \in [Chats -> Tickets \cup {NoTicket}]
    /\ active \in [Tickets -> Chats \cup {NoChat}]
    /\ queue \in Seq(Keys)
    /\ status \in [Tickets -> {"none", "open", "closed", "deleted"}]
    /\ keyOf \in [Tickets -> Keys \cup {NoKey}]
    /\ bound \in [Chats -> BOOLEAN]
    /\ author \in [Keys -> Chats \cup {NoChat}]
    /\ authorized \subseteq Chats
    /\ hpc \in [Chats -> HandlerPCs]
    /\ conv \in [Chats -> States]
    /\ hkey \in [Chats -> Keys \cup {NoKey}]
    /\ htkt \in [Chats -> Tickets \cup {NoTicket}]
    /\ expired \subseteq Chats
    /\ wkey \in Keys \cup {NoKey}
    /\ wtkt \in Tickets \cup {NoTicket}
    /\ remaining \in [Tickets -> Chats \cup {NoChat}]
    /\ listed \in [Tickets -> {"unlisted", "open", "closed"}]
    /\ HoldsOK

LEMMA TypesHold == TypeInv => Types
BY DEF TypeInv, TypeOK, Types

LEMMA TypesHoldNext == TypeInv' => Types'
BY DEF TypeInv, TypeOK, Types

-----------------------------------------------------------------------------
(* The inductive invariant.  A chat's request is in exactly one of four     *)
(* places: its handler, the queue, the worker, the watch set.               *)

WithHandler(c) == hpc[c] \in Creating \ {"revert"}
InQueue(c)     == \E i \in 1..Len(queue) : author[queue[i]] = c
WithWorker(c)  == wkey # NoKey /\ author[wkey] = c
Watched(c)     == \E t \in Tickets : active[t] = c

\* A request, and the ticket made for it, is held for the chat that wrote it.
Own ==
    /\ \A c \in Chats :
          /\ IF hpc[c] \in Creating
             THEN hkey[c] \in Keys /\ author[hkey[c]] = c
             ELSE hkey[c] = NoKey
          /\ hpc[c] \in {"set_ticket", "watch"} =>
                htkt[c] \in Tickets /\ keyOf[htkt[c]] = hkey[c] /\ active[htkt[c]] = NoChat
    /\ IF wpc \in {"idle", "baseline"}
       THEN wkey = NoKey
       ELSE wkey \in Keys /\ author[wkey] \in Chats
    /\ wpc \in {"set_ticket", "watch"} =>
          wtkt \in Tickets /\ keyOf[wtkt] = wkey /\ active[wtkt] = NoChat
    /\ \A i \in 1..Len(queue) : author[queue[i]] \in Chats
    /\ \A t \in Tickets :
          /\ active[t] # NoChat => keyOf[t] \in Keys /\ author[keyOf[t]] = active[t]
          /\ status[t] = "none" => keyOf[t] = NoKey

\* No chat has its request in two places, nor twice in the queue.
Exclusive ==
    /\ \A i, j \in 1..Len(queue) : author[queue[i]] = author[queue[j]] => i = j
    /\ \A c \in Chats :
          /\ InQueue(c) => ~WithWorker(c) /\ ~WithHandler(c) /\ ~Watched(c)
          /\ WithWorker(c) => ~WithHandler(c) /\ ~Watched(c)
          /\ WithHandler(c) => ~Watched(c)

\* A chat with a request is in ticket_open, unless its handler could not save
\* that, and then it can do nothing else either.
Silent ==
    \A c \in Chats :
        /\ fsm[c] # "ticket_open" =>
              /\ ~InQueue(c) /\ ~WithWorker(c) /\ ~Watched(c)
              /\ WithHandler(c) => c \in expired /\ hpc[c] \in {"create", "enqueue"}
        /\ hpc[c] = "revert" => c \in expired

\* The watched ticket is the chat's, and so is the one about to be watched.
Mapped ==
    /\ WatchedIsMapped
    /\ \A c \in Chats : hpc[c] = "watch" => ticket[c] = htkt[c]
    /\ wpc = "watch" => ticket[author[wkey]] = wtkt

\* A conversation loaded for the dialog is the saved one, not ticket_open; an
\* unbound chat has none.
Loaded ==
    \A c \in Chats :
        /\ hpc[c] = "loaded" /\ conv[c] # "ticket_open" => fsm[c] # "ticket_open"
        /\ hpc[c] = "greet" => fsm[c] # "ticket_open"
        /\ ~bound[c] => fsm[c] # "ticket_open"
        /\ ~bound[c] => hpc[c] = "free" /\ c \notin authorized
        /\ hpc[c] \notin Unbinding

\* The poller's snapshot of the watch set stays right until it acts on it, and
\* a chat being reset has no request elsewhere.
Closing ==
    /\ \A t \in Tickets :
          remaining[t] # NoChat /\ ~(ppc \in Unbinding /\ t = ptkt) => active[t] = remaining[t]
    /\ ppc \in Unbinding =>
          /\ fsm[ClosingChat] = "ticket_open"
          /\ ~InQueue(ClosingChat) /\ ~WithWorker(ClosingChat) /\ ~WithHandler(ClosingChat)
    /\ ppc \in {"get_ref", "unwatch"} => active[ptkt] = ClosingChat
    /\ ppc = "unwatch" => pref = ptkt
    /\ ppc \in {"unmark", "drop_ref", "drop_fsm"} => ~Watched(ClosingChat)

IInv == TypeInv /\ Own /\ Exclusive /\ Silent /\ Mapped /\ Loaded /\ Closing

-----------------------------------------------------------------------------
(* Each step of a handler *)

\* A step that changes nothing but times, or what was listed.
LEMMA TimesOnly ==
    ASSUME IInv, TypeInv',
           UNCHANGED <<fsm, ticket, active, queue, status, keyOf, bound, author, authorized,
                       handler, worker, ppc, remaining, ptkt, pref>>
    PROVE  IInv'
<1>1. Own' /\ Exclusive'
  BY DEF IInv, Own, Exclusive, WithHandler, InQueue, WithWorker, Watched, handler, worker
<1>2. Silent' /\ Mapped' /\ Loaded' /\ Closing'
  BY DEF IInv, Silent, Mapped, Loaded, Closing, WithHandler, InQueue, WithWorker, Watched,
         WatchedIsMapped, ClosingChat, handler, worker
<1> QED
  BY <1>1, <1>2 DEF IInv

\* A pushed request is in the queue, and the others stay.
LEMMA InQueueAfterPush ==
    ASSUME NEW k \in Keys, queue \in Seq(Keys), queue' = Append(queue, k),
           UNCHANGED author, NEW c
    PROVE  InQueue(c)' <=> InQueue(c) \/ author[k] = c
<1>1. /\ Len(queue) \in Nat /\ Len(queue') = Len(queue) + 1
      /\ \A i \in 1..Len(queue) : queue'[i] = queue[i]
      /\ queue'[Len(queue) + 1] = k
  OBVIOUS
<1>2. ASSUME InQueue(c) PROVE InQueue(c)'
  <2>1. PICK i \in 1..Len(queue) : author[queue[i]] = c
    BY <1>2 DEF InQueue
  <2>2. i \in 1..Len(queue') /\ author'[queue'[i]] = c
    BY <1>1, <2>1
  <2>3. QED
    BY <2>2 DEF InQueue
<1>3. ASSUME author[k] = c PROVE InQueue(c)'
  <2>1. Len(queue) + 1 \in 1..Len(queue')
    BY <1>1
  <2>2. QED
    BY <1>1, <1>3, <2>1 DEF InQueue
<1>4. ASSUME InQueue(c)', author[k] # c PROVE InQueue(c)
  <2>1. PICK i \in 1..Len(queue') : author[queue'[i]] = c
    BY <1>4 DEF InQueue
  <2>2. i \in 1..Len(queue)
    BY <1>1, <1>4, <2>1
  <2>3. QED
    BY <1>1, <2>1, <2>2 DEF InQueue
<1> QED
  BY <1>2, <1>3, <1>4

LEMMA HandlerPreserves ==
    ASSUME Undisturbed, IInv, NEW c \in Chats, HandlerStep(c)
    PROVE  IInv'
<1>t. Types
  BY TypesHold DEF IInv
<1> USE <1>t, NullAssumption DEF IInv, Types, HoldsOK, Own, Exclusive, Silent,
       Mapped, Loaded, Closing, WithHandler, InQueue, WithWorker, Watched,
       WatchedIsMapped, ClosingChat, Creating, Unbinding, redis, zoho, handler,
       worker, poller, Undisturbed
<1>0. TypeInv' /\ Types'
  BY HandlerType, TypesHoldNext
<1>1. ASSUME Authorize(c) PROVE IInv'
  BY <1>0, <1>1, SMTT(30) DEF Authorize
<1>2. ASSUME LoadConversation(c) PROVE IInv'
  BY <1>0, <1>2, SMTT(30) DEF LoadConversation, FreshConversation, Goto
<1>3. ASSUME Reply(c) PROVE IInv'
  BY <1>0, <1>3, SMTT(30) DEF Reply, Finish
<1>4. ASSUME Dialog(c) PROVE IInv'
  BY <1>0, <1>4, SMTT(30) DEF Dialog, Finish, SaveConversation, DialogSteps
<1>5. ASSUME NEW k \in Keys, FinalizeTicket(c, k) PROVE IInv'
  <2>0. /\ fsm[c] # "ticket_open"
        /\ ~InQueue(c) /\ ~WithWorker(c) /\ ~Watched(c)
    BY <1>5 DEF FinalizeTicket
  <2>a. /\ \A i \in 1..Len(queue) : queue[i] \in Keys \ {k}
        /\ wkey # k
        /\ \A d \in Chats : hkey[d] # k
        /\ \A t \in Tickets : active[t] # NoChat => keyOf[t] # k
    BY <1>5 DEF FinalizeTicket
  <2>b. \A d \in Chats : (InQueue(d)' <=> InQueue(d)) /\ (WithWorker(d)' <=> WithWorker(d))
    BY <1>5, <2>a DEF FinalizeTicket
  <2>1. Own'
    BY <1>0, <1>5, <2>0, <2>a, <2>b DEF FinalizeTicket, SaveConversation, Goto
  <2>2. Exclusive'
    BY <1>0, <1>5, <2>0, <2>a, <2>b DEF FinalizeTicket, SaveConversation, Goto
  <2>3. Silent'
    <3>1. \/ c \in expired /\ fsm' = fsm
          \/ fsm' = [fsm EXCEPT ![c] = "ticket_open"]
      BY <1>5 DEF FinalizeTicket, SaveConversation, Fails
    <3>2. /\ hpc' = [hpc EXCEPT ![c] = "create"]
          /\ UNCHANGED <<expired, active>>
      BY <1>5 DEF FinalizeTicket, Goto
    <3>3. QED
      BY <2>0, <2>b, <3>1, <3>2
  <2>4. Mapped'
    BY <1>0, <1>5, <2>0, <2>a, <2>b DEF FinalizeTicket, SaveConversation, Goto
  <2>5. Loaded'
    BY <1>0, <1>5, <2>0, <2>a, <2>b DEF FinalizeTicket, SaveConversation, Goto
  <2>6. Closing'
    BY <1>0, <1>5, <2>0, <2>a, <2>b DEF FinalizeTicket, SaveConversation, Goto
  <2> QED
    BY <1>0, <2>1, <2>2, <2>3, <2>4, <2>5, <2>6
<1>6. ASSUME NEW t \in Tickets, CreateTicket(c, t) PROVE IInv'
  <2>1. Own'
    <3>1. /\ hpc[c] = "create" /\ hpc' = [hpc EXCEPT ![c] = "set_ticket"]
          /\ htkt' = [htkt EXCEPT ![c] = t] /\ keyOf' = [keyOf EXCEPT ![t] = hkey[c]]
          /\ status[t] = "none" /\ status' = [status EXCEPT ![t] = "open"]
          /\ UNCHANGED <<active, queue, author, hkey, worker>>
      BY <1>6 DEF CreateTicket, Create, Goto
    <3>2. keyOf[t] = NoKey /\ active[t] = NoChat /\ hkey[c] \in Keys /\ author[hkey[c]] = c
      BY <3>1
    <3>3. \A d \in Chats \ {c} : hpc[d] \in {"set_ticket", "watch"} => htkt[d] # t
      BY <3>1, <3>2
    <3>4. wpc \in {"set_ticket", "watch"} => wtkt # t
      BY <3>1, <3>2
    <3>5. \A d \in Chats :
             /\ IF hpc'[d] \in Creating
                THEN hkey'[d] \in Keys /\ author'[hkey'[d]] = d
                ELSE hkey'[d] = NoKey
             /\ hpc'[d] \in {"set_ticket", "watch"} =>
                   /\ htkt'[d] \in Tickets
                   /\ keyOf'[htkt'[d]] = hkey'[d] /\ active'[htkt'[d]] = NoChat
      BY <3>1, <3>2, <3>3
    <3>6. wpc' \in {"set_ticket", "watch"} =>
             wtkt' \in Tickets /\ keyOf'[wtkt'] = wkey' /\ active'[wtkt'] = NoChat
      BY <3>1, <3>4
    <3>7. \A u \in Tickets :
             /\ active'[u] # NoChat => keyOf'[u] \in Keys /\ author'[keyOf'[u]] = active'[u]
             /\ status'[u] = "none" => keyOf'[u] = NoKey
      BY <3>1, <3>2
    <3>8. /\ IF wpc' \in {"idle", "baseline"}
             THEN wkey' = NoKey
             ELSE wkey' \in Keys /\ author'[wkey'] \in Chats
          /\ \A i \in 1..Len(queue') : author'[queue'[i]] \in Chats
      BY <3>1
    <3> HIDE DEF IInv, Types, HoldsOK, Undisturbed
    <3> QED
      BY <3>5, <3>6, <3>7, <3>8
  <2>2. Exclusive'
    BY <1>0, <1>6 DEF CreateTicket, Create, Goto
  <2>3. Silent'
    BY <1>0, <1>6 DEF CreateTicket, Create, Goto
  <2>4. Mapped'
    BY <1>0, <1>6 DEF CreateTicket, Create, Goto
  <2>5. Loaded'
    BY <1>0, <1>6 DEF CreateTicket, Create, Goto
  <2>6. Closing'
    BY <1>0, <1>6 DEF CreateTicket, Create, Goto
  <2> QED
    BY <1>0, <2>1, <2>2, <2>3, <2>4, <2>5, <2>6
<1>7. ASSUME NEW t \in Tickets, CreateTicketReplyLost(c, t) PROVE IInv'
  BY <1>0, <1>7, SMTT(30) DEF CreateTicketReplyLost, Create
<1>8. ASSUME CreateTicketFails(c) PROVE IInv'
  <2>1. /\ hpc[c] = "create" /\ hpc' = [hpc EXCEPT ![c] = "enqueue"]
        /\ UNCHANGED <<redis, zoho, bound, author, authorized, conv, hkey, htkt, expired,
                       worker, poller>>
    BY <1>8 DEF CreateTicketFails, Goto
  <2>2. \A d \in Chats : /\ WithHandler(d)' <=> WithHandler(d)
                        /\ InQueue(d)' <=> InQueue(d)
    BY <2>1
  <2>3. Own'
    BY <2>1
  <2>4. Exclusive'
    BY <2>1, <2>2
  <2>5. Silent'
    BY <2>1, <2>2
  <2>6. Mapped' /\ Loaded'
    BY <2>1
  <2>7. Closing'
    BY <2>1, <2>2
  <2> QED
    BY <1>0, <2>3, <2>4, <2>5, <2>6, <2>7
<1>9. ASSUME Enqueue(c) PROVE IInv'
  <2>0. /\ hkey[c] \in Keys /\ queue \in Seq(Keys) /\ WithHandler(c) /\ author[hkey[c]] = c
        /\ queue' = Append(queue, hkey[c]) /\ UNCHANGED author
    BY <1>9 DEF Enqueue, Pushed
  <2>1. /\ hpc' = [hpc EXCEPT ![c] = "free"] /\ hkey' = [hkey EXCEPT ![c] = NoKey]
        /\ conv' = [conv EXCEPT ![c] = "idle"] /\ expired' = expired \ {c}
        /\ UNCHANGED <<fsm, ticket, active, zoho, bound, author, authorized, worker, poller>>
        /\ \A d \in Chats \ {c} : htkt'[d] = htkt[d]
    BY <1>9 DEF Enqueue, Finish
  <2>a. \A d \in Chats : InQueue(d)' <=> InQueue(d) \/ d = c
    BY <2>0, InQueueAfterPush
  <2>b. \A d \in Chats : WithHandler(d)' <=> WithHandler(d) /\ d # c
    BY <2>0, <2>1
  <2>c. /\ Len(queue) \in Nat /\ Len(queue') = Len(queue) + 1
        /\ \A i \in 1..Len(queue) : queue'[i] = queue[i]
        /\ queue'[Len(queue) + 1] = hkey[c]
    BY <2>0
  <2>2. Own'
    BY <2>0, <2>1, <2>c
  <2>3. Exclusive'
    <3>1. \A i, j \in 1..Len(queue') :
             author'[queue'[i]] = author'[queue'[j]] => i = j
      <4>1. \A i \in 1..Len(queue) : author[queue[i]] # c
        BY <2>0
      <4> QED
        BY <2>0, <2>1, <2>c, <4>1
    <3> QED
      BY <2>0, <2>1, <2>a, <2>b, <3>1
  <2>4. Silent'
    BY <1>9, <2>0, <2>1, <2>a, <2>b DEF Enqueue
  <2>5. Mapped' /\ Loaded'
    BY <2>1
  <2>6. Closing'
    <3>1. /\ ppc \in Unbinding => ClosingChat # c /\ ClosingChat' = ClosingChat
          /\ \A d \in Chats : Watched(d)' <=> Watched(d)
          /\ \A d \in Chats : WithWorker(d)' <=> WithWorker(d)
      BY <2>0, <2>1
    <3>2. ppc \in Unbinding => ClosingChat \in Chats
      BY DEF PollerPCs
    <3> HIDE DEF InQueue, WithHandler, WithWorker, Watched, ClosingChat
    <3>3. ppc' \in Unbinding =>
             /\ ~InQueue(ClosingChat)' /\ ~WithHandler(ClosingChat)'
             /\ ~WithWorker(ClosingChat)' /\ fsm'[ClosingChat'] = "ticket_open"
      BY <2>1, <2>a, <2>b, <3>1, <3>2 DEF InQueue, WithHandler, WithWorker, ClosingChat
    <3> QED
      BY <2>1, <3>1, <3>3 DEF ClosingChat, Watched
  <2> QED
    BY <1>0, <2>2, <2>3, <2>4, <2>5, <2>6
<1>10. ASSUME EnqueueFails(c) PROVE IInv'
  BY <1>0, <1>10, SMTT(30) DEF EnqueueFails, Fails, Goto
<1>11. ASSUME RevertToConfirming(c) PROVE IInv'
  BY <1>0, <1>11, SMTT(30) DEF RevertToConfirming, Finish, SaveConversation
<1>12. ASSUME SetTicket(c) PROVE IInv'
  <2>1. Own'
    BY <1>0, <1>12 DEF SetTicket, Fails, Finish, Goto
  <2>2. Exclusive'
    BY <1>0, <1>12 DEF SetTicket, Fails, Finish, Goto
  <2>3. Silent'
    BY <1>0, <1>12 DEF SetTicket, Fails, Finish, Goto
  <2>4. Mapped'
    BY <1>0, <1>12, SMTT(30) DEF SetTicket, Fails, Finish, Goto
  <2>5. Loaded'
    BY <1>0, <1>12 DEF SetTicket, Fails, Finish, Goto
  <2>6. Closing'
    BY <1>0, <1>12 DEF SetTicket, Fails, Finish, Goto
  <2> QED
    BY <1>0, <2>1, <2>2, <2>3, <2>4, <2>5, <2>6
<1>13. ASSUME WatchTicket(c) PROVE IInv'
  <2>1. CASE Finish(c) /\ UNCHANGED active
    <3>1. Own'
      BY <1>0, <1>13, <2>1 DEF WatchTicket, Finish
    <3>2. Exclusive'
      BY <1>0, <1>13, <2>1 DEF WatchTicket, Finish
    <3>3. Silent'
      BY <1>0, <1>13, <2>1 DEF WatchTicket, Finish
    <3>4. Mapped'
      BY <1>0, <1>13, <2>1 DEF WatchTicket, Finish
    <3>5. Loaded'
      BY <1>0, <1>13, <2>1 DEF WatchTicket, Finish
    <3>6. Closing'
      BY <1>0, <1>13, <2>1 DEF WatchTicket, Finish
    <3> QED
      BY <1>0, <3>1, <3>2, <3>3, <3>4, <3>5, <3>6
  <2>2. CASE /\ c \notin expired
             /\ active' = [active EXCEPT ![htkt[c]] = c]
             /\ hpc' = [hpc EXCEPT ![c] = "baseline"]
             /\ hkey' = [hkey EXCEPT ![c] = NoKey]
             /\ UNCHANGED <<conv, htkt, expired>>
    <3>1. Own'
      BY <1>0, <1>13, <2>2 DEF WatchTicket
    <3>2. Exclusive'
      BY <1>0, <1>13, <2>2 DEF WatchTicket
    <3>3. Silent'
      BY <1>0, <1>13, <2>2 DEF WatchTicket
    <3>4. Mapped'
      BY <1>0, <1>13, <2>2 DEF WatchTicket
    <3>5. Loaded'
      BY <1>0, <1>13, <2>2 DEF WatchTicket
    <3>6. Closing'
      BY <1>0, <1>13, <2>2 DEF WatchTicket
    <3> QED
      BY <1>0, <3>1, <3>2, <3>3, <3>4, <3>5, <3>6
  <2> QED
    BY <1>13, <2>1, <2>2 DEF WatchTicket, Goto
<1>14. ASSUME Deadline(c) PROVE IInv'
  BY <1>0, <1>14, SMTT(30) DEF Deadline
<1>15. ASSUME BaselineTicket(c) PROVE IInv'
  BY <1>0, <1>15, SMTT(30) DEF BaselineTicket, Fails, Finish
<1> HIDE DEF IInv
<1> QED
  BY <1>1, <1>2, <1>3, <1>4, <1>5, <1>6, <1>7, <1>8, <1>9, <1>10, <1>11,
     <1>12, <1>13, <1>14, <1>15 DEF HandlerStep

-----------------------------------------------------------------------------
(* ... of a binding (there is no unbinding) *)

LEMMA BindingPreserves ==
    ASSUME Undisturbed, IInv, NEW c \in Chats, BindingStep(c)
    PROVE  IInv'
<1>t. Types
  BY TypesHold DEF IInv
<1> USE <1>t, NullAssumption DEF IInv, Types, HoldsOK, Own, Exclusive, Silent,
       Mapped, Loaded, Closing, WithHandler, InQueue, WithWorker, Watched,
       WatchedIsMapped, ClosingChat, Creating, Unbinding, redis, zoho, handler,
       worker, poller, Undisturbed
<1>0. TypeInv' /\ Types'
  BY BindingType, TypesHoldNext
<1>1. ASSUME Bind(c) PROVE IInv'
  BY <1>0, <1>1, SMTT(30) DEF Bind, Goto
<1>2. ASSUME StartFlow(c) PROVE IInv'
  BY <1>0, <1>2, SMTT(30) DEF StartFlow, SaveConversation, Finish
<1>3. ASSUME Revoke(c) PROVE IInv'
  BY <1>0, <1>3, SMTT(30) DEF Revoke
<1>4. ASSUME UnbindGetTicket(c) PROVE IInv'
  BY <1>0, <1>4, SMTT(30) DEF UnbindGetTicket
<1>5. ASSUME UnbindUnwatch(c) PROVE IInv'
  BY <1>0, <1>5, SMTT(30) DEF UnbindUnwatch
<1>6. ASSUME UnbindDropTicket(c) PROVE IInv'
  BY <1>0, <1>6, SMTT(30) DEF UnbindDropTicket
<1>7. ASSUME UnbindDropFSM(c) PROVE IInv'
  BY <1>0, <1>7, SMTT(30) DEF UnbindDropFSM
<1>8. ASSUME UnbindUnmark(c) PROVE IInv'
  BY <1>0, <1>8, SMTT(30) DEF UnbindUnmark, Goto
<1> HIDE DEF IInv
<1> QED
  BY <1>1, <1>2, <1>3, <1>4, <1>5, <1>6, <1>7, <1>8 DEF BindingStep

-----------------------------------------------------------------------------
(* ... of the worker *)

LEMMA WorkerPreserves ==
    ASSUME Undisturbed, IInv, WorkerStep
    PROVE  IInv'
<1>t. Types
  BY TypesHold DEF IInv
<1> USE <1>t, NullAssumption DEF IInv, Types, HoldsOK, Own, Exclusive, Silent,
       Mapped, Loaded, Closing, WithHandler, InQueue, WithWorker, Watched,
       WatchedIsMapped, ClosingChat, Creating, Unbinding, redis, zoho, handler,
       worker, poller, Undisturbed
<1>0. TypeInv' /\ Types'
  BY WorkerType, TypesHoldNext
<1>1. ASSUME DequeueTicket PROVE IInv'
  <2>0. /\ \A i \in 1..Len(Tail(queue)) :
              i + 1 \in 1..Len(queue) /\ Tail(queue)[i] = queue[i + 1]
        /\ 1 \in 1..Len(queue) /\ Head(queue) = queue[1]
        /\ wkey = NoKey
    BY <1>1 DEF DequeueTicket
  <2>1. Own'
    BY <1>0, <1>1, <2>0 DEF DequeueTicket, Popped
  <2>2. Exclusive'
    BY <1>0, <1>1, <2>0 DEF DequeueTicket, Popped
  <2>3. Silent'
    BY <1>0, <1>1, <2>0 DEF DequeueTicket, Popped
  <2>4. Mapped'
    BY <1>0, <1>1, <2>0 DEF DequeueTicket, Popped
  <2>5. Loaded'
    BY <1>0, <1>1, <2>0 DEF DequeueTicket, Popped
  <2>6. Closing'
    BY <1>0, <1>1, <2>0 DEF DequeueTicket, Popped
  <2> QED
    BY <1>0, <2>1, <2>2, <2>3, <2>4, <2>5, <2>6
<1>2. ASSUME DequeueReplyLost PROVE IInv'
  BY <1>0, <1>2, SMTT(30) DEF DequeueReplyLost
<1>3. ASSUME NEW t \in Tickets, WorkerCreate(t) PROVE IInv'
  BY <1>0, <1>3, SMTT(30) DEF WorkerCreate, Create
<1>4. ASSUME NEW t \in Tickets, WorkerCreateReplyLost(t) PROVE IInv'
  BY <1>0, <1>4, SMTT(30) DEF WorkerCreateReplyLost, Create
<1>5. ASSUME WorkerCreateFails PROVE IInv'
  BY <1>0, <1>5, SMTT(30) DEF WorkerCreateFails
<1>6. ASSUME Requeue PROVE IInv'
  <2>0. /\ wkey \in Keys /\ queue \in Seq(Keys)
        /\ queue' = Append(queue, wkey) /\ UNCHANGED author
    BY <1>6 DEF Requeue, Pushed
  <2>a. \A c \in Chats : InQueue(c)' <=> InQueue(c) \/ WithWorker(c)
    BY <2>0, InQueueAfterPush
  <2>b. /\ \A c \in Chats : ~WithWorker(c)'
        /\ UNCHANGED <<fsm, active, author, hpc, expired>>
    BY <1>6 DEF Requeue, WorkerIdle
  <2>c. /\ Len(queue) \in Nat /\ Len(queue') = Len(queue) + 1
        /\ \A i \in 1..Len(queue) : queue'[i] = queue[i]
        /\ queue'[Len(queue) + 1] = wkey
    BY <2>0
  <2>1. Own'
    <3>1. /\ wpc' = "idle" /\ wkey' = NoKey
          /\ UNCHANGED <<active, status, keyOf, author, hpc, hkey, htkt>>
      BY <1>6 DEF Requeue, WorkerIdle
    <3>2. \A i \in 1..Len(queue') : author'[queue'[i]] \in Chats
      BY <1>6, <2>0, <2>c DEF Requeue
    <3> QED
      BY <3>1, <3>2
  <2>2. Exclusive'
    <3>1. \A i, j \in 1..Len(queue') :
             author'[queue'[i]] = author'[queue'[j]] => i = j
      <4>1. WithWorker(author[wkey]) /\ ~InQueue(author[wkey])
        BY <1>6 DEF Requeue
      <4>2. \A i \in 1..Len(queue) : author[queue[i]] # author[wkey]
        BY <4>1
      <4> QED
        BY <2>b, <2>c, <4>2
    <3>2. QED
      BY <2>a, <2>b, <3>1
  <2>3. Silent'
    BY <2>a, <2>b, SMTT(30)
  <2>4. Mapped'
    BY <1>6 DEF Requeue, WorkerIdle
  <2>5. Loaded'
    BY <1>6 DEF Requeue
  <2>6. Closing'
    BY <1>6, <2>a, <2>b DEF Requeue
  <2> QED
    BY <1>0, <2>1, <2>2, <2>3, <2>4, <2>5, <2>6
<1>7. ASSUME WorkerSetTicket PROVE IInv'
  BY <1>0, <1>7, SMTT(30) DEF WorkerSetTicket, WorkerIdle
<1>8. ASSUME WorkerWatchTicket PROVE IInv'
  BY <1>0, <1>8, SMTT(30) DEF WorkerWatchTicket, WorkerIdle
<1>9. ASSUME WorkerBaseline PROVE IInv'
  BY <1>0, <1>9, SMTT(30) DEF WorkerBaseline, WorkerIdle
<1> HIDE DEF IInv
<1> QED
  BY <1>1, <1>2, <1>3, <1>4, <1>5, <1>6, <1>7, <1>8, <1>9 DEF WorkerStep

-----------------------------------------------------------------------------
(* ... of the poller *)

LEMMA PollerPreserves ==
    ASSUME Undisturbed, IInv, PollerStep
    PROVE  IInv'
<1>t. Types
  BY TypesHold DEF IInv
<1> USE <1>t, NullAssumption DEF IInv, Types, HoldsOK, Own, Exclusive, Silent,
       Mapped, Loaded, Closing, WithHandler, InQueue, WithWorker, Watched,
       WatchedIsMapped, ClosingChat, Creating, Unbinding, redis, zoho, handler,
       worker, poller, Undisturbed
<1>0. TypeInv' /\ Types'
  BY PollerType, TypesHoldNext
<1>1. ASSUME PollStart PROVE IInv'
  BY <1>0, <1>1, SMTT(30) DEF PollStart
<1>2. ASSUME ListRecentTickets PROVE IInv'
  BY <1>0, <1>2, SMTT(30) DEF ListRecentTickets
<1>3. ASSUME ListFails PROVE IInv'
  BY <1>0, <1>3, SMTT(30) DEF ListFails, PollerIdle
<1>4. ASSUME NEW t \in Tickets, Reconcile(t) PROVE IInv'
  BY <1>0, <1>4, SMTT(30) DEF Reconcile, Pending, StartClosure, Handled
<1>5. ASSUME NEW t \in Tickets, ProbeFindsEnd(t) PROVE IInv'
  BY <1>0, <1>5, SMTT(30) DEF ProbeFindsEnd, Unlisted, Pending, StartClosure
<1>6. ASSUME NEW t \in Tickets, ProbeSkips(t) PROVE IInv'
  BY <1>0, <1>6, SMTT(30) DEF ProbeSkips, Unlisted, Handled
<1>7. ASSUME ClosureGetTicket PROVE IInv'
  BY <1>0, <1>7, SMTT(30) DEF ClosureGetTicket, Reads
<1>8. ASSUME ClosureUnwatch PROVE IInv'
  <2>1. /\ ppc = "unwatch" /\ pref = ptkt /\ active[ptkt] = ClosingChat
        /\ fsm[ClosingChat] = "ticket_open" /\ ~InQueue(ClosingChat)
        /\ ~WithWorker(ClosingChat) /\ ~WithHandler(ClosingChat)
        /\ active' = [active EXCEPT ![ptkt] = NoChat] /\ ppc' = "unmark"
        /\ UNCHANGED <<fsm, ticket, queue, zoho, bound, author, authorized, handler, worker,
                       remaining, ptkt>>
    BY <1>8 DEF ClosureUnwatch
  <2>2. \A t \in Tickets : active'[t] = active[t] \/ (t = ptkt /\ active'[t] = NoChat)
    BY <2>1
  <2>3. \A d \in Chats : /\ InQueue(d)' <=> InQueue(d)
                         /\ WithWorker(d)' <=> WithWorker(d)
                         /\ WithHandler(d)' <=> WithHandler(d)
                         /\ Watched(d)' => Watched(d)
    BY <2>1, <2>2
  <2>4. Own' /\ Exclusive'
    BY <2>1, <2>2, <2>3, SMTT(30)
  <2>5. Silent' /\ Mapped' /\ Loaded'
    BY <2>1, <2>2, <2>3, SMTT(30)
  <2>6. Closing'
    BY <1>0, <2>1, <2>2, <2>3, SMTT(30)
  <2> QED
    BY <1>0, <2>4, <2>5, <2>6
<1>9. ASSUME ClosureDropTicket PROVE IInv'
  BY <1>0, <1>9, SMTT(30) DEF ClosureDropTicket
<1>10. ASSUME ClosureDropFSM PROVE IInv'
  BY <1>0, <1>10, SMTT(30) DEF ClosureDropFSM, ClosureDone, Handled
<1>11. ASSUME PollEnd PROVE IInv'
  BY <1>0, <1>11, SMTT(30) DEF PollEnd, PollerIdle
<1>12. ASSUME ClosureUnmark PROVE IInv'
  BY <1>0, <1>12, SMTT(30) DEF ClosureUnmark
<1> HIDE DEF IInv
<1> QED
  BY <1>1, <1>2, <1>3, <1>4, <1>5, <1>6, <1>7, <1>8, <1>9, <1>10, <1>11, <1>12
     DEF PollerStep, ClosureStep

-----------------------------------------------------------------------------
(* ... and of the environment *)

LEMMA EnvPreserves ==
    ASSUME Undisturbed, IInv, EnvStep
    PROVE  IInv'
<1>t. Types
  BY TypesHold DEF IInv
<1> USE <1>t, NullAssumption DEF IInv, Types, HoldsOK, Own, Exclusive, Silent,
       Mapped, Loaded, Closing, WithHandler, InQueue, WithWorker, Watched,
       WatchedIsMapped, ClosingChat, Creating, Unbinding, redis, zoho, handler,
       worker, poller, Undisturbed
<1>0. TypeInv' /\ Types'
  BY EnvType, TypesHoldNext
<1>1. ASSUME NEW t \in Tickets, CloseTicket(t) \/ DeleteTicket(t) PROVE IInv'
  BY <1>0, <1>1, SMTT(30) DEF CloseTicket, DeleteTicket
<1>4. ASSUME NEW t \in Tickets, ModifyTicket(t) \/ ExpireMarker(t) PROVE IInv'
  <2>1. UNCHANGED <<fsm, ticket, active, queue, status, keyOf, bound, author, authorized,
                    handler, worker, ppc, remaining, ptkt, pref>>
    BY <1>4 DEF ModifyTicket, ExpireMarker
  <2> HIDE <1>t DEF IInv
  <2> QED
    BY <1>0, <2>1, TimesOnly
<1>2. ASSUME NEW c \in Chats, ExpireFSM(c) \/ ExpireTicket(c) PROVE IInv'
  BY <1>0, <1>2, SMTT(30) DEF ExpireFSM, ExpireTicket
<1>3. ASSUME Crash PROVE IInv'
  <2>1. Own'
    BY <1>0, <1>3 DEF Crash, WorkerIdle, PollerIdle
  <2>2. Exclusive'
    BY <1>0, <1>3 DEF Crash, WorkerIdle, PollerIdle
  <2>3. Silent'
    BY <1>0, <1>3 DEF Crash, WorkerIdle, PollerIdle
  <2>4. Mapped'
    BY <1>0, <1>3 DEF Crash, WorkerIdle, PollerIdle
  <2>5. Loaded'
    BY <1>0, <1>3 DEF Crash, WorkerIdle, PollerIdle
  <2>6. Closing'
    BY <1>0, <1>3 DEF Crash, WorkerIdle, PollerIdle
  <2> QED
    BY <1>0, <2>1, <2>2, <2>3, <2>4, <2>5, <2>6
<1> HIDE DEF IInv
<1> QED
  BY <1>1, <1>2, <1>3, <1>4 DEF EnvStep

-----------------------------------------------------------------------------
(* The theorems *)

LEMMA InitInv == Init => IInv
<1> SUFFICES ASSUME Init PROVE IInv
  OBVIOUS
<1>1. TypeInv
  BY InitType
<1> QED
  BY <1>1, NullAssumption
     DEF Init, IInv, Own, Exclusive, Silent, Mapped, Loaded, Closing, WithHandler,
         InQueue, WithWorker, Watched, WatchedIsMapped, Creating, Unbinding

LEMMA StepInv == Undisturbed /\ IInv /\ [Next]_vars => IInv'
<1> SUFFICES ASSUME Undisturbed, IInv, [Next]_vars
             PROVE  IInv'
  OBVIOUS
<1>1. CASE UNCHANGED vars
  <2>1. TypeInv'
    BY <1>1, StepType DEF IInv
  <2> QED
    BY <1>1, <2>1, TimesOnly DEF vars, redis, zoho, poller
<1>2. CASE Next
  BY <1>2, HandlerPreserves, BindingPreserves, WorkerPreserves, PollerPreserves,
     EnvPreserves DEF Next
<1> QED
  BY <1>1, <1>2

LEMMA OneInv ==
    ASSUME Undisturbed
    PROVE  Spec => []IInv
<1>1. IInv /\ [Next]_vars => IInv'
  BY StepInv
<1> QED
  BY <1>1, InitInv, PTL DEF Spec

\* A request is live in one of the four places the invariant separates.
LEMMA LivePlaces ==
    ASSUME IInv, NEW c \in Chats, NEW k \in LiveRequests(c)
    PROVE  \/ \E i \in 1..Len(queue) : k = queue[i] /\ author[queue[i]] = c
           \/ k = wkey /\ WithWorker(c)
           \/ k = hkey[c] /\ WithHandler(c)
           \/ \E t \in Tickets : k = keyOf[t] /\ active[t] = c
<1>1. DOMAIN queue = 1..Len(queue)
  BY DEF IInv, TypeInv, TypeOK
<1> QED
  BY <1>1 DEF IInv, Own, LiveRequests, Queued, InHand, WatchedFor, WithWorker, WithHandler

LEMMA IInvImpliesOne == IInv => OneRequestPerChat
<1> SUFFICES ASSUME IInv, NEW c \in Chats
             PROVE  /\ \A k1, k2 \in LiveRequests(c) : k1 = k2
                    /\ \A t, u \in WatchedFor(c) : t = u
  BY DEF OneRequestPerChat
<1>1. \A t, u \in WatchedFor(c) : t = u
  BY NullAssumption DEF IInv, Mapped, WatchedIsMapped, WatchedFor
<1>2. ASSUME NEW k1 \in LiveRequests(c), NEW k2 \in LiveRequests(c)
      PROVE  k1 = k2
  BY <1>1, LivePlaces DEF IInv, Exclusive, InQueue, WithWorker, Watched, WatchedFor
<1> QED
  BY <1>1, <1>2

\* No chat ever has two requests under way or two tickets watched, however
\* handler, worker and poller interleave, crash, or lose the answers of Zoho.
THEOREM OneRequest ==
    ASSUME Undisturbed
    PROVE  Spec => []OneRequestPerChat
BY OneInv, IInvImpliesOne, PTL

\* The watched ticket of a chat is the mapped one, so that a closure clears
\* the ticket that was closed.
THEOREM WatchedMapped ==
    ASSUME Undisturbed
    PROVE  Spec => []WatchedIsMapped
<1>1. IInv => WatchedIsMapped
  BY DEF IInv, Mapped
<1> QED
  BY <1>1, OneInv, PTL

-----------------------------------------------------------------------------
(* No open ticket is forgotten *)

Over(t) == status[t] \in {"closed", "deleted"}

\* The chat of a ticket that is not over has nothing else under way.
Kept ==
    \A c \in Chats : ticket[c] # NoTicket /\ ~Over(ticket[c]) =>
        /\ fsm[c] = "ticket_open"
        /\ ~InQueue(c)
        /\ WithWorker(c) => wpc = "watch"
        /\ WithHandler(c) => hpc[c] = "watch"

\* What the poller acts on is over, and so is all that it clears.
SeenOver ==
    /\ \A t \in Tickets : listed[t] = "closed" => Over(t)
    /\ ppc \in Unbinding => Over(ptkt)
    /\ ppc \in {"unmark", "drop_ref"} => ticket[ClosingChat] \in {ptkt, NoTicket}
    /\ ppc = "drop_fsm" => ticket[ClosingChat] = NoTicket

\* Neither the handler of a chat,
LEMMA TrackHandler ==
    ASSUME Undisturbed, IInv, Kept, SeenOver, NEW c \in Chats, HandlerStep(c)
    PROVE  Kept' /\ SeenOver'
<1>t. Types
  BY TypesHold DEF IInv
<1> USE <1>t, NullAssumption DEF IInv, Types, HoldsOK, Own, Exclusive, Silent,
       Mapped, Loaded, Closing, WithHandler, InQueue, WithWorker, Watched,
       WatchedIsMapped, ClosingChat, Creating, Unbinding, redis, zoho, handler,
       worker, poller, Undisturbed, Kept, SeenOver, Over
<1>1. ASSUME Authorize(c) PROVE Kept' /\ SeenOver'
  BY <1>1, SMTT(30) DEF Authorize
<1>2. ASSUME LoadConversation(c) PROVE Kept' /\ SeenOver'
  BY <1>2, SMTT(30) DEF LoadConversation, FreshConversation, Goto
<1>3. ASSUME Reply(c) PROVE Kept' /\ SeenOver'
  BY <1>3, SMTT(30) DEF Reply, Finish
<1>4. ASSUME Dialog(c) PROVE Kept' /\ SeenOver'
  BY <1>4, SMTT(30) DEF Dialog, Finish, SaveConversation, DialogSteps
<1>5. ASSUME NEW k \in Keys, FinalizeTicket(c, k) PROVE Kept' /\ SeenOver'
  BY <1>5, SMTT(30) DEF FinalizeTicket, SaveConversation, Goto
<1>6. ASSUME NEW t \in Tickets, CreateTicket(c, t) PROVE Kept' /\ SeenOver'
  BY <1>6, SMTT(30) DEF CreateTicket, Create, Goto
<1>7. ASSUME NEW t \in Tickets, CreateTicketReplyLost(c, t) PROVE Kept' /\ SeenOver'
  BY <1>7, SMTT(30) DEF CreateTicketReplyLost, Create
<1>8. ASSUME CreateTicketFails(c) PROVE Kept' /\ SeenOver'
  BY <1>8, SMTT(30) DEF CreateTicketFails, Goto
<1>9. ASSUME Enqueue(c) PROVE Kept' /\ SeenOver'
  BY <1>9, SMTT(30) DEF Enqueue, Pushed, Finish
<1>10. ASSUME EnqueueFails(c) PROVE Kept' /\ SeenOver'
  BY <1>10, SMTT(30) DEF EnqueueFails, Fails, Goto
<1>11. ASSUME RevertToConfirming(c) PROVE Kept' /\ SeenOver'
  BY <1>11, SMTT(30) DEF RevertToConfirming, Finish, SaveConversation
<1>12. ASSUME SetTicket(c) PROVE Kept' /\ SeenOver'
  BY <1>12, SMTT(30) DEF SetTicket, Fails, Finish, Goto
<1>13. ASSUME WatchTicket(c) PROVE Kept' /\ SeenOver'
  BY <1>13, SMTT(30) DEF WatchTicket, Fails, Finish, Goto
<1>14. ASSUME Deadline(c) PROVE Kept' /\ SeenOver'
  BY <1>14, SMTT(30) DEF Deadline
<1>15. ASSUME BaselineTicket(c) PROVE Kept' /\ SeenOver'
  BY <1>15, SMTT(30) DEF BaselineTicket, Fails, Finish
<1> QED
  BY <1>1, <1>2, <1>3, <1>4, <1>5, <1>6, <1>7, <1>8, <1>9, <1>10, <1>11,
     <1>12, <1>13, <1>14, <1>15 DEF HandlerStep

\* ... nor the worker,
LEMMA TrackWorker ==
    ASSUME Undisturbed, IInv, Kept, SeenOver, WorkerStep
    PROVE  Kept' /\ SeenOver'
<1>t. Types
  BY TypesHold DEF IInv
<1> USE <1>t, NullAssumption DEF IInv, Types, HoldsOK, Own, Exclusive, Silent,
       Mapped, Loaded, Closing, WithHandler, InQueue, WithWorker, Watched,
       WatchedIsMapped, ClosingChat, Creating, Unbinding, redis, zoho, handler,
       worker, poller, Undisturbed, Kept, SeenOver, Over
<1>1. ASSUME DequeueTicket PROVE Kept' /\ SeenOver'
  BY <1>1, SMTT(30) DEF DequeueTicket, Popped
<1>2. ASSUME DequeueReplyLost PROVE Kept' /\ SeenOver'
  BY <1>2, SMTT(30) DEF DequeueReplyLost
<1>3. ASSUME NEW t \in Tickets, WorkerCreate(t) PROVE Kept' /\ SeenOver'
  BY <1>3, SMTT(30) DEF WorkerCreate, Create
<1>4. ASSUME NEW t \in Tickets, WorkerCreateReplyLost(t) PROVE Kept' /\ SeenOver'
  BY <1>4, SMTT(30) DEF WorkerCreateReplyLost, Create
<1>5. ASSUME WorkerCreateFails PROVE Kept' /\ SeenOver'
  BY <1>5, SMTT(30) DEF WorkerCreateFails
<1>6. ASSUME Requeue PROVE Kept' /\ SeenOver'
  <2>1. /\ wkey \in Keys /\ queue' = Append(queue, wkey) /\ wpc = "requeue" /\ wpc' = "idle"
        /\ UNCHANGED <<fsm, ticket, active, zoho, bound, author, authorized, handler, poller>>
    BY <1>6 DEF Requeue, Pushed, WorkerIdle
  <2>2. \A d \in Chats : InQueue(d)' => InQueue(d) \/ WithWorker(d)
    <3>1. queue \in Seq(Keys)
      OBVIOUS
    <3>2. \A d \in Chats : InQueue(d)' <=> InQueue(d) \/ author[wkey] = d
      <4> HIDE DEF InQueue
      <4> QED
        BY <2>1, <3>1, InQueueAfterPush
    <3> QED
      BY <2>1, <3>2 DEF WithWorker
  <2>3. \A d \in Chats : WithHandler(d)' <=> WithHandler(d)
    BY <2>1
  <2>4. \A d \in Chats : ~WithWorker(d)'
    BY <1>6 DEF Requeue, WorkerIdle
  <2>5. \A d \in Chats : ticket[d] # NoTicket /\ ~Over(ticket[d]) => ~WithWorker(d)
    BY <2>1
  <2>6. Kept'
    <3> HIDE DEF InQueue, WithWorker, WithHandler
    <3> QED
      BY <2>1, <2>2, <2>3, <2>4, <2>5
  <2> QED
    BY <2>1, <2>6
<1>7. ASSUME WorkerSetTicket PROVE Kept' /\ SeenOver'
  BY <1>7, SMTT(30) DEF WorkerSetTicket, WorkerIdle
<1>8. ASSUME WorkerWatchTicket PROVE Kept' /\ SeenOver'
  BY <1>8, SMTT(30) DEF WorkerWatchTicket, WorkerIdle
<1>9. ASSUME WorkerBaseline PROVE Kept' /\ SeenOver'
  BY <1>9, SMTT(30) DEF WorkerBaseline, WorkerIdle
<1> QED
  BY <1>1, <1>2, <1>3, <1>4, <1>5, <1>6, <1>7, <1>8, <1>9 DEF WorkerStep

\* ... a binding,
LEMMA TrackBinding ==
    ASSUME Undisturbed, IInv, Kept, SeenOver, NEW c \in Chats, BindingStep(c)
    PROVE  Kept' /\ SeenOver'
<1>t. Types
  BY TypesHold DEF IInv
<1> USE <1>t, NullAssumption DEF IInv, Types, HoldsOK, Own, Exclusive, Silent,
       Mapped, Loaded, Closing, WithHandler, InQueue, WithWorker, Watched,
       WatchedIsMapped, ClosingChat, Creating, Unbinding, redis, zoho, handler,
       worker, poller, Undisturbed, Kept, SeenOver, Over
<1>1. ASSUME Bind(c) PROVE Kept' /\ SeenOver'
  BY <1>1, SMTT(30) DEF Bind, Goto
<1>2. ASSUME StartFlow(c) PROVE Kept' /\ SeenOver'
  BY <1>2, SMTT(30) DEF StartFlow, SaveConversation, Finish
<1>3. ASSUME Revoke(c) PROVE Kept' /\ SeenOver'
  BY <1>3, SMTT(30) DEF Revoke
<1>4. ASSUME \/ UnbindGetTicket(c) \/ UnbindUnwatch(c) \/ UnbindUnmark(c)
             \/ UnbindDropTicket(c) \/ UnbindDropFSM(c)
      PROVE Kept' /\ SeenOver'
  BY <1>4, SMTT(30) DEF UnbindGetTicket, UnbindUnwatch, UnbindUnmark, UnbindDropTicket, UnbindDropFSM
<1> QED
  BY <1>1, <1>2, <1>3, <1>4 DEF BindingStep

\* ... the poller
LEMMA TrackPoller ==
    ASSUME Undisturbed, IInv, Kept, SeenOver, PollerStep
    PROVE  Kept' /\ SeenOver'
<1>t. Types
  BY TypesHold DEF IInv
<1> USE <1>t, NullAssumption DEF IInv, Types, HoldsOK, Own, Exclusive, Silent,
       Mapped, Loaded, Closing, WithHandler, InQueue, WithWorker, Watched,
       WatchedIsMapped, ClosingChat, Creating, Unbinding, redis, zoho, handler,
       worker, poller, Undisturbed, Kept, SeenOver, Over
<1>1. ASSUME PollStart PROVE Kept' /\ SeenOver'
  BY <1>1, SMTT(30) DEF PollStart
<1>2. ASSUME ListRecentTickets PROVE Kept' /\ SeenOver'
  BY <1>2, SMTT(30) DEF ListRecentTickets
<1>3. ASSUME ListFails PROVE Kept' /\ SeenOver'
  BY <1>3, SMTT(30) DEF ListFails, PollerIdle
<1>4. ASSUME NEW t \in Tickets, Reconcile(t) PROVE Kept' /\ SeenOver'
  BY <1>4, SMTT(30) DEF Reconcile, Pending, StartClosure, Handled
<1>5. ASSUME NEW t \in Tickets, ProbeFindsEnd(t) PROVE Kept' /\ SeenOver'
  BY <1>5, SMTT(30) DEF ProbeFindsEnd, Unlisted, Pending, StartClosure
<1>6. ASSUME NEW t \in Tickets, ProbeSkips(t) PROVE Kept' /\ SeenOver'
  BY <1>6, SMTT(30) DEF ProbeSkips, Unlisted, Handled
<1>7. ASSUME ClosureGetTicket PROVE Kept' /\ SeenOver'
  BY <1>7, SMTT(30) DEF ClosureGetTicket, Reads
<1>8. ASSUME ClosureUnwatch PROVE Kept' /\ SeenOver'
  BY <1>8, SMTT(30) DEF ClosureUnwatch
<1>9. ASSUME ClosureDropTicket PROVE Kept' /\ SeenOver'
  BY <1>9, SMTT(30) DEF ClosureDropTicket
<1>10. ASSUME ClosureDropFSM PROVE Kept' /\ SeenOver'
  BY <1>10, SMTT(30) DEF ClosureDropFSM, ClosureDone, Handled
<1>11. ASSUME PollEnd PROVE Kept' /\ SeenOver'
  BY <1>11, SMTT(30) DEF PollEnd, PollerIdle
<1>12. ASSUME ClosureUnmark PROVE Kept' /\ SeenOver'
  BY <1>12, SMTT(30) DEF ClosureUnmark
<1> QED
  BY <1>1, <1>2, <1>3, <1>4, <1>5, <1>6, <1>7, <1>8, <1>9, <1>10, <1>11, <1>12
     DEF PollerStep, ClosureStep

\* ... or the environment breaks this.
LEMMA TrackEnv ==
    ASSUME Undisturbed, IInv, Kept, SeenOver, EnvStep
    PROVE  Kept' /\ SeenOver'
<1>t. Types
  BY TypesHold DEF IInv
<1> USE <1>t, NullAssumption DEF IInv, Types, HoldsOK, Own, Exclusive, Silent,
       Mapped, Loaded, Closing, WithHandler, InQueue, WithWorker, Watched,
       WatchedIsMapped, ClosingChat, Creating, Unbinding, redis, zoho, handler,
       worker, poller, Undisturbed, Kept, SeenOver, Over
<1>1. ASSUME NEW t \in Tickets, CloseTicket(t) \/ DeleteTicket(t) PROVE Kept' /\ SeenOver'
  <2>1. \A u \in Tickets : Over(u) => Over(u)'
    BY <1>1 DEF CloseTicket, DeleteTicket
  <2>2. UNCHANGED <<fsm, ticket, active, queue, author, handler, worker, poller>>
    BY <1>1 DEF CloseTicket, DeleteTicket
  <2> HIDE DEF Over
  <2>3. Kept'
    BY <2>1, <2>2
  <2>4. SeenOver'
    BY <2>1, <2>2
  <2> QED
    BY <2>3, <2>4
<1>4. ASSUME NEW t \in Tickets, ModifyTicket(t) \/ ExpireMarker(t) PROVE Kept' /\ SeenOver'
  BY <1>4, SMTT(30) DEF ModifyTicket, ExpireMarker
<1>2. ASSUME NEW c \in Chats, ExpireFSM(c) \/ ExpireTicket(c) PROVE Kept' /\ SeenOver'
  BY <1>2, SMTT(30) DEF ExpireFSM, ExpireTicket
<1>3. ASSUME Crash PROVE Kept' /\ SeenOver'
  BY <1>3, SMTT(30) DEF Crash, WorkerIdle, PollerIdle
<1> QED
  BY <1>1, <1>2, <1>3, <1>4 DEF EnvStep

\* The two tables of the bot lose nothing that is not over.
LEMMA ForgetsOver ==
    ASSUME Undisturbed, IInv, Kept, SeenOver, Next
    PROVE  /\ \A c \in Chats, t \in Tickets :
                 ticket[c] = t /\ ticket'[c] # t => status[t] \in {"closed", "deleted"}
           /\ \A t \in Tickets :
                 active[t] # NoChat /\ active'[t] # active[t] => status[t] \in {"closed", "deleted"}
<1>t. Types
  BY TypesHold DEF IInv
<1> USE <1>t, NullAssumption DEF IInv, Types, HoldsOK, Own, Mapped, Loaded, Closing,
       WithHandler, WithWorker, ClosingChat, Creating, Unbinding, redis, zoho, handler,
       worker, poller, Undisturbed, Kept, SeenOver, Over
<1>1. CASE UNCHANGED <<ticket, active>>
  BY <1>1
<1>2. ASSUME NEW c \in Chats, SetTicket(c) \/ WatchTicket(c)
      PROVE  /\ \A d \in Chats, t \in Tickets :
                   ticket[d] = t /\ ticket'[d] # t => Over(t)
             /\ \A t \in Tickets : active[t] # NoChat /\ active'[t] # active[t] => Over(t)
  BY <1>2, SMTT(30) DEF SetTicket, WatchTicket
<1>3. ASSUME WorkerSetTicket \/ WorkerWatchTicket
      PROVE  /\ \A d \in Chats, t \in Tickets :
                   ticket[d] = t /\ ticket'[d] # t => Over(t)
             /\ \A t \in Tickets : active[t] # NoChat /\ active'[t] # active[t] => Over(t)
  BY <1>3, SMTT(30) DEF WorkerSetTicket, WorkerWatchTicket
<1>4. ASSUME ClosureUnwatch \/ ClosureDropTicket
      PROVE  /\ \A d \in Chats, t \in Tickets :
                   ticket[d] = t /\ ticket'[d] # t => Over(t)
             /\ \A t \in Tickets : active[t] # NoChat /\ active'[t] # active[t] => Over(t)
  BY <1>4, SMTT(30) DEF ClosureUnwatch, ClosureDropTicket
<1>5. ASSUME NEW c \in Chats,
             \/ Authorize(c) \/ LoadConversation(c) \/ Reply(c) \/ Dialog(c)
             \/ \E l \in Keys : FinalizeTicket(c, l)
             \/ \E t \in Tickets : CreateTicket(c, t) \/ CreateTicketReplyLost(c, t)
             \/ CreateTicketFails(c) \/ Enqueue(c) \/ EnqueueFails(c) \/ RevertToConfirming(c)
             \/ BaselineTicket(c) \/ Deadline(c) \/ BindingStep(c) \/ ExpireFSM(c) \/ ExpireTicket(c)
      PROVE  UNCHANGED <<ticket, active>>
  BY <1>5 DEF BindingStep, Authorize, LoadConversation, Reply, Dialog, FinalizeTicket,
     CreateTicket, CreateTicketReplyLost, CreateTicketFails, Enqueue, EnqueueFails, RevertToConfirming,
     BaselineTicket, Deadline, Bind, StartFlow, Revoke, UnbindGetTicket, UnbindUnwatch, UnbindUnmark,
     UnbindDropTicket, UnbindDropFSM, ExpireFSM, ExpireTicket
<1>6. ASSUME \/ DequeueTicket \/ DequeueReplyLost
             \/ \E t \in Tickets : WorkerCreate(t) \/ WorkerCreateReplyLost(t)
             \/ WorkerCreateFails \/ Requeue \/ WorkerBaseline
             \/ PollStart \/ ListRecentTickets \/ ListFails
             \/ \E t \in Tickets : Reconcile(t) \/ ProbeFindsEnd(t) \/ ProbeSkips(t)
             \/ ClosureGetTicket \/ ClosureUnmark \/ ClosureDropFSM \/ PollEnd
             \/ \E t \in Tickets :
                   CloseTicket(t) \/ DeleteTicket(t) \/ ModifyTicket(t) \/ ExpireMarker(t)
             \/ Crash
      PROVE  UNCHANGED <<ticket, active>>
  BY <1>6 DEF DequeueTicket, DequeueReplyLost, WorkerCreate, WorkerCreateReplyLost,
     WorkerCreateFails, Requeue, WorkerBaseline, PollStart, ListRecentTickets, ListFails, Reconcile,
     ProbeFindsEnd, ProbeSkips, ClosureGetTicket, ClosureUnmark, ClosureDropFSM, PollEnd,
     CloseTicket, DeleteTicket, ModifyTicket, ExpireMarker, Crash
<1> QED
  BY <1>1, <1>2, <1>3, <1>4, <1>5, <1>6 DEF Next, HandlerStep, WorkerStep, PollerStep, ClosureStep, EnvStep

LEMMA InitTrack == Init => Kept /\ SeenOver
BY NullAssumption DEF Init, Kept, SeenOver, Unbinding

LEMMA StepTrack ==
    ASSUME Undisturbed, IInv, Kept, SeenOver, [Next]_vars
    PROVE  Kept' /\ SeenOver'
<1>1. CASE UNCHANGED vars
  BY <1>1 DEF vars, redis, zoho, handler, worker, poller, Kept, SeenOver, Over, InQueue,
       WithWorker, WithHandler, ClosingChat
<1>2. CASE Next
  BY <1>2, TrackHandler, TrackBinding, TrackWorker, TrackPoller, TrackEnv DEF Next
<1> QED
  BY <1>1, <1>2

\* The bot forgets a ticket, as a chat's mapped one or as a watched one, only
\* once the operator has closed or deleted it: no second request, late answer,
\* restart or closure of an older ticket makes it lose an open one.
THEOREM TrackedTillTheEnd ==
    ASSUME Undisturbed
    PROVE  Spec => TrackedUntilClosed
<1>1. Init => IInv /\ Kept /\ SeenOver
  BY InitInv, InitTrack
<1>2. IInv /\ Kept /\ SeenOver /\ [Next]_vars => (IInv /\ Kept /\ SeenOver)'
  BY StepInv, StepTrack
<1>3. IInv /\ Kept /\ SeenOver /\ [Next]_vars =>
        [/\ \A c \in Chats, t \in Tickets :
               ticket[c] = t /\ ticket'[c] # t => status[t] \in {"closed", "deleted"}
         /\ \A t \in Tickets :
               active[t] # NoChat /\ active'[t] # active[t] => status[t] \in {"closed", "deleted"}
        ]_vars
  BY ForgetsOver
<1> QED
  BY <1>1, <1>2, <1>3, PTL DEF Spec, TrackedUntilClosed

-----------------------------------------------------------------------------
(* Nobody is left in ticket_open *)

\* No crash, no context that ends and a Redis that answers: any of them strands
\* a chat.  Zoho, the keys that expire and the administrator may do anything.
Calm == Env \cap {"crash", "deadline", "redis"} = {}

\* Whatever is held, queued, mapped or watched for a chat is a request it wrote,
\* or the ticket of one; here a chat may have several.
Authored ==
    /\ \A c \in Chats :
          /\ hpc[c] \in Creating => author[hkey[c]] = c
          /\ hpc[c] \in {"set_ticket", "watch"} => htkt[c] \in Tickets /\ keyOf[htkt[c]] = hkey[c]
          /\ hpc[c] = "unwatch" =>
                htkt[c] \in Tickets /\ keyOf[htkt[c]] \in Keys /\ author[keyOf[htkt[c]]] = c
          /\ ticket[c] # NoTicket => keyOf[ticket[c]] \in Keys /\ author[keyOf[ticket[c]]] = c
    /\ IF wpc \in {"idle", "baseline"} THEN wkey = NoKey ELSE author[wkey] \in Chats
    /\ wpc \in {"set_ticket", "watch"} => wtkt \in Tickets /\ keyOf[wtkt] = wkey
    /\ \A i \in 1..Len(queue) : author[queue[i]] \in Chats
    /\ \A t \in Tickets :
          /\ active[t] # NoChat => keyOf[t] \in Keys /\ author[keyOf[t]] = active[t]
          /\ status[t] = "none" => keyOf[t] = NoKey
    /\ ppc = "unwatch" =>
          pref \in Tickets /\ keyOf[pref] \in Keys /\ author[keyOf[pref]] = ClosingChat

\* A chat in ticket_open has a request in one of the four places, or is being
\* reset by the poller or by an unbind.
Served ==
    /\ expired = {}
    /\ \A c \in Chats : hpc[c] # "revert"
    /\ \A c \in Chats : fsm[c] = "ticket_open" =>
          \/ InQueue(c) \/ WithWorker(c) \/ WithHandler(c) \/ Watched(c)
          \/ ppc \in Unbinding /\ ClosingChat = c
          \/ hpc[c] \in Unbinding

\* A ticket newly watched is watched for its chat, and the others stay.
LEMMA WatchedAfterSet ==
    ASSUME active \in [Tickets -> Chats \cup {NoChat}], NEW t \in Tickets, NEW c \in Chats,
           active[t] \in {c, NoChat}, active' = [active EXCEPT ![t] = c]
    PROVE  Watched(c)' /\ \A d \in Chats : Watched(d) => Watched(d)'
<1>1. t \in Tickets /\ active'[t] = c
  OBVIOUS
<1>2. \A d \in Chats, u \in Tickets : active[u] = d => active'[u] = d
  BY NullAssumption
<1> QED
  BY <1>1, <1>2 DEF Watched

\* Popping the head leaves every chat's request in the queue but the head's.
LEMMA InQueueAfterPop ==
    ASSUME queue \in Seq(Keys), queue # <<>>, queue' = Tail(queue), UNCHANGED author, NEW c, InQueue(c)
    PROVE  InQueue(c)' \/ author[Head(queue)] = c
<1>1. PICK i \in 1..Len(queue) : author[queue[i]] = c
  BY DEF InQueue
<1>2. CASE i = 1
  BY <1>1, <1>2
<1>3. CASE i # 1
  <2>1. i - 1 \in 1..Len(queue') /\ queue'[i - 1] = queue[i]
    BY <1>3
  <2> QED
    BY <1>1, <2>1 DEF InQueue
<1> QED
  BY <1>2, <1>3

\* A request pushed, like those before it, has its author.
LEMMA AuthorsAfterPush ==
    ASSUME queue \in Seq(Keys), \A i \in 1..Len(queue) : author[queue[i]] \in Chats,
           NEW k \in Keys, author[k] \in Chats, queue' = Append(queue, k), UNCHANGED author
    PROVE  \A i \in 1..Len(queue') : author'[queue'[i]] \in Chats
<1>1. /\ Len(queue) \in Nat /\ Len(queue') = Len(queue) + 1
      /\ \A i \in 1..Len(queue) : queue'[i] = queue[i]
      /\ queue'[Len(queue) + 1] = k
  OBVIOUS
<1> QED
  BY <1>1

\* The steps of the handlers keep what is whose,
LEMMA AuthoredHandler ==
    ASSUME TypeInv, Authored, NEW c \in Chats, HandlerStep(c)
    PROVE  Authored'
<1>t. Types
  BY TypesHold
<1> USE <1>t, NullAssumption DEF Types, HoldsOK, Authored, WithHandler, InQueue,
       WithWorker, Watched, ClosingChat, Creating, Unbinding, redis, zoho, handler,
       worker, poller
<1>1. ASSUME Authorize(c) PROVE Authored'
  BY <1>1, SMTT(30) DEF Authorize
<1>2. ASSUME LoadConversation(c) PROVE Authored'
  BY <1>2, SMTT(30) DEF LoadConversation, FreshConversation, Goto
<1>3. ASSUME Reply(c) PROVE Authored'
  BY <1>3, SMTT(30) DEF Reply, Finish
<1>4. ASSUME Dialog(c) PROVE Authored'
  BY <1>4, SMTT(30) DEF Dialog, Finish, SaveConversation, DialogSteps
<1>5. ASSUME NEW k \in Keys, FinalizeTicket(c, k) PROVE Authored'
  BY <1>5, SMTT(30) DEF FinalizeTicket, SaveConversation, Goto
<1>6. ASSUME NEW t \in Tickets, CreateTicket(c, t) PROVE Authored'
  BY <1>6, SMTT(30) DEF CreateTicket, Create, Goto
<1>7. ASSUME NEW t \in Tickets, CreateTicketReplyLost(c, t) PROVE Authored'
  BY <1>7, SMTT(30) DEF CreateTicketReplyLost, Create
<1>8. ASSUME CreateTicketFails(c) PROVE Authored'
  BY <1>8, SMTT(30) DEF CreateTicketFails, Goto
<1>9. ASSUME Enqueue(c) PROVE Authored'
  <2>1. hkey[c] \in Keys /\ author[hkey[c]] = c /\ queue' = Append(queue, hkey[c]) /\ UNCHANGED author
    BY <1>9 DEF Enqueue, Pushed
  <2>2. \A i \in 1..Len(queue') : author'[queue'[i]] \in Chats
    BY <2>1, AuthorsAfterPush
  <2>3. /\ UNCHANGED <<ticket, active, zoho, author, worker, poller>>
        /\ \A d \in Chats : hpc'[d] = "free" \/ UNCHANGED <<hpc[d], hkey[d], htkt[d]>>
    BY <1>9 DEF Enqueue, Finish
  <2> QED
    BY <2>2, <2>3
<1>10. ASSUME EnqueueFails(c) PROVE Authored'
  <2>1. /\ hkey[c] \in Keys /\ author[hkey[c]] = c /\ UNCHANGED author
        /\ queue' = queue \/ queue' = Append(queue, hkey[c])
    BY <1>10 DEF EnqueueFails, Pushed
  <2>2. CASE queue' = queue
    BY <1>10, <2>2 DEF EnqueueFails, Goto
  <2>3. CASE queue' = Append(queue, hkey[c])
    <3>1. \A i \in 1..Len(queue') : author'[queue'[i]] \in Chats
      BY <2>1, <2>3, AuthorsAfterPush
    <3>2. /\ UNCHANGED <<ticket, active, zoho, author, worker, poller, hkey, htkt>>
          /\ hpc' = [hpc EXCEPT ![c] = "revert"] /\ hpc[c] = "enqueue"
      BY <1>10 DEF EnqueueFails, Goto
    <3> QED
      BY <3>1, <3>2
  <2> QED
    BY <2>1, <2>2, <2>3
<1>11. ASSUME RevertToConfirming(c) PROVE Authored'
  BY <1>11, SMTT(30) DEF RevertToConfirming, Finish, SaveConversation
<1>12. ASSUME SetTicket(c) PROVE Authored'
  BY <1>12, SMTT(30) DEF SetTicket, Fails, Finish, Goto
<1>13. ASSUME WatchTicket(c) PROVE Authored'
  BY <1>13, SMTT(30) DEF WatchTicket, Fails, Finish, Goto
<1>14. ASSUME Deadline(c) PROVE Authored'
  BY <1>14, SMTT(30) DEF Deadline
<1>15. ASSUME BaselineTicket(c) PROVE Authored'
  BY <1>15, SMTT(30) DEF BaselineTicket, Fails, Finish
<1> HIDE DEF Authored
<1> QED
  BY <1>1, <1>2, <1>3, <1>4, <1>5, <1>6, <1>7, <1>8, <1>9, <1>10, <1>11,
     <1>12, <1>13, <1>14, <1>15 DEF HandlerStep

\* ... those of the worker,
LEMMA AuthoredWorker ==
    ASSUME TypeInv, Authored, WorkerStep
    PROVE  Authored'
<1>t. Types
  BY TypesHold
<1> USE <1>t, NullAssumption DEF Types, HoldsOK, Authored, WithHandler, InQueue,
       WithWorker, Watched, ClosingChat, Creating, Unbinding, redis, zoho, handler,
       worker, poller
<1>1. ASSUME DequeueTicket PROVE Authored'
  BY <1>1, SMTT(30) DEF DequeueTicket, Popped
<1>2. ASSUME DequeueReplyLost PROVE Authored'
  BY <1>2, SMTT(30) DEF DequeueReplyLost, Popped
<1>3. ASSUME NEW t \in Tickets, WorkerCreate(t) PROVE Authored'
  BY <1>3, SMTT(30) DEF WorkerCreate, Create
<1>4. ASSUME NEW t \in Tickets, WorkerCreateReplyLost(t) PROVE Authored'
  BY <1>4, SMTT(30) DEF WorkerCreateReplyLost, Create
<1>5. ASSUME WorkerCreateFails PROVE Authored'
  BY <1>5, SMTT(30) DEF WorkerCreateFails
<1>6. ASSUME Requeue PROVE Authored'
  <2>1. /\ wkey \in Keys /\ author[wkey] \in Chats /\ UNCHANGED author
        /\ queue' = queue \/ queue' = Append(queue, wkey)
    BY <1>6 DEF Requeue, Pushed
  <2>2. \A i \in 1..Len(queue') : author'[queue'[i]] \in Chats
    BY <2>1, AuthorsAfterPush
  <2>3. UNCHANGED <<ticket, active, zoho, author, handler, poller>> /\ wpc' = "idle"
    BY <1>6 DEF Requeue, WorkerIdle
  <2> QED
    BY <1>6, <2>2, <2>3 DEF Requeue, WorkerIdle
<1>7. ASSUME WorkerSetTicket PROVE Authored'
  BY <1>7, SMTT(30) DEF WorkerSetTicket, WorkerIdle
<1>8. ASSUME WorkerWatchTicket PROVE Authored'
  BY <1>8, SMTT(30) DEF WorkerWatchTicket, WorkerIdle
<1>9. ASSUME WorkerBaseline PROVE Authored'
  BY <1>9, SMTT(30) DEF WorkerBaseline, WorkerIdle
<1> QED
  BY <1>1, <1>2, <1>3, <1>4, <1>5, <1>6, <1>7, <1>8, <1>9 DEF WorkerStep

\* ... of a binding,
LEMMA AuthoredBinding ==
    ASSUME TypeInv, Authored, NEW c \in Chats, BindingStep(c)
    PROVE  Authored'
<1>t. Types
  BY TypesHold
<1> USE <1>t, NullAssumption DEF Types, HoldsOK, Authored, WithHandler, InQueue,
       WithWorker, Watched, ClosingChat, Creating, Unbinding, redis, zoho, handler,
       worker, poller
<1>1. ASSUME Bind(c) PROVE Authored'
  BY <1>1, SMTT(30) DEF Bind, Goto
<1>2. ASSUME StartFlow(c) PROVE Authored'
  BY <1>2, SMTT(30) DEF StartFlow, SaveConversation, Finish
<1>3. ASSUME Revoke(c) PROVE Authored'
  BY <1>3, SMTT(30) DEF Revoke, Goto
<1>4. ASSUME UnbindGetTicket(c) PROVE Authored'
  BY <1>4, SMTT(30) DEF UnbindGetTicket, Reads, Goto
<1>5. ASSUME UnbindUnwatch(c) PROVE Authored'
  BY <1>5, SMTT(30) DEF UnbindUnwatch, Fails, Goto
<1>6. ASSUME UnbindDropTicket(c) PROVE Authored'
  BY <1>6, SMTT(30) DEF UnbindDropTicket, Goto
<1>7. ASSUME UnbindDropFSM(c) PROVE Authored'
  BY <1>7, SMTT(30) DEF UnbindDropFSM, SaveConversation, Fails, Finish
<1>8. ASSUME UnbindUnmark(c) PROVE Authored'
  BY <1>8, SMTT(30) DEF UnbindUnmark, Goto
<1> QED
  BY <1>1, <1>2, <1>3, <1>4, <1>5, <1>6, <1>7, <1>8 DEF BindingStep

\* ... of the poller
LEMMA AuthoredPoller ==
    ASSUME TypeInv, Authored, PollerStep
    PROVE  Authored'
<1>t. Types
  BY TypesHold
<1> USE <1>t, NullAssumption DEF Types, HoldsOK, Authored, WithHandler, InQueue,
       WithWorker, Watched, ClosingChat, Creating, Unbinding, redis, zoho, handler,
       worker, poller
<1>1. ASSUME PollStart PROVE Authored'
  BY <1>1, SMTT(30) DEF PollStart
<1>2. ASSUME ListRecentTickets PROVE Authored'
  BY <1>2, SMTT(30) DEF ListRecentTickets
<1>3. ASSUME ListFails PROVE Authored'
  BY <1>3, SMTT(30) DEF ListFails, PollerIdle
<1>4. ASSUME NEW t \in Tickets, Reconcile(t) PROVE Authored'
  BY <1>4, SMTT(30) DEF Reconcile, Pending, StartClosure, Handled
<1>5. ASSUME NEW t \in Tickets, ProbeFindsEnd(t) PROVE Authored'
  BY <1>5, SMTT(30) DEF ProbeFindsEnd, Unlisted, Pending, StartClosure
<1>6. ASSUME NEW t \in Tickets, ProbeSkips(t) PROVE Authored'
  BY <1>6, SMTT(30) DEF ProbeSkips, Unlisted, Handled
<1>7. ASSUME ClosureGetTicket PROVE Authored'
  BY <1>7, SMTT(30) DEF ClosureGetTicket, Reads
<1>8. ASSUME ClosureUnwatch PROVE Authored'
  BY <1>8, SMTT(30) DEF ClosureUnwatch
<1>9. ASSUME ClosureDropTicket PROVE Authored'
  BY <1>9, SMTT(30) DEF ClosureDropTicket
<1>10. ASSUME ClosureDropFSM PROVE Authored'
  BY <1>10, SMTT(30) DEF ClosureDropFSM, ClosureDone, Handled
<1>11. ASSUME PollEnd PROVE Authored'
  BY <1>11, SMTT(30) DEF PollEnd, PollerIdle
<1>12. ASSUME ClosureUnmark PROVE Authored'
  BY <1>12, SMTT(30) DEF ClosureUnmark
<1> HIDE DEF Authored
<1> QED
  BY <1>1, <1>2, <1>3, <1>4, <1>5, <1>6, <1>7, <1>8, <1>9, <1>10, <1>11, <1>12
     DEF PollerStep, ClosureStep

\* ... and of the operators.
LEMMA AuthoredEnv ==
    ASSUME TypeInv, Authored, EnvStep
    PROVE  Authored'
<1>t. Types
  BY TypesHold
<1> USE <1>t, NullAssumption DEF Types, HoldsOK, Authored, WithHandler, InQueue,
       WithWorker, Watched, ClosingChat, Creating, Unbinding, redis, zoho, handler,
       worker, poller
<1>1. ASSUME NEW t \in Tickets, CloseTicket(t) \/ DeleteTicket(t) PROVE Authored'
  BY <1>1, SMTT(30) DEF CloseTicket, DeleteTicket
<1>4. ASSUME NEW t \in Tickets, ModifyTicket(t) \/ ExpireMarker(t) PROVE Authored'
  BY <1>4, SMTT(30) DEF ModifyTicket, ExpireMarker
<1>2. ASSUME NEW c \in Chats, ExpireFSM(c) \/ ExpireTicket(c) PROVE Authored'
  BY <1>2, SMTT(30) DEF ExpireFSM, ExpireTicket
<1>3. ASSUME Crash PROVE Authored'
  BY <1>3, SMTT(30) DEF Crash, WorkerIdle, PollerIdle
<1> QED
  BY <1>1, <1>2, <1>3, <1>4 DEF EnvStep

\* The steps of the handlers keep everyone served,
LEMMA ServedHandler ==
    ASSUME Calm, TypeInv, Authored, Served, NEW c \in Chats, HandlerStep(c)
    PROVE  Served'
<1>t. Types
  BY TypesHold
<1> USE <1>t, NullAssumption DEF Types, HoldsOK, Authored, WithHandler, InQueue,
       WithWorker, Watched, ClosingChat, Creating, Unbinding, redis, zoho, handler,
       worker, poller, Calm, Served
<1>1. ASSUME Authorize(c) PROVE Served'
  BY <1>1, SMTT(30) DEF Authorize
<1>2. ASSUME LoadConversation(c) PROVE Served'
  BY <1>2, SMTT(30) DEF LoadConversation, FreshConversation, Goto
<1>3. ASSUME Reply(c) PROVE Served'
  BY <1>3, SMTT(30) DEF Reply, Finish
<1>4. ASSUME Dialog(c) PROVE Served'
  BY <1>4, SMTT(30) DEF Dialog, Finish, SaveConversation, DialogSteps
<1>5. ASSUME NEW k \in Keys, FinalizeTicket(c, k) PROVE Served'
  <2>1. /\ author[k] = NoChat /\ author' = [author EXCEPT ![k] = c]
        /\ hpc' = [hpc EXCEPT ![c] = "create"]
        /\ fsm' = fsm \/ fsm' = [fsm EXCEPT ![c] = "ticket_open"]
        /\ UNCHANGED <<active, queue, expired, worker, poller>>
    BY <1>5 DEF FinalizeTicket, SaveConversation, Goto
  <2>2. \A d \in Chats : /\ InQueue(d) => InQueue(d)'
                         /\ WithWorker(d) => WithWorker(d)'
                         /\ Watched(d) => Watched(d)'
    BY <2>1
  <2> HIDE DEF InQueue, WithWorker, Watched
  <2> QED
    BY <2>1, <2>2
<1>6. ASSUME NEW t \in Tickets, CreateTicket(c, t) PROVE Served'
  <2>1. /\ UNCHANGED <<fsm, queue, author, wkey, active, expired, ppc, remaining, ptkt>>
        /\ hpc[c] = "create" /\ hpc' = [hpc EXCEPT ![c] = "set_ticket"]
    BY <1>6 DEF CreateTicket, Goto
  <2>2. \A d \in Chats : /\ InQueue(d)' <=> InQueue(d)
                         /\ WithWorker(d)' <=> WithWorker(d)
                         /\ Watched(d)' <=> Watched(d)
    BY <2>1
  <2> HIDE DEF InQueue, WithWorker, Watched
  <2> QED
    BY <2>1, <2>2
<1>7. ASSUME NEW t \in Tickets, CreateTicketReplyLost(c, t) PROVE Served'
  BY <1>7, SMTT(30) DEF CreateTicketReplyLost, Create
<1>8. ASSUME CreateTicketFails(c) PROVE Served'
  BY <1>8, SMTT(30) DEF CreateTicketFails, Goto
<1>9. ASSUME Enqueue(c) PROVE Served'
  <2>1. /\ hkey[c] \in Keys /\ author[hkey[c]] = c /\ queue' = Append(queue, hkey[c])
        /\ UNCHANGED <<fsm, author, wkey, active, ppc, remaining, ptkt>>
        /\ expired' = {} /\ hpc[c] = "enqueue" /\ hpc' = [hpc EXCEPT ![c] = "free"]
    BY <1>9 DEF Enqueue, Pushed, Finish
  <2>2. \A d \in Chats : InQueue(d)' <=> InQueue(d) \/ c = d
    BY <2>1, InQueueAfterPush
  <2> HIDE DEF InQueue
  <2> QED
    BY <2>1, <2>2
<1>10. ASSUME EnqueueFails(c) PROVE Served'
  BY <1>10, SMTT(30) DEF EnqueueFails, Fails, Goto
<1>11. ASSUME RevertToConfirming(c) PROVE Served'
  BY <1>11, SMTT(30) DEF RevertToConfirming, Finish, SaveConversation
<1>12. ASSUME SetTicket(c) PROVE Served'
  <2>1. /\ hpc' = [hpc EXCEPT ![c] = "watch"] /\ hpc[c] = "set_ticket"
        /\ UNCHANGED <<fsm, active, queue, author, expired, worker, poller>>
    BY <1>12 DEF SetTicket, Fails, Goto
  <2>2. \A d \in Chats : /\ InQueue(d)' <=> InQueue(d)
                         /\ WithWorker(d)' <=> WithWorker(d)
                         /\ Watched(d)' <=> Watched(d)
    BY <2>1
  <2> HIDE DEF InQueue, WithWorker, Watched
  <2> QED
    BY <2>1, <2>2
<1>13. ASSUME WatchTicket(c) PROVE Served'
  <2>1. PICK t \in Tickets : t = htkt[c]
    BY <1>13 DEF WatchTicket
  <2>2. active[t] \in {c, NoChat} /\ active' = [active EXCEPT ![t] = c]
    BY <1>13, <2>1 DEF WatchTicket, Fails
  <2>3. /\ UNCHANGED <<fsm, queue, wkey, author, ppc, remaining, ptkt>>
        /\ expired' = {}
        /\ \A d \in Chats \ {c} : hpc'[d] = hpc[d]
        /\ hpc'[c] \in {"free", "baseline"}
    BY <1>13 DEF WatchTicket, Finish, Goto
  <2>4. Watched(c)' /\ \A d \in Chats : Watched(d) => Watched(d)'
    BY <2>2, WatchedAfterSet
  <2> HIDE DEF Watched, InQueue
  <2>5. \A d \in Chats : InQueue(d)' <=> InQueue(d)
    BY <2>3 DEF InQueue
  <2> QED
    BY <2>3, <2>4, <2>5
<1>14. ASSUME Deadline(c) PROVE Served'
  BY <1>14, SMTT(30) DEF Deadline
<1>15. ASSUME BaselineTicket(c) PROVE Served'
  BY <1>15, SMTT(30) DEF BaselineTicket, Fails, Finish
<1> QED
  BY <1>1, <1>2, <1>3, <1>4, <1>5, <1>6, <1>7, <1>8, <1>9, <1>10, <1>11,
     <1>12, <1>13, <1>14, <1>15 DEF HandlerStep

\* ... those of the worker,
LEMMA ServedWorker ==
    ASSUME Calm, TypeInv, Authored, Served, WorkerStep
    PROVE  Served'
<1>t. Types
  BY TypesHold
<1> USE <1>t, NullAssumption DEF Types, HoldsOK, Authored, WithHandler, InQueue,
       WithWorker, Watched, ClosingChat, Creating, Unbinding, redis, zoho, handler,
       worker, poller, Calm, Served
<1>1. ASSUME DequeueTicket PROVE Served'
  <2>1. /\ queue # <<>> /\ queue' = Tail(queue) /\ wkey = NoKey /\ wkey' = Head(queue)
        /\ wkey' \in Keys
        /\ UNCHANGED <<fsm, active, author, hpc, expired, ppc, remaining, ptkt>>
    BY <1>1 DEF DequeueTicket, Popped
  <2> HIDE DEF InQueue
  <2>2. \A d \in Chats : InQueue(d) => InQueue(d)' \/ author[Head(queue)] = d
    BY <2>1, InQueueAfterPop
  <2> QED
    BY <2>1, <2>2
<1>2. ASSUME DequeueReplyLost PROVE Served'
  BY <1>2, SMTT(30) DEF DequeueReplyLost
<1>3. ASSUME NEW t \in Tickets, WorkerCreate(t) PROVE Served'
  BY <1>3, SMTT(30) DEF WorkerCreate, Create
<1>4. ASSUME NEW t \in Tickets, WorkerCreateReplyLost(t) PROVE Served'
  BY <1>4, SMTT(30) DEF WorkerCreateReplyLost, Create
<1>5. ASSUME WorkerCreateFails PROVE Served'
  BY <1>5, SMTT(30) DEF WorkerCreateFails
<1>6. ASSUME Requeue PROVE Served'
  <2>1. /\ wkey \in Keys /\ queue' = Append(queue, wkey)
        /\ UNCHANGED <<fsm, active, author, hpc, expired, ppc, remaining, ptkt>>
    BY <1>6 DEF Requeue, Pushed
  <2>2. \A d \in Chats : InQueue(d)' <=> InQueue(d) \/ WithWorker(d)
    BY <2>1, InQueueAfterPush
  <2> HIDE DEF InQueue
  <2> QED
    BY <2>1, <2>2
<1>7. ASSUME WorkerSetTicket PROVE Served'
  BY <1>7, SMTT(30) DEF WorkerSetTicket, WorkerFails
<1>8. ASSUME WorkerWatchTicket PROVE Served'
  <2>1. PICK t \in Tickets : t = wtkt
    BY <1>8 DEF WorkerWatchTicket
  <2>2. PICK c \in Chats : c = author[wkey]
    BY <1>8 DEF WorkerWatchTicket
  <2>3. /\ active[t] \in {c, NoChat}
        /\ active' = [active EXCEPT ![t] = c]
        /\ UNCHANGED <<fsm, queue, author, hpc, expired, ppc, remaining, ptkt>>
    BY <1>8, <2>1, <2>2 DEF WorkerWatchTicket, WorkerFails
  <2>4. Watched(c)' /\ \A d \in Chats : Watched(d) => Watched(d)'
    BY <2>3, WatchedAfterSet
  <2>5. \A d \in Chats : InQueue(d)' <=> InQueue(d)
    BY <2>3
  <2>6. \A d \in Chats : WithWorker(d) => d = c
    BY <2>2
  <2> HIDE DEF Watched, InQueue, WithWorker
  <2> QED
    BY <2>3, <2>4, <2>5, <2>6
<1>9. ASSUME WorkerBaseline PROVE Served'
  BY <1>9, SMTT(30) DEF WorkerBaseline, WorkerIdle
<1> QED
  BY <1>1, <1>2, <1>3, <1>4, <1>5, <1>6, <1>7, <1>8, <1>9 DEF WorkerStep

\* ... of a binding,
LEMMA ServedBinding ==
    ASSUME Calm, TypeInv, Authored, Served, NEW c \in Chats, BindingStep(c)
    PROVE  Served'
<1>t. Types
  BY TypesHold
<1> USE <1>t, NullAssumption DEF Types, HoldsOK, Authored, WithHandler, InQueue,
       WithWorker, Watched, ClosingChat, Creating, Unbinding, redis, zoho, handler,
       worker, poller, Calm, Served
<1>1. ASSUME Bind(c) PROVE Served'
  BY <1>1, SMTT(30) DEF Bind, Goto
<1>2. ASSUME StartFlow(c) PROVE Served'
  BY <1>2, SMTT(30) DEF StartFlow, SaveConversation, Finish
<1>3. ASSUME Revoke(c) PROVE Served'
  BY <1>3, SMTT(30) DEF Revoke, Goto
<1>4. ASSUME UnbindGetTicket(c) PROVE Served'
  BY <1>4, SMTT(30) DEF UnbindGetTicket, Reads, Goto
<1>5. ASSUME UnbindUnwatch(c) PROVE Served'
  BY <1>5, SMTT(30) DEF UnbindUnwatch, Fails, Goto
<1>6. ASSUME UnbindDropTicket(c) PROVE Served'
  BY <1>6, SMTT(30) DEF UnbindDropTicket, Goto
<1>7. ASSUME UnbindDropFSM(c) PROVE Served'
  <2>1. /\ fsm' = [fsm EXCEPT ![c] = "absent"]
        /\ UNCHANGED <<queue, author, wkey, active, ppc, remaining, ptkt>>
        /\ expired' = {} /\ hpc' = [hpc EXCEPT ![c] = "free"]
    BY <1>7 DEF UnbindDropFSM, SaveConversation, Fails, Finish
  <2>2. \A d \in Chats : /\ InQueue(d)' <=> InQueue(d)
                         /\ WithWorker(d)' <=> WithWorker(d)
                         /\ Watched(d)' <=> Watched(d)
    BY <2>1
  <2> HIDE DEF InQueue, WithWorker, Watched
  <2> QED
    BY <2>1, <2>2
<1>8. ASSUME UnbindUnmark(c) PROVE Served'
  BY <1>8, SMTT(30) DEF UnbindUnmark, Goto
<1> QED
  BY <1>1, <1>2, <1>3, <1>4, <1>5, <1>6, <1>7, <1>8 DEF BindingStep

\* ... of the poller
LEMMA ServedPoller ==
    ASSUME Calm, TypeInv, Authored, Served, PollerStep
    PROVE  Served'
<1>t. Types
  BY TypesHold
<1> USE <1>t, NullAssumption DEF Types, HoldsOK, Authored, WithHandler, InQueue,
       WithWorker, Watched, ClosingChat, Creating, Unbinding, redis, zoho, handler,
       worker, poller, Calm, Served
<1>1. ASSUME PollStart PROVE Served'
  BY <1>1, SMTT(30) DEF PollStart
<1>2. ASSUME ListRecentTickets PROVE Served'
  BY <1>2, SMTT(30) DEF ListRecentTickets
<1>3. ASSUME ListFails PROVE Served'
  BY <1>3, SMTT(30) DEF ListFails, PollerIdle
<1>4. ASSUME NEW t \in Tickets, Reconcile(t) PROVE Served'
  BY <1>4, SMTT(30) DEF Reconcile, Pending, StartClosure, Handled
<1>5. ASSUME NEW t \in Tickets, ProbeFindsEnd(t) PROVE Served'
  BY <1>5, SMTT(30) DEF ProbeFindsEnd, Unlisted, Pending, StartClosure
<1>6. ASSUME NEW t \in Tickets, ProbeSkips(t) PROVE Served'
  BY <1>6, SMTT(30) DEF ProbeSkips, Unlisted, Handled
<1>7. ASSUME ClosureGetTicket PROVE Served'
  BY <1>7, SMTT(30) DEF ClosureGetTicket, Reads
<1>8. ASSUME ClosureUnwatch PROVE Served'
  BY <1>8, SMTT(30) DEF ClosureUnwatch
<1>9. ASSUME ClosureDropTicket PROVE Served'
  BY <1>9, SMTT(30) DEF ClosureDropTicket
<1>10. ASSUME ClosureDropFSM PROVE Served'
  BY <1>10, SMTT(30) DEF ClosureDropFSM, ClosureDone, Handled
<1>11. ASSUME PollEnd PROVE Served'
  BY <1>11, SMTT(30) DEF PollEnd, PollerIdle
<1>12. ASSUME ClosureUnmark PROVE Served'
  BY <1>12, SMTT(30) DEF ClosureUnmark
<1> QED
  BY <1>1, <1>2, <1>3, <1>4, <1>5, <1>6, <1>7, <1>8, <1>9, <1>10, <1>11, <1>12
     DEF PollerStep, ClosureStep

\* ... and of the operators.
LEMMA ServedEnv ==
    ASSUME Calm, TypeInv, Authored, Served, EnvStep
    PROVE  Served'
<1>t. Types
  BY TypesHold
<1> USE <1>t, NullAssumption DEF Types, HoldsOK, Authored, WithHandler, InQueue,
       WithWorker, Watched, ClosingChat, Creating, Unbinding, redis, zoho, handler,
       worker, poller, Calm, Served
<1>1. ASSUME NEW t \in Tickets, CloseTicket(t) \/ DeleteTicket(t) PROVE Served'
  <2>1. UNCHANGED <<redis, keyOf, bound, author, authorized, handler, worker, poller>>
    BY <1>1 DEF CloseTicket, DeleteTicket
  <2> QED
    BY <2>1
<1>4. ASSUME NEW t \in Tickets, ModifyTicket(t) \/ ExpireMarker(t) PROVE Served'
  BY <1>4, SMTT(30) DEF ModifyTicket, ExpireMarker
<1>2. ASSUME NEW c \in Chats, ExpireFSM(c) \/ ExpireTicket(c) PROVE Served'
  BY <1>2, SMTT(30) DEF ExpireFSM, ExpireTicket
<1>3. ASSUME Crash PROVE Served'
  BY <1>3, SMTT(30) DEF Crash, WorkerIdle, PollerIdle
<1> QED
  BY <1>1, <1>2, <1>3, <1>4 DEF EnvStep

LEMMA InitServed == Init => Served
BY DEF Init, Served

LEMMA InitAuthored == Init => Authored
BY DEF Init, Authored, Creating

LEMMA StepAuthored ==
    ASSUME TypeInv, Authored, [Next]_vars
    PROVE  Authored'
<1>1. CASE UNCHANGED vars
  BY <1>1 DEF vars, redis, zoho, handler, worker, poller, Authored, ClosingChat
<1>2. CASE Next
  BY <1>2, AuthoredHandler, AuthoredBinding, AuthoredWorker, AuthoredPoller, AuthoredEnv DEF Next
<1> QED
  BY <1>1, <1>2

LEMMA StepServed ==
    ASSUME Calm, TypeInv, Authored, Served, [Next]_vars
    PROVE  Served'
<1>1. CASE UNCHANGED vars
  BY <1>1 DEF vars, redis, zoho, handler, worker, poller, Served, InQueue,
       WithWorker, WithHandler, Watched, ClosingChat
<1>2. CASE Next
  BY <1>2, ServedHandler, ServedBinding, ServedWorker, ServedPoller, ServedEnv DEF Next
<1> QED
  BY <1>1, <1>2

LEMMA ServedIsLive == TypeInv /\ Served => NobodyStranded
<1> SUFFICES ASSUME TypeInv, Served, NEW c \in Chats, fsm[c] = "ticket_open"
             PROVE  LiveRequests(c) # {} \/ BeingReset(c)
  BY DEF NobodyStranded
<1> USE DEF LiveRequests
<1>1. CASE InQueue(c)
  <2>1. PICK i \in 1..Len(queue) : author[queue[i]] = c
    BY <1>1 DEF InQueue
  <2>2. queue[i] \in Queued
    BY <2>1 DEF Queued, TypeInv, TypeOK
  <2> QED
    BY <2>1, <2>2
<1>2. CASE WithWorker(c)
  BY <1>2 DEF WithWorker, InHand
<1>3. CASE WithHandler(c)
  BY <1>3, NullAssumption DEF WithHandler, TypeInv, HoldsOK
<1>4. CASE Watched(c)
  BY <1>4 DEF Watched, WatchedFor
<1>5. CASE (ppc \in Unbinding /\ ClosingChat = c) \/ hpc[c] \in Unbinding
  BY <1>5 DEF BeingReset, ClosingChat
<1> QED
  BY <1>1, <1>2, <1>3, <1>4, <1>5 DEF Served

\* No client is left in ticket_open with no request on its way and no ticket
\* watched (finalizeTicket), whatever Zoho answers, loses or leaves off a list,
\* which keys expire and whom the administrator unbinds or binds again.
THEOREM EveryoneServed ==
    ASSUME Calm
    PROVE  Spec => []NobodyStranded
<1>1. Init => TypeInv /\ Authored /\ Served
  BY InitType, InitAuthored, InitServed
<1>2. TypeInv /\ Authored /\ Served /\ [Next]_vars => (TypeInv /\ Authored /\ Served)'
  BY StepType, StepAuthored, StepServed
<1>3. TypeInv /\ Served => NobodyStranded
  BY ServedIsLive
<1> QED
  BY <1>1, <1>2, <1>3, PTL DEF Spec
=============================================================================
