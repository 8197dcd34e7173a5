----------------------- MODULE TicketLifecycleProofs -----------------------
(***************************************************************************)
(* Theorems about TicketLifecycle, for every set of chats, requests and    *)
(* tickets.                                                                *)
(***************************************************************************)
EXTENDS TicketLifecycle, TLAPS

-----------------------------------------------------------------------------
(* Type correctness, whatever the environment does *)

\* What a process holds in each of its places; TypeOK is inductive with it.
HoldsOK ==
    /\ \A c \in Chats : hpc[c] \in Creating => hkey[c] \in Keys
    /\ wpc \notin {"idle", "baseline"} => wkey \in Keys
    /\ ppc \in Unbinding => ptkt \in Tickets /\ remaining[ptkt] \in Chats

TypeInv == TypeOK /\ HoldsOK

LEMMA InitType == Init => TypeInv
BY DEF Init, TypeInv, TypeOK, HoldsOK, States, HandlerPCs, Creating, Unbinding,
       WorkerPCs, PollerPCs

\* What the two ends of the queue do to its type.
LEMMA QueueType ==
    ASSUME queue \in Seq(Keys)
    PROVE  /\ \A k \in Keys : Pushed(k) \in Seq(Keys)
           /\ queue # <<>> => Popped \in Seq(Keys) /\ Head(queue) \in Keys
BY DEF Pushed, Popped

LEMMA FreshType ==
    ASSUME NEW c \in Chats
    PROVE  FreshConversation(c) \subseteq States
BY DEF FreshConversation, States, Saved

LEMMA FinishType ==
    ASSUME TypeInv, NEW c \in Chats, Finish(c)
    PROVE  /\ hpc' \in [Chats -> HandlerPCs]
           /\ conv' \in [Chats -> States]
           /\ hkey' \in [Chats -> Keys \cup {NoKey}]
           /\ htkt' \in [Chats -> Tickets \cup {NoTicket}]
           /\ expired' \subseteq Chats
           /\ \A d \in Chats : hpc'[d] \in Creating => hkey'[d] \in Keys
BY DEF TypeInv, TypeOK, HoldsOK, Finish, HandlerPCs, Creating, States

LEMMA SaveType ==
    ASSUME TypeInv, NEW c \in Chats, NEW s \in Saved \cup {"absent"},
           SaveConversation(c, s)
    PROVE  fsm' \in [Chats -> Saved \cup {"absent"}]
BY DEF TypeInv, TypeOK, SaveConversation

\* What a modification, and SetTicket's baseline, do to the times.
LEMMA TouchType ==
    ASSUME modified \in [Tickets -> Nat], NEW t \in Tickets, Touch(t)
    PROVE  modified' \in [Tickets -> Nat]
BY DEF Touch

LEMMA SetNXType ==
    ASSUME modified \in [Tickets -> Nat], modseen \in [Tickets -> Nat], NEW t, SetNX(t)
    PROVE  modseen' \in [Tickets -> Nat]
<1>1. PICK now \in Now(t) : modseen' = [modseen EXCEPT ![t] = IF @ = 0 THEN now ELSE @]
  BY DEF SetNX
<1>2. t \in Tickets => now \in Nat
  BY <1>1 DEF Now
<1> QED
  BY <1>1, <1>2

LEMMA HandlerType ==
    ASSUME TypeInv, NEW c \in Chats, HandlerStep(c)
    PROVE  TypeInv'
<1> USE DEF TypeInv, TypeOK, HoldsOK, redis, zoho, handler, worker, poller
<1>1. CASE Authorize(c)
  BY <1>1 DEF Authorize
<1>2. CASE LoadConversation(c)
  <2>1. PICK s \in IF fsm[c] = "absent" THEN FreshConversation(c) ELSE {fsm[c]} :
               conv' = [conv EXCEPT ![c] = s]
    BY <1>2 DEF LoadConversation
  <2>2. s \in States
    BY <2>1, FreshType DEF States
  <2>3. QED
    BY <1>2, <2>1, <2>2 DEF LoadConversation, Goto, HandlerPCs, Creating
<1>3. CASE Reply(c)
  BY <1>3, FinishType DEF Reply
<1>4. CASE Dialog(c)
  BY <1>4, FinishType, SaveType DEF Dialog
<1>5. ASSUME NEW k \in Keys, FinalizeTicket(c, k) PROVE TypeInv'
  BY <1>5, SaveType DEF FinalizeTicket, Goto, HandlerPCs, Creating, States, Saved
<1>6. ASSUME NEW t \in Tickets, CreateTicket(c, t) PROVE TypeInv'
  BY <1>6, TouchType DEF CreateTicket, Create, Goto, HandlerPCs, Creating
<1>7. ASSUME NEW t \in Tickets, CreateTicketReplyLost(c, t) PROVE TypeInv'
  BY <1>7, TouchType DEF CreateTicketReplyLost, Create, Creating
<1>8. CASE CreateTicketFails(c)
  BY <1>8 DEF CreateTicketFails, Goto, HandlerPCs, Creating
<1>9. CASE Enqueue(c)
  <2>1. hkey[c] \in Keys
    BY <1>9 DEF Enqueue, Creating
  <2>2. QED
    BY <1>9, <2>1, FinishType, QueueType DEF Enqueue
<1>10. CASE EnqueueFails(c)
  <2>1. hkey[c] \in Keys
    BY <1>10 DEF EnqueueFails, Creating
  <2>2. QED
    BY <1>10, <2>1, QueueType DEF EnqueueFails, Goto, HandlerPCs, Creating
<1>11. CASE RevertToConfirming(c)
  BY <1>11, FinishType, SaveType DEF RevertToConfirming, Saved
<1>12. CASE SetTicket(c)
  <2>1. ticket' \in [Chats -> Tickets \cup {NoTicket}]
    BY <1>12 DEF SetTicket
  <2>2. CASE Finish(c)
    BY <1>12, <2>1, <2>2, FinishType DEF SetTicket
  <2>3. CASE hpc' = [hpc EXCEPT ![c] = "watch"] /\ UNCHANGED <<conv, hkey, htkt, expired>>
    <3>1. \A d \in Chats : hpc'[d] \in Creating => hkey'[d] \in Keys
      BY <1>12, <2>3 DEF SetTicket, Creating
    <3>2. hpc' \in [Chats -> HandlerPCs]
      BY <2>3 DEF HandlerPCs, Creating
    <3> QED
      BY <1>12, <2>1, <2>3, <3>1, <3>2 DEF SetTicket
  <2> QED
    BY <1>12, <2>2, <2>3 DEF SetTicket, Goto
<1>13. CASE WatchTicket(c)
  <2>1. active' \in [Tickets -> Chats \cup {NoChat}]
    BY <1>13 DEF WatchTicket
  <2>2. CASE Finish(c)
    BY <1>13, <2>1, <2>2, FinishType DEF WatchTicket
  <2>3. CASE /\ hpc' = [hpc EXCEPT ![c] = "baseline"] /\ hkey' = [hkey EXCEPT ![c] = NoKey]
             /\ UNCHANGED <<conv, htkt, expired>>
    BY <1>13, <2>1, <2>3 DEF WatchTicket, HandlerPCs, Creating
  <2> QED
    BY <1>13, <2>2, <2>3 DEF WatchTicket, Goto
<1>14. CASE BaselineTicket(c)
  BY <1>14, FinishType, SetNXType DEF BaselineTicket
<1>15. CASE Deadline(c)
  BY <1>15 DEF Deadline
<1> QED
  BY <1>1, <1>2, <1>3, <1>4, <1>5, <1>6, <1>7, <1>8, <1>9, <1>10, <1>11,
     <1>12, <1>13, <1>14, <1>15 DEF HandlerStep

LEMMA BindingType ==
    ASSUME TypeInv, NEW c \in Chats, BindingStep(c)
    PROVE  TypeInv'
<1> USE DEF TypeInv, TypeOK, HoldsOK, redis, zoho, handler, worker, poller
<1>1. CASE Bind(c)
  BY <1>1 DEF Bind, Goto, HandlerPCs, Creating
<1>2. CASE StartFlow(c)
  BY <1>2, FinishType, SaveType DEF StartFlow, Saved
<1>3. CASE Revoke(c)
  BY <1>3 DEF Revoke, Goto, HandlerPCs, Creating, Unbinding
<1>4. CASE UnbindGetTicket(c)
  <2>1. Reads(c, Fails(c)) \subseteq Tickets \cup {NoTicket}
    BY DEF Reads
  <2>2. QED
    BY <1>4, <2>1 DEF UnbindGetTicket, Goto, HandlerPCs, Creating, Unbinding
<1>5. CASE UnbindUnwatch(c)
  BY <1>5, ZenonT(40) DEF UnbindUnwatch, Goto, HandlerPCs, Creating, Unbinding
<1>6. CASE UnbindUnmark(c)
  <2>1. modseen' \in [Tickets -> Nat]
    <3> HIDE DEF TypeInv, TypeOK, HoldsOK
    <3>1. modseen \in [Tickets -> Nat] /\ 0 \in Nat
      BY DEF TypeInv, TypeOK
    <3> QED
      BY <1>6, <3>1 DEF UnbindUnmark
  <2>2. \E pc \in {"drop_ref", "drop_fsm"} : hpc' = [hpc EXCEPT ![c] = pc]
    BY <1>6 DEF UnbindUnmark, Goto
  <2> QED
    BY <1>6, <2>1, <2>2, SMTT(30) DEF UnbindUnmark, HandlerPCs, Creating, Unbinding
<1>7. CASE UnbindDropTicket(c)
  BY <1>7 DEF UnbindDropTicket, Goto, HandlerPCs, Creating, Unbinding
<1>8. CASE UnbindDropFSM(c)
  BY <1>8, FinishType, SaveType DEF UnbindDropFSM
<1> QED
  BY <1>1, <1>2, <1>3, <1>4, <1>5, <1>6, <1>7, <1>8 DEF BindingStep

LEMMA WorkerType ==
    ASSUME TypeInv, WorkerStep
    PROVE  TypeInv'
<1> USE DEF TypeInv, TypeOK, HoldsOK, redis, zoho, handler, worker, poller,
            WorkerPCs, WorkerIdle
<1>1. CASE DequeueTicket
  BY <1>1, QueueType DEF DequeueTicket
<1>2. CASE DequeueReplyLost
  BY <1>2, QueueType DEF DequeueReplyLost
<1>3. ASSUME NEW t \in Tickets, WorkerCreate(t) PROVE TypeInv'
  BY <1>3, TouchType DEF WorkerCreate, Create
<1>4. ASSUME NEW t \in Tickets, WorkerCreateReplyLost(t) PROVE TypeInv'
  BY <1>4, TouchType DEF WorkerCreateReplyLost, Create
<1>5. CASE WorkerCreateFails
  BY <1>5 DEF WorkerCreateFails
<1>6. CASE Requeue
  BY <1>6, QueueType DEF Requeue
<1>7. CASE WorkerSetTicket
  <2>1. ticket' \in [Chats -> Tickets \cup {NoTicket}]
    BY <1>7 DEF WorkerSetTicket
  <2>2. /\ wpc' \in WorkerPCs /\ wkey' \in Keys \cup {NoKey} /\ wtkt' \in Tickets \cup {NoTicket}
        /\ wpc' \notin {"idle", "baseline"} => wkey' \in Keys
    BY <1>7 DEF WorkerSetTicket
  <2> QED
    BY <1>7, <2>1, <2>2 DEF WorkerSetTicket
<1>8. CASE WorkerWatchTicket
  <2>1. active' \in [Tickets -> Chats \cup {NoChat}]
    <3>1. author[wkey] \in Chats \cup {NoChat}
      BY <1>8 DEF WorkerWatchTicket
    <3>2. active' = [active EXCEPT ![wtkt] = author[wkey]] \/ active' = active
      BY <1>8 DEF WorkerWatchTicket
    <3> QED
      BY <3>1, <3>2
  <2>2. /\ wpc' \in WorkerPCs /\ wkey' \in Keys \cup {NoKey} /\ wtkt' \in Tickets \cup {NoTicket}
        /\ wpc' \notin {"idle", "baseline"} => wkey' \in Keys
    BY <1>8 DEF WorkerWatchTicket
  <2>3. UNCHANGED <<fsm, ticket, queue, modseen, zoho, bound, author, authorized, handler, poller>>
    BY <1>8 DEF WorkerWatchTicket
  <2> QED
    BY <2>1, <2>2, <2>3
<1>9. CASE WorkerBaseline
  BY <1>9, SetNXType DEF WorkerBaseline
<1> QED
  BY <1>1, <1>2, <1>3, <1>4, <1>5, <1>6, <1>7, <1>8, <1>9 DEF WorkerStep

LEMMA PollerType ==
    ASSUME TypeInv, PollerStep
    PROVE  TypeInv'
<1> USE DEF TypeInv, TypeOK, HoldsOK, redis, zoho, handler, worker, poller,
            PollerPCs, Unbinding, PollerIdle, Pending
<1>1. CASE PollStart
  BY <1>1 DEF PollStart
<1>2. CASE ListRecentTickets
  BY <1>2 DEF ListRecentTickets
<1>3. CASE ListFails
  BY <1>3 DEF ListFails
<1>4. ASSUME NEW t \in Tickets, Reconcile(t) PROVE TypeInv'
  <2>1. modseen' \in [Tickets -> Nat]
    BY <1>4, SMT DEF Reconcile
  <2>2. \/ ppc' = "get_ref" /\ ptkt' = t /\ UNCHANGED <<remaining, listed, lmod>>
        \/ Handled(t) /\ UNCHANGED <<ppc, ptkt>> /\ ppc = "scan"
    BY <1>4 DEF Reconcile, StartClosure
  <2>3. t \in Tickets /\ remaining[t] \in Chats
    BY <1>4 DEF Reconcile
  <2>4. CASE ppc' = "get_ref" /\ ptkt' = t /\ UNCHANGED <<remaining, listed, lmod>>
    BY <1>4, <2>1, <2>3, <2>4 DEF Reconcile
  <2>5. CASE Handled(t) /\ UNCHANGED <<ppc, ptkt>> /\ ppc = "scan"
    <3>1. lmod' \in [Tickets -> Nat]
      BY <2>5 DEF Handled
    <3> QED
      BY <1>4, <2>1, <2>5, <3>1 DEF Reconcile, Handled
  <2> QED
    BY <2>2, <2>4, <2>5
<1>5. ASSUME NEW t \in Tickets, ProbeFindsEnd(t) PROVE TypeInv'
  BY <1>5 DEF ProbeFindsEnd, Unlisted, StartClosure
<1>6. ASSUME NEW t \in Tickets, ProbeSkips(t) PROVE TypeInv'
  BY <1>6 DEF ProbeSkips, Unlisted, Handled
<1>7. CASE ClosureGetTicket
  <2>1. Reads(ClosingChat, "redis" \in Env) \subseteq Tickets \cup {NoTicket}
    BY <1>7 DEF ClosureGetTicket, Reads, ClosingChat
  <2>2. QED
    BY <1>7, <2>1 DEF ClosureGetTicket
<1>8. CASE ClosureUnwatch
  BY <1>8 DEF ClosureUnwatch
<1>9. CASE ClosureUnmark
  BY <1>9 DEF ClosureUnmark
<1>10. CASE ClosureDropTicket
  BY <1>10 DEF ClosureDropTicket
<1>11. CASE ClosureDropFSM
  BY <1>11 DEF ClosureDropFSM, ClosureDone, Handled, ClosingChat
<1>12. CASE PollEnd
  BY <1>12 DEF PollEnd
<1> QED
  BY <1>1, <1>2, <1>3, <1>4, <1>5, <1>6, <1>7, <1>8, <1>9, <1>10, <1>11, <1>12
     DEF PollerStep, ClosureStep

LEMMA EnvType ==
    ASSUME TypeInv, EnvStep
    PROVE  TypeInv'
<1> USE DEF TypeInv, TypeOK, HoldsOK, redis, zoho, handler, worker, poller
<1>1. ASSUME NEW t \in Tickets, CloseTicket(t) \/ ModifyTicket(t) PROVE TypeInv'
  <2>1. status' \in [Tickets -> {"none", "open", "closed", "deleted"}]
    <3>1. status' = [status EXCEPT ![t] = "closed"] \/ status' = status
      BY <1>1 DEF CloseTicket, ModifyTicket
    <3> QED
      BY <3>1
  <2>2. modified' \in [Tickets -> Nat]
    BY <1>1, TouchType DEF CloseTicket, ModifyTicket
  <2> QED
    BY <1>1, <2>1, <2>2 DEF CloseTicket, ModifyTicket
<1>2. ASSUME NEW t \in Tickets, DeleteTicket(t) \/ ExpireMarker(t) PROVE TypeInv'
  <2>1. CASE DeleteTicket(t)
    <3>1. status' \in [Tickets -> {"none", "open", "closed", "deleted"}]
      BY <2>1 DEF DeleteTicket
    <3>2. modified' \in [Tickets -> Nat]
      BY <2>1 DEF DeleteTicket
    <3> QED
      BY <2>1, <3>1, <3>2 DEF DeleteTicket
  <2>2. CASE ExpireMarker(t)
    <3>1. modseen' \in [Tickets -> Nat]
      BY <2>2 DEF ExpireMarker
    <3> QED
      BY <2>2, <3>1 DEF ExpireMarker
  <2> QED
    BY <1>2, <2>1, <2>2
<1>3. ASSUME NEW c \in Chats, ExpireFSM(c) \/ ExpireTicket(c) PROVE TypeInv'
  <2>1. CASE ExpireFSM(c)
    <3>1. fsm' \in [Chats -> Saved \cup {"absent"}]
      BY <2>1 DEF ExpireFSM
    <3> QED
      BY <2>1, <3>1 DEF ExpireFSM
  <2>2. CASE ExpireTicket(c)
    <3>1. ticket' \in [Chats -> Tickets \cup {NoTicket}]
      BY <2>2 DEF ExpireTicket
    <3> QED
      BY <2>2, <3>1 DEF ExpireTicket
  <2> QED
    BY <1>3, <2>1, <2>2
<1>4. CASE Crash
  BY <1>4 DEF Crash, WorkerIdle, PollerIdle, HandlerPCs, WorkerPCs, PollerPCs,
              Creating, Unbinding, States
<1> QED
  BY <1>1, <1>2, <1>3, <1>4 DEF EnvStep

LEMMA StepType == TypeInv /\ [Next]_vars => TypeInv'
<1> SUFFICES ASSUME TypeInv, [Next]_vars
             PROVE  TypeInv'
  OBVIOUS
<1>1. CASE UNCHANGED vars
  BY <1>1 DEF vars, redis, zoho, handler, worker, poller, TypeInv, TypeOK, HoldsOK
<1>2. CASE Next
  BY <1>2, HandlerType, BindingType, WorkerType, PollerType, EnvType DEF Next
<1> QED
  BY <1>1, <1>2

LEMMA TypeInvariant == Spec => []TypeInv
BY InitType, StepType, PTL DEF Spec

\* Every variable keeps its type, whatever fails and whenever the process dies.
THEOREM TypeCorrect == Spec => []TypeOK
<1>1. TypeInv => TypeOK
  BY DEF TypeInv
<1> QED
  BY <1>1, TypeInvariant, PTL

-----------------------------------------------------------------------------
(* One ticket per request: for every set of chats, requests and tickets,     *)
(* whatever the environment does short of losing an answer of Zoho: Redis    *)
(* may fail, keys expire, chats be unbound and the process die anywhere.     *)

AnswersArrive == "lost" \notin Env

-----------------------------------------------------------------------------
(* The inductive invariant *)

QueuedKey(k) == \E i \in 1..Len(queue) : queue[i] = k
Unmade(k)    == \A t \in Tickets : keyOf[t] # k

\* Who may still create the ticket of request k is alone with it, and there is
\* none yet: the handler of its author before it is queued, then the queue,
\* then the worker.
Alone ==
    /\ \A i, j \in 1..Len(queue) : queue[i] = queue[j] => i = j
    /\ \A k \in Keys :
          /\ QueuedKey(k) => Unmade(k) /\ author[k] # NoChat
          /\ wkey = k => author[k] # NoChat
          /\ wkey = k /\ wpc \in {"create", "requeue"} => Unmade(k) /\ ~QueuedKey(k)
          /\ author[k] = NoChat => Unmade(k)
    /\ \A c \in Chats :
          /\ IF hpc[c] \in Creating
             THEN hkey[c] \in Keys /\ author[hkey[c]] = c
             ELSE hkey[c] = NoKey
          /\ hpc[c] \in {"create", "enqueue"} =>
                Unmade(hkey[c]) /\ ~QueuedKey(hkey[c]) /\ wkey # hkey[c]
    /\ wpc \in {"idle", "baseline"} => wkey = NoKey

MadeOnce ==
    \A t, u \in Tickets : keyOf[t] = keyOf[u] /\ keyOf[t] # NoKey => t = u

OInv == TypeInv /\ Alone /\ MadeOnce

-----------------------------------------------------------------------------
(* What each end of the queue does to the requests in it *)

LEMMA AfterPush ==
    ASSUME queue \in Seq(Keys), NEW k \in Keys, queue' = Pushed(k)
    PROVE  /\ \A l \in Keys : QueuedKey(l)' <=> QueuedKey(l) \/ l = k
           /\ (\A i, j \in 1..Len(queue) : queue[i] = queue[j] => i = j) /\ ~QueuedKey(k)
                => \A i, j \in 1..Len(queue') : queue'[i] = queue'[j] => i = j
<1>1. /\ Len(queue) \in Nat /\ Len(queue') = Len(queue) + 1
      /\ \A i \in 1..Len(queue) : queue'[i] = queue[i]
      /\ queue'[Len(queue) + 1] = k
  BY DEF Pushed
<1>2. ASSUME NEW l \in Keys
      PROVE  QueuedKey(l)' <=> QueuedKey(l) \/ l = k
  <2>1. Len(queue) + 1 \in 1..Len(queue') /\ 1..Len(queue) \subseteq 1..Len(queue')
    BY <1>1
  <2>2. \A i \in 1..Len(queue') : i \in 1..Len(queue) \/ i = Len(queue) + 1
    BY <1>1
  <2>3. QED
    BY <1>1, <2>1, <2>2 DEF QueuedKey
<1>3. ASSUME \A i, j \in 1..Len(queue) : queue[i] = queue[j] => i = j,
             ~QueuedKey(k), NEW i \in 1..Len(queue'), NEW j \in 1..Len(queue'),
             queue'[i] = queue'[j]
      PROVE  i = j
  BY <1>1, <1>3 DEF QueuedKey
<1> QED
  BY <1>2, <1>3

LEMMA AfterPop ==
    ASSUME queue \in Seq(Keys), queue # <<>>, queue' = Popped,
           \A i, j \in 1..Len(queue) : queue[i] = queue[j] => i = j
    PROVE  /\ \A l \in Keys : QueuedKey(l)' <=> QueuedKey(l) /\ l # Head(queue)
           /\ QueuedKey(Head(queue)) /\ Head(queue) \in Keys
           /\ \A i, j \in 1..Len(queue') : queue'[i] = queue'[j] => i = j
<1>1. /\ Len(queue) \in Nat \ {0} /\ Len(queue') = Len(queue) - 1
      /\ \A i \in 1..Len(queue') : queue'[i] = queue[i + 1] /\ i + 1 \in 1..Len(queue)
      /\ Head(queue) = queue[1] /\ 1 \in 1..Len(queue) /\ Head(queue) \in Keys
  BY DEF Popped
<1>2. ASSUME NEW l \in Keys
      PROVE  QueuedKey(l)' <=> QueuedKey(l) /\ l # Head(queue)
  <2>1. ASSUME QueuedKey(l)' PROVE QueuedKey(l) /\ l # Head(queue)
    <3>1. PICK i \in 1..Len(queue') : queue'[i] = l
      BY <2>1 DEF QueuedKey
    <3>2. i + 1 \in 1..Len(queue) /\ queue[i + 1] = l /\ i + 1 # 1
      BY <1>1, <3>1
    <3>3. QED
      BY <1>1, <3>2 DEF QueuedKey
  <2>2. ASSUME QueuedKey(l), l # Head(queue) PROVE QueuedKey(l)'
    <3>1. PICK i \in 1..Len(queue) : queue[i] = l
      BY <2>2 DEF QueuedKey
    <3>2. i - 1 \in 1..Len(queue')
      BY <1>1, <2>2, <3>1
    <3>3. queue'[i - 1] = queue[(i - 1) + 1] /\ (i - 1) + 1 = i
      BY <1>1, <3>1, <3>2
    <3>4. QED
      BY <3>1, <3>2, <3>3 DEF QueuedKey
  <2>3. QED
    BY <2>1, <2>2
<1>3. ASSUME NEW i \in 1..Len(queue'), NEW j \in 1..Len(queue'), queue'[i] = queue'[j]
      PROVE  i = j
  <2>1. i + 1 = j + 1
    BY <1>1, <1>3
  <2>2. QED
    BY <1>1, <2>1
<1> QED
  BY <1>1, <1>2, <1>3 DEF QueuedKey

-----------------------------------------------------------------------------
(* Each step keeps the invariant.  Only the handlers and the worker touch a *)
(* request.                                                                *)

\* A step that touches no request.
LEMMA RequestsUntouched ==
    ASSUME OInv, TypeInv', UNCHANGED <<queue, keyOf, author, wkey, wpc, hkey>>,
           \A c \in Chats :
              \/ hpc'[c] = hpc[c]
              \/ hpc[c] \notin Creating /\ hpc'[c] \notin Creating
    PROVE  OInv'
BY DEF OInv, Alone, MadeOnce, QueuedKey, Unmade, Creating

\* A handler that goes on with its request, or lets go of it, or has none.
LEMMA HandlerMoves ==
    ASSUME OInv, TypeInv', NEW c \in Chats, UNCHANGED <<queue, keyOf, author, wkey, wpc>>,
           NEW pc \in HandlerPCs, hpc' = [hpc EXCEPT ![c] = pc],
           \/ pc \notin Creating /\ hkey' = [hkey EXCEPT ![c] = NoKey]
           \/ pc \notin Creating /\ hpc[c] \notin Creating /\ UNCHANGED hkey
           \/ pc \in Creating \ {"create", "enqueue"} /\ hpc[c] \in Creating /\ UNCHANGED hkey
    PROVE  OInv'
<1>1. \A k \in Keys : (Unmade(k)' <=> Unmade(k)) /\ (QueuedKey(k)' <=> QueuedKey(k))
  BY DEF Unmade, QueuedKey
<1>2. /\ hpc \in [Chats -> HandlerPCs] /\ hkey \in [Chats -> Keys \cup {NoKey}]
      /\ \A d \in Chats : IF hpc[d] \in Creating
                         THEN hkey[d] \in Keys /\ author[hkey[d]] = d
                         ELSE hkey[d] = NoKey
  BY DEF OInv, TypeInv, TypeOK, Alone
<1>3. \A d \in Chats :
         /\ IF hpc'[d] \in Creating
            THEN hkey'[d] \in Keys /\ author[hkey'[d]] = d
            ELSE hkey'[d] = NoKey
         /\ hpc'[d] \in {"create", "enqueue"} =>
               hpc[d] \in {"create", "enqueue"} /\ hkey'[d] = hkey[d]
  BY <1>2 DEF Creating
<1>4. \A d \in Chats : hpc'[d] \in {"create", "enqueue"} =>
         (Unmade(hkey[d]) /\ ~QueuedKey(hkey[d]) /\ wkey # hkey[d])'
  BY <1>1, <1>2, <1>3 DEF OInv, Alone, Creating
<1>5. \A d \in Chats : IF hpc'[d] \in Creating
                     THEN hkey'[d] \in Keys /\ author'[hkey'[d]] = d
                     ELSE hkey'[d] = NoKey
  BY <1>3
<1>6. Alone'
  BY <1>1, <1>4, <1>5 DEF OInv, Alone
<1> QED
  BY <1>6 DEF OInv, MadeOnce

\* The steps of the chat lock's holder that give no request away.
LEMMA MovesOnce ==
    ASSUME OInv, TypeInv', NEW c \in Chats,
           \/ Reply(c) \/ Dialog(c) \/ RevertToConfirming(c) \/ SetTicket(c)
           \/ WatchTicket(c) \/ BaselineTicket(c) \/ BindingStep(c)
    PROVE  OInv'
<1> USE DEF Reply, Dialog, RevertToConfirming, SetTicket, WatchTicket, BaselineTicket, BindingStep,
       Bind, StartFlow, Revoke, UnbindGetTicket, UnbindUnwatch, UnbindUnmark, UnbindDropTicket,
       UnbindDropFSM
<1>1. UNCHANGED <<queue, keyOf, author, wkey, wpc>>
  BY DEF redis, zoho, worker
<1>2. CASE Finish(c)
  BY <1>1, <1>2, HandlerMoves DEF Finish, HandlerPCs, Creating
<1>3. CASE ~Finish(c) /\ SetTicket(c)
  BY <1>1, <1>3, HandlerMoves DEF Goto, HandlerPCs, Creating
<1>4. CASE ~Finish(c) /\ WatchTicket(c)
  BY <1>1, <1>4, HandlerMoves DEF Goto, HandlerPCs, Creating
<1>5. CASE ~Finish(c) /\ BindingStep(c)
  <2>1. hpc[c] \notin Creating /\ UNCHANGED hkey
    BY <1>5 DEF Creating
  <2>2. \E pc \in HandlerPCs \ Creating : hpc' = [hpc EXCEPT ![c] = pc]
    BY <1>5 DEF Goto, HandlerPCs, Creating, Unbinding
  <2> QED
    BY <1>1, <2>1, <2>2, HandlerMoves
<1> QED
  BY <1>2, <1>3, <1>4, <1>5

LEMMA HandlerOnce ==
    ASSUME AnswersArrive, OInv, NEW c \in Chats, HandlerStep(c)
    PROVE  OInv'
<1> USE NullAssumption DEF OInv, TypeInv, TypeOK, Alone, MadeOnce, Unmade, Creating,
       redis, zoho, handler, worker, poller, AnswersArrive
<1>0. TypeInv'
  BY HandlerType DEF OInv
<1>1. ASSUME Authorize(c) PROVE OInv'
  BY <1>0, <1>1, SMTT(30) DEF Authorize, QueuedKey
<1>2. ASSUME LoadConversation(c) PROVE OInv'
  BY <1>0, <1>2, SMTT(30) DEF LoadConversation, Goto, QueuedKey
<1>3. ASSUME \/ Reply(c) \/ Dialog(c) \/ RevertToConfirming(c) \/ SetTicket(c)
             \/ WatchTicket(c) \/ BaselineTicket(c)
      PROVE  OInv'
  <2> HIDE DEF OInv, Alone, MadeOnce, TypeInv
  <2> QED
    BY <1>0, <1>3, MovesOnce
<1>4. ASSUME NEW k \in Keys, FinalizeTicket(c, k) PROVE OInv'
  <2>1. /\ author[k] = NoChat /\ author' = [author EXCEPT ![k] = c]
        /\ hkey' = [hkey EXCEPT ![c] = k] /\ hpc' = [hpc EXCEPT ![c] = "create"]
        /\ UNCHANGED <<queue, keyOf, wkey, wpc>>
    BY <1>4 DEF FinalizeTicket, Goto
  <2>2. \A l \in Keys :
           /\ QueuedKey(l)' <=> QueuedKey(l)
           /\ Unmade(l)' <=> Unmade(l)
           /\ author[l] # NoChat => author'[l] = author[l]
    BY <2>1 DEF QueuedKey
  <2>3. Unmade(k) /\ ~QueuedKey(k) /\ wkey # k /\ author'[k] = c
    BY <2>1
  <2>4. MadeOnce'
    BY <2>1
  <2>5. Alone'
    <3> HIDE DEF Unmade
    <3>1. \A l \in Keys :
             /\ QueuedKey(l)' => Unmade(l)' /\ author'[l] # NoChat
             /\ wkey' = l => author'[l] # NoChat
             /\ wkey' = l /\ wpc' \in {"create", "requeue"} => Unmade(l)' /\ ~QueuedKey(l)'
             /\ author'[l] = NoChat => Unmade(l)'
      BY <2>1, <2>2, <2>3
    <3>2. \A d \in Chats \ {c} :
             /\ hpc'[d] = hpc[d] /\ hkey'[d] = hkey[d]
             /\ hpc[d] \in Creating => author'[hkey[d]] = d
      BY <2>1, <2>2
    <3>3. \A d \in Chats :
             /\ IF hpc'[d] \in Creating
                THEN hkey'[d] \in Keys /\ author'[hkey'[d]] = d
                ELSE hkey'[d] = NoKey
             /\ hpc'[d] \in {"create", "enqueue"} =>
                   (Unmade(hkey[d]) /\ ~QueuedKey(hkey[d]) /\ wkey # hkey[d])'
      BY <2>1, <2>2, <2>3, <3>2
    <3> QED
      BY <2>1, <3>1, <3>3
  <2> QED
    BY <1>0, <2>4, <2>5
<1>5. ASSUME NEW t \in Tickets, CreateTicket(c, t) PROVE OInv'
  <2>1. /\ keyOf' = [keyOf EXCEPT ![t] = hkey[c]]
        /\ hpc[c] = "create" /\ hpc' = [hpc EXCEPT ![c] = "set_ticket"]
        /\ UNCHANGED <<queue, author, hkey, wkey, wpc>>
    BY <1>5 DEF CreateTicket, Create, Goto
  <2>2. \A k \in Keys : QueuedKey(k)' <=> QueuedKey(k)
    BY <2>1 DEF QueuedKey
  <2>3. hkey[c] \in Keys /\ author[hkey[c]] = c /\ Unmade(hkey[c])
        /\ ~QueuedKey(hkey[c]) /\ wkey # hkey[c]
    BY <2>1
  <2>4. \A k \in Keys \ {hkey[c]} : Unmade(k) => Unmade(k)'
    BY <2>1
  <2>5. MadeOnce'
    BY <2>1, <2>3
  <2>6. Alone'
    <3> HIDE DEF Unmade
    <3>1. \A d \in Chats \ {c} : hpc'[d] \in {"create", "enqueue"} => hkey[d] # hkey[c]
      BY <2>1, <2>3
    <3>2. \A d \in Chats : hpc'[d] \in {"create", "enqueue"} =>
             /\ d # c /\ hpc[d] \in {"create", "enqueue"} /\ Unmade(hkey[d])'
             /\ hkey[d] \in Keys /\ ~QueuedKey(hkey[d])' /\ wkey # hkey[d]
      BY <2>1, <2>2, <2>3, <2>4, <3>1
    <3>3. \A d \in Chats : (hpc'[d] \in Creating <=> hpc[d] \in Creating)
      BY <2>1
    <3>4. \A k \in Keys :
             /\ QueuedKey(k)' => Unmade(k)' /\ author[k] # NoChat
             /\ wkey = k /\ wpc \in {"create", "requeue"} => Unmade(k)' /\ ~QueuedKey(k)'
             /\ author[k] = NoChat => Unmade(k)'
      BY <2>1, <2>2, <2>3, <2>4
    <3>5. \A d \in Chats : IF hpc'[d] \in Creating
                          THEN hkey'[d] \in Keys /\ author'[hkey'[d]] = d
                          ELSE hkey'[d] = NoKey
      BY <2>1, <3>3
    <3>6. \A d \in Chats : hpc'[d] \in {"create", "enqueue"} =>
             (Unmade(hkey[d]) /\ ~QueuedKey(hkey[d]) /\ wkey # hkey[d])'
      BY <2>1, <3>2
    <3> QED
      BY <2>1, <3>4, <3>5, <3>6
  <2> QED
    BY <1>0, <2>5, <2>6
<1>6. ASSUME NEW t \in Tickets, CreateTicketReplyLost(c, t) PROVE OInv'
  BY <1>0, <1>6, SMTT(30) DEF CreateTicketReplyLost, QueuedKey
<1>7. ASSUME CreateTicketFails(c) PROVE OInv'
  BY <1>0, <1>7, SMTT(30) DEF CreateTicketFails, Goto, QueuedKey
<1>8. ASSUME Enqueue(c) PROVE OInv'
  BY <1>0, <1>8, AfterPush, SMTT(30) DEF Enqueue, Finish
<1>9. ASSUME EnqueueFails(c) PROVE OInv'
  <2>1. CASE UNCHANGED queue
    BY <1>0, <1>9, <2>1, SMTT(30) DEF EnqueueFails, Goto, QueuedKey
  <2>2. CASE queue' = Pushed(hkey[c])
    <3>1. hkey[c] \in Keys /\ queue \in Seq(Keys) /\ ~QueuedKey(hkey[c])
      BY <1>9 DEF EnqueueFails
    <3>2. QED
      BY <1>0, <1>9, <2>2, <3>1, AfterPush, SMTT(30) DEF EnqueueFails, Goto
  <2>3. QED
    BY <1>9, <2>1, <2>2 DEF EnqueueFails
<1>10. ASSUME Deadline(c) PROVE OInv'
  BY <1>0, <1>10, SMTT(30) DEF Deadline, QueuedKey
<1> HIDE DEF OInv
<1> QED
  BY <1>1, <1>2, <1>3, <1>4, <1>5, <1>6, <1>7, <1>8, <1>9, <1>10 DEF HandlerStep

LEMMA BindingOnce ==
    ASSUME OInv, NEW c \in Chats, BindingStep(c)
    PROVE  OInv'
<1>1. TypeInv'
  BY BindingType DEF OInv
<1> QED
  BY <1>1, MovesOnce

LEMMA WorkerOnce ==
    ASSUME AnswersArrive, OInv, WorkerStep
    PROVE  OInv'
<1> USE NullAssumption DEF OInv, TypeInv, TypeOK, Alone, MadeOnce, Unmade, Creating,
       redis, zoho, handler, worker, poller, AnswersArrive
<1>0. TypeInv'
  BY WorkerType DEF OInv
<1>1. ASSUME DequeueTicket PROVE OInv'
  BY <1>0, <1>1, AfterPop, SMTT(30) DEF DequeueTicket
<1>2. ASSUME DequeueReplyLost PROVE OInv'
  BY <1>0, <1>2, AfterPop, SMTT(30) DEF DequeueReplyLost
<1>3. ASSUME NEW t \in Tickets, WorkerCreate(t) PROVE OInv'
  <2>1. /\ wpc = "create" /\ wpc' = "set_ticket"
        /\ keyOf' = [keyOf EXCEPT ![t] = wkey]
        /\ UNCHANGED <<queue, author, hpc, hkey, wkey>>
    BY <1>3 DEF WorkerCreate, Create
  <2>2. wkey \in Keys /\ Unmade(wkey) /\ ~QueuedKey(wkey) /\ author[wkey] # NoChat
    BY <2>1 DEF HoldsOK
  <2>3. \A k \in Keys : QueuedKey(k)' <=> QueuedKey(k)
    BY <2>1 DEF QueuedKey
  <2>4. \A k \in Keys \ {wkey} : Unmade(k) => Unmade(k)'
    BY <2>1
  <2>5. MadeOnce'
    BY <2>1, <2>2
  <2>6. Alone'
    <3> HIDE DEF Unmade
    <3> QED
      BY <2>1, <2>2, <2>3, <2>4
  <2> QED
    BY <1>0, <2>5, <2>6
<1>4. ASSUME NEW t \in Tickets, WorkerCreateReplyLost(t) PROVE OInv'
  BY <1>0, <1>4, SMTT(30) DEF WorkerCreateReplyLost, QueuedKey
<1>5. ASSUME WorkerCreateFails PROVE OInv'
  BY <1>0, <1>5, SMTT(30) DEF WorkerCreateFails, QueuedKey
<1>6. ASSUME Requeue PROVE OInv'
  <2>1. CASE UNCHANGED queue
    BY <1>0, <1>6, <2>1, SMTT(30) DEF Requeue, WorkerIdle, QueuedKey
  <2>2. CASE queue' = Pushed(wkey)
    <3>1. wkey \in Keys /\ queue \in Seq(Keys) /\ ~QueuedKey(wkey)
      BY <1>6 DEF Requeue, HoldsOK
    <3>2. QED
      BY <1>0, <1>6, <2>2, <3>1, AfterPush, SMTT(30) DEF Requeue, WorkerIdle
  <2>3. QED
    BY <1>6, <2>1, <2>2 DEF Requeue
<1>7. ASSUME WorkerSetTicket PROVE OInv'
  BY <1>0, <1>7, SMTT(30) DEF WorkerSetTicket, WorkerIdle, QueuedKey
<1>8. ASSUME WorkerWatchTicket PROVE OInv'
  BY <1>0, <1>8, SMTT(30) DEF WorkerWatchTicket, WorkerIdle, QueuedKey
<1>9. ASSUME WorkerBaseline PROVE OInv'
  <2>1. /\ wpc = "baseline" /\ wpc' = "idle" /\ wkey' = NoKey
        /\ UNCHANGED <<queue, keyOf, author, hpc, hkey>>
    BY <1>9 DEF WorkerBaseline, WorkerIdle
  <2> HIDE DEF Unmade
  <2>2. \A k \in Keys : (QueuedKey(k)' <=> QueuedKey(k)) /\ (Unmade(k)' <=> Unmade(k))
    BY <2>1 DEF QueuedKey, Unmade
  <2>3. \A c \in Chats : hpc[c] \in {"create", "enqueue"} =>
           (Unmade(hkey[c]) /\ ~QueuedKey(hkey[c]) /\ wkey # hkey[c])'
    BY <2>1, <2>2
  <2>4. \A c \in Chats : IF hpc'[c] \in Creating
                        THEN hkey'[c] \in Keys /\ author'[hkey'[c]] = c
                        ELSE hkey'[c] = NoKey
    BY <2>1
  <2>5. \A k \in Keys :
           /\ QueuedKey(k)' => Unmade(k)' /\ author'[k] # NoChat
           /\ wkey' # k
           /\ author'[k] = NoChat => Unmade(k)'
    BY <2>1, <2>2
  <2>6. Alone'
    BY <2>1, <2>3, <2>4, <2>5
  <2>7. MadeOnce'
    BY <2>1
  <2> HIDE DEF TypeInv, Alone, MadeOnce
  <2> QED
    BY <1>0, <2>6, <2>7
<1> HIDE DEF OInv
<1> QED
  BY <1>1, <1>2, <1>3, <1>4, <1>5, <1>6, <1>7, <1>8, <1>9 DEF WorkerStep

LEMMA PollerOnce ==
    ASSUME OInv, PollerStep
    PROVE  OInv'
<1>1. TypeInv'
  BY PollerType DEF OInv
<1>2. UNCHANGED <<queue, zoho, author, worker, handler>>
  BY DEF PollerStep, ClosureStep, PollStart, ListRecentTickets, ListFails, Reconcile,
         ProbeFindsEnd, ProbeSkips, ClosureGetTicket, ClosureUnwatch,
         ClosureUnmark, ClosureDropTicket, ClosureDropFSM, PollEnd, redis
<1> QED
  BY <1>1, <1>2, RequestsUntouched DEF zoho, worker, handler

LEMMA EnvOnce ==
    ASSUME OInv, EnvStep
    PROVE  OInv'
<1>1. TypeInv'
  BY EnvType DEF OInv
<1>2. ASSUME NEW t \in Tickets,
             CloseTicket(t) \/ DeleteTicket(t) \/ ModifyTicket(t) \/ ExpireMarker(t)
      PROVE  OInv'
  BY <1>1, <1>2, RequestsUntouched
     DEF CloseTicket, DeleteTicket, ModifyTicket, ExpireMarker, redis, zoho, worker, handler
<1>3. ASSUME NEW c \in Chats, ExpireFSM(c) \/ ExpireTicket(c) PROVE OInv'
  BY <1>1, <1>3, RequestsUntouched DEF ExpireFSM, ExpireTicket, zoho, worker, handler
<1>4. ASSUME Crash PROVE OInv'
  BY <1>1, <1>4, NullAssumption
     DEF Crash, WorkerIdle, OInv, Alone, MadeOnce, QueuedKey, Unmade, Creating, redis, zoho
<1> QED
  BY <1>2, <1>3, <1>4 DEF EnvStep

-----------------------------------------------------------------------------
LEMMA InitOnce == Init => OInv
<1> SUFFICES ASSUME Init PROVE OInv
  OBVIOUS
<1>1. TypeInv
  BY InitType
<1> QED
  BY <1>1, NullAssumption
     DEF Init, OInv, Alone, MadeOnce, QueuedKey, Unmade, Creating

LEMMA StepOnce == AnswersArrive /\ OInv /\ [Next]_vars => OInv'
<1> SUFFICES ASSUME AnswersArrive, OInv, [Next]_vars
             PROVE  OInv'
  OBVIOUS
<1>1. CASE UNCHANGED vars
  <2>1. TypeInv'
    BY StepType DEF OInv
  <2>2. QED
    BY <1>1, <2>1, RequestsUntouched DEF vars, redis, zoho, handler, worker
<1>2. CASE Next
  BY <1>2, HandlerOnce, BindingOnce, WorkerOnce, PollerOnce, EnvOnce DEF Next
<1> QED
  BY <1>1, <1>2

\* However often it is retried, by the handler, the queue or after a restart, a
\* request gets at most one ticket, and none while it is still in the queue.
THEOREM AtMostOnce ==
    ASSUME AnswersArrive
    PROVE  Spec => []AtMostOneTicketPerRequest
<1>1. OInv /\ [Next]_vars => OInv'
  BY StepOnce
<1>2. OInv => AtMostOneTicketPerRequest
  <2> SUFFICES ASSUME OInv
               PROVE  AtMostOneTicketPerRequest
    OBVIOUS
  <2>1. DOMAIN queue = 1..Len(queue)
    BY DEF OInv, TypeInv, TypeOK
  <2>2. QED
    BY <2>1 DEF OInv, Alone, MadeOnce, AtMostOneTicketPerRequest, Created, Queued,
                QueuedKey, Unmade
<1> QED
  BY <1>1, <1>2, InitOnce, PTL DEF Spec

-----------------------------------------------------------------------------
(* A queued request is not lost, as long as neither Redis nor the process     *)
(* fails under the worker: TLC has a counterexample for each.                *)

WorkerLives == Env \cap {"crash", "redis"} = {}

\* The worker lets go only of a request that has its ticket.
Held ==
    /\ \A t \in Tickets : status[t] = "none" => keyOf[t] = NoKey
    /\ wpc \in {"idle", "baseline"} => wkey = NoKey
    /\ wpc \in {"set_ticket", "watch"} => Created(wkey)

LEMMA InitHeld == Init => Held
BY DEF Init, Held

\* A ticket, once created, stays the ticket of its request.
LEMMA CreateHeld ==
    ASSUME TypeInv, Held, NEW k \in Keys, NEW t \in Tickets, Create(k, t)
    PROVE  /\ \A u \in Tickets : status'[u] = "none" => keyOf'[u] = NoKey
           /\ Created(k)' /\ \A l \in Keys : Created(l) => Created(l)'
<1>1. /\ keyOf' = [keyOf EXCEPT ![t] = k] /\ status' = [status EXCEPT ![t] = "open"]
      /\ keyOf[t] = NoKey /\ NoKey \notin Keys
  BY NullAssumption DEF Create, Held
<1>2. /\ keyOf'[t] = k /\ \A u \in Tickets \ {t} : keyOf'[u] = keyOf[u] /\ status'[u] = status[u]
      /\ status'[t] = "open"
  BY <1>1 DEF TypeInv, TypeOK
<1> QED
  BY <1>1, <1>2 DEF Created, Held

LEMMA StepHeld ==
    ASSUME WorkerLives, TypeInv, Held, [Next]_vars
    PROVE  Held'
<1>1. CASE UNCHANGED <<status, keyOf, wpc, wkey>>
  BY <1>1 DEF Held, Created
<1>2. ASSUME NEW c \in Chats, NEW t \in Tickets, CreateTicket(c, t) \/ CreateTicketReplyLost(c, t)
      PROVE  Held'
  <2>1. /\ Create(hkey[c], t) /\ UNCHANGED <<wpc, wkey>> /\ hkey[c] \in Keys
        /\ wpc \notin {"idle", "baseline"} => wkey \in Keys
    BY <1>2 DEF CreateTicket, CreateTicketReplyLost, worker, TypeInv, HoldsOK, Creating
  <2>2. Created(wkey)' <=> \E u \in Tickets : keyOf'[u] = wkey
    BY <2>1 DEF Created
  <2>3. /\ \A u \in Tickets : status'[u] = "none" => keyOf'[u] = NoKey
        /\ \A l \in Keys : Created(l) => \E u \in Tickets : keyOf'[u] = l
    BY <2>1, CreateHeld DEF Created
  <2> QED
    BY <2>1, <2>2, <2>3 DEF Held
<1>3. ASSUME NEW t \in Tickets, WorkerCreate(t) \/ WorkerCreateReplyLost(t)
      PROVE  Held'
  <2>1. Create(wkey, t) /\ UNCHANGED wkey /\ wkey \in Keys /\ wpc' \in {"set_ticket", "create"}
    BY <1>3 DEF WorkerCreate, WorkerCreateReplyLost, worker, TypeInv, HoldsOK
  <2>2. PICK k \in Keys : k = wkey
    BY <2>1
  <2>3. /\ \A u \in Tickets : status'[u] = "none" => keyOf'[u] = NoKey
        /\ Created(k)'
    BY <2>1, <2>2, CreateHeld
  <2>4. Created(wkey)'
    BY <2>1, <2>2, <2>3 DEF Created
  <2> QED
    BY <2>1, <2>3, <2>4 DEF Held
<1>4. CASE DequeueTicket \/ WorkerCreateFails \/ Requeue
  <2>1. /\ UNCHANGED <<status, keyOf>> /\ wpc' \in {"create", "requeue", "idle"}
        /\ wpc' = "idle" => wkey' = NoKey
    BY <1>4 DEF DequeueTicket, WorkerCreateFails, Requeue, WorkerIdle, zoho
  <2> QED
    BY <2>1 DEF Held
<1>5. CASE WorkerSetTicket \/ WorkerWatchTicket \/ WorkerBaseline
  <2>1. /\ UNCHANGED <<status, keyOf>>
        /\ \/ wpc' = "watch" /\ wpc = "set_ticket" /\ wkey' = wkey
           \/ wpc' \in {"idle", "baseline"} /\ wkey' = NoKey
    BY <1>5 DEF WorkerSetTicket, WorkerWatchTicket, WorkerBaseline, WorkerIdle, zoho
  <2> QED
    BY <2>1 DEF Held, Created
<1>6. ASSUME NEW t \in Tickets,
             CloseTicket(t) \/ DeleteTicket(t) \/ ModifyTicket(t) \/ ExpireMarker(t)
      PROVE  Held'
  <2>1. /\ UNCHANGED <<keyOf, wpc, wkey>>
        /\ \A u \in Tickets : status'[u] = "none" => status[u] = "none"
    BY <1>6 DEF CloseTicket, DeleteTicket, ModifyTicket, ExpireMarker, zoho, worker, TypeInv, TypeOK
  <2> QED
    BY <2>1 DEF Held, Created
<1>7. CASE DequeueReplyLost \/ Crash
  BY <1>7 DEF DequeueReplyLost, Crash, WorkerLives
<1>8. ASSUME NEW c \in Chats,
             \/ BindingStep(c) \/ Authorize(c) \/ LoadConversation(c) \/ Reply(c) \/ Dialog(c)
             \/ \E k \in Keys : FinalizeTicket(c, k)
             \/ CreateTicketFails(c) \/ Enqueue(c) \/ EnqueueFails(c) \/ RevertToConfirming(c)
             \/ SetTicket(c) \/ WatchTicket(c) \/ BaselineTicket(c) \/ Deadline(c)
             \/ ExpireFSM(c) \/ ExpireTicket(c)
      PROVE  Held'
  BY <1>1, <1>8 DEF BindingStep, Authorize, LoadConversation, Reply, Dialog, FinalizeTicket,
     CreateTicketFails, Enqueue, EnqueueFails, RevertToConfirming, SetTicket, WatchTicket,
     BaselineTicket, Deadline, ExpireFSM, ExpireTicket, Bind, StartFlow, Revoke, UnbindGetTicket,
     UnbindUnwatch, UnbindUnmark, UnbindDropTicket, UnbindDropFSM, zoho, worker
<1>9. CASE PollerStep \/ UNCHANGED vars
  BY <1>1, <1>9 DEF PollerStep, PollStart, ListRecentTickets, ListFails, Reconcile, ProbeFindsEnd,
     ProbeSkips, ClosureStep, ClosureGetTicket, ClosureUnwatch, ClosureUnmark, ClosureDropTicket,
     ClosureDropFSM, PollEnd, vars, zoho, worker
<1> QED
  BY <1>2, <1>3, <1>4, <1>5, <1>6, <1>7, <1>8, <1>9 DEF Next, HandlerStep, WorkerStep, EnvStep

\* No step takes a request out of the queue and the worker's hands, except one
\* that has its ticket.
LEMMA StaysQueued ==
    ASSUME WorkerLives, TypeInv, Held, [Next]_vars, NEW k \in Keys, QueuedKey(k) \/ wkey = k
    PROVE  QueuedKey(k)' \/ wkey' = k \/ Created(k)'
<1> k # NoKey
  BY NullAssumption
<1>1. CASE UNCHANGED <<queue, wkey>>
  BY <1>1 DEF QueuedKey
<1>2. ASSUME NEW c \in Chats, Enqueue(c) \/ EnqueueFails(c)
      PROVE  QueuedKey(k)' \/ wkey' = k
  <2>1. /\ queue' = queue \/ (queue' = Pushed(hkey[c]) /\ hkey[c] \in Keys)
        /\ UNCHANGED wkey
        /\ queue \in Seq(Keys)
    BY <1>2 DEF Enqueue, EnqueueFails, worker, TypeInv, TypeOK, HoldsOK, Creating
  <2>2. CASE queue' = queue
    BY <1>2, <2>2 DEF QueuedKey, Enqueue, EnqueueFails, worker
  <2>3. CASE queue' = Pushed(hkey[c]) /\ hkey[c] \in Keys
    <3>1. QueuedKey(k) => QueuedKey(k)'
      BY <2>1, <2>3, AfterPush
    <3>2. UNCHANGED wkey
      BY <1>2 DEF Enqueue, EnqueueFails, worker
    <3> QED
      BY <3>1, <3>2
  <2> QED
    BY <2>1, <2>2, <2>3
<1>3. CASE DequeueTicket
  <2>1. /\ queue # <<>> /\ queue \in Seq(Keys) /\ queue' = Tail(queue) /\ wkey' = Head(queue)
        /\ wkey = NoKey
    BY <1>3 DEF DequeueTicket, Popped, Held, TypeInv, TypeOK
  <2>2. PICK i \in 1..Len(queue) : queue[i] = k
    BY <2>1 DEF QueuedKey
  <2>3. CASE i = 1
    BY <2>1, <2>2, <2>3
  <2>4. CASE i # 1
    <3>1. i - 1 \in 1..Len(queue') /\ queue'[i - 1] = k
      BY <2>1, <2>2, <2>4
    <3> QED
      BY <3>1 DEF QueuedKey
  <2> QED
    BY <2>3, <2>4
<1>4. CASE Requeue
  <2>1. wpc = "requeue" /\ wkey \in Keys /\ queue \in Seq(Keys) /\ queue' = Pushed(wkey)
    BY <1>4 DEF Requeue, WorkerLives, TypeInv, TypeOK, HoldsOK
  <2> QED
    BY <2>1, AfterPush
<1>5. CASE WorkerSetTicket \/ WorkerWatchTicket \/ WorkerBaseline
  <2>1. UNCHANGED <<queue, keyOf>> /\ (wkey = k => Created(k))
    BY <1>5 DEF WorkerSetTicket, WorkerWatchTicket, WorkerBaseline, Held, zoho
  <2> QED
    BY <2>1 DEF QueuedKey, Created
<1>6. CASE DequeueReplyLost \/ Crash
  BY <1>6 DEF DequeueReplyLost, Crash, WorkerLives
<1>7. ASSUME NEW c \in Chats,
             \/ BindingStep(c) \/ Authorize(c) \/ LoadConversation(c) \/ Reply(c) \/ Dialog(c)
             \/ \E l \in Keys : FinalizeTicket(c, l)
             \/ \E t \in Tickets : CreateTicket(c, t) \/ CreateTicketReplyLost(c, t)
             \/ CreateTicketFails(c) \/ RevertToConfirming(c)
             \/ SetTicket(c) \/ WatchTicket(c) \/ BaselineTicket(c) \/ Deadline(c)
      PROVE  UNCHANGED <<queue, wkey>>
  BY <1>7 DEF BindingStep, Authorize, LoadConversation, Reply, Dialog, FinalizeTicket,
     CreateTicket, CreateTicketReplyLost, CreateTicketFails, RevertToConfirming, SetTicket, WatchTicket,
     BaselineTicket, Deadline, Bind, StartFlow, Revoke, UnbindGetTicket, UnbindUnwatch,
     UnbindUnmark, UnbindDropTicket, UnbindDropFSM, redis, worker
<1>8. CASE \/ PollerStep \/ UNCHANGED vars
           \/ \E t \in Tickets : WorkerCreate(t) \/ WorkerCreateReplyLost(t)
           \/ WorkerCreateFails
           \/ \E t \in Tickets :
                 CloseTicket(t) \/ DeleteTicket(t) \/ ModifyTicket(t) \/ ExpireMarker(t)
           \/ \E c \in Chats : ExpireFSM(c) \/ ExpireTicket(c)
  BY <1>1, <1>8 DEF PollerStep, PollStart, ListRecentTickets, ListFails, Reconcile, ProbeFindsEnd,
     ProbeSkips, ClosureStep, ClosureGetTicket, ClosureUnwatch, ClosureUnmark, ClosureDropTicket,
     ClosureDropFSM, PollEnd, WorkerCreate, WorkerCreateReplyLost, WorkerCreateFails, CloseTicket,
     DeleteTicket, ModifyTicket, ExpireMarker, ExpireFSM, ExpireTicket, vars, redis, worker
<1> QED
  BY <1>1, <1>2, <1>3, <1>4, <1>5, <1>6, <1>7, <1>8 DEF Next, HandlerStep, WorkerStep, EnvStep

\* A request in the queue or in the worker's hands leaves them only with its
\* ticket, however often Zoho refuses it, an answer is lost, the 5 minutes of
\* an item run out or its chat is unbound (retry.go: drain and process).
THEOREM KeptUntilCreated ==
    ASSUME WorkerLives
    PROVE  Spec => QueuedUntilCreated
<1>1. Init => TypeInv /\ Held
  BY InitType, InitHeld
<1>2. TypeInv /\ Held /\ [Next]_vars => (TypeInv /\ Held)'
  BY StepType, StepHeld
<1>3. TypeInv /\ Held /\ [Next]_vars =>
        [\A k \in Keys : k \in Queued \cup InHand =>
            (k \in Queued \cup InHand)' \/ Created(k)']_vars
  <2> SUFFICES ASSUME TypeInv, Held, Next, NEW k \in Keys, k \in Queued \cup InHand
               PROVE  (k \in Queued \cup InHand)' \/ Created(k)'
    OBVIOUS
  <2>1. TypeInv'
    BY StepType
  <2>2. /\ DOMAIN queue = 1..Len(queue) /\ DOMAIN queue' = 1..Len(queue')
        /\ k # NoKey
    <3>1. queue \in Seq(Keys) /\ queue' \in Seq(Keys)
      BY <2>1 DEF TypeInv, TypeOK
    <3>2. \A q \in Seq(Keys) : DOMAIN q = 1..Len(q)
      OBVIOUS
    <3> QED
      BY <3>1, <3>2, NullAssumption
  <2>3. QueuedKey(k) \/ wkey = k
    BY <2>2 DEF Queued, InHand, QueuedKey
  <2>4. QueuedKey(k)' \/ wkey' = k \/ Created(k)'
    BY <2>3, StaysQueued
  <2> QED
    BY <2>2, <2>4 DEF Queued, InHand, QueuedKey
<1> QED
  BY <1>1, <1>2, <1>3, PTL DEF Spec, QueuedUntilCreated
=============================================================================
