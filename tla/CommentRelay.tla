----------------------------- MODULE CommentRelay -----------------------------
(***************************************************************************)
(* How a client's messages reach the tickets of one chat, request after    *)
(* request: forwardToTicket posts them, or buffers them in Redis while the *)
(* ticket does not exist; the flush that ends finalizeTicket (handlers.go, *)
(* under the chat lock) or process (retry.go, under no lock) posts what    *)
(* was buffered; handleClosure (poller.go, under no lock) discards it.     *)
(*                                                                         *)
(* A request and the ticket created for it have one number.  TicketLife-   *)
(* cycle says what can become of them; here SetFSM and SetTicket succeed.  *)
(***************************************************************************)
EXTENDS Naturals, Sequences, SequencesExt

CONSTANTS
    MaxRequests, MaxMessages,   \* the client stops there (bounds)
    MaxOutages,                 \* how often Zoho goes down (a bound)
    Env,                        \* what else may happen, a subset of EnvEvents
    MaxFaults                   \* how often it does (a bound)

\* crash: the process stops and starts again
\* redis: a command fails, or is given up with the update's 30s
\* lost:  a comment is added and the answer to the POST is lost
EnvEvents == {"crash", "redis", "lost"}

ASSUME BoundsAssumption ==
    MaxRequests \in Nat /\ MaxMessages \in Nat /\ MaxOutages \in Nat /\ MaxFaults \in Nat
ASSUME EnvAssumption == Env \subseteq EnvEvents

Requests == 1..MaxRequests
Messages == 1..MaxMessages
NoTicket == 0

VARIABLES
    \* Redis
    open,       \* fsm:{chat} is in StateTicketOpen (else: none)
    ticket,     \* ticket:{chat}
    watched,    \* active_tickets
    queue,      \* queue:tickets
    buffer,     \* pending_comments:{chat}
    \* Zoho
    status,     \* of each ticket
    comments,   \* on each ticket, the client's messages
    down,       \* Zoho is out of order
    \* the chat's handler, under the chat lock
    requests,   \* the requests confirmed so far; the last is hreq
    sent,       \* the messages handled so far; the last is the one at hand
    hpc, href, hitems,
    \* the worker, and the poller
    wpc, wreq, witems,
    ppc,
    \* bounds and history
    outages, faults,
    buffered,   \* messages ever pushed
    refused,    \* messages whose AddComment failed in a flush
    unsure      \* messages whose AddComment succeeded and seemed to fail

redis   == <<open, ticket, watched, queue, buffer>>
zoho    == <<status, comments, down>>
handler == <<requests, sent, hpc, href, hitems>>
worker  == <<wpc, wreq, witems>>
history == <<buffered, refused, unsure>>
vars    == <<redis, zoho, handler, worker, ppc, outages, faults, history>>

Flushing == {"read", "clear", "post"}

TypeOK ==
    /\ open \in BOOLEAN
    /\ ticket \in Requests \cup {NoTicket}
    /\ watched \subseteq Requests
    /\ queue \in Seq(Requests)
    /\ buffer \in Seq(Messages)
    /\ status \in [Requests -> {"none", "open", "closed"}]
    /\ comments \in [Requests -> Seq(Messages)]
    /\ down \in BOOLEAN
    /\ requests \in 0..MaxRequests /\ sent \in 0..MaxMessages
    /\ hpc \in {"free", "create", "enqueue", "store", "forward", "push"} \cup Flushing
    /\ href \in Requests \cup {NoTicket}
    /\ hitems \in Seq(Messages)
    /\ wpc \in {"idle", "create", "store"} \cup Flushing
    /\ wreq \in Requests \cup {NoTicket}
    /\ witems \in Seq(Messages)
    /\ ppc \in {"idle", "drop_ticket", "drop_fsm", "drop_buffer"}
    /\ outages \in 0..MaxOutages /\ faults \in 0..MaxFaults
    /\ buffered \subseteq Messages /\ refused \subseteq Messages /\ unsure \subseteq Messages

Init ==
    /\ open = FALSE /\ ticket = NoTicket /\ watched = {}
    /\ queue = <<>> /\ buffer = <<>>
    /\ status = [t \in Requests |-> "none"]
    /\ comments = [t \in Requests |-> <<>>]
    /\ down = FALSE
    /\ requests = 0 /\ sent = 0
    /\ hpc = "free" /\ href = NoTicket /\ hitems = <<>>
    /\ wpc = "idle" /\ wreq = NoTicket /\ witems = <<>>
    /\ ppc = "idle"
    /\ outages = 0 /\ faults = 0
    /\ buffered = {} /\ refused = {} /\ unsure = {}

Fault(e) ==
    /\ e \in Env
    /\ faults < MaxFaults
    /\ faults' = faults + 1

-----------------------------------------------------------------------------
(* The end of finalizeTicket, and of process: both run these steps *)

\* CreateTicket
Create(t) ==
    /\ ~down
    /\ status' = [status EXCEPT ![t] = "open"]
    /\ UNCHANGED <<comments, down>>

\* SetTicket, and with it the uploads, which take as long as they take
Store(t) ==
    /\ ticket' = t
    /\ watched' = watched \cup {t}
    /\ UNCHANGED <<open, queue, buffer>>

\* AddComment of the first item in hand; one that fails is logged and gone.
PostFirst(t, items) ==
    \/ /\ ~down
       /\ comments' = [comments EXCEPT ![t] = Append(@, Head(items))]
       /\ UNCHANGED <<status, down, history>>
    \/ /\ down
       /\ refused' = refused \cup {Head(items)}
       /\ UNCHANGED <<zoho, buffered, unsure>>

HandlerGoto(pc) ==
    /\ hpc' = pc
    /\ UNCHANGED <<requests, sent, href, hitems>>

\* The client confirms: the conversation is saved as open, before CreateTicket.
Confirm ==
    /\ hpc = "free" /\ ~open
    /\ requests < MaxRequests
    /\ open' = TRUE
    /\ requests' = requests + 1
    /\ hpc' = "create"
    /\ UNCHANGED <<ticket, watched, queue, buffer, zoho, sent, href, hitems, worker, ppc,
                   outages, faults, history>>

HandlerCreates ==
    /\ hpc = "create"
    /\ \/ Create(requests) /\ HandlerGoto("store")
       \/ down /\ UNCHANGED zoho /\ HandlerGoto("enqueue")
    /\ UNCHANGED <<redis, worker, ppc, outages, faults, history>>

Enqueue ==
    /\ hpc = "enqueue"
    /\ queue' = Append(queue, requests)
    /\ HandlerGoto("free")
    /\ UNCHANGED <<open, ticket, watched, buffer, zoho, worker, ppc, outages, faults, history>>

HandlerStores ==
    /\ hpc = "store"
    /\ Store(requests)
    /\ HandlerGoto("read")
    /\ UNCHANGED <<zoho, worker, ppc, outages, faults, history>>

\* PopAllPendingComments: an LRANGE,
HandlerReads ==
    /\ hpc = "read"
    /\ hitems' = buffer
    /\ hpc' = IF buffer = <<>> THEN "free" ELSE "clear"
    /\ UNCHANGED <<requests, sent, href, redis, zoho, worker, ppc, outages, faults, history>>

\* ... and a DEL of the key, whatever it holds by then,
HandlerClears ==
    /\ hpc = "clear"
    /\ buffer' = <<>>
    /\ HandlerGoto("post")
    /\ UNCHANGED <<open, ticket, watched, queue, zoho, worker, ppc, outages, faults, history>>

\* ... and the items are posted one by one.
HandlerPosts ==
    /\ hpc = "post"
    /\ PostFirst(requests, hitems)
    /\ hitems' = Tail(hitems)
    /\ hpc' = IF Len(hitems) = 1 THEN "free" ELSE "post"
    /\ UNCHANGED <<requests, sent, href, redis, worker, ppc, outages, faults>>

\* An LRANGE or a DEL that fails ends the flush; the buffer stays, unless the
\* DEL was executed and given up.
HandlerFlushFails ==
    /\ hpc \in {"read", "clear"}
    /\ Fault("redis")
    /\ hitems' = <<>>
    /\ hpc' = "free"
    /\ \/ UNCHANGED buffer
       \/ hpc = "clear" /\ buffer' = <<>>
    /\ UNCHANGED <<requests, sent, href, open, ticket, watched, queue, zoho, worker, ppc,
                   outages, history>>

-----------------------------------------------------------------------------
(* forwardToTicket *)

\* GetTicket; a failing one reads as none.
Message ==
    /\ hpc = "free" /\ open
    /\ sent < MaxMessages
    /\ sent' = sent + 1
    /\ \/ href' = ticket /\ UNCHANGED faults
       \/ ticket # NoTicket /\ Fault("redis") /\ href' = NoTicket
    /\ hpc' = IF href' = NoTicket THEN "push" ELSE "forward"
    /\ UNCHANGED <<redis, zoho, requests, hitems, worker, ppc, outages, history>>

ForwardedAndKept ==
    /\ hpc = "forward"
    /\ ~down
    /\ comments' = [comments EXCEPT ![href] = Append(@, sent)]
    /\ HandlerGoto("push")
    /\ UNCHANGED <<redis, status, down, worker, ppc, outages, faults, history>>
Forward ==
    /\ hpc = "forward"
    /\ ~down
    /\ comments' = [comments EXCEPT ![href] = Append(@, sent)]
    /\ \/ HandlerGoto("free") /\ UNCHANGED <<faults, unsure>>
       \/ /\ Fault("lost")
          /\ HandlerGoto("push")
          /\ unsure' = unsure \cup {sent}
    /\ UNCHANGED <<redis, status, down, worker, ppc, outages, buffered, refused>>

ForwardFails ==
    /\ hpc = "forward"
    /\ down
    /\ HandlerGoto("push")
    /\ UNCHANGED <<redis, zoho, worker, ppc, outages, faults, history>>

PushInFront ==
    /\ hpc = "push"
    /\ buffer' = <<sent>> \o buffer
    /\ buffered' = buffered \cup {sent}
    /\ HandlerGoto("free")
    /\ UNCHANGED <<refused, unsure, faults, open, ticket, watched, queue, zoho, worker, ppc, outages>>
Push ==
    /\ hpc = "push"
    /\ \/ /\ buffer' = Append(buffer, sent)
          /\ buffered' = buffered \cup {sent}
          /\ UNCHANGED <<refused, unsure, faults>>
       \/ Fault("redis") /\ UNCHANGED <<buffer, history>>
    /\ HandlerGoto("free")
    /\ UNCHANGED <<open, ticket, watched, queue, zoho, worker, ppc, outages>>

-----------------------------------------------------------------------------
(* The worker *)

WorkerGoto(pc) ==
    /\ wpc' = pc
    /\ UNCHANGED <<wreq, witems>>

Dequeue ==
    /\ wpc = "idle" /\ queue # <<>>
    /\ wreq' = Head(queue)
    /\ queue' = Tail(queue)
    /\ wpc' = "create"
    /\ UNCHANGED <<open, ticket, watched, buffer, zoho, handler, witems, ppc,
                   outages, faults, history>>

ResetFirst ==
    /\ wpc = "create"
    /\ \/ Create(wreq) /\ WorkerGoto("store") /\ UNCHANGED queue
       \/ /\ down
          /\ wpc' = "idle" /\ wreq' = NoTicket /\ UNCHANGED <<witems, zoho>>
          /\ queue' = Append(queue, wreq')
    /\ UNCHANGED <<open, ticket, watched, buffer, handler, ppc, outages, faults, history>>
\* A request that still fails goes back to the queue until the next tick.
WorkerCreates ==
    /\ wpc = "create"
    /\ \/ Create(wreq) /\ WorkerGoto("store") /\ UNCHANGED queue
       \/ /\ down
          /\ queue' = Append(queue, wreq)
          /\ wpc' = "idle" /\ wreq' = NoTicket /\ UNCHANGED <<witems, zoho>>
    /\ UNCHANGED <<open, ticket, watched, buffer, handler, ppc, outages, faults, history>>

StoresOnly ==
    /\ wpc = "store"
    /\ Store(wreq)
    /\ wpc' = "idle" /\ wreq' = NoTicket
    /\ UNCHANGED <<witems, zoho, handler, ppc, outages, faults, history>>
WorkerStores ==
    /\ wpc = "store"
    /\ Store(wreq)
    /\ WorkerGoto("read")
    /\ UNCHANGED <<zoho, handler, ppc, outages, faults, history>>

WorkerReads ==
    /\ wpc = "read"
    /\ witems' = buffer
    /\ IF buffer = <<>> THEN wpc' = "idle" /\ wreq' = NoTicket
                        ELSE wpc' = "clear" /\ UNCHANGED wreq
    /\ UNCHANGED <<redis, zoho, handler, ppc, outages, faults, history>>

WorkerClears ==
    /\ wpc = "clear"
    /\ buffer' = <<>>
    /\ WorkerGoto("post")
    /\ UNCHANGED <<open, ticket, watched, queue, zoho, handler, ppc, outages, faults, history>>

WorkerPosts ==
    /\ wpc = "post"
    /\ PostFirst(wreq, witems)
    /\ witems' = Tail(witems)
    /\ IF Len(witems) = 1 THEN wpc' = "idle" /\ wreq' = NoTicket
                          ELSE UNCHANGED <<wpc, wreq>>
    /\ UNCHANGED <<redis, handler, ppc, outages, faults>>

WorkerFlushFails ==
    /\ wpc \in {"read", "clear"}
    /\ Fault("redis")
    /\ witems' = <<>>
    /\ wpc' = "idle" /\ wreq' = NoTicket
    /\ \/ UNCHANGED buffer
       \/ wpc = "clear" /\ buffer' = <<>>
    /\ UNCHANGED <<open, ticket, watched, queue, zoho, handler, ppc, outages, history>>

-----------------------------------------------------------------------------
(* The operator, the poller's handleClosure, and the rest of the world *)

CloseTicket(t) ==
    /\ status[t] = "open"
    /\ status' = [status EXCEPT ![t] = "closed"]
    /\ UNCHANGED <<comments, down, redis, handler, worker, ppc, outages, faults, history>>

SeeClosed(t) ==
    /\ ppc = "idle" /\ ~down
    /\ t \in watched /\ status[t] = "closed"
    /\ ppc' = "drop_ticket"
    /\ UNCHANGED <<redis, zoho, handler, worker, outages, faults, history>>

\* DelTicket forgets the chat's ticket of the moment, whichever was closed.
DropTicket ==
    /\ ppc = "drop_ticket"
    /\ watched' = watched \ {ticket}
    /\ ticket' = NoTicket
    /\ ppc' = "drop_fsm"
    /\ UNCHANGED <<open, queue, buffer, zoho, handler, worker, outages, faults, history>>

DropFSM ==
    /\ ppc = "drop_fsm"
    /\ open' = FALSE
    /\ ppc' = "drop_buffer"
    /\ UNCHANGED <<ticket, watched, queue, buffer, zoho, handler, worker, outages, faults, history>>

DropBuffer ==
    /\ ppc = "drop_buffer"
    /\ buffer' = <<>>
    /\ ppc' = "idle"
    /\ UNCHANGED <<open, ticket, watched, queue, zoho, handler, worker, outages, faults, history>>

OutageStarts ==
    /\ ~down /\ outages < MaxOutages
    /\ down' = TRUE
    /\ outages' = outages + 1
    /\ UNCHANGED <<status, comments, redis, handler, worker, ppc, faults, history>>

OutageEnds ==
    /\ down
    /\ down' = FALSE
    /\ UNCHANGED <<status, comments, redis, handler, worker, ppc, outages, faults, history>>

Crash ==
    /\ Fault("crash")
    /\ hpc' = "free" /\ href' = NoTicket /\ hitems' = <<>>
    /\ wpc' = "idle" /\ wreq' = NoTicket /\ witems' = <<>>
    /\ ppc' = "idle"
    /\ UNCHANGED <<redis, zoho, requests, sent, outages, history>>

-----------------------------------------------------------------------------
HandlerStep ==
    \/ HandlerCreates \/ Enqueue \/ HandlerStores
    \/ HandlerReads \/ HandlerClears \/ HandlerPosts
    \/ Forward \/ ForwardFails \/ Push

WorkerStep ==
    \/ Dequeue \/ WorkerCreates \/ WorkerStores
    \/ WorkerReads \/ WorkerClears \/ WorkerPosts

PollerStep == (\E t \in Requests : SeeClosed(t)) \/ DropTicket \/ DropFSM \/ DropBuffer

Next ==
    \/ HandlerStep \/ HandlerFlushFails
    \/ WorkerStep \/ WorkerFlushFails
    \/ PollerStep
    \/ Confirm \/ Message
    \/ \E t \in Requests : CloseTicket(t)
    \/ OutageStarts \/ OutageEnds \/ Crash

Spec == Init /\ [][Next]_vars

\* The handler and the worker run on, and Zoho comes back; nobody has to
\* confirm, write or close.
FairSpec ==
    /\ Spec
    /\ WF_vars(HandlerStep) /\ WF_vars(WorkerStep) /\ WF_vars(PollerStep)
    /\ WF_vars(OutageEnds)

-----------------------------------------------------------------------------
(* Properties *)

OnTicket(m, t) == m \in ToSet(comments[t])

\* No ticket shows a message twice, unless the answer to its POST was lost: a
\* message is posted or pushed, never both, and of two flushes that took the
\* same messages each posts to its own ticket.
PostedOnce ==
    \A t \in Requests : \A i, j \in 1..Len(comments[t]) :
        i # j /\ comments[t][i] = comments[t][j] => comments[t][i] \in unsure

\* The operator reads the messages of a client in the order they were written,
\* with one exception: a message sent after the ticket was stored may overtake
\* those its flush has not posted yet.
OrderKept ==
    \A t \in Requests : \A i, j \in 1..Len(comments[t]) :
        i < j /\ comments[t][i] > comments[t][j] /\ comments[t][i] \notin unsure =>
            comments[t][j] \in buffered /\ comments[t][i] \notin buffered

\* No flush of an earlier request, and no closure, is under way.
Undisturbed == ppc = "idle" /\ (wpc = "idle" \/ wreq = requests)

Underway ==
    \/ hpc \in {"create", "enqueue", "store"}
    \/ requests \in ToSet(queue)
    \/ wreq = requests /\ wpc \in {"create", "store"}

\* A message buffered before its ticket is stored gets onto the ticket when
\* it is, however long Zoho is down, unless the operator is faster, the very
\* call that posts it fails, or a fault occurs.
EarlyArrives ==
    \A m \in Messages, t \in Requests :
        (/\ m \in ToSet(buffer) /\ t = requests
         /\ ticket = NoTicket /\ Underway /\ Undisturbed /\ faults = 0)
        ~> (OnTicket(m, t) \/ status[t] = "closed" \/ m \in refused \/ faults > 0)

\* What the comment in finalizeTicket says: a message that arrives while the
\* ticket is created is buffered rather than dropped.  (Until a ticket is
\* closed, it is in the buffer, in a flush's hands, or on the ticket.)
NotDropped ==
    \A m \in buffered :
        \/ m \in ToSet(buffer) \cup ToSet(hitems) \cup ToSet(witems) \cup refused
        \/ \E t \in Requests : OnTicket(m, t) \/ status[t] = "closed"
=============================================================================
