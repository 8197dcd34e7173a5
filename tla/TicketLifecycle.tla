--------------------------- MODULE TicketLifecycle ---------------------------
(***************************************************************************)
(* The life of a support request, from the client's confirmation to the    *)
(* reset after its Zoho ticket is closed, over everything that touches it: *)
(* the update handlers of bot/handlers.go (one at a time per chat, under   *)
(* the chat lock), the retry worker of queue/retry.go, the poller of       *)
(* poller/poller.go, the admin unbind of bot/bot.go, the Redis keys of     *)
(* redis/client.go and the tickets in Zoho.                                *)
(*                                                                         *)
(* Every Redis command and every Zoho call is a step of its own, because   *)
(* the three goroutines interleave between them and the process may die    *)
(* there.  Answers, attachments, comments and their marker, and texts are  *)
(* left out: they belong to the modules CommentRelay, ReplyForwarding and  *)
(* Dialog, and decide nothing here.                                        *)
(*                                                                         *)
(* A time of a ticket is the number of its modifications so far: 0 where   *)
(* the code has no marker, 1 from the creation on.                         *)
(***************************************************************************)
EXTENDS Naturals, Sequences, FiniteSets

CONSTANTS
    Chats,      \* Telegram chats
    Keys,       \* idempotency keys: one identifies one confirmed request
    Tickets,    \* ids Zoho may give to tickets
    Poison,     \* the requests Zoho rejects however often they are retried
    MaxModified,  \* bound of the model: modifications of a ticket that do not
                  \* close it, the creation included; with 0 every modifiedTime
                  \* reads as 0, as one parseZohoMillis cannot parse
    Env,        \* what the environment may do, a subset of EnvEvents
    NoChat, NoKey, NoTicket

\* crash:     the process dies, or is stopped, and starts again
\* lost:      Zoho creates a ticket and the answer to the POST is lost
\* deadline:  the 30s of an update, or the 5min of a queued item, run out
\* redis:     a Redis command fails
\* fsmttl:    the 24h of a conversation run out
\* ticketttl: the 30d of a mapping run out
\* markerttl: the 30d of a marker run out
\* unbind:    an admin revokes a chat
\* rebind:    a bound chat redeems another key of its client
\* overflow:  more tickets changed than the poller lists in one cycle
\* skew:      the bot's clock is ahead of Zoho's
EnvEvents == {"crash", "lost", "deadline", "redis", "fsmttl", "ticketttl",
              "markerttl", "unbind", "rebind", "overflow", "skew"}

ASSUME NullAssumption ==
    NoChat \notin Chats /\ NoKey \notin Keys /\ NoTicket \notin Tickets
ASSUME BoundAssumption == MaxModified \in Nat
ASSUME EnvAssumption == Poison \subseteq Keys /\ Env \subseteq EnvEvents

VARIABLES
    \* Redis, which survives a crash
    fsm,            \* fsm:{chat}: the conversation's saved state
    ticket,         \* ticket:{chat}: the chat's active ticket
    active,         \* active_tickets: the chat each watched ticket belongs to
    queue,          \* queue:tickets: the requests waiting for the worker
    modseen,        \* ticket_modseen:{t}: the modifiedTime processed last
    \* Zoho
    status,         \* the status of each ticket
    keyOf,          \* the request each ticket was created for
    modified,       \* its modifiedTime
    bound,          \* the chats bound to a client (registry)
    \* memory of the bot
    author,         \* CreateTicketRequest.ChatID of each request issued so far
    authorized,     \* chats with an update past Authorize, waiting for the lock
    hpc,            \* where the holder of each chat's lock is
    conv,           \* the Conversation it loaded
    hkey, htkt,     \* the request and the ticket (reference) it holds
    expired,        \* the chats whose handler's context is dead
    \* memory of the worker
    wpc, wkey, wtkt,
    \* memory of the poller
    ppc,
    remaining,      \* the active tickets of this cycle not handled yet
    listed, lmod,   \* what ListRecentTickets said of each: status, modifiedTime
    ptkt,           \* the ticket whose closure is being handled
    pref            \* the reference DelTicket read for its chat

redis   == <<fsm, ticket, active, queue, modseen>>
zoho    == <<status, keyOf, modified>>
handler == <<hpc, conv, hkey, htkt, expired>>
worker  == <<wpc, wkey, wtkt>>
poller  == <<ppc, remaining, listed, lmod, ptkt, pref>>
vars    == <<redis, zoho, bound, author, authorized, handler, worker, poller>>

\* The states a conversation can be saved in; "idle" is the empty State, which
\* is never saved.
Saved  == {"awaiting_service", "asking_questions", "confirming", "ticket_open"}
States == Saved \cup {"idle"}

\* The lock holder's places: in finalizeTicket, up to the HSET of SetTicket and
\* in the baseline after it, then in unbindChat's DelTicket (GET, HDEL, DEL of
\* the markers, DEL) and DelFSM.
Creating   == {"create", "enqueue", "revert", "set_ticket", "watch"}
Unbinding  == {"get_ref", "unwatch", "unmark", "drop_ref", "drop_fsm"}
HandlerPCs == {"free", "loaded", "greet", "baseline"} \cup Creating \cup Unbinding
WorkerPCs  == {"idle", "create", "requeue", "set_ticket", "watch", "baseline"}
PollerPCs  == {"idle", "list", "scan"} \cup Unbinding

TypeOK ==
    /\ fsm \in [Chats -> Saved \cup {"absent"}]
    /\ ticket \in [Chats -> Tickets \cup {NoTicket}]
    /\ active \in [Tickets -> Chats \cup {NoChat}]
    /\ queue \in Seq(Keys)
    /\ modseen \in [Tickets -> Nat]
    /\ status \in [Tickets -> {"none", "open", "closed", "deleted"}]
    /\ keyOf \in [Tickets -> Keys \cup {NoKey}]
    /\ modified \in [Tickets -> Nat]
    /\ bound \in [Chats -> BOOLEAN]
    /\ author \in [Keys -> Chats \cup {NoChat}]
    /\ authorized \subseteq Chats
    /\ hpc \in [Chats -> HandlerPCs]
    /\ conv \in [Chats -> States]
    /\ hkey \in [Chats -> Keys \cup {NoKey}]
    /\ htkt \in [Chats -> Tickets \cup {NoTicket}]
    /\ expired \subseteq Chats
    /\ wpc \in WorkerPCs
    /\ wkey \in Keys \cup {NoKey}
    /\ wtkt \in Tickets \cup {NoTicket}
    /\ ppc \in PollerPCs
    /\ remaining \in [Tickets -> Chats \cup {NoChat}]
    /\ listed \in [Tickets -> {"unlisted", "open", "closed"}]
    /\ lmod \in [Tickets -> Nat]
    /\ ptkt \in Tickets \cup {NoTicket}
    /\ pref \in Tickets \cup {NoTicket}

Init ==
    /\ fsm = [c \in Chats |-> "absent"]
    /\ ticket = [c \in Chats |-> NoTicket]
    /\ active = [t \in Tickets |-> NoChat]
    /\ queue = <<>>
    /\ modseen = [t \in Tickets |-> 0]
    /\ status = [t \in Tickets |-> "none"]
    /\ keyOf = [t \in Tickets |-> NoKey]
    /\ modified = [t \in Tickets |-> 0]
    /\ bound = [c \in Chats |-> FALSE]
    /\ author = [k \in Keys |-> NoChat]
    /\ authorized = {}
    /\ hpc = [c \in Chats |-> "free"]
    /\ conv = [c \in Chats |-> "idle"]
    /\ hkey = [c \in Chats |-> NoKey]
    /\ htkt = [c \in Chats |-> NoTicket]
    /\ expired = {}
    /\ wpc = "idle" /\ wkey = NoKey /\ wtkt = NoTicket
    /\ ppc = "idle"
    /\ remaining = [t \in Tickets |-> NoChat]
    /\ listed = [t \in Tickets |-> "unlisted"]
    /\ lmod = [t \in Tickets |-> 0]
    /\ ptkt = NoTicket /\ pref = NoTicket

-----------------------------------------------------------------------------
(* Redis commands and Zoho calls *)

\* A Redis command of chat c's handler fails when its context is dead.
Fails(c) == c \in expired \/ "redis" \in Env

\* SetFSM, whose error every caller only logs.
SaveConversation(c, s) ==
    \/ c \notin expired /\ fsm' = [fsm EXCEPT ![c] = s]
    \/ Fails(c) /\ UNCHANGED fsm

\* What GetTicket makes of ticket:{c}: an error reads as "no ticket".
Reads(c, fails) == {ticket[c]} \cup (IF fails THEN {NoTicket} ELSE {})

\* What RPUSH leaves in the queue; the mutant pushes at the head.
PushedAtHead(k) == <<k>> \o queue
Pushed(k) == Append(queue, k)

\* What LPOP leaves in the queue; the mutant only reads the head.
PeekedOnly == queue
Popped == Tail(queue)

\* Ticket t gets a modifiedTime later than any before.
Touch(t) ==
    modified' = [modified EXCEPT ![t] = IF MaxModified = 0 THEN 0 ELSE @ + 1]

\* CreateTicket succeeds in Zoho: a new ticket t for request k.
Create(k, t) ==
    /\ k \notin Poison
    /\ status[t] = "none"
    /\ status' = [status EXCEPT ![t] = "open"]
    /\ keyOf' = [keyOf EXCEPT ![t] = k]
    /\ Touch(t)

\* SetTicket reads the bot's clock, at or after the last modification so far,
\* or ahead of one to come, and sets the marker if there is none.
Now(t) ==
    {modified[t]} \cup (IF "skew" \in Env THEN {modified[t] + 1} ELSE {})
SetNX(t) ==
    \E now \in Now(t) :
        modseen' = [modseen EXCEPT ![t] = IF @ = 0 THEN now ELSE @]

-----------------------------------------------------------------------------
(* The update handlers: Authorize runs before the chat lock is taken, the  *)
(* rest under it.                                                          *)

\* The lock is released; the conversation in memory is gone.
Finish(c) ==
    /\ hpc' = [hpc EXCEPT ![c] = "free"]
    /\ conv' = [conv EXCEPT ![c] = "idle"]
    /\ hkey' = [hkey EXCEPT ![c] = NoKey]
    /\ htkt' = [htkt EXCEPT ![c] = NoTicket]
    /\ expired' = expired \ {c}

Goto(c, pc) == hpc' = [hpc EXCEPT ![c] = pc]

Authorize(c) ==
    /\ bound[c]
    /\ c \notin authorized
    /\ authorized' = authorized \cup {c}
    /\ UNCHANGED <<redis, zoho, bound, author, handler, worker, poller>>

\* freshConversation: no saved state, so the ticket mapping decides.
FreshConversation(c) ==
    { IF ref = NoTicket THEN "idle" ELSE "ticket_open" :
        ref \in Reads(c, "redis" \in Env) }

\* The lock is taken and the conversation loaded.
LoadConversation(c) ==
    /\ c \in authorized
    /\ hpc[c] = "free"
    /\ authorized' = authorized \ {c}
    /\ Goto(c, "loaded")
    /\ \E s \in IF fsm[c] = "absent" THEN FreshConversation(c) ELSE {fsm[c]} :
          conv' = [conv EXCEPT ![c] = s]
    /\ UNCHANGED <<redis, zoho, bound, author, hkey, htkt, expired, worker, poller>>

\* An update that saves nothing here: a reprompt, /status, a stale button, a
\* message forwarded to the open ticket, or a conversation that failed to load.
Reply(c) ==
    /\ hpc[c] = "loaded"
    /\ Finish(c)
    /\ UNCHANGED <<redis, zoho, bound, author, authorized, worker, poller>>

\* The dialog: what a text, a button or /start makes of each state.  In state
\* ticket_open none of them saves: /start only reminds of the active ticket.
StartIgnoresOpenTicket ==
    {<<"idle", "awaiting_service">>, <<"awaiting_service", "awaiting_service">>,
     <<"awaiting_service", "asking_questions">>, <<"asking_questions", "confirming">>,
     <<"confirming", "awaiting_service">>, <<"ticket_open", "awaiting_service">>}
DialogSteps ==
    {<<"idle", "awaiting_service">>,
     <<"awaiting_service", "awaiting_service">>,
     <<"awaiting_service", "asking_questions">>,
     <<"asking_questions", "asking_questions">>,
     <<"asking_questions", "confirming">>,
     <<"asking_questions", "awaiting_service">>,
     <<"confirming", "awaiting_service">>}

Dialog(c) ==
    /\ hpc[c] = "loaded"
    /\ \E s \in Saved : <<conv[c], s>> \in DialogSteps /\ SaveConversation(c, s)
    /\ Finish(c)
    /\ UNCHANGED <<ticket, active, queue, modseen, zoho, bound, author, authorized, worker,
                   poller>>

\* finalizeTicket: a fresh key, and silent mode before the ticket is created.
FinalizeTicket(c, k) ==
    /\ hpc[c] = "loaded"
    /\ conv[c] = "confirming"
    /\ author[k] = NoChat
    /\ author' = [author EXCEPT ![k] = c]
    /\ hkey' = [hkey EXCEPT ![c] = k]
    /\ conv' = [conv EXCEPT ![c] = "ticket_open"]
    /\ SaveConversation(c, "ticket_open")
    /\ Goto(c, "create")
    /\ UNCHANGED <<ticket, active, queue, modseen, zoho, bound, authorized, htkt, expired, worker,
                   poller>>

CreateTicket(c, t) ==
    /\ hpc[c] = "create"
    /\ c \notin expired
    /\ Create(hkey[c], t)
    /\ htkt' = [htkt EXCEPT ![c] = t]
    /\ Goto(c, "set_ticket")
    /\ UNCHANGED <<redis, bound, author, authorized, conv, hkey, expired, worker, poller>>

\* The POST is applied, its answer lost: Client.do repeats the POST or gives up.
CreateTicketReplyLost(c, t) ==
    /\ "lost" \in Env
    /\ hpc[c] = "create"
    /\ c \notin expired
    /\ Create(hkey[c], t)
    /\ UNCHANGED <<redis, bound, author, authorized, handler, worker, poller>>

CreateTicketFails(c) ==
    /\ hpc[c] = "create"
    /\ Goto(c, "enqueue")
    /\ UNCHANGED <<redis, zoho, bound, author, authorized, conv, hkey, htkt, expired, worker,
                   poller>>

Enqueue(c) ==
    /\ hpc[c] = "enqueue"
    /\ c \notin expired
    /\ queue' = Pushed(hkey[c])
    /\ Finish(c)
    /\ UNCHANGED <<fsm, ticket, active, modseen, zoho, bound, author, authorized, worker, poller>>

\* The RPUSH of a failing Redis may have been applied all the same.
EnqueueFails(c) ==
    /\ hpc[c] = "enqueue"
    /\ Fails(c)
    /\ \/ UNCHANGED queue
       \/ c \notin expired /\ queue' = Pushed(hkey[c])
    /\ Goto(c, "revert")
    /\ UNCHANGED <<fsm, ticket, active, modseen, zoho, bound, author, authorized, conv, hkey,
                   htkt, expired, worker, poller>>

RevertToConfirming(c) ==
    /\ hpc[c] = "revert"
    /\ SaveConversation(c, "confirming")
    /\ Finish(c)
    /\ UNCHANGED <<ticket, active, queue, modseen, zoho, bound, author, authorized, worker,
                   poller>>

\* SetTicket, first the SET of ticket:{chat}; an error skips the HSET.
SetTicket(c) ==
    /\ hpc[c] = "set_ticket"
    /\ \/ /\ c \notin expired
          /\ ticket' = [ticket EXCEPT ![c] = htkt[c]]
          /\ Goto(c, "watch")
          /\ UNCHANGED <<conv, hkey, htkt, expired>>
       \/ Fails(c) /\ Finish(c) /\ UNCHANGED ticket
    /\ UNCHANGED <<fsm, active, queue, modseen, zoho, bound, author, authorized, worker, poller>>

\* ... then the HSET of active_tickets: the poller has the request from here on,
WatchTicket(c) ==
    /\ hpc[c] = "watch"
    /\ \/ /\ c \notin expired
          /\ active' = [active EXCEPT ![htkt[c]] = c]
          /\ Goto(c, "baseline")
          /\ hkey' = [hkey EXCEPT ![c] = NoKey]
          /\ UNCHANGED <<conv, htkt, expired>>
       \/ Fails(c) /\ Finish(c) /\ UNCHANGED active
    /\ UNCHANGED <<fsm, ticket, queue, modseen, zoho, bound, author, authorized, worker, poller>>

\* ... and the SETNX of its marker; the other markers, the upload, the flush and
\* the message that follow change nothing here.
BaselineTicket(c) ==
    /\ hpc[c] = "baseline"
    /\ \/ c \notin expired /\ SetNX(htkt[c])
       \/ Fails(c) /\ UNCHANGED modseen
    /\ Finish(c)
    /\ UNCHANGED <<fsm, ticket, active, queue, zoho, bound, author, authorized, worker, poller>>

\* The 30 seconds of the update run out under the handler.
Deadline(c) ==
    /\ "deadline" \in Env
    /\ hpc[c] # "free"
    /\ c \notin expired
    /\ expired' = expired \cup {c}
    /\ UNCHANGED <<redis, zoho, bound, author, authorized, hpc, conv, hkey, htkt, worker, poller>>

-----------------------------------------------------------------------------
(* Binding and unbinding, both under the chat lock *)

\* handleBinding succeeded; a chat already bound may come by a deep link.
Bind(c) ==
    /\ bound[c] => "rebind" \in Env
    /\ hpc[c] = "free"
    /\ bound' = [bound EXCEPT ![c] = TRUE]
    /\ Goto(c, "greet")
    /\ UNCHANGED <<redis, zoho, author, authorized, conv, hkey, htkt, expired, worker, poller>>

\* ... and starts the flow from a new, idle Conversation.
StartFlow(c) ==
    /\ hpc[c] = "greet"
    /\ SaveConversation(c, "awaiting_service")
    /\ Finish(c)
    /\ UNCHANGED <<ticket, active, queue, modseen, zoho, bound, author, authorized, worker,
                   poller>>

\* unbindChat: Revoke, then DelTicket, then DelFSM.
Revoke(c) ==
    /\ "unbind" \in Env
    /\ hpc[c] = "free"
    /\ bound' = [bound EXCEPT ![c] = FALSE]
    /\ Goto(c, "get_ref")
    /\ UNCHANGED <<redis, zoho, author, authorized, conv, hkey, htkt, expired, worker, poller>>

UnbindGetTicket(c) ==
    /\ hpc[c] = "get_ref"
    /\ \E ref \in Reads(c, Fails(c)) :
          /\ htkt' = [htkt EXCEPT ![c] = ref]
          /\ Goto(c, IF ref = NoTicket THEN "drop_ref" ELSE "unwatch")
    /\ UNCHANGED <<redis, zoho, bound, author, authorized, conv, hkey, expired, worker, poller>>

\* An error of the HDEL ends DelTicket; of a DEL, too: DelFSM follows.
UnbindUnwatch(c) ==
    /\ hpc[c] = "unwatch"
    /\ \/ /\ c \notin expired
          /\ active' = [active EXCEPT ![htkt[c]] = NoChat]
          /\ Goto(c, "unmark")
       \/ Fails(c) /\ UNCHANGED active /\ Goto(c, "drop_fsm")
    /\ UNCHANGED <<fsm, ticket, queue, modseen, zoho, bound, author, authorized, conv, hkey, htkt,
                   expired, worker, poller>>

UnbindUnmark(c) ==
    /\ hpc[c] = "unmark"
    /\ \/ /\ c \notin expired
          /\ modseen' = [modseen EXCEPT ![htkt[c]] = 0]
          /\ Goto(c, "drop_ref")
       \/ Fails(c) /\ UNCHANGED modseen /\ Goto(c, "drop_fsm")
    /\ UNCHANGED <<fsm, ticket, active, queue, zoho, bound, author, authorized, conv, hkey, htkt,
                   expired, worker, poller>>

UnbindDropTicket(c) ==
    /\ hpc[c] = "drop_ref"
    /\ \/ c \notin expired /\ ticket' = [ticket EXCEPT ![c] = NoTicket]
       \/ Fails(c) /\ UNCHANGED ticket
    /\ Goto(c, "drop_fsm")
    /\ UNCHANGED <<fsm, active, queue, modseen, zoho, bound, author, authorized, conv, hkey, htkt,
                   expired, worker, poller>>

UnbindDropFSM(c) ==
    /\ hpc[c] = "drop_fsm"
    /\ SaveConversation(c, "absent")
    /\ Finish(c)
    /\ UNCHANGED <<ticket, active, queue, modseen, zoho, bound, author, authorized, worker,
                   poller>>

-----------------------------------------------------------------------------
(* The retry worker: drain and process.  Its timer is abstracted: it may    *)
(* start a drain whenever it is idle.                                      *)

WorkerIdle == wpc' = "idle" /\ wkey' = NoKey /\ wtkt' = NoTicket

DequeueTicket ==
    /\ wpc = "idle"
    /\ queue # <<>>
    /\ queue' = Popped
    /\ wkey' = Head(queue)
    /\ wpc' = "create"
    /\ UNCHANGED <<fsm, ticket, active, modseen, zoho, bound, author, authorized, handler, wtkt,
                   poller>>

\* The LPOP is applied, its answer lost.
DequeueReplyLost ==
    /\ "redis" \in Env
    /\ wpc = "idle"
    /\ queue # <<>>
    /\ queue' = Popped
    /\ UNCHANGED <<fsm, ticket, active, modseen, zoho, bound, author, authorized, handler, worker,
                   poller>>

WorkerCreate(t) ==
    /\ wpc = "create"
    /\ Create(wkey, t)
    /\ wtkt' = t
    /\ wpc' = "set_ticket"
    /\ UNCHANGED <<redis, bound, author, authorized, handler, wkey, poller>>

WorkerCreateReplyLost(t) ==
    /\ "lost" \in Env
    /\ wpc = "create"
    /\ Create(wkey, t)
    /\ UNCHANGED <<redis, bound, author, authorized, handler, worker, poller>>

WorkerCreateFails ==
    /\ wpc = "create"
    /\ wpc' = "requeue"
    /\ UNCHANGED <<redis, zoho, bound, author, authorized, handler, wkey, wtkt, poller>>

\* The request goes back to the tail under the root context; its error is logged.
DroppedOnFailure ==
    /\ wpc = "requeue"
    /\ WorkerIdle
    /\ UNCHANGED <<redis, zoho, bound, author, authorized, handler, poller>>
Requeue ==
    /\ wpc = "requeue"
    /\ queue' = Pushed(wkey) \/ ("redis" \in Env /\ UNCHANGED queue)
    /\ WorkerIdle
    /\ UNCHANGED <<fsm, ticket, active, modseen, zoho, bound, author, authorized, handler,
                   poller>>

\* SetTicket again, under the item's context of 5 minutes.
WorkerFails == "redis" \in Env \/ "deadline" \in Env

WorkerSetTicket ==
    /\ wpc = "set_ticket"
    /\ \/ /\ ticket' = [ticket EXCEPT ![author[wkey]] = wtkt]
          /\ wpc' = "watch"
          /\ UNCHANGED <<wkey, wtkt>>
       \/ WorkerFails /\ WorkerIdle /\ UNCHANGED ticket
    /\ UNCHANGED <<fsm, active, queue, modseen, zoho, bound, author, authorized, handler, poller>>

WorkerWatchTicket ==
    /\ wpc = "watch"
    /\ \/ /\ active' = [active EXCEPT ![wtkt] = author[wkey]]
          /\ wpc' = "baseline" /\ wkey' = NoKey
          /\ UNCHANGED wtkt
       \/ WorkerFails /\ WorkerIdle /\ UNCHANGED active
    /\ UNCHANGED <<fsm, ticket, queue, modseen, zoho, bound, author, authorized, handler, poller>>

WorkerBaseline ==
    /\ wpc = "baseline"
    /\ SetNX(wtkt) \/ (WorkerFails /\ UNCHANGED modseen)
    /\ WorkerIdle
    /\ UNCHANGED <<fsm, ticket, active, queue, zoho, bound, author, authorized, handler, poller>>

-----------------------------------------------------------------------------
(* The poller: one cycle at a time, each watched ticket in turn *)

\* ActiveTickets: the watch set is read once per cycle.
PollStart ==
    /\ ppc = "idle"
    /\ \E t \in Tickets : active[t] # NoChat
    /\ remaining' = active
    /\ ppc' = "list"
    /\ UNCHANGED <<redis, zoho, bound, author, authorized, handler, worker, listed, lmod, ptkt,
                   pref>>

Pending == {t \in Tickets : remaining[t] # NoChat}

\* The pages of ListRecentTickets as one read: of the tickets of the cycle they
\* show those that exist, unless more changed than they hold.
ListRecentTickets ==
    /\ ppc = "list"
    /\ \E missed \in SUBSET Tickets :
          /\ missed = {} \/ "overflow" \in Env
          /\ listed' = [t \in Tickets |->
                          IF status[t] \in {"open", "closed"} /\ t \in Pending \ missed
                          THEN status[t] ELSE "unlisted"]
          /\ lmod' = [t \in Tickets |-> IF listed'[t] = "unlisted" THEN 0 ELSE modified[t]]
    /\ ppc' = "scan"
    /\ UNCHANGED <<redis, zoho, bound, author, authorized, handler, worker, remaining, ptkt,
                   pref>>

PollerIdle ==
    /\ ppc' = "idle"
    /\ remaining' = [t \in Tickets |-> NoChat]
    /\ listed' = [t \in Tickets |-> "unlisted"]
    /\ lmod' = [t \in Tickets |-> 0]

ListFails ==
    /\ ppc = "list"
    /\ PollerIdle
    /\ UNCHANGED <<redis, zoho, bound, author, authorized, handler, worker, ptkt, pref>>

\* reconcile takes the tickets on the list; those not on it come after.  What
\* the list said of a ticket goes with it.
Handled(t) ==
    /\ remaining' = [remaining EXCEPT ![t] = NoChat]
    /\ listed' = [listed EXCEPT ![t] = "unlisted"]
    /\ lmod' = [lmod EXCEPT ![t] = 0]

StartClosure(t) ==
    /\ ptkt' = t
    /\ ppc' = "get_ref"
    /\ UNCHANGED <<remaining, listed, lmod>>

\* The marker is no older than the modifiedTime in the list: nothing new.
Unmodified(t) == lmod[t] # 0 /\ modseen[t] # 0 /\ lmod[t] <= modseen[t]

\* The forwarding of the replies of a ticket changes nothing here; a failing
\* Redis skips the ticket, or loses the marker.
ReconcileMarksNow(t) ==
    /\ ppc = "scan"
    /\ t \in Pending /\ listed[t] # "unlisted"
    /\ \/ /\ listed[t] = "closed" /\ ~Unmodified(t)
          /\ StartClosure(t)
          /\ UNCHANGED modseen
       \/ /\ listed[t] = "open" /\ ~Unmodified(t)
          /\ modseen' = [modseen EXCEPT ![t] = IF lmod[t] = 0 THEN @ ELSE modified[t]]
          /\ Handled(t)
          /\ UNCHANGED <<ppc, ptkt>>
       \/ /\ Unmodified(t) \/ "redis" \in Env
          /\ Handled(t)
          /\ UNCHANGED <<modseen, ppc, ptkt>>
    /\ UNCHANGED <<fsm, ticket, active, queue, zoho, bound, author, authorized, handler, worker,
                   pref>>
Reconcile(t) ==
    /\ ppc = "scan"
    /\ t \in Pending /\ listed[t] # "unlisted"
    /\ \/ /\ listed[t] = "closed" /\ ~Unmodified(t)
          /\ StartClosure(t)
          /\ UNCHANGED modseen
       \/ /\ listed[t] = "open" /\ ~Unmodified(t)
          /\ modseen' = [modseen EXCEPT ![t] = IF lmod[t] = 0 THEN @ ELSE lmod[t]]
          /\ Handled(t)
          /\ UNCHANGED <<ppc, ptkt>>
       \/ /\ Unmodified(t) \/ "redis" \in Env
          /\ Handled(t)
          /\ UNCHANGED <<modseen, ppc, ptkt>>
    /\ UNCHANGED <<fsm, ticket, active, queue, zoho, bound, author, authorized, handler, worker,
                   pref>>

\* checkVanished: a probe (GetTicketByID) finds the ticket deleted or closed,
Unlisted(t) ==
    /\ ppc = "scan"
    /\ t \in Pending
    /\ \A u \in Pending : listed[u] = "unlisted"

AnyProbeEnds(t) ==
    /\ Unlisted(t)
    /\ StartClosure(t)
    /\ UNCHANGED <<redis, zoho, bound, author, authorized, handler, worker, pref>>
ProbeFindsEnd(t) ==
    /\ Unlisted(t)
    /\ status[t] \in {"closed", "deleted"}
    /\ StartClosure(t)
    /\ UNCHANGED <<redis, zoho, bound, author, authorized, handler, worker, pref>>

\* ... or finds it open, fails, or is not due yet.
ProbeSkips(t) ==
    /\ Unlisted(t)
    /\ Handled(t)
    /\ UNCHANGED <<redis, zoho, bound, author, authorized, handler, worker, ppc, ptkt, pref>>

\* handleClosure, for the chat the watch set gave: DelTicket (GET, HDEL, DELs)
\* on whatever ticket the chat has now, then DelFSM.
ClosingChat == remaining[ptkt]

ClosureGetAndDelete ==
    /\ ppc = "get_ref"
    /\ pref' = ticket[ClosingChat]
    /\ ticket' = [ticket EXCEPT ![ClosingChat] = NoTicket]
    /\ ppc' = IF ticket[ClosingChat] = NoTicket THEN "drop_ref" ELSE "unwatch"
    /\ UNCHANGED <<fsm, active, queue, modseen, zoho, bound, author, authorized, handler, worker,
                   remaining, listed, lmod, ptkt>>
ClosureGetTicket ==
    /\ ppc = "get_ref"
    /\ \E ref \in Reads(ClosingChat, "redis" \in Env) :
          /\ pref' = ref
          /\ ppc' = IF ref = NoTicket THEN "drop_ref" ELSE "unwatch"
    /\ UNCHANGED <<redis, zoho, bound, author, authorized, handler, worker, remaining, listed,
                   lmod, ptkt>>

ClosureUnwatch ==
    /\ ppc = "unwatch"
    /\ \/ active' = [active EXCEPT ![pref] = NoChat] /\ ppc' = "unmark"
       \/ "redis" \in Env /\ UNCHANGED active /\ ppc' = "drop_fsm"
    /\ UNCHANGED <<fsm, ticket, queue, modseen, zoho, bound, author, authorized, handler, worker,
                   remaining, listed, lmod, ptkt, pref>>

ClosureUnmark ==
    /\ ppc = "unmark"
    /\ \/ modseen' = [modseen EXCEPT ![pref] = 0] /\ ppc' = "drop_ref"
       \/ "redis" \in Env /\ UNCHANGED modseen /\ ppc' = "drop_fsm"
    /\ UNCHANGED <<fsm, ticket, active, queue, zoho, bound, author, authorized, handler, worker,
                   remaining, listed, lmod, ptkt, pref>>

ClosureDropTicket ==
    /\ ppc = "drop_ref"
    /\ ticket' = [ticket EXCEPT ![ClosingChat] = NoTicket] \/ ("redis" \in Env /\ UNCHANGED ticket)
    /\ ppc' = "drop_fsm"
    /\ UNCHANGED <<fsm, active, queue, modseen, zoho, bound, author, authorized, handler, worker,
                   remaining, listed, lmod, ptkt, pref>>

ClosureDone ==
    /\ ppc' = "scan"
    /\ Handled(ptkt)
    /\ ptkt' = NoTicket
    /\ pref' = NoTicket

ClosureSavesEmptyState ==
    /\ ppc = "drop_fsm"
    /\ fsm' = [fsm EXCEPT ![ClosingChat] = "idle"]
    /\ ClosureDone
    /\ UNCHANGED <<ticket, active, queue, modseen, zoho, bound, author, authorized, handler,
                   worker>>
ClosureKeepsFSM ==
    /\ ppc = "drop_fsm"
    /\ ClosureDone
    /\ UNCHANGED <<redis, zoho, bound, author, authorized, handler, worker>>
ClosureDropFSM ==
    /\ ppc = "drop_fsm"
    /\ fsm' = [fsm EXCEPT ![ClosingChat] = "absent"] \/ ("redis" \in Env /\ UNCHANGED fsm)
    /\ ClosureDone
    /\ UNCHANGED <<ticket, active, queue, modseen, zoho, bound, author, authorized, handler,
                   worker>>

PollEnd ==
    /\ ppc = "scan"
    /\ Pending = {}
    /\ PollerIdle
    /\ UNCHANGED <<redis, zoho, bound, author, authorized, handler, worker, ptkt, pref>>

-----------------------------------------------------------------------------
(* The environment *)

\* The operator closes a ticket, or moves it to the recycle bin.
CloseTicket(t) ==
    /\ status[t] = "open"
    /\ status' = [status EXCEPT ![t] = "closed"]
    /\ Touch(t)
    /\ UNCHANGED <<redis, keyOf, bound, author, authorized, handler, worker, poller>>

DeleteTicket(t) ==
    /\ status[t] \in {"open", "closed"}
    /\ status' = [status EXCEPT ![t] = "deleted"]
    /\ modified' = [modified EXCEPT ![t] = 0]     \* Zoho shows it no more
    /\ UNCHANGED <<redis, keyOf, bound, author, authorized, handler, worker, poller>>

\* A comment, of an operator or of the bot, or any other change.
ModifyTicket(t) ==
    /\ status[t] \in {"open", "closed"}
    /\ modified[t] < MaxModified
    /\ Touch(t)
    /\ UNCHANGED <<redis, status, keyOf, bound, author, authorized, handler, worker, poller>>

\* The conversation expires 24h after it was last saved, so never under a
\* handler that has just saved it.
ExpireFSM(c) ==
    /\ "fsmttl" \in Env
    /\ fsm[c] # "absent"
    /\ hpc[c] \in {"free", "loaded"}
    /\ fsm' = [fsm EXCEPT ![c] = "absent"]
    /\ UNCHANGED <<ticket, active, queue, modseen, zoho, bound, author, authorized, handler,
                   worker, poller>>

\* The mapping expires 30d after it was stored, long after the state
\* ticket_open saved before it.
ExpireTicket(c) ==
    /\ "ticketttl" \in Env
    /\ ticket[c] # NoTicket
    /\ fsm[c] # "ticket_open"
    /\ ticket' = [ticket EXCEPT ![c] = NoTicket]
    /\ UNCHANGED <<fsm, active, queue, modseen, zoho, bound, author, authorized, handler, worker,
                   poller>>

\* A SetTicket is between the HSET and the SETNX of ticket t.
Baselining(t) ==
    \/ \E c \in Chats : hpc[c] = "baseline" /\ htkt[c] = t
    \/ wpc = "baseline" /\ wtkt = t

\* A marker expires 30d after it was last written, so never under a SetTicket
\* on its way.
ExpireMarker(t) ==
    /\ "markerttl" \in Env
    /\ modseen[t] # 0
    /\ ~Baselining(t)
    /\ modseen' = [modseen EXCEPT ![t] = 0]
    /\ UNCHANGED <<fsm, ticket, active, queue, zoho, bound, author, authorized, handler, worker,
                   poller>>

\* The process stops and starts again: all that was in memory is gone, and the
\* updates in hand are not redelivered (they are marked as processed).
Crash ==
    /\ "crash" \in Env
    /\ authorized' = {}
    /\ hpc' = [c \in Chats |-> "free"]
    /\ conv' = [c \in Chats |-> "idle"]
    /\ hkey' = [c \in Chats |-> NoKey]
    /\ htkt' = [c \in Chats |-> NoTicket]
    /\ expired' = {}
    /\ WorkerIdle
    /\ PollerIdle
    /\ ptkt' = NoTicket /\ pref' = NoTicket
    /\ UNCHANGED <<redis, zoho, bound, author>>

-----------------------------------------------------------------------------
HandlerStep(c) ==
    \/ Authorize(c) \/ LoadConversation(c) \/ Reply(c) \/ Dialog(c)
    \/ \E k \in Keys : FinalizeTicket(c, k)
    \/ \E t \in Tickets : CreateTicket(c, t) \/ CreateTicketReplyLost(c, t)
    \/ CreateTicketFails(c) \/ Enqueue(c) \/ EnqueueFails(c)
    \/ RevertToConfirming(c) \/ SetTicket(c) \/ WatchTicket(c)
    \/ BaselineTicket(c) \/ Deadline(c)

BindingStep(c) ==
    \/ Bind(c) \/ StartFlow(c)
    \/ Revoke(c) \/ UnbindGetTicket(c) \/ UnbindUnwatch(c)
    \/ UnbindUnmark(c) \/ UnbindDropTicket(c) \/ UnbindDropFSM(c)

WorkerStep ==
    \/ DequeueTicket \/ DequeueReplyLost
    \/ \E t \in Tickets : WorkerCreate(t) \/ WorkerCreateReplyLost(t)
    \/ WorkerCreateFails \/ Requeue \/ WorkerSetTicket \/ WorkerWatchTicket
    \/ WorkerBaseline

ClosureStep ==
    \/ ClosureGetTicket \/ ClosureUnwatch \/ ClosureUnmark
    \/ ClosureDropTicket \/ ClosureDropFSM

PollerStep ==
    \/ PollStart \/ ListRecentTickets \/ ListFails
    \/ \E t \in Tickets : Reconcile(t) \/ ProbeFindsEnd(t) \/ ProbeSkips(t)
    \/ ClosureStep \/ PollEnd

EnvStep ==
    \/ \E t \in Tickets :
          CloseTicket(t) \/ DeleteTicket(t) \/ ModifyTicket(t) \/ ExpireMarker(t)
    \/ \E c \in Chats : ExpireFSM(c) \/ ExpireTicket(c)
    \/ Crash

Next ==
    \/ \E c \in Chats : HandlerStep(c) \/ BindingStep(c)
    \/ WorkerStep
    \/ PollerStep
    \/ EnvStep

Spec == Init /\ [][Next]_vars

\* The tickers keep the worker and the poller going; an outage of Zoho ends
\* sometime, so a call made again and again is answered.
WorkerFairness ==
    /\ WF_vars(WorkerStep)
    /\ \A k \in Keys : SF_vars(wkey = k /\ \E t \in Tickets : WorkerCreate(t))

PollerFairness ==
    /\ WF_vars(PollerStep)
    /\ SF_vars(ListRecentTickets)
    /\ \A t \in Tickets : SF_vars(ProbeFindsEnd(t))

FairSpec == Spec /\ WorkerFairness /\ PollerFairness

-----------------------------------------------------------------------------
(* Properties *)

Queued == {queue[i] : i \in DOMAIN queue}
InHand == IF wkey = NoKey THEN {} ELSE {wkey}
Created(k) == \E t \in Tickets : keyOf[t] = k
WatchedFor(c) == {t \in Tickets : active[t] = c}

\* The requests of chat c the bot still pursues: waiting in the queue, held by
\* the worker or by the chat's handler, or a ticket the poller watches.
LiveRequests(c) ==
    {k \in Queued \cup InHand : author[k] = c}
        \cup (IF hkey[c] = NoKey \/ hpc[c] = "revert" THEN {} ELSE {hkey[c]})
        \cup {keyOf[t] : t \in WatchedFor(c)}

\* A chat never has two requests being pursued, nor two of its tickets watched,
\* wherever each of them is on its way (README.md: one active ticket per chat).
OneRequestPerChat ==
    \A c \in Chats :
        /\ \A k1, k2 \in LiveRequests(c) : k1 = k2
        /\ \A t, u \in WatchedFor(c) : t = u

\* The ticket the poller watches for a chat is the ticket the chat's messages
\* go to, at every moment of SetTicket (SET, HSET) and DelTicket (HDEL, DEL):
\* a closure then finds, and clears, the right ticket.
WatchedIsMapped ==
    \A t \in Tickets : active[t] # NoChat => ticket[active[t]] = t

\* The bot forgets a ticket, in either table, only after the operator closed
\* or deleted it (handleClosure is reached for no other).
TrackedUntilClosed ==
    [][/\ \A c \in Chats, t \in Tickets :
             ticket[c] = t /\ ticket'[c] # t => status[t] \in {"closed", "deleted"}
       /\ \A t \in Tickets :
             active[t] # NoChat /\ active'[t] # active[t] => status[t] \in {"closed", "deleted"}
      ]_vars

\* One confirmed request gives at most one ticket, whoever retries it (as long
\* as no answer of Zoho is lost).
AtMostOneTicketPerRequest ==
    /\ \A t, u \in Tickets : keyOf[t] = keyOf[u] /\ keyOf[t] # NoKey => t = u
    /\ \A k \in Keys : Created(k) => k \notin Queued

\* A chat in ticket_open is served: a request of it is on its way or open, or
\* the poller is just resetting it (finalizeTicket: "do not strand the client").
BeingReset(c) == (ppc \in Unbinding /\ remaining[ptkt] = c) \/ hpc[c] \in Unbinding
NobodyStranded ==
    \A c \in Chats :
        fsm[c] = "ticket_open" =>
            LiveRequests(c) # {} \/ BeingReset(c) \/ hpc[c] \in {"revert", "watch"}

\* A request the queue or the worker has taken stays with them until Zoho has
\* its ticket (package comment of queue/retry.go).
QueuedUntilCreated ==
    [][\A k \in Keys : k \in Queued \cup InHand =>
          (k \in Queued \cup InHand)' \/ Created(k)']_vars

\* A request Zoho keeps rejecting does not keep the others from being created.
PoisonDoesNotBlock ==
    \A k \in Keys \ Poison : k \in Queued ~> Created(k)

\* A chat whose watched ticket was deleted, or closed after its marker was set,
\* is reset: its conversation and its watch are gone.  A closure that SetTicket's
\* baseline, or a clock that is ahead, puts behind the marker is not seen.
Noticeable(t) ==
    \/ status[t] = "deleted"
    \/ /\ status[t] = "closed"
       /\ modseen[t] < modified[t]
       /\ modseen[t] = 0 => ~Baselining(t)
ClosureReachesChat ==
    \A c \in Chats, t \in Tickets :
        active[t] = c /\ Noticeable(t) ~> fsm[c] = "absent" /\ active[t] # c
=============================================================================
