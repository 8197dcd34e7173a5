--------------------------- MODULE ReplyForwarding ---------------------------
(***************************************************************************)
(* How the comments of one ticket reach its chat: SetTicket of             *)
(* redis/client.go registers the ticket and baselines its markers, and     *)
(* each cycle of poller/poller.go lists the ticket, fetches its comments,  *)
(* sends the new public ones, advances the markers and, when the ticket is *)
(* closed, lets it go and says so.                                         *)
(*                                                                         *)
(* The poller is one goroutine and the markers belong to one ticket, so    *)
(* one ticket is enough; how chats, tickets and the watch set go together  *)
(* is the module TicketLifecycle.  A time is a number, 0 where the code    *)
(* has "no marker".                                                        *)
(***************************************************************************)
EXTENDS Naturals, Sequences, FiniteSets

CONSTANTS
    Limit,          \* commentsLimit: the comments one call returns
    MaxComments,    \* bound of the model: comments posted on the ticket
    MaxMessages,    \* bound of the model: replies sent, repeated ones included
    Env             \* what the environment may do, a subset of EnvEvents

\* crash:    the process stops and starts again
\* telegram: a message cannot be sent;  zoho: ListComments fails
\* redis:    a Redis command fails
\* expiry:   the 30d of a marker run out
\* burst:    more comments than Limit are posted before the next fetch
\* skew:     the bot's clock is ahead of Zoho's
\* overflow: the ticket is not on the list, so it is probed
EnvEvents == {"crash", "telegram", "zoho", "redis", "expiry", "burst", "skew",
              "overflow"}

ASSUME BoundAssumption ==
    Limit \in Nat \ {0} /\ MaxComments \in Nat /\ MaxMessages \in Nat
ASSUME FaultAssumption == Env \subseteq EnvEvents

VARIABLES
    \* Zoho
    clock,              \* the time, which only the events of the ticket advance
    comments,           \* its comments: kind and commentedTime, oldest first
    modified,           \* its modifiedTime
    closed, ending,     \* is it closed, and how many comments it had when closed
    \* Redis
    watched,            \* the ticket is in active_tickets
    modseen, cmtseen,   \* the markers ticket_modseen and ticket_cmtseen
    \* the caller of SetTicket
    spc,
    base, before,       \* its "now", and how many comments there were then
    \* the poller
    ppc,
    lmod, lclosed,      \* modifiedTime and status in the list
    seen, newest,       \* the comment marker it read, and the one it will write
    fresh,              \* the comments still to send
    \* Telegram
    delivered, noticed  \* the replies the chat got, and whether the closure notice

zoho     == <<clock, comments, modified, closed, ending>>
redis    == <<watched, modseen, cmtseen>>
caller   == <<spc, base, before>>
poller   == <<ppc, lmod, lclosed, seen, newest, fresh>>
telegram == <<delivered, noticed>>
vars     == <<zoho, redis, caller, poller, telegram>>

\* An operator's public reply; a public comment without text (a file); the
\* bot's own, private, relay of a client message.
Kinds == {"reply", "empty", "relay"}
Comment == [kind : Kinds, at : Nat \ {0}]

CallerPCs == {"watch", "mod", "cmt", "done"}
PollerPCs == {"idle", "gate", "marker", "fetch", "send", "finish",
              "unwatch", "drop_markers", "notify"}

TypeOK ==
    /\ clock \in Nat \ {0} /\ modified \in Nat \ {0}
    /\ comments \in Seq(Comment)
    /\ closed \in BOOLEAN /\ ending \in Nat
    /\ watched \in BOOLEAN
    /\ modseen \in Nat /\ cmtseen \in Nat
    /\ spc \in CallerPCs /\ base \in Nat /\ before \in Nat
    /\ ppc \in PollerPCs
    /\ lmod \in Nat /\ lclosed \in BOOLEAN
    /\ seen \in Nat /\ newest \in Nat
    /\ fresh \subseteq DOMAIN comments
    /\ delivered \in Seq(DOMAIN comments)
    /\ noticed \in BOOLEAN

Init ==
    /\ clock = 1 /\ modified = 1
    /\ comments = <<>>
    /\ closed = FALSE /\ ending = 0
    /\ watched = FALSE /\ modseen = 0 /\ cmtseen = 0
    /\ spc = "watch" /\ base = 0 /\ before = 0
    /\ ppc = "idle"
    /\ lmod = 0 /\ lclosed = FALSE
    /\ seen = 0 /\ newest = 0
    /\ fresh = {}
    /\ delivered = <<>> /\ noticed = FALSE

-----------------------------------------------------------------------------
(* Zoho: what operators, and the bot's own relays, do to the ticket *)

Got(i) == \E n \in DOMAIN delivered : delivered[n] = i

\* Every event has a later time than the one before.
Moment ==
    /\ clock' = clock + 1
    /\ modified' = clock'

\* Without a burst the replies not sent yet stay among the comments one call
\* returns.
Fits ==
    \A i \in DOMAIN comments :
        comments[i].kind = "reply" /\ ~Got(i) => Len(comments) + 1 - i < Limit

Post(kind) ==
    /\ Len(comments) < MaxComments
    /\ "burst" \in Env \/ Fits
    /\ Moment
    /\ comments' = Append(comments, [kind |-> kind, at |-> clock'])
    /\ UNCHANGED <<closed, ending, redis, caller, poller, telegram>>

CloseTicket ==
    /\ ~closed
    /\ Moment
    /\ closed' = TRUE
    /\ ending' = Len(comments)
    /\ UNCHANGED <<comments, redis, caller, poller, telegram>>

-----------------------------------------------------------------------------
(* SetTicket, by the handler or the worker: HSET, then the markers by SETNX *)

BaselineTooEarly ==
    /\ spc = "watch"
    /\ watched' = TRUE
    /\ base' = clock - 2
    /\ before' = Len(comments)
    /\ spc' = "mod"
    /\ UNCHANGED <<zoho, modseen, cmtseen, poller, telegram>>
Register ==
    /\ spc = "watch"
    /\ watched' = TRUE
    /\ base' = clock \/ ("skew" \in Env /\ base' = clock + 1)
    /\ before' = Len(comments)
    /\ spc' = "mod"
    /\ UNCHANGED <<zoho, modseen, cmtseen, poller, telegram>>

SetNX(marker) == IF marker = 0 THEN base ELSE marker

BaselineModSeen ==
    /\ spc = "mod"
    /\ \/ modseen' = SetNX(modseen) /\ spc' = "cmt"
       \/ "redis" \in Env /\ UNCHANGED modseen /\ spc' = "done"
    /\ UNCHANGED <<zoho, watched, cmtseen, base, before, poller, telegram>>

BaselineCommentSeen ==
    /\ spc = "cmt"
    /\ cmtseen' = SetNX(cmtseen) \/ ("redis" \in Env /\ UNCHANGED cmtseen)
    /\ spc' = "done"
    /\ UNCHANGED <<zoho, watched, modseen, base, before, poller, telegram>>

-----------------------------------------------------------------------------
(* The poller *)

\* The end of a cycle for this ticket: nothing of it is remembered.
FinishCycle ==
    /\ ppc' = "idle"
    /\ lmod' = 0 /\ lclosed' = FALSE
    /\ seen' = 0 /\ newest' = 0
    /\ fresh' = {}

ListRecentTickets ==
    /\ ppc = "idle"
    /\ watched
    /\ lmod' = modified
    /\ lclosed' = closed
    /\ ppc' = "gate"
    /\ UNCHANGED <<zoho, redis, caller, seen, newest, fresh, telegram>>

\* checkVanished: the ticket is not on the list, and a probe finds it closed.
ProbeFindsClosed ==
    /\ "overflow" \in Env
    /\ ppc = "idle"
    /\ watched
    /\ closed
    /\ ppc' = "unwatch"
    /\ UNCHANGED <<zoho, redis, caller, lmod, lclosed, seen, newest, fresh, telegram>>

\* reconcile: a ticket not modified since it was last processed costs no call.
ClosureFirst ==
    /\ ppc = "gate"
    /\ IF modseen # 0 /\ lmod <= modseen
       THEN FinishCycle
       ELSE /\ ppc' = IF lclosed THEN "unwatch" ELSE "marker"
            /\ UNCHANGED <<lmod, lclosed, seen, newest, fresh>>
    /\ UNCHANGED <<zoho, redis, caller, telegram>>
Reconcile ==
    /\ ppc = "gate"
    /\ \/ modseen # 0 /\ lmod <= modseen /\ FinishCycle
       \/ /\ modseen = 0 \/ lmod > modseen
          /\ ppc' = "marker"
          /\ UNCHANGED <<lmod, lclosed, seen, newest, fresh>>
       \/ "redis" \in Env /\ FinishCycle
    /\ UNCHANGED <<zoho, redis, caller, telegram>>

\* forwardNewComments: the marker is read; without it nothing is forwarded.
ReadMarker ==
    /\ ppc = "marker"
    /\ \/ seen' = cmtseen /\ ppc' = "fetch"
       \/ "redis" \in Env /\ ppc' = "finish" /\ UNCHANGED seen
    /\ UNCHANGED <<zoho, redis, caller, lmod, lclosed, newest, fresh, telegram>>

\* The comments of one ListComments call that are public and newer than the
\* marker, and the latest time among them.
New ==
    {i \in DOMAIN comments :
        /\ Len(comments) - i < Limit
        /\ comments[i].kind # "relay"
        /\ seen = 0 \/ comments[i].at > seen}

Latest(is) ==
    IF is = {} THEN seen
    ELSE CHOOSE t \in {comments[i].at : i \in is} : \A i \in is : comments[i].at <= t

MarkedBeforeSent ==
    /\ ppc = "fetch"
    /\ fresh' = {i \in New : comments[i].kind = "reply"}
    /\ newest' = Latest(New)
    /\ cmtseen' = Latest(New)
    /\ ppc' = "send"
    /\ UNCHANGED <<zoho, watched, modseen, caller, lmod, lclosed, seen, telegram>>
ListComments ==
    /\ ppc = "fetch"
    /\ \/ /\ fresh' = {i \in New : comments[i].kind = "reply"}
          /\ newest' = Latest(New)
          /\ ppc' = "send"
       \/ "zoho" \in Env /\ ppc' = "finish" /\ UNCHANGED <<newest, fresh>>
    /\ UNCHANGED <<zoho, redis, caller, lmod, lclosed, seen, telegram>>

\* The sort: Zoho answers newest first, the chat reads oldest first.
NewestFirst(i, j) == comments[i].at > comments[j].at
Precedes(i, j) == comments[i].at < comments[j].at

\* All parts of a reply are sent, or sending stops at the first failure and the
\* reply counts as not delivered.
SendReply(i) ==
    /\ ppc = "send"
    /\ i \in fresh
    /\ \A j \in fresh \ {i} : Precedes(i, j)
    /\ Len(delivered) < MaxMessages
    /\ fresh' = fresh \ {i}
    /\ \/ delivered' = Append(delivered, i)
       \/ "telegram" \in Env /\ UNCHANGED delivered
    /\ UNCHANGED <<zoho, redis, caller, ppc, lmod, lclosed, seen, newest, noticed>>

AdvanceMarker ==
    /\ ppc = "send"
    /\ fresh = {}
    /\ \/ cmtseen' = IF newest = seen THEN cmtseen ELSE newest
       \/ "redis" \in Env /\ UNCHANGED cmtseen
    /\ ppc' = "finish"
    /\ UNCHANGED <<zoho, watched, modseen, caller, lmod, lclosed, seen, newest, fresh, telegram>>

\* Back in reconcile, whether or not the comments were forwarded.
ModSeenIsNow ==
    /\ ppc = "finish"
    /\ ~lclosed
    /\ modseen' = clock
    /\ FinishCycle
    /\ UNCHANGED <<zoho, watched, cmtseen, caller, telegram>>
AdvanceModSeen ==
    /\ ppc = "finish"
    /\ ~lclosed
    /\ modseen' = lmod \/ ("redis" \in Env /\ UNCHANGED modseen)
    /\ FinishCycle
    /\ UNCHANGED <<zoho, watched, cmtseen, caller, telegram>>

FindsClosed ==
    /\ ppc = "finish"
    /\ lclosed
    /\ ppc' = "unwatch"
    /\ UNCHANGED <<zoho, redis, caller, lmod, lclosed, seen, newest, fresh, telegram>>

\* handleClosure: DelTicket (HDEL, then DEL of the markers; an error ends it),
\* then the notice.
Unwatch ==
    /\ ppc = "unwatch"
    /\ \/ watched' = FALSE /\ ppc' = "drop_markers"
       \/ "redis" \in Env /\ UNCHANGED watched /\ ppc' = "notify"
    /\ UNCHANGED <<zoho, modseen, cmtseen, caller, lmod, lclosed, seen, newest, fresh, telegram>>

DropMarkers ==
    /\ ppc = "drop_markers"
    /\ \/ modseen' = 0 /\ cmtseen' = 0
       \/ "redis" \in Env /\ UNCHANGED <<modseen, cmtseen>>
    /\ ppc' = "notify"
    /\ UNCHANGED <<zoho, watched, caller, lmod, lclosed, seen, newest, fresh, telegram>>

Notify ==
    /\ ppc = "notify"
    /\ noticed' = TRUE \/ ("telegram" \in Env /\ UNCHANGED noticed)
    /\ FinishCycle
    /\ UNCHANGED <<zoho, redis, caller, delivered>>

-----------------------------------------------------------------------------
(* The environment *)

\* A marker goes 30d after it was last written, so not during a cycle.
ExpireMarker ==
    /\ "expiry" \in Env
    /\ ppc = "idle" /\ spc = "done"
    /\ \/ modseen # 0 /\ modseen' = 0 /\ UNCHANGED cmtseen
       \/ cmtseen # 0 /\ cmtseen' = 0 /\ UNCHANGED modseen
    /\ UNCHANGED <<zoho, watched, caller, poller, telegram>>

Crash ==
    /\ "crash" \in Env
    /\ spc' = "done"
    /\ FinishCycle
    /\ UNCHANGED <<zoho, redis, base, before, telegram>>

-----------------------------------------------------------------------------
TicketStep == CloseTicket \/ \E kind \in Kinds : Post(kind)

CallerStep == Register \/ BaselineModSeen \/ BaselineCommentSeen

PollerStep ==
    \/ ListRecentTickets \/ ProbeFindsClosed \/ Reconcile
    \/ ReadMarker \/ ListComments
    \/ \E i \in DOMAIN comments : SendReply(i)
    \/ AdvanceMarker \/ AdvanceModSeen \/ FindsClosed
    \/ Unwatch \/ DropMarkers \/ Notify

Next == TicketStep \/ CallerStep \/ PollerStep \/ ExpireMarker \/ Crash

Spec == Init /\ [][Next]_vars

\* SetTicket is not left half way, and the ticker keeps the poller going.
FairSpec == Spec /\ WF_vars(CallerStep) /\ WF_vars(PollerStep)

-----------------------------------------------------------------------------
(* Properties *)

\* A reply the client was promised: posted once the ticket was registered.
Promised(i) ==
    /\ i \in DOMAIN comments
    /\ spc # "watch" /\ i > before
    /\ comments[i].kind = "reply"

\* The chat gets only operators' public replies, each at most once, in the
\* order they were posted, and none after the closure notice (poller.go:
\* "deliver oldest-first so the chat reads in order"; desk.go: private
\* comments are not echoed).
Channel == INSTANCE ReplyChannel
InOrder == Channel!Spec

\* What the comment marker has passed was delivered: a reply behind it would
\* never be looked at again (forwardNewComments).
MarkerSkipsNothing ==
    \A i \in DOMAIN comments :
        Promised(i) /\ comments[i].at <= cmtseen => Got(i)

\* When the closure notice goes out, every reply posted before the ticket was
\* closed is with the client (reconcile: "still reaches the client before the
\* closure notice").
LastWordFirst ==
    [][~noticed /\ noticed' =>
          \A i \in DOMAIN comments : Promised(i) /\ i <= ending => Got(i)]_vars

\* A reply posted on an open ticket reaches the chat, whatever happens to the
\* ticket while the poller is in the middle of a cycle.
ReplyArrives ==
    \A i \in 1..MaxComments :
        Promised(i) /\ (closed => i <= ending) ~> Got(i)
=============================================================================
