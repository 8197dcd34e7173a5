----------------------- MODULE ReplyForwardingProofs -----------------------
(***************************************************************************)
(* Theorems about ReplyForwarding, for every number of comments, messages  *)
(* and comments per call.                                                  *)
(***************************************************************************)
EXTENDS ReplyForwarding, WellFoundedInduction, TLAPS

-----------------------------------------------------------------------------
(* Times and types, whatever the environment does *)

\* Later comments have later times, none later than now.
Times ==
    /\ \A i \in DOMAIN comments : comments[i].at <= clock
    /\ \A i, j \in DOMAIN comments : i < j => comments[i].at < comments[j].at

TypeInv == TypeOK /\ Times

LEMMA CommentTypes ==
    ASSUME TypeOK
    PROVE  /\ Len(comments) \in Nat /\ DOMAIN comments = 1..Len(comments)
           /\ \A i \in DOMAIN comments :
                  comments[i].kind \in Kinds /\ comments[i].at \in Nat \ {0}
<1>1. \A i \in 1..Len(comments) : comments[i] \in Comment
  BY DEF TypeOK
<1>2. Len(comments) \in Nat /\ DOMAIN comments = 1..Len(comments)
  BY DEF TypeOK
<1> QED
  BY <1>1, <1>2 DEF Comment

LEMMA InitType == Init => TypeInv
<1> SUFFICES ASSUME Init PROVE TypeInv
  OBVIOUS
<1>1. comments \in Seq(Comment) /\ delivered \in Seq(DOMAIN comments)
  BY DEF Init
<1>2. /\ clock \in Nat \ {0} /\ modified \in Nat \ {0}
      /\ ending \in Nat /\ modseen \in Nat /\ cmtseen \in Nat
      /\ base \in Nat /\ before \in Nat
      /\ lmod \in Nat /\ seen \in Nat /\ newest \in Nat
  BY DEF Init
<1>3. DOMAIN comments = {}
  BY DEF Init
<1>4. /\ closed \in BOOLEAN /\ watched \in BOOLEAN
      /\ lclosed \in BOOLEAN /\ noticed \in BOOLEAN
      /\ spc \in CallerPCs /\ ppc \in PollerPCs
      /\ fresh \subseteq DOMAIN comments
  BY DEF Init, CallerPCs, PollerPCs
<1> QED
  BY <1>1, <1>2, <1>3, <1>4 DEF TypeInv, TypeOK, Times

\* Among some comments one is the latest, so Latest is its time.
LEMMA LatestIsLatest ==
    ASSUME TypeInv, NEW is \in SUBSET DOMAIN comments, is # {}
    PROVE  \E m \in is : /\ Latest(is) = comments[m].at
                         /\ \A i \in is : comments[i].at <= Latest(is)
<1> DEFINE backwards == {n \in Nat : Len(comments) - n \in is}
<1> DOMAIN comments = 1..Len(comments) /\ Len(comments) \in Nat
  BY CommentTypes DEF TypeInv
<1>1. backwards # {}
  <2>1. PICK i \in is : TRUE
    OBVIOUS
  <2>2. Len(comments) - i \in Nat /\ Len(comments) - (Len(comments) - i) = i
    BY <2>1
  <2> QED
    BY <2>1, <2>2
<1>2. PICK n \in backwards : \A k \in backwards : n <= k
  <2>1. PICK n \in backwards : \A k \in backwards : ~ (<<k, n>> \in OpToRel(<, Nat))
    BY <1>1, NatLessThanWellFounded, WFMin, Zenon
  <2>2. ASSUME NEW k \in backwards, k < n PROVE FALSE
    BY <2>1, <2>2 DEF OpToRel
  <2> QED
    BY <2>2
<1> DEFINE m == Len(comments) - n
<1>3. \A i \in is : i <= m
  <2> SUFFICES ASSUME NEW i \in is PROVE i <= m
    OBVIOUS
  <2>1. Len(comments) - i \in backwards
    <3>1. Len(comments) - i \in Nat /\ Len(comments) - (Len(comments) - i) = i
      OBVIOUS
    <3> QED
      BY <3>1
  <2> QED
    BY <1>2, <2>1
<1>4. m \in is /\ \A i \in is : comments[i].at <= comments[m].at
  <2>1. m \in is
    BY <1>2
  <2>2. ASSUME NEW i \in is PROVE comments[i].at <= comments[m].at
    <3>1. i = m \/ i < m
      BY <1>3, <2>1
    <3> QED
      BY <2>1, <3>1, CommentTypes, SMTT(30) DEF TypeInv, Times
  <2> QED
    BY <2>1, <2>2
<1>5. \A i \in is : comments[i].at \in Nat
  BY CommentTypes DEF TypeInv
<1>6. Latest(is) = comments[m].at
  <2> DEFINE T == {comments[i].at : i \in is}
             t == CHOOSE x \in T : \A i \in is : comments[i].at <= x
  <2>1. t \in T /\ \A i \in is : comments[i].at <= t
    BY <1>4
  <2>2. t <= comments[m].at /\ comments[m].at <= t /\ t \in Nat
    BY <1>4, <1>5, <2>1
  <2> QED
    BY <1>4, <1>5, <2>2 DEF Latest
<1> QED
  BY <1>4, <1>6

LEMMA StepType == TypeInv /\ [Next]_vars => TypeInv'
<1> SUFFICES ASSUME TypeInv, [Next]_vars PROVE TypeInv'
  OBVIOUS
<1> USE DEF TypeInv, TypeOK, CallerPCs, PollerPCs
<1>1. ASSUME NEW kind \in Kinds, Post(kind) PROVE TypeInv'
  <2>1. /\ clock' = clock + 1
        /\ comments' = Append(comments, [kind |-> kind, at |-> clock'])
    BY <1>1 DEF Post, Moment
  <2>0. [kind |-> kind, at |-> clock'] \in Comment
    BY <2>1 DEF Comment
  <2>2. /\ comments' \in Seq(Comment)
        /\ DOMAIN comments' = DOMAIN comments \cup {Len(comments) + 1}
        /\ \A i \in DOMAIN comments : comments'[i] = comments[i]
        /\ comments'[Len(comments) + 1].at = clock'
    BY <2>0, <2>1, CommentTypes, SMTT(30)
  <2>3. Times'
    <3>1. \A i \in DOMAIN comments : i < Len(comments) + 1 /\ comments[i].at < clock'
      BY <2>1, CommentTypes DEF Times
    <3>2. \A i \in DOMAIN comments' : comments'[i].at <= clock'
      BY <2>1, <2>2, <3>1, CommentTypes
    <3>3. ASSUME NEW i \in DOMAIN comments', NEW j \in DOMAIN comments', i < j
          PROVE  comments'[i].at < comments'[j].at
      <4>1. i \in DOMAIN comments
        BY <2>2, <3>1, <3>3, CommentTypes
      <4> QED
        BY <2>2, <3>1, <3>3, <4>1 DEF Times
    <3> QED
      BY <3>2, <3>3 DEF Times
  <2> QED
    BY <1>1, <2>2, <2>3 DEF Post, Moment, redis, caller, poller, telegram
<1>2. ASSUME UNCHANGED comments, clock' = clock \/ clock' = clock + 1 PROVE Times'
  BY <1>2, CommentTypes DEF Times
<1>3. CASE CloseTicket
  BY <1>2, <1>3 DEF CloseTicket, Moment, redis, caller, poller, telegram
<1>4. CASE Register
  BY <1>2, <1>4, CommentTypes DEF Register, zoho, redis, poller, telegram
<1>5. CASE BaselineModSeen
  BY <1>2, <1>5 DEF BaselineModSeen, SetNX, zoho, poller, telegram
<1>6. CASE BaselineCommentSeen
  BY <1>2, <1>6 DEF BaselineCommentSeen, SetNX, zoho, poller, telegram
<1>7. CASE ListRecentTickets
  BY <1>2, <1>7 DEF ListRecentTickets, zoho, redis, caller, telegram
<1>8. CASE ProbeFindsClosed
  BY <1>2, <1>8 DEF ProbeFindsClosed, zoho, redis, caller, telegram
<1>9. CASE Reconcile
  <2>1. CASE FinishCycle
    BY <1>2, <1>9, <2>1 DEF Reconcile, FinishCycle, zoho, redis, caller, telegram
  <2>2. CASE ppc' = "marker" /\ UNCHANGED <<lmod, lclosed, seen, newest, fresh>>
    BY <1>2, <1>9, <2>2 DEF Reconcile, zoho, redis, caller, telegram
  <2> QED
    BY <1>9, <2>1, <2>2 DEF Reconcile
<1>10. CASE ReadMarker
  BY <1>2, <1>10 DEF ReadMarker, zoho, redis, caller, telegram
<1>11. CASE ListComments
  <2>1. New \subseteq DOMAIN comments
    BY DEF New
  <2>2. Latest(New) \in Nat
    <3>1. CASE New = {}
      BY <3>1 DEF Latest
    <3>2. CASE New # {}
      BY <2>1, <3>2, LatestIsLatest, CommentTypes
    <3> QED
      BY <3>1, <3>2
  <2> QED
    BY <1>2, <1>11, <2>1, <2>2 DEF ListComments, zoho, redis, caller, telegram
<1>12. ASSUME NEW i \in DOMAIN comments, SendReply(i) PROVE TypeInv'
  BY <1>2, <1>12, SMTT(30) DEF SendReply, zoho, redis, caller
<1>13. CASE AdvanceMarker
  BY <1>2, <1>13 DEF AdvanceMarker, zoho, caller, telegram
<1>14. CASE AdvanceModSeen
  BY <1>2, <1>14 DEF AdvanceModSeen, FinishCycle, zoho, caller, telegram
<1>15. CASE FindsClosed
  BY <1>2, <1>15 DEF FindsClosed, zoho, redis, caller, telegram
<1>16. CASE Unwatch
  BY <1>2, <1>16 DEF Unwatch, zoho, caller, telegram
<1>17. CASE DropMarkers
  BY <1>2, <1>17 DEF DropMarkers, zoho, caller, telegram
<1>18. CASE Notify
  BY <1>2, <1>18 DEF Notify, FinishCycle, zoho, redis, caller
<1>19. CASE ExpireMarker
  BY <1>2, <1>19 DEF ExpireMarker, zoho, caller, poller, telegram
<1>20. CASE Crash
  BY <1>2, <1>20 DEF Crash, FinishCycle, zoho, redis, telegram
<1>21. CASE UNCHANGED vars
  BY <1>2, <1>21 DEF vars, zoho, redis, caller, poller, telegram
<1> QED
  BY <1>1, <1>3, <1>4, <1>5, <1>6, <1>7, <1>8, <1>9, <1>10, <1>11, <1>12, <1>13,
     <1>14, <1>15, <1>16, <1>17, <1>18, <1>19, <1>20, <1>21
     DEF Next, TicketStep, CallerStep, PollerStep

\* Every variable keeps its type, so that fresh and delivered never name a
\* comment that is not there (forwardNewComments).
THEOREM RepliesTyped == Spec => []TypeOK
<1>1. TypeInv => TypeOK
  BY DEF TypeInv
<1> QED
  BY <1>1, InitType, StepType, PTL DEF Spec

-----------------------------------------------------------------------------
(* The ordered channel *)

\* Neither a restart, a failing Redis nor the loss of a marker makes the poller
\* send a reply again.
Steady == Env \cap {"crash", "redis", "expiry"} = {}

\* The last delivered reply is not later than t.
Behind(t) == \A n \in DOMAIN delivered : comments[delivered[n]].at <= t

\* Where the life of the ticket is: not registered, watched, let go, over.
Stage ==
    /\ spc = "watch" => ~watched /\ ppc = "idle" /\ delivered = <<>> /\ ~noticed
    /\ ppc \in {"gate", "marker", "fetch", "send", "finish", "unwatch"} => watched
    /\ ppc \in {"drop_markers", "notify"} => ~watched
    /\ noticed => ~watched /\ ppc = "idle"

\* What the poller is about to send comes after what it has sent, and until it
\* is done the marker it read, and then the one it will write, say so.
Waiting(i) ==
    /\ comments[i].kind = "reply"
    /\ seen < comments[i].at /\ comments[i].at <= newest
    /\ \A n \in DOMAIN delivered : comments[delivered[n]].at < comments[i].at

Marked ==
    watched =>
        /\ ppc # "send" \/ newest = seen => Behind(cmtseen)
        /\ ppc = "fetch" => Behind(seen)
        /\ ppc = "send" => Behind(newest) /\ \A i \in fresh : Waiting(i)

RInv == TypeInv /\ Stage /\ Marked

LEMMA DeliveredTypes ==
    ASSUME TypeOK
    PROVE  /\ Len(delivered) \in Nat /\ DOMAIN delivered = 1..Len(delivered)
           /\ \A n \in DOMAIN delivered : delivered[n] \in DOMAIN comments
BY DEF TypeOK

\* Steps that leave the deliveries and the times alone.
LEMMA BehindKept ==
    ASSUME UNCHANGED <<comments, delivered>>
    PROVE  \A t : Behind(t)' <=> Behind(t)
BY DEF Behind

LEMMA InitChannel == Init => RInv
<1> SUFFICES ASSUME Init PROVE RInv
  OBVIOUS
<1>1. Stage /\ Marked
  BY DEF Init, Stage, Marked
<1> QED
  BY <1>1, InitType DEF RInv

LEMMA StepStage == Steady /\ TypeInv /\ Stage /\ [Next]_vars => Stage'
<1> SUFFICES ASSUME Steady, TypeInv, Stage, [Next]_vars PROVE Stage'
  OBVIOUS
<1>1. Env \cap {"crash", "redis", "expiry"} = {}
  BY DEF Steady
<1> USE DEF Stage
<1>2. CASE CloseTicket
  BY <1>2 DEF CloseTicket, redis, caller, poller, telegram
<1>15. ASSUME NEW kind \in Kinds, Post(kind) PROVE Stage'
  BY <1>15 DEF Post, redis, caller, poller, telegram
<1>3. CASE CallerStep
  BY <1>3 DEF CallerStep, Register, BaselineModSeen, BaselineCommentSeen, poller, telegram
<1>4. CASE ListRecentTickets \/ ProbeFindsClosed
  BY <1>4 DEF ListRecentTickets, ProbeFindsClosed, redis, caller, telegram
<1>5. CASE Reconcile
  BY <1>1, <1>5 DEF Reconcile, FinishCycle, redis, caller, telegram
<1>6. CASE ReadMarker \/ ListComments
  BY <1>6 DEF ReadMarker, ListComments, redis, caller, telegram
<1>7. ASSUME NEW i \in DOMAIN comments, SendReply(i) PROVE Stage'
  BY <1>7 DEF SendReply, redis, caller
<1>8. CASE AdvanceMarker \/ FindsClosed
  BY <1>8 DEF AdvanceMarker, FindsClosed, redis, caller, telegram
<1>9. CASE AdvanceModSeen
  BY <1>9 DEF AdvanceModSeen, FinishCycle, caller, telegram
<1>10. CASE Unwatch
  BY <1>1, <1>10 DEF Unwatch, caller, telegram
<1>11. CASE DropMarkers
  BY <1>11 DEF DropMarkers, caller, telegram
<1>12. CASE Notify
  BY <1>12 DEF Notify, FinishCycle, redis, caller
<1>13. CASE ExpireMarker \/ Crash
  BY <1>1, <1>13 DEF ExpireMarker, Crash
<1>14. CASE UNCHANGED vars
  BY <1>14 DEF vars, redis, caller, poller, telegram
<1> QED
  BY <1>2, <1>3, <1>4, <1>5, <1>6, <1>7, <1>8, <1>9, <1>10, <1>11, <1>12, <1>13, <1>14,
     <1>15
     DEF Next, TicketStep, PollerStep

\* Steps that touch neither what is sent nor the comment marker keep Marked when
\* they lead to a place that asks no more of it.
LEMMA MarkedKept ==
    ASSUME Marked, UNCHANGED <<comments, delivered, cmtseen>>,
           watched' => watched /\ ppc # "send" /\ ppc' \notin {"fetch", "send"}
    PROVE  Marked'
BY BehindKept DEF Marked

\* Posting leaves the comments that are there as they are.
LEMMA PostKeeps ==
    ASSUME TypeOK, NEW kind \in Kinds, Post(kind)
    PROVE  /\ DOMAIN comments' = DOMAIN comments \cup {Len(comments) + 1}
           /\ \A i \in DOMAIN comments : comments'[i] = comments[i]
BY CommentTypes DEF TypeOK, Post

LEMMA AppendLast ==
    ASSUME NEW S, NEW t \in Seq(S), NEW e \in S
    PROVE  /\ DOMAIN Append(t, e) = DOMAIN t \cup {Len(t) + 1}
           /\ \A n \in DOMAIN t : Append(t, e)[n] = t[n]
           /\ Append(t, e)[Len(t) + 1] = e
OBVIOUS

LEMMA SendMarked ==
    ASSUME RInv, NEW i \in DOMAIN comments, SendReply(i)
    PROVE  Marked'
<1> USE DEF RInv, TypeInv
<1>1. /\ watched /\ ppc = "send" /\ ppc' = "send" /\ i \in fresh
      /\ fresh' = fresh \ {i} /\ \A j \in fresh' : comments[i].at < comments[j].at
      /\ UNCHANGED <<comments, cmtseen, seen, newest, watched>>
  BY DEF SendReply, Precedes, Stage, zoho, redis
<1>2. Behind(newest) /\ \A j \in fresh : Waiting(j)
  BY <1>1 DEF Marked
<1>3. newest # seen
  BY <1>1, <1>2, CommentTypes DEF Waiting, TypeOK
<1>4. CASE UNCHANGED delivered
  BY <1>1, <1>2, <1>3, <1>4 DEF Marked, Behind, Waiting
<1>5. CASE delivered' = Append(delivered, i)
  <2>1. /\ DOMAIN delivered' = DOMAIN delivered \cup {Len(delivered) + 1}
        /\ \A n \in DOMAIN delivered : delivered'[n] = delivered[n]
        /\ delivered'[Len(delivered) + 1] = i
    BY <1>5, AppendLast DEF TypeOK
  <2>2. Behind(newest)'
    BY <1>1, <1>2, <2>1 DEF Behind, Waiting
  <2>3. ASSUME NEW j \in fresh' PROVE Waiting(j)'
    BY <1>1, <1>2, <2>1, <2>3 DEF Waiting
  <2> QED
    BY <1>1, <1>3, <2>2, <2>3 DEF Marked
<1> QED
  BY <1>4, <1>5 DEF SendReply

LEMMA ListMarked ==
    ASSUME RInv, ListComments
    PROVE  Marked'
<1> USE DEF RInv, TypeInv
<1>1. /\ watched /\ ppc = "fetch"
      /\ UNCHANGED <<comments, delivered, cmtseen, seen, watched>>
  BY DEF ListComments, Stage, zoho, redis, telegram
<1>2. Behind(seen) /\ Behind(cmtseen)
  BY <1>1 DEF Marked
<1>3. CASE ppc' = "finish"
  BY <1>1, <1>2, <1>3 DEF Marked, Behind
<1>4. CASE /\ fresh' = {i \in New : comments[i].kind = "reply"}
           /\ newest' = Latest(New)
           /\ ppc' = "send"
  <2>1. /\ New \subseteq DOMAIN comments
        /\ \A i \in New : seen < comments[i].at
    BY CommentTypes DEF New, TypeOK
  <2>2. /\ newest' \in Nat /\ seen <= newest'
        /\ \A i \in New : comments[i].at <= newest'
    <3>1. CASE New = {}
      BY <1>4, <3>1 DEF Latest, TypeOK
    <3>2. CASE New # {}
      <4>1. PICK m \in New : /\ Latest(New) = comments[m].at
                             /\ \A i \in New : comments[i].at <= Latest(New)
        BY <2>1, <3>2, LatestIsLatest
      <4> QED
        BY <1>4, <2>1, <4>1, CommentTypes DEF TypeOK
    <3> QED
      BY <3>1, <3>2
  <2>3. \A n \in DOMAIN delivered : comments[delivered[n]].at \in Nat
    BY CommentTypes, DeliveredTypes
  <2>4. Behind(newest)'
    BY <1>1, <1>2, <2>2, <2>3, SMTT(30) DEF Behind, TypeOK
  <2>5. ASSUME NEW i \in fresh' PROVE Waiting(i)'
    <3>1. i \in New /\ comments[i].kind = "reply" /\ comments[i].at \in Nat
      BY <1>4, <2>1, CommentTypes
    <3>2. \A n \in DOMAIN delivered : comments[delivered[n]].at < comments[i].at
      BY <1>2, <2>1, <2>3, <3>1, SMTT(30) DEF Behind, TypeOK
    <3> QED
      BY <1>1, <2>1, <2>2, <3>1, <3>2 DEF Waiting
  <2> QED
    BY <1>1, <1>2, <1>4, <2>4, <2>5 DEF Marked, Behind
<1> QED
  BY <1>3, <1>4 DEF ListComments

LEMMA StepMarked == Steady /\ RInv /\ [Next]_vars => Marked'
<1> SUFFICES ASSUME Steady, RInv, [Next]_vars PROVE Marked'
  OBVIOUS
<1> USE DEF RInv, TypeInv
<1>1. Env \cap {"crash", "redis", "expiry"} = {}
  BY DEF Steady
<1>2. ASSUME NEW kind \in Kinds, Post(kind) PROVE Marked'
  <2>1. UNCHANGED <<delivered, cmtseen, seen, newest, fresh, watched, ppc>>
    BY <1>2 DEF Post, redis, poller, telegram
  <2>2. \A i \in DOMAIN comments : comments'[i] = comments[i]
    BY <1>2, PostKeeps
  <2>3. \A t : Behind(t) => Behind(t)'
    BY <2>1, <2>2, DeliveredTypes DEF Behind
  <2>4. \A i \in fresh : Waiting(i) => Waiting(i)'
    BY <2>1, <2>2, DeliveredTypes DEF Waiting, TypeOK
  <2> QED
    BY <2>1, <2>3, <2>4 DEF Marked
<1>3. CASE CloseTicket \/ BaselineModSeen
  BY <1>3 DEF CloseTicket, BaselineModSeen, zoho, redis, poller, telegram, Marked, Behind,
              Waiting
<1>4. CASE Register
  BY <1>4 DEF Register, Stage, zoho, poller, telegram, Marked, Behind
<1>5. CASE BaselineCommentSeen
  <2>1. UNCHANGED <<comments, delivered, seen, newest, fresh, watched, ppc>>
    BY <1>5 DEF BaselineCommentSeen, zoho, poller, telegram
  <2>2. cmtseen <= cmtseen' /\ cmtseen' \in Nat
    BY <1>5 DEF BaselineCommentSeen, SetNX, TypeOK
  <2>3. \A n \in DOMAIN delivered : comments[delivered[n]].at \in Nat
    BY CommentTypes, DeliveredTypes
  <2>4. Behind(cmtseen) => Behind(cmtseen)'
    BY <2>1, <2>2, <2>3, SMTT(30) DEF Behind, TypeOK
  <2> QED
    BY <2>1, <2>4 DEF Marked, Behind, Waiting
<1>6. CASE ListRecentTickets
  BY <1>6, MarkedKept DEF ListRecentTickets, zoho, redis, telegram
<1>7. CASE ProbeFindsClosed
  BY <1>7, MarkedKept DEF ProbeFindsClosed, zoho, redis, telegram
<1>8. CASE Reconcile
  BY <1>8, MarkedKept DEF Reconcile, FinishCycle, Stage, zoho, redis, telegram
<1>9. CASE ReadMarker
  BY <1>9 DEF ReadMarker, Stage, zoho, redis, telegram, Marked, Behind
<1>10. CASE ListComments
  BY <1>10, ListMarked
<1>11. ASSUME NEW i \in DOMAIN comments, SendReply(i) PROVE Marked'
  BY <1>11, SendMarked
<1>12. CASE AdvanceMarker
  BY <1>1, <1>12 DEF AdvanceMarker, Stage, zoho, telegram, Marked, Behind
<1>13. CASE AdvanceModSeen
  BY <1>13, MarkedKept DEF AdvanceModSeen, FinishCycle, Stage, zoho, telegram
<1>14. CASE FindsClosed
  BY <1>14, MarkedKept DEF FindsClosed, Stage, zoho, redis, telegram
<1>15. CASE Unwatch \/ DropMarkers
  BY <1>1, <1>15 DEF Unwatch, DropMarkers, Stage, Marked
<1>16. CASE Notify
  BY <1>16 DEF Notify, Stage, redis, Marked
<1>17. CASE ExpireMarker \/ Crash
  BY <1>1, <1>17 DEF ExpireMarker, Crash
<1>18. CASE UNCHANGED vars
  BY <1>18 DEF vars, zoho, redis, poller, telegram, Marked, Behind, Waiting
<1> QED
  BY <1>2, <1>3, <1>4, <1>5, <1>6, <1>7, <1>8, <1>9, <1>10, <1>11, <1>12, <1>13, <1>14,
     <1>15, <1>16, <1>17, <1>18
     DEF Next, TicketStep, CallerStep, PollerStep

-----------------------------------------------------------------------------
(* The refinement *)

LEMMA StepChannel == Steady /\ RInv /\ [Next]_vars => RInv'
BY StepType, StepStage, StepMarked DEF RInv

\* What SendReply and Notify do is what the channel allows; Post is a Post; the
\* other steps leave the channel alone.
LEMMA StepImplements ==
    Steady /\ RInv /\ [Next]_vars => [Channel!Next]_(Channel!channel)
<1> SUFFICES ASSUME Steady, RInv, [Next]_vars
             PROVE  Channel!Next \/ UNCHANGED <<comments, delivered, noticed>>
  BY DEF Channel!channel
<1> USE DEF RInv, TypeInv
<1>1. ASSUME NEW kind \in Kinds, Post(kind) PROVE Channel!Post
  <2>1. /\ comments' = Append(comments, [kind |-> kind, at |-> clock'])
        /\ UNCHANGED <<delivered, noticed>>
    BY <1>1 DEF Post, telegram
  <2>2. [kind |-> kind, at |-> clock'] \in Comment
    BY <1>1 DEF Post, Moment, TypeOK, Comment
  <2>3. /\ Len(comments') = Len(comments) + 1
        /\ comments = SubSeq(comments', 1, Len(comments))
    BY <2>1, <2>2 DEF TypeOK
  <2> QED
    BY <2>1, <2>3 DEF Channel!Post
<1>2. ASSUME NEW i \in DOMAIN comments, SendReply(i)
      PROVE  Channel!Deliver(i) \/ UNCHANGED <<comments, delivered, noticed>>
  <2>1. /\ ppc = "send" /\ i \in fresh /\ watched /\ ~noticed
        /\ UNCHANGED <<comments, noticed>>
        /\ delivered' = Append(delivered, i) \/ UNCHANGED delivered
    BY <1>2 DEF SendReply, Stage, zoho
  <2>2. Waiting(i)
    BY <2>1 DEF Marked
  <2>3. ASSUME NEW n \in DOMAIN delivered PROVE delivered[n] < i
    <3>1. /\ delivered[n] \in DOMAIN comments
          /\ comments[delivered[n]].at < comments[i].at
      BY <2>2, DeliveredTypes DEF Waiting
    <3>2. ~ (i <= delivered[n])
      BY <3>1, CommentTypes DEF Times
    <3> QED
      BY <3>1, <3>2, CommentTypes
  <2> QED
    BY <2>1, <2>2, <2>3 DEF Channel!Deliver, Waiting
<1>3. CASE Notify
  <2>1. ~noticed /\ UNCHANGED <<comments, delivered>>
    BY <1>3 DEF Notify, Stage, zoho
  <2> QED
    BY <1>3, <2>1 DEF Notify, Channel!Next, Channel!Notice
<1>4. CASE CloseTicket \/ CallerStep
  BY <1>4 DEF CloseTicket, CallerStep, Register, BaselineModSeen, BaselineCommentSeen,
              zoho, telegram
<1>5. CASE \/ ListRecentTickets \/ ProbeFindsClosed \/ Reconcile \/ ReadMarker
           \/ ListComments \/ AdvanceMarker \/ AdvanceModSeen \/ FindsClosed
           \/ Unwatch \/ DropMarkers \/ ExpireMarker \/ Crash
  BY <1>5 DEF ListRecentTickets, ProbeFindsClosed, Reconcile, ReadMarker, ListComments,
              AdvanceMarker, AdvanceModSeen, FindsClosed, Unwatch, DropMarkers,
              ExpireMarker, Crash, zoho, telegram
<1>6. CASE UNCHANGED vars
  BY <1>6 DEF vars, zoho, telegram
<1> QED
  BY <1>1, <1>2, <1>3, <1>4, <1>5, <1>6
     DEF Next, TicketStep, PollerStep, Channel!Next

\* As long as no restart, Redis failure or expiry of a marker disturbs it, the
\* poller implements the ordered channel: the chat gets an operator's replies
\* at most once and in order, and none after the closure notice, whatever
\* Telegram, Zoho, the clocks and the operators do.
THEOREM RepliesInOrder ==
    ASSUME Steady
    PROVE  Spec => InOrder
<1>1. Init => Channel!Init
  BY DEF Init, Channel!Init
<1>2. RInv /\ [Next]_vars => RInv'
  BY StepChannel
<1>3. RInv /\ [Next]_vars => [Channel!Next]_(Channel!channel)
  BY StepImplements
<1> QED
  BY <1>1, <1>2, <1>3, InitChannel, PTL DEF Spec, InOrder, Channel!Spec

-----------------------------------------------------------------------------
(* The comment marker *)

\* Every reply is sent at the first try, the comments of a cycle fit in one
\* page, and the bot's clock is not ahead of Zoho's.
Attentive == Env \cap {"telegram", "burst", "skew"} = {}

\* No marker and no time in the poller's hands lies in the future, and what was
\* posted since the ticket was registered is later than its baseline.
Clocked ==
    /\ cmtseen <= clock /\ base <= clock /\ seen <= clock /\ newest <= clock
    /\ spc = "watch" => ~watched /\ ppc = "idle" /\ cmtseen = 0
    /\ spc \in {"mod", "cmt"} =>
          \A i \in DOMAIN comments : i > before => base < comments[i].at

\* What was not sent yet is on the page that ListComments returns.
OnPage ==
    \A i \in DOMAIN comments : comments[i].kind = "reply" /\ ~Got(i) => Len(comments) - i < Limit

\* The promised replies up to the time t were sent, or are about to be.
Covered(t) ==
    \A i \in DOMAIN comments : Promised(i) /\ comments[i].at <= t => Got(i) \/ i \in fresh

Reading ==
    /\ ppc = "fetch" => seen \in {0, cmtseen}
    /\ ppc = "send" => Covered(newest)
    /\ ppc # "send" => fresh = {}

MInv == TypeInv /\ Clocked /\ OnPage /\ Reading /\ MarkerSkipsNothing

LEMMA InitMarker == Init => MInv
<1> SUFFICES ASSUME Init PROVE MInv
  OBVIOUS
<1>1. DOMAIN comments = {}
  BY DEF Init
<1>2. Clocked /\ OnPage /\ Reading /\ MarkerSkipsNothing
  BY <1>1 DEF Init, Clocked, OnPage, Reading, MarkerSkipsNothing
<1> QED
  BY <1>2, InitType DEF MInv

\* Of the comments that are new, those already there stay as they are.
LEMMA PostMarker ==
    ASSUME Attentive, MInv, NEW kind \in Kinds, Post(kind)
    PROVE  Clocked' /\ OnPage' /\ Reading' /\ MarkerSkipsNothing'
<1> USE DEF MInv, TypeInv
<1>1. /\ UNCHANGED <<redis, caller, poller, delivered>> /\ clock' = clock + 1 /\ Fits
      /\ comments' = Append(comments, [kind |-> kind, at |-> clock'])
  BY DEF Post, Moment, telegram, Attentive
<1>2. [kind |-> kind, at |-> clock'] \in Comment
  BY <1>1 DEF TypeOK, Comment
<1>3. /\ DOMAIN comments' = DOMAIN comments \cup {Len(comments) + 1}
      /\ \A i \in DOMAIN comments : comments'[i] = comments[i]
      /\ comments'[Len(comments) + 1].at = clock + 1
      /\ Len(comments') = Len(comments) + 1
  BY <1>1, <1>2 DEF TypeOK
<1>4. /\ cmtseen \in Nat /\ base \in Nat /\ seen \in Nat /\ newest \in Nat /\ clock \in Nat
      /\ before \in Nat /\ Len(comments) \in Nat /\ Limit \in Nat \ {0}
  BY CommentTypes, BoundAssumption DEF TypeOK
<1>5. \A i \in DOMAIN comments : (Promised(i)' <=> Promised(i)) /\ (Got(i)' <=> Got(i))
  BY <1>1, <1>3 DEF Promised, Got, caller
<1>6. Clocked'
  BY <1>1, <1>3, <1>4 DEF Clocked, redis, caller, poller
<1>7. OnPage'
  <2>1. ASSUME NEW i \in DOMAIN comments, comments[i].kind = "reply", ~Got(i)
        PROVE  Len(comments) + 1 - i < Limit
    BY <1>1, <2>1 DEF Fits
  <2>2. Len(comments) + 1 - (Len(comments) + 1) < Limit
    BY <1>4
  <2> QED
    BY <1>3, <1>5, <2>1, <2>2 DEF OnPage
<1>8. ~(clock + 1 <= newest) /\ ~(clock + 1 <= cmtseen)
  BY <1>4 DEF Clocked
<1>9. Reading'
  BY <1>1, <1>3, <1>5, <1>8 DEF Reading, Covered, poller, redis
<1>10. MarkerSkipsNothing'
  BY <1>1, <1>3, <1>5, <1>8 DEF MarkerSkipsNothing, redis
<1> QED
  BY <1>6, <1>7, <1>9, <1>10

\* Steps that post and send nothing.
LEMMA SameReplies ==
    ASSUME UNCHANGED <<comments, delivered>>
    PROVE  \A i : Got(i)' <=> Got(i)
BY DEF Got

LEMMA SamePromises ==
    ASSUME UNCHANGED <<comments, before>>, (spc # "watch" /\ spc' # "watch") \/ spc' = spc
    PROVE  \A i : Promised(i)' <=> Promised(i)
BY DEF Promised

LEMMA CallerMarker ==
    ASSUME Attentive, MInv, CallerStep
    PROVE  Clocked' /\ OnPage' /\ Reading' /\ MarkerSkipsNothing'
<1> USE DEF MInv, TypeInv
<1>1. /\ UNCHANGED <<zoho, poller, telegram>>
  BY DEF CallerStep, Register, BaselineModSeen, BaselineCommentSeen
<1>2. UNCHANGED <<clock, comments, delivered, ppc, seen, newest, fresh>>
  BY <1>1 DEF zoho, poller, telegram
<1>3. \A i : Got(i)' <=> Got(i)
  BY <1>2, SameReplies
<1>4. OnPage'
  BY <1>2, <1>3 DEF OnPage
<1>5. CASE Register
  <2>1. /\ spc = "watch" /\ spc' = "mod" /\ base' = clock /\ before' = Len(comments)
        /\ UNCHANGED cmtseen
    BY <1>5 DEF Register, Attentive
  <2>2. \A i \in DOMAIN comments : ~(i > before')
    BY <2>1, CommentTypes
  <2>3. Clocked'
    BY <1>2, <2>1, <2>2 DEF Clocked, TypeOK
  <2>4. ppc = "idle" /\ \A i \in DOMAIN comments' : ~Promised(i)'
    BY <1>2, <2>1, <2>2 DEF Clocked, Promised
  <2> QED
    BY <1>2, <1>4, <2>3, <2>4 DEF Reading, MarkerSkipsNothing
<1>6. CASE BaselineModSeen
  <2>1. /\ spc = "mod" /\ spc' \in {"cmt", "done"} /\ UNCHANGED <<cmtseen, base, before, watched>>
    BY <1>6 DEF BaselineModSeen
  <2>2. \A i : Promised(i)' <=> Promised(i)
    BY <1>2, <2>1, SamePromises
  <2>3. Clocked'
    BY <1>2, <2>1 DEF Clocked
  <2>4. Reading'
    BY <1>2, <1>3, <2>1, <2>2 DEF Reading, Covered
  <2>5. MarkerSkipsNothing'
    BY <1>2, <1>3, <2>1, <2>2 DEF MarkerSkipsNothing
  <2> QED
    BY <1>4, <2>3, <2>4, <2>5
<1>7. CASE BaselineCommentSeen
  <2>1. /\ spc = "cmt" /\ spc' = "done" /\ UNCHANGED <<base, before, watched>>
        /\ cmtseen' = cmtseen \/ (cmtseen = 0 /\ cmtseen' = base)
    BY <1>7 DEF BaselineCommentSeen, SetNX
  <2>2. \A i : Promised(i)' <=> Promised(i)
    BY <1>2, <2>1, SamePromises
  <2>3. Clocked'
    BY <1>2, <2>1 DEF Clocked
  <2>4. Reading'
    BY <1>2, <1>3, <2>1, <2>2 DEF Reading, Covered
  <2>5. \A i \in DOMAIN comments : Promised(i) /\ comments[i].at <= base => FALSE
    <3>1. \A i \in DOMAIN comments : comments[i].at \in Nat /\ base \in Nat
      BY CommentTypes DEF TypeOK
    <3> QED
      BY <2>1, <3>1 DEF Clocked, Promised
  <2>6. MarkerSkipsNothing'
    BY <1>2, <1>3, <2>1, <2>2, <2>5 DEF MarkerSkipsNothing
  <2> QED
    BY <1>4, <2>3, <2>4, <2>6
<1> QED
  BY <1>5, <1>6, <1>7 DEF CallerStep

\* Everything promised and not sent is among the new comments of the page.
LEMMA PageIsComplete ==
    ASSUME MInv, ppc = "fetch", NEW i \in DOMAIN comments, Promised(i), ~Got(i)
    PROVE  i \in New /\ comments[i].kind = "reply"
<1>1. comments[i].kind = "reply" /\ Len(comments) - i < Limit
  BY DEF MInv, OnPage, Promised
<1>2. seen = 0 \/ comments[i].at > seen
  <2>1. CASE seen = cmtseen
    <3>1. ~(comments[i].at <= cmtseen) /\ comments[i].at \in Nat /\ cmtseen \in Nat
      BY CommentTypes DEF MInv, TypeInv, TypeOK, MarkerSkipsNothing
    <3> QED
      BY <2>1, <3>1
  <2> QED
    BY <2>1 DEF MInv, Reading
<1> QED
  BY <1>1, <1>2 DEF New

LEMMA LatestInTime ==
    ASSUME MInv
    PROVE  New \subseteq DOMAIN comments /\ Latest(New) \in Nat /\ Latest(New) <= clock
<1> USE DEF MInv, TypeInv
<1>1. New \subseteq DOMAIN comments
  BY DEF New
<1>2. CASE New = {}
  BY <1>1, <1>2 DEF Latest, TypeOK, Clocked
<1>3. CASE New # {}
  BY <1>1, <1>3, LatestIsLatest, CommentTypes DEF Times
<1> QED
  BY <1>1, <1>2, <1>3

\* The poller's steps: once the fresh comments are sent, nothing promised up to
\* the marker it then writes is missing.
LEMMA PollerMarker ==
    ASSUME Attentive, MInv, PollerStep
    PROVE  Clocked' /\ OnPage' /\ Reading' /\ MarkerSkipsNothing'
<1> USE DEF MInv, TypeInv
<1>1. UNCHANGED <<clock, comments, spc, base, before>>
  BY DEF PollerStep, ListRecentTickets, ProbeFindsClosed, Reconcile, ReadMarker, ListComments, SendReply,
         AdvanceMarker, AdvanceModSeen, FindsClosed, Unwatch, DropMarkers, Notify, zoho, caller
<1>2. \A i : Promised(i)' <=> Promised(i)
  BY <1>1, SamePromises
<1>3. spc # "watch" \/ (~watched /\ ppc = "idle")
  BY DEF Clocked
<1>4. spc # "watch"
  BY <1>3 DEF PollerStep, ListRecentTickets, ProbeFindsClosed, Reconcile, ReadMarker, ListComments, SendReply,
         AdvanceMarker, AdvanceModSeen, FindsClosed, Unwatch, DropMarkers, Notify
<1>5. /\ clock \in Nat \ {0} /\ cmtseen \in Nat /\ seen \in Nat /\ newest \in Nat
  BY DEF TypeOK
<1>6. ASSUME NEW i \in DOMAIN comments, SendReply(i)
      PROVE  Clocked' /\ OnPage' /\ Reading' /\ MarkerSkipsNothing'
  <2>1. /\ ppc = "send" /\ ppc' = "send" /\ fresh' = fresh \ {i}
        /\ delivered' = Append(delivered, i)
        /\ UNCHANGED <<cmtseen, seen, newest, watched>>
    BY <1>6 DEF SendReply, redis, Attentive
  <2>2. /\ DOMAIN delivered' = DOMAIN delivered \cup {Len(delivered) + 1}
        /\ \A n \in DOMAIN delivered : delivered'[n] = delivered[n]
        /\ delivered'[Len(delivered) + 1] = i
    BY <2>1, AppendLast DEF TypeOK
  <2>3. Got(i)' /\ \A j : Got(j) => Got(j)'
    BY <2>2 DEF Got
  <2> QED
    BY <1>1, <1>2, <1>4, <2>1, <2>3 DEF Clocked, OnPage, Reading, Covered, MarkerSkipsNothing
<1>7. CASE ListComments
  <2>1. UNCHANGED <<delivered, cmtseen, seen, watched>> /\ ppc = "fetch"
    BY <1>7 DEF ListComments, redis, telegram
  <2>2. \A i : Got(i)' <=> Got(i)
    BY <1>1, <2>1, SameReplies
  <2>3. MarkerSkipsNothing' /\ OnPage'
    BY <1>1, <1>2, <2>1, <2>2 DEF MarkerSkipsNothing, OnPage
  <2>4. CASE ppc' = "finish" /\ UNCHANGED <<newest, fresh>>
    BY <1>1, <1>4, <2>1, <2>3, <2>4 DEF Clocked, Reading
  <2>5. CASE /\ fresh' = {i \in New : comments[i].kind = "reply"}
             /\ newest' = Latest(New)
             /\ ppc' = "send"
    <3>1. Clocked'
      BY <1>1, <1>4, <2>1, <2>5, LatestInTime DEF Clocked
    <3>2. \A i \in DOMAIN comments : Promised(i) /\ ~Got(i) => i \in fresh'
      BY <2>1, <2>5, PageIsComplete
    <3> QED
      BY <1>1, <1>2, <2>2, <2>3, <2>5, <3>1, <3>2 DEF Reading, Covered
  <2> QED
    BY <1>7, <2>4, <2>5 DEF ListComments
<1>8. CASE AdvanceMarker
  <2>1. /\ ppc = "send" /\ ppc' = "finish" /\ fresh = {}
        /\ cmtseen' \in {cmtseen, newest}
        /\ UNCHANGED <<delivered, seen, newest, fresh, watched>>
    BY <1>8 DEF AdvanceMarker, telegram
  <2>2. \A i : Got(i)' <=> Got(i)
    BY <1>1, <2>1, SameReplies
  <2>3. \A i \in DOMAIN comments : Promised(i) /\ comments[i].at <= newest => Got(i)
    BY <2>1 DEF Reading, Covered
  <2>4. MarkerSkipsNothing'
    BY <1>1, <1>2, <2>1, <2>2, <2>3 DEF MarkerSkipsNothing
  <2> QED
    BY <1>1, <1>4, <2>1, <2>2, <2>4 DEF Clocked, OnPage, Reading
<1>9. CASE \/ ListRecentTickets \/ ProbeFindsClosed \/ Reconcile \/ ReadMarker
           \/ AdvanceModSeen \/ FindsClosed \/ Unwatch \/ DropMarkers \/ Notify
  <2>1. /\ UNCHANGED delivered /\ cmtseen' \in {cmtseen, 0}
        /\ seen' \in {seen, cmtseen, 0} /\ newest' \in {newest, 0}
        /\ ppc \notin {"fetch", "send"} /\ ppc' # "send" /\ fresh' \in {fresh, {}}
        /\ ppc' = "fetch" => seen' = cmtseen /\ cmtseen' = cmtseen
    <3>1. CASE \/ ListRecentTickets \/ ProbeFindsClosed \/ ReadMarker
               \/ FindsClosed \/ Unwatch \/ DropMarkers
      BY <3>1 DEF ListRecentTickets, ProbeFindsClosed, ReadMarker,
                  FindsClosed, Unwatch, DropMarkers, redis, telegram
    <3>2. CASE Reconcile \/ AdvanceModSeen \/ Notify
      BY <3>2 DEF Reconcile, AdvanceModSeen, Notify, FinishCycle, redis, telegram
    <3> QED
      BY <1>9, <3>1, <3>2
  <2>2. \A i : Got(i)' <=> Got(i)
    BY <1>1, <2>1, SameReplies
  <2>3. Clocked'
    BY <1>1, <1>4, <1>5, <2>1 DEF Clocked
  <2>4. OnPage' /\ Reading'
    BY <1>1, <2>1, <2>2 DEF OnPage, Reading
  <2>5. \A i \in DOMAIN comments : ~(comments[i].at <= 0)
    BY CommentTypes
  <2>6. MarkerSkipsNothing'
    BY <1>1, <1>2, <2>1, <2>2, <2>5 DEF MarkerSkipsNothing
  <2> QED
    BY <2>3, <2>4, <2>6
<1> QED
  BY <1>6, <1>7, <1>8, <1>9 DEF PollerStep

LEMMA StepMarker == Attentive /\ MInv /\ [Next]_vars => MInv'
<1> SUFFICES ASSUME Attentive, MInv, [Next]_vars PROVE MInv'
  OBVIOUS
<1>1. TypeInv'
  BY StepType DEF MInv
<1>2. CASE \E kind \in Kinds : Post(kind)
  BY <1>1, <1>2, PostMarker DEF MInv
<1>3. CASE CallerStep
  BY <1>1, <1>3, CallerMarker DEF MInv
<1>4. CASE PollerStep
  BY <1>1, <1>4, PollerMarker DEF MInv
<1>5. CASE CloseTicket \/ UNCHANGED vars
  <2>1. /\ UNCHANGED <<comments, delivered, cmtseen, spc, base, before, watched,
                       ppc, seen, newest, fresh>>
        /\ clock' \in {clock, clock + 1}
    BY <1>5 DEF CloseTicket, Moment, vars, zoho, redis, caller, poller, telegram
  <2>2. \A i : (Got(i)' <=> Got(i)) /\ (Promised(i)' <=> Promised(i))
    BY <2>1, SameReplies, SamePromises
  <2>3. Clocked'
    BY <2>1 DEF MInv, TypeInv, TypeOK, Clocked
  <2> QED
    BY <1>1, <2>1, <2>2, <2>3 DEF MInv, OnPage, Reading, Covered, MarkerSkipsNothing
<1>6. CASE ExpireMarker
  <2>1. /\ UNCHANGED <<clock, comments, delivered, spc, base, before, watched,
                       ppc, seen, newest, fresh>>
        /\ cmtseen' \in {cmtseen, 0} /\ ppc = "idle" /\ spc = "done"
    BY <1>6 DEF ExpireMarker, zoho, caller, poller, telegram
  <2>2. \A i : (Got(i)' <=> Got(i)) /\ (Promised(i)' <=> Promised(i))
    BY <2>1, SameReplies, SamePromises
  <2>3. \A i \in DOMAIN comments : ~(comments[i].at <= 0)
    BY CommentTypes DEF MInv, TypeInv
  <2>4. Clocked'
    BY <2>1 DEF MInv, TypeInv, TypeOK, Clocked
  <2> QED
    BY <1>1, <2>1, <2>2, <2>3, <2>4 DEF MInv, OnPage, Reading, MarkerSkipsNothing
<1>7. CASE Crash
  <2>1. /\ UNCHANGED <<clock, comments, delivered, base, before, cmtseen, watched>>
        /\ spc' = "done" /\ ppc' = "idle" /\ seen' = 0 /\ newest' = 0 /\ fresh' = {}
    BY <1>7 DEF Crash, FinishCycle, zoho, redis, telegram
  <2>2. \A i : Got(i)' <=> Got(i)
    BY <2>1, SameReplies
  <2>3. \A i \in DOMAIN comments : ~(comments[i].at <= 0)
    BY CommentTypes DEF MInv, TypeInv
  <2>4. Clocked' /\ Reading' /\ OnPage'
    BY <2>1, <2>2 DEF MInv, TypeInv, TypeOK, Clocked, Reading, OnPage
  <2>5. MarkerSkipsNothing'
    BY <2>1, <2>2, <2>3 DEF MInv, Clocked, MarkerSkipsNothing, Promised
  <2> QED
    BY <1>1, <2>4, <2>5 DEF MInv
<1> QED
  BY <1>2, <1>3, <1>4, <1>5, <1>6, <1>7 DEF Next, TicketStep

\* The comment marker never passes a reply that was promised and not sent, so
\* that no restart, failure of Zoho or Redis, expiring marker or closed ticket
\* between the steps of forwardNewComments loses one.
THEOREM NothingSkipped ==
    ASSUME Attentive
    PROVE  Spec => []MarkerSkipsNothing
<1>1. MInv /\ [Next]_vars => MInv'
  BY StepMarker
<1>2. MInv => MarkerSkipsNothing
  BY DEF MInv
<1> QED
  BY <1>1, <1>2, InitMarker, PTL DEF Spec

-----------------------------------------------------------------------------
(* The closure notice *)

\* Neither Telegram, Zoho nor Redis fails, every comment fits in a page and every
\* closed ticket is listed.
Undisturbed == Env \subseteq {"crash", "expiry"}

\* The promised replies posted before the closure were sent, or are about to be.
LastWords == \A i \in DOMAIN comments : Promised(i) /\ i <= ending => Got(i) \/ i \in fresh

Ended ==
    /\ lclosed => closed
    /\ closed => ending <= Len(comments)
    /\ ppc \in {"send", "finish"} /\ lclosed => LastWords
    /\ ppc \in {"unwatch", "drop_markers", "notify"} => closed /\ LastWords

LEMMA InitEnded == Init => Ended
BY DEF Init, Ended

\* Steps that send nothing, and post at most after the closure.
LEMMA LastWordsKept ==
    ASSUME UNCHANGED <<comments, ending, delivered, before, fresh>>,
           (spc # "watch" /\ spc' # "watch") \/ spc' = spc, LastWords
    PROVE  LastWords'
BY SameReplies, SamePromises DEF LastWords

LEMMA StepEnded ==
    ASSUME Undisturbed, MInv, Ended, [Next]_vars
    PROVE  Ended'
<1> USE DEF MInv, TypeInv
<1>1. ASSUME NEW kind \in Kinds, Post(kind) PROVE Ended'
  <2>1. /\ UNCHANGED <<closed, ending, ppc, lclosed, fresh, spc, before, delivered>>
        /\ comments' = Append(comments, [kind |-> kind, at |-> clock'])
        /\ clock' = clock + 1
    BY <1>1 DEF Post, Moment, caller, poller, telegram
  <2>2. [kind |-> kind, at |-> clock'] \in Comment
    BY <2>1 DEF TypeOK, Comment
  <2>3. /\ DOMAIN comments' = DOMAIN comments \cup {Len(comments) + 1}
        /\ \A i \in DOMAIN comments : comments'[i] = comments[i]
        /\ Len(comments') = Len(comments) + 1 /\ Len(comments) \in Nat
    BY <2>1, <2>2 DEF TypeOK
  <2>4. \A i \in DOMAIN comments : (Promised(i)' => Promised(i)) /\ (Got(i) => Got(i)')
    BY <2>1, <2>3 DEF Promised, Got
  <2>5. closed /\ LastWords => LastWords'
    <3>1. closed => ~(Len(comments) + 1 <= ending)
      BY <2>3 DEF Ended, TypeOK
    <3> QED
      BY <2>1, <2>3, <2>4, <3>1 DEF LastWords
  <2>6. closed => ending <= Len(comments) + 1
    BY <2>3 DEF Ended, TypeOK
  <2> QED
    BY <2>1, <2>3, <2>5, <2>6 DEF Ended
<1>2. CASE CloseTicket
  <2>1. /\ ~closed /\ closed' /\ ending' = Len(comments)
        /\ UNCHANGED <<comments, ppc, lclosed>>
    BY <1>2 DEF CloseTicket, poller
  <2> QED
    BY <2>1, CommentTypes DEF Ended
<1>3. CASE CallerStep
  <2>1. UNCHANGED <<comments, closed, ending, ppc, lclosed, fresh, delivered>>
    BY <1>3 DEF CallerStep, Register, BaselineModSeen, BaselineCommentSeen, zoho, poller, telegram
  <2>2. CASE Register
    <3>1. ppc = "idle"
      BY <2>2 DEF Register, Clocked
    <3> QED
      BY <2>1, <3>1 DEF Ended
  <2>3. CASE BaselineModSeen \/ BaselineCommentSeen
    <3>1. UNCHANGED before /\ spc # "watch" /\ spc' # "watch"
      BY <2>3 DEF BaselineModSeen, BaselineCommentSeen
    <3> QED
      BY <2>1, <3>1, LastWordsKept DEF Ended
  <2> QED
    BY <1>3, <2>2, <2>3 DEF CallerStep
<1>4. CASE PollerStep
  <2>1. UNCHANGED <<comments, closed, ending, spc, base, before>>
    BY <1>4 DEF PollerStep, ListRecentTickets, ProbeFindsClosed, Reconcile, ReadMarker, ListComments,
                SendReply, AdvanceMarker, AdvanceModSeen, FindsClosed, Unwatch, DropMarkers, Notify,
                zoho, caller
  <2>2. \A i : Promised(i)' <=> Promised(i)
    BY <2>1, SamePromises
  <2>3. CASE FinishCycle
    BY <2>1, <2>3 DEF FinishCycle, Ended
  <2>4. CASE ListRecentTickets
    BY <2>1, <2>4 DEF ListRecentTickets, Ended
  <2>5. CASE Reconcile /\ ~FinishCycle
    BY <2>1, <2>5 DEF Reconcile, Ended
  <2>6. CASE ReadMarker
    BY <2>1, <2>6 DEF ReadMarker, Undisturbed, Ended
  <2>7. CASE ListComments
    <3>1. /\ ppc = "fetch" /\ ppc' = "send" /\ fresh' = {i \in New : comments[i].kind = "reply"}
          /\ UNCHANGED <<lclosed, delivered>>
      BY <2>7 DEF ListComments, Undisturbed, telegram
    <3>2. \A i \in DOMAIN comments : Promised(i) /\ ~Got(i) => i \in fresh'
      BY <3>1, PageIsComplete
    <3>3. \A i : Got(i)' <=> Got(i)
      BY <2>1, <3>1, SameReplies
    <3> QED
      BY <2>1, <2>2, <3>1, <3>2, <3>3 DEF Ended, LastWords
  <2>8. ASSUME NEW i \in DOMAIN comments, SendReply(i) PROVE Ended'
    <3>1. /\ ppc = "send" /\ ppc' = "send" /\ fresh' = fresh \ {i} /\ UNCHANGED lclosed
          /\ delivered' = Append(delivered, i)
      BY <2>8 DEF SendReply, Undisturbed
    <3>2. /\ DOMAIN delivered' = DOMAIN delivered \cup {Len(delivered) + 1}
          /\ \A n \in DOMAIN delivered : delivered'[n] = delivered[n]
          /\ delivered'[Len(delivered) + 1] = i
      BY <3>1, AppendLast DEF TypeOK
    <3>3. Got(i)' /\ \A j : Got(j) => Got(j)'
      BY <3>2 DEF Got
    <3> QED
      BY <2>1, <2>2, <3>1, <3>3 DEF Ended, LastWords
  <2>9. CASE AdvanceMarker \/ FindsClosed \/ Unwatch \/ DropMarkers
    <3>1. /\ UNCHANGED <<lclosed, fresh, delivered>>
          /\ \/ ppc = "send" /\ ppc' = "finish"
             \/ ppc = "finish" /\ lclosed /\ ppc' = "unwatch"
             \/ ppc \in {"unwatch", "drop_markers"} /\ ppc' \in {"drop_markers", "notify"}
      BY <2>9 DEF AdvanceMarker, FindsClosed, Unwatch, DropMarkers, telegram
    <3>2. LastWords => LastWords'
      BY <2>1, <3>1, LastWordsKept
    <3> QED
      BY <2>1, <3>1, <3>2 DEF Ended
  <2> QED
    BY <1>4, <2>3, <2>4, <2>5, <2>6, <2>7, <2>8, <2>9
       DEF PollerStep, ProbeFindsClosed, AdvanceModSeen, Notify, Undisturbed
<1>5. CASE ExpireMarker
  <2>1. ppc = "idle" /\ UNCHANGED <<comments, closed, ending, ppc, lclosed>>
    BY <1>5 DEF ExpireMarker, zoho, poller
  <2> QED
    BY <2>1 DEF Ended
<1>6. CASE Crash
  BY <1>6 DEF Crash, FinishCycle, zoho, Ended
<1>7. CASE UNCHANGED vars
  <2>1. UNCHANGED <<comments, closed, ending, ppc, lclosed, fresh, spc, before, delivered>>
    BY <1>7 DEF vars, zoho, caller, poller, telegram
  <2> QED
    BY <2>1, LastWordsKept DEF Ended
<1> QED
  BY <1>1, <1>2, <1>3, <1>4, <1>5, <1>6, <1>7 DEF Next, TicketStep

\* Whenever a restart or an expiring marker falls, the closure notice goes out
\* only after every reply the client was promised before the ticket was closed
\* (reconcile forwards the comments before it calls handleClosure).
THEOREM NoticeComesLast ==
    ASSUME Undisturbed
    PROVE  Spec => LastWordFirst
<1> DEFINE LInv == MInv /\ Ended
<1>1. Init => LInv
  BY InitMarker, InitEnded
<1>2. Attentive
  BY DEF Undisturbed, Attentive
<1>3. LInv /\ [Next]_vars => LInv'
  BY <1>2, StepMarker, StepEnded
<1>4. LInv /\ [Next]_vars =>
        [~noticed /\ noticed' =>
            \A i \in DOMAIN comments : Promised(i) /\ i <= ending => Got(i)]_vars
  <2> SUFFICES ASSUME LInv, Next, ~noticed, noticed'
               PROVE  \A i \in DOMAIN comments : Promised(i) /\ i <= ending => Got(i)
    OBVIOUS
  <2>1. ppc = "notify"
    BY DEF Next, TicketStep, Post, CloseTicket, CallerStep, Register, BaselineModSeen, BaselineCommentSeen,
           PollerStep, ListRecentTickets, ProbeFindsClosed, Reconcile, ReadMarker, ListComments, SendReply,
           AdvanceMarker, AdvanceModSeen, FindsClosed, Unwatch, DropMarkers, Notify, ExpireMarker, Crash,
           telegram
  <2> QED
    BY <2>1 DEF MInv, Ended, LastWords, Reading
<1> QED
  BY <1>1, <1>3, <1>4, PTL DEF Spec, LastWordFirst
=============================================================================
