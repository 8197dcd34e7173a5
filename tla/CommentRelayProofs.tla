------------------------- MODULE CommentRelayProofs -------------------------
(***************************************************************************)
(* Theorems about CommentRelay, for any number of requests, messages,      *)
(* outages and faults, and every choice of faults.                         *)
(***************************************************************************)
EXTENDS CommentRelay, SequenceTheorems, TLAPS

-----------------------------------------------------------------------------
(* Sequences: the queue, the buffer, and the items in a flush's hands *)

Distinct(q)  == \A i, j \in DOMAIN q : q[i] = q[j] => i = j
Ascending(q) == \A i, j \in DOMAIN q : i < j => q[i] < q[j]

LEMMA EmptyFacts ==
    /\ \A S : <<>> \in Seq(S)
    /\ ToSet(<<>>) = {} /\ Distinct(<<>>) /\ Ascending(<<>>)
BY DEF ToSet, Distinct, Ascending

LEMMA MembersOf ==
    ASSUME NEW S, NEW q \in Seq(S)
    PROVE  ToSet(q) \subseteq S
BY ElementOfSeq, LenProperties DEF ToSet

LEMMA AppendFacts ==
    ASSUME NEW S, NEW q \in Seq(S), NEW x \in S
    PROVE  /\ Append(q, x) \in Seq(S)
           /\ Len(Append(q, x)) = Len(q) + 1
           /\ DOMAIN Append(q, x) = DOMAIN q \cup {Len(q) + 1}
           /\ Append(q, x)[Len(q) + 1] = x
           /\ \A k \in DOMAIN q : Append(q, x)[k] = q[k] /\ k < Len(q) + 1
           /\ ToSet(Append(q, x)) = ToSet(q) \cup {x}
<1>1. /\ Append(q, x) \in Seq(S)
      /\ Len(Append(q, x)) = Len(q) + 1
      /\ DOMAIN Append(q, x) = DOMAIN q \cup {Len(q) + 1}
      /\ Append(q, x)[Len(q) + 1] = x
      /\ \A k \in DOMAIN q : Append(q, x)[k] = q[k] /\ k < Len(q) + 1
  BY AppendProperties, LenProperties
<1> QED
  BY <1>1 DEF ToSet

LEMMA AppendDistinct ==
    ASSUME NEW S, NEW q \in Seq(S), NEW x \in S, Distinct(q), x \notin ToSet(q)
    PROVE  Distinct(Append(q, x))
BY AppendFacts DEF Distinct, ToSet

LEMMA AppendAscending ==
    ASSUME NEW S, S \subseteq Nat, NEW q \in Seq(S), NEW x \in S,
           Ascending(q), \A m \in ToSet(q) : m < x
    PROVE  Ascending(Append(q, x))
<1> DEFINE r == Append(q, x)
<1>1. /\ DOMAIN r = DOMAIN q \cup {Len(q) + 1} /\ r[Len(q) + 1] = x
      /\ \A k \in DOMAIN q : r[k] = q[k] /\ k < Len(q) + 1 /\ k \in Int
      /\ Len(q) \in Nat
  BY AppendFacts, LenProperties
<1> HIDE DEF r
<1>2. ASSUME NEW i \in DOMAIN r, NEW j \in DOMAIN r, i < j
      PROVE  r[i] < r[j]
  <2>1. i \in DOMAIN q
    BY <1>1, <1>2
  <2>2. CASE j \in DOMAIN q
    BY <1>1, <1>2, <2>1, <2>2 DEF Ascending
  <2>3. CASE j = Len(q) + 1
    BY <1>1, <2>1, <2>3 DEF ToSet
  <2> QED
    BY <1>1, <2>2, <2>3
<1> QED
  BY <1>2 DEF Ascending, r

LEMMA TailFacts ==
    ASSUME NEW S, NEW q \in Seq(S), q # <<>>
    PROVE  /\ Tail(q) \in Seq(S) /\ Head(q) \in S
           /\ Len(q) = 1 <=> Tail(q) = <<>>
           /\ Head(q) = q[1] /\ 1 \in DOMAIN q
           /\ \A k \in DOMAIN Tail(q) : k + 1 \in DOMAIN q /\ Tail(q)[k] = q[k + 1] /\ k \in Int
                                        /\ k + 1 > 1
           /\ \A k \in DOMAIN q : k = 1 \/ (k - 1 \in DOMAIN Tail(q) /\ Tail(q)[k - 1] = q[k])
           /\ ToSet(q) = {Head(q)} \cup ToSet(Tail(q))
<1>1. /\ Tail(q) \in Seq(S) /\ Head(q) \in S /\ Head(q) = q[1] /\ 1 \in DOMAIN q
      /\ Len(q) \in Nat /\ Len(Tail(q)) = Len(q) - 1
      /\ DOMAIN q = 1..Len(q) /\ DOMAIN Tail(q) = 1..(Len(q) - 1)
      /\ \A k \in 1..(Len(q) - 1) : Tail(q)[k] = q[k + 1]
  BY HeadTailProperties, LenProperties
<1>2. Len(q) = 1 <=> Tail(q) = <<>>
  <2>1. Tail(q) # <<>> => Len(Tail(q)) \in Nat \ {0}
    BY <1>1, EmptySeq
  <2>2. Tail(q) = <<>> => Len(Tail(q)) = 0
    BY EmptySeq
  <2> QED
    BY <1>1, <2>1, <2>2
<1>3. /\ \A k \in DOMAIN Tail(q) : k + 1 \in DOMAIN q /\ Tail(q)[k] = q[k + 1] /\ k \in Int
                                   /\ k + 1 > 1
      /\ \A k \in DOMAIN q : k = 1 \/ (k - 1 \in DOMAIN Tail(q) /\ Tail(q)[k - 1] = q[k])
  BY <1>1
<1>4. ToSet(q) = {Head(q)} \cup ToSet(Tail(q))
  <2>1. \A k \in DOMAIN q : q[k] = Head(q) \/ \E l \in DOMAIN Tail(q) : Tail(q)[l] = q[k]
    BY <1>1, <1>3
  <2>2. \A l \in DOMAIN Tail(q) : \E k \in DOMAIN q : q[k] = Tail(q)[l]
    BY <1>3
  <2> QED
    BY <1>1, <2>1, <2>2 DEF ToSet
<1> QED
  BY <1>1, <1>2, <1>3, <1>4

LEMMA TailDistinct ==
    ASSUME NEW S, NEW q \in Seq(S), q # <<>>, Distinct(q)
    PROVE  Distinct(Tail(q)) /\ Head(q) \notin ToSet(Tail(q))
<1>1. ASSUME NEW i \in DOMAIN Tail(q), NEW j \in DOMAIN Tail(q), Tail(q)[i] = Tail(q)[j]
      PROVE  i = j
  <2>1. i + 1 = j + 1 /\ i \in Int /\ j \in Int
    BY <1>1, TailFacts DEF Distinct
  <2> QED
    BY <2>1
<1>2. ASSUME NEW k \in DOMAIN Tail(q), Tail(q)[k] = Head(q)
      PROVE  FALSE
  <2>1. k + 1 \in DOMAIN q /\ q[k + 1] = q[1] /\ 1 \in DOMAIN q /\ k + 1 > 1 /\ k \in Int
    BY <1>2, TailFacts
  <2> QED
    BY <2>1 DEF Distinct
<1> QED
  BY <1>1, <1>2 DEF Distinct, ToSet

LEMMA TailAscending ==
    ASSUME NEW S, S \subseteq Nat, NEW q \in Seq(S), q # <<>>, Ascending(q)
    PROVE  Ascending(Tail(q)) /\ \A m \in ToSet(Tail(q)) : Head(q) < m
<1>1. ASSUME NEW i \in DOMAIN Tail(q), NEW j \in DOMAIN Tail(q), i < j
      PROVE  Tail(q)[i] < Tail(q)[j]
  <2>1. /\ i + 1 \in DOMAIN q /\ j + 1 \in DOMAIN q /\ i \in Int /\ j \in Int
        /\ Tail(q)[i] = q[i + 1] /\ Tail(q)[j] = q[j + 1]
    BY TailFacts
  <2>2. i + 1 < j + 1
    BY <1>1, <2>1
  <2> QED
    BY <2>1, <2>2 DEF Ascending
<1>2. ASSUME NEW k \in DOMAIN Tail(q)
      PROVE  Head(q) < Tail(q)[k]
  <2>1. /\ k + 1 \in DOMAIN q /\ 1 \in DOMAIN q /\ 1 < k + 1
        /\ Head(q) = q[1] /\ Tail(q)[k] = q[k + 1]
    BY TailFacts
  <2> QED
    BY <2>1 DEF Ascending
<1> QED
  BY <1>1, <1>2 DEF Ascending, ToSet

-----------------------------------------------------------------------------
(* Types, and what the handler and the worker hold in each place *)

Creating == {"create", "enqueue", "store", "read", "clear", "post"}

RedisOK ==
    /\ open \in BOOLEAN /\ ticket \in Requests \cup {NoTicket} /\ watched \subseteq Requests
    /\ queue \in Seq(Requests) /\ buffer \in Seq(Messages)

ZohoOK ==
    /\ status \in [Requests -> {"none", "open", "closed"}]
    /\ comments \in [Requests -> Seq(Messages)] /\ down \in BOOLEAN

HandlerOK ==
    /\ requests \in 0..MaxRequests /\ sent \in 0..MaxMessages
    /\ hpc \in {"free", "forward", "push"} \cup Creating
    /\ href \in Requests \cup {NoTicket} /\ hitems \in Seq(Messages)
    /\ hpc \in Creating => requests \in Requests
    /\ hpc = "forward" => href \in Requests
    /\ hpc \in {"forward", "push"} => sent \in Messages
    /\ hitems # <<>> <=> hpc \in {"clear", "post"}

WorkerOK ==
    /\ wpc \in {"idle", "create", "store", "read", "clear", "post"}
    /\ wreq \in Requests \cup {NoTicket} /\ witems \in Seq(Messages)
    /\ wreq # NoTicket <=> wpc # "idle"
    /\ witems # <<>> <=> wpc \in {"clear", "post"}

HistoryOK ==
    /\ ppc \in {"idle", "drop_ticket", "drop_fsm", "drop_buffer"}
    /\ outages \in 0..MaxOutages /\ faults \in 0..MaxFaults
    /\ buffered \subseteq Messages /\ refused \subseteq Messages /\ unsure \subseteq Messages

TypeInv == RedisOK /\ ZohoOK /\ HandlerOK /\ WorkerOK /\ HistoryOK

LEMMA TypeInvType == TypeInv => TypeOK
BY DEF TypeInv, TypeOK, RedisOK, ZohoOK, HandlerOK, WorkerOK, HistoryOK, Creating, Flushing

LEMMA InitType == Init => TypeInv
<1> SUFFICES ASSUME Init PROVE TypeInv
  OBVIOUS
<1>1. RedisOK /\ ZohoOK
  BY EmptyFacts DEF Init, RedisOK, ZohoOK
<1>2. HandlerOK /\ WorkerOK
  BY EmptyFacts, BoundsAssumption DEF Init, HandlerOK, WorkerOK, Creating
<1>3. HistoryOK
  BY BoundsAssumption DEF Init, HistoryOK
<1> QED
  BY <1>1, <1>2, <1>3 DEF TypeInv

\* What a step leaves alone keeps its type.
LEMMA Untouched ==
    ASSUME TypeInv
    PROVE  /\ UNCHANGED redis => RedisOK'
           /\ UNCHANGED zoho => ZohoOK'
           /\ UNCHANGED handler => HandlerOK'
           /\ UNCHANGED worker => WorkerOK'
           /\ UNCHANGED <<ppc, outages, faults, history>> => HistoryOK'
BY SMTT(30) DEF TypeInv, redis, zoho, handler, worker, history,
       RedisOK, ZohoOK, HandlerOK, WorkerOK, HistoryOK

LEMMA FaultType ==
    ASSUME TypeInv, NEW e, Fault(e)
    PROVE  faults' \in 0..MaxFaults
BY BoundsAssumption DEF Fault, TypeInv, HistoryOK

LEMMA NoTicketIsNone == NoTicket \notin Requests
BY DEF NoTicket, Requests

\* Posting an item, or failing to.
LEMMA PostFirstType ==
    ASSUME TypeInv, NEW t \in Requests, NEW items \in Seq(Messages), items # <<>>,
           PostFirst(t, items)
    PROVE  /\ ZohoOK'
           /\ buffered' = buffered /\ unsure' = unsure /\ refused' \subseteq Messages
           /\ Head(items) \in Messages /\ Tail(items) \in Seq(Messages)
           /\ Len(items) = 1 <=> Tail(items) = <<>>
<1>1. /\ Head(items) \in Messages /\ Tail(items) \in Seq(Messages)
      /\ Len(items) = 1 <=> Tail(items) = <<>>
  BY TailFacts
<1>2. Append(comments[t], Head(items)) \in Seq(Messages)
  BY <1>1, AppendFacts DEF TypeInv, ZohoOK
<1>3. ZohoOK'
  BY <1>2 DEF PostFirst, TypeInv, ZohoOK, zoho
<1> QED
  BY <1>1, <1>3 DEF PostFirst, TypeInv, HistoryOK, history

LEMMA CreateType ==
    ASSUME TypeInv, NEW t \in Requests, Create(t)
    PROVE  ZohoOK'
BY DEF Create, TypeInv, ZohoOK

LEMMA HandlerType ==
    ASSUME TypeInv, HandlerStep \/ HandlerFlushFails \/ Confirm \/ Message
    PROVE  TypeInv'
<1>1. CASE HandlerCreates
  <2>1. hpc = "create" /\ requests \in Requests
    BY <1>1 DEF HandlerCreates, TypeInv, HandlerOK, Creating
  <2>2. ZohoOK'
    BY <1>1, <2>1, CreateType, Untouched DEF HandlerCreates
  <2>3. HandlerOK'
    BY <1>1, <2>1 DEF HandlerCreates, HandlerGoto, TypeInv, HandlerOK, Creating
  <2> QED
    BY <1>1, <2>2, <2>3, Untouched DEF HandlerCreates, TypeInv
<1>2. CASE Enqueue
  <2>1. hpc = "enqueue" /\ requests \in Requests
    BY <1>2 DEF Enqueue, TypeInv, HandlerOK, Creating
  <2>2. RedisOK'
    BY <1>2, <2>1, AppendFacts DEF Enqueue, TypeInv, RedisOK
  <2>3. HandlerOK'
    BY <1>2, <2>1 DEF Enqueue, HandlerGoto, TypeInv, HandlerOK, Creating
  <2> QED
    BY <1>2, <2>2, <2>3, Untouched DEF Enqueue, TypeInv
<1>3. CASE HandlerStores
  <2>1. hpc = "store" /\ requests \in Requests
    BY <1>3 DEF HandlerStores, TypeInv, HandlerOK, Creating
  <2>2. RedisOK'
    BY <1>3, <2>1 DEF HandlerStores, Store, TypeInv, RedisOK
  <2>3. HandlerOK'
    BY <1>3, <2>1 DEF HandlerStores, HandlerGoto, TypeInv, HandlerOK, Creating
  <2> QED
    BY <1>3, <2>2, <2>3, Untouched DEF HandlerStores, TypeInv
<1>4. CASE HandlerReads
  <2>1. HandlerOK'
    BY <1>4 DEF HandlerReads, TypeInv, RedisOK, HandlerOK, Creating
  <2> QED
    BY <1>4, <2>1, Untouched DEF HandlerReads, TypeInv
<1>5. CASE HandlerClears
  <2>1. RedisOK'
    BY <1>5, EmptyFacts DEF HandlerClears, TypeInv, RedisOK
  <2>2. HandlerOK'
    BY <1>5 DEF HandlerClears, HandlerGoto, TypeInv, HandlerOK, Creating
  <2> QED
    BY <1>5, <2>1, <2>2, Untouched DEF HandlerClears, TypeInv
<1>6. CASE HandlerPosts
  <2>1. /\ hpc = "post" /\ requests \in Requests /\ hitems # <<>> /\ hitems \in Seq(Messages)
        /\ PostFirst(requests, hitems)
    BY <1>6 DEF HandlerPosts, TypeInv, HandlerOK, Creating
  <2>2. HandlerOK'
    BY <1>6, <2>1, PostFirstType DEF HandlerPosts, TypeInv, HandlerOK, Creating
  <2>3. HistoryOK'
    BY <1>6, <2>1, PostFirstType DEF HandlerPosts, TypeInv, HistoryOK
  <2> QED
    BY <1>6, <2>1, <2>2, <2>3, PostFirstType, Untouched DEF HandlerPosts, TypeInv
<1>7. CASE Forward
  <2>1. hpc = "forward" /\ href \in Requests /\ sent \in Messages
    BY <1>7 DEF Forward, TypeInv, HandlerOK
  <2>2. Append(comments[href], sent) \in Seq(Messages)
    BY <2>1, AppendFacts DEF TypeInv, ZohoOK
  <2>3. ZohoOK'
    BY <1>7, <2>1, <2>2 DEF Forward, TypeInv, ZohoOK
  <2>4. HistoryOK'
    BY <1>7, <2>1, FaultType DEF Forward, TypeInv, HistoryOK
  <2>5. HandlerOK'
    BY <1>7, <2>1 DEF Forward, HandlerGoto, TypeInv, HandlerOK, Creating
  <2> QED
    BY <1>7, <2>3, <2>4, <2>5, Untouched DEF Forward, TypeInv
<1>8. CASE ForwardFails
  <2>1. HandlerOK'
    BY <1>8 DEF ForwardFails, HandlerGoto, TypeInv, HandlerOK, Creating
  <2> QED
    BY <1>8, <2>1, Untouched DEF ForwardFails, TypeInv
<1>9. CASE Push
  <2>1. hpc = "push" /\ sent \in Messages
    BY <1>9 DEF Push, TypeInv, HandlerOK
  <2>2. Append(buffer, sent) \in Seq(Messages)
    BY <2>1, AppendFacts DEF TypeInv, RedisOK
  <2>3. RedisOK'
    BY <1>9, <2>2 DEF Push, TypeInv, RedisOK
  <2>4. HistoryOK'
    BY <1>9, <2>1, FaultType DEF Push, TypeInv, HistoryOK, history
  <2>5. HandlerOK'
    BY <1>9, <2>1 DEF Push, HandlerGoto, TypeInv, HandlerOK, Creating
  <2> QED
    BY <1>9, <2>3, <2>4, <2>5, Untouched DEF Push, TypeInv
<1>10. CASE HandlerFlushFails
  <2>1. RedisOK'
    BY <1>10, EmptyFacts DEF HandlerFlushFails, TypeInv, RedisOK
  <2>2. HandlerOK'
    BY <1>10, EmptyFacts DEF HandlerFlushFails, TypeInv, HandlerOK, Creating
  <2>3. HistoryOK'
    BY <1>10, FaultType DEF HandlerFlushFails, TypeInv, HistoryOK, history
  <2> QED
    BY <1>10, <2>1, <2>2, <2>3, Untouched DEF HandlerFlushFails, TypeInv
<1>11. CASE Confirm
  <2>1. requests' \in 0..MaxRequests /\ requests' \in Requests
    BY <1>11, BoundsAssumption DEF Confirm, TypeInv, HandlerOK, Requests
  <2>2. HandlerOK'
    BY <1>11, <2>1 DEF Confirm, TypeInv, HandlerOK, Creating
  <2>3. RedisOK'
    BY <1>11 DEF Confirm, TypeInv, RedisOK
  <2> QED
    BY <1>11, <2>2, <2>3, Untouched DEF Confirm, TypeInv
<1>12. CASE Message
  <2>1. sent' \in 0..MaxMessages /\ sent' \in Messages
    BY <1>12, BoundsAssumption DEF Message, TypeInv, HandlerOK, Messages
  <2>2. HandlerOK'
    BY <1>12, <2>1 DEF Message, TypeInv, HandlerOK, RedisOK, Creating
  <2>3. HistoryOK'
    BY <1>12, FaultType DEF Message, TypeInv, HistoryOK, history
  <2> QED
    BY <1>12, <2>2, <2>3, Untouched DEF Message, TypeInv
<1> QED
  BY <1>1, <1>2, <1>3, <1>4, <1>5, <1>6, <1>7, <1>8, <1>9, <1>10, <1>11, <1>12 DEF HandlerStep

LEMMA WorkerType ==
    ASSUME TypeInv, WorkerStep \/ WorkerFlushFails
    PROVE  TypeInv'
<1>1. CASE Dequeue
  <2>1. Tail(queue) \in Seq(Requests) /\ Head(queue) \in Requests
    BY <1>1, TailFacts DEF Dequeue, TypeInv, RedisOK
  <2>2. RedisOK'
    BY <1>1, <2>1 DEF Dequeue, TypeInv, RedisOK
  <2>3. WorkerOK'
    BY <1>1, <2>1, NoTicketIsNone DEF Dequeue, TypeInv, WorkerOK
  <2> QED
    BY <1>1, <2>2, <2>3, Untouched DEF Dequeue, TypeInv
<1>2. CASE WorkerCreates
  <2>1. wreq \in Requests
    BY <1>2 DEF WorkerCreates, TypeInv, WorkerOK
  <2>2. Append(queue, wreq) \in Seq(Requests)
    BY <2>1, AppendFacts DEF TypeInv, RedisOK
  <2>3. RedisOK'
    BY <1>2, <2>2 DEF WorkerCreates, TypeInv, RedisOK
  <2>4. ZohoOK'
    BY <1>2, <2>1, CreateType, Untouched DEF WorkerCreates
  <2>5. WorkerOK'
    BY <1>2 DEF WorkerCreates, WorkerGoto, TypeInv, WorkerOK
  <2> QED
    BY <1>2, <2>3, <2>4, <2>5, Untouched DEF WorkerCreates, TypeInv
<1>3. CASE WorkerStores
  <2>1. RedisOK'
    BY <1>3 DEF WorkerStores, Store, TypeInv, RedisOK, WorkerOK
  <2>2. WorkerOK'
    BY <1>3 DEF WorkerStores, WorkerGoto, TypeInv, WorkerOK
  <2> QED
    BY <1>3, <2>1, <2>2, Untouched DEF WorkerStores, TypeInv
<1>4. CASE WorkerReads
  <2>1. WorkerOK'
    BY <1>4 DEF WorkerReads, TypeInv, RedisOK, WorkerOK
  <2> QED
    BY <1>4, <2>1, Untouched DEF WorkerReads, TypeInv
<1>5. CASE WorkerClears
  <2>1. RedisOK'
    BY <1>5, EmptyFacts DEF WorkerClears, TypeInv, RedisOK
  <2>2. WorkerOK'
    BY <1>5 DEF WorkerClears, WorkerGoto, TypeInv, WorkerOK
  <2> QED
    BY <1>5, <2>1, <2>2, Untouched DEF WorkerClears, TypeInv
<1>6. CASE WorkerPosts
  <2>1. /\ wpc = "post" /\ wreq \in Requests /\ witems # <<>> /\ witems \in Seq(Messages)
        /\ PostFirst(wreq, witems)
    BY <1>6 DEF WorkerPosts, TypeInv, WorkerOK
  <2>2. WorkerOK'
    BY <1>6, <2>1, PostFirstType DEF WorkerPosts, TypeInv, WorkerOK
  <2>3. HistoryOK'
    BY <1>6, <2>1, PostFirstType DEF WorkerPosts, TypeInv, HistoryOK
  <2> QED
    BY <1>6, <2>1, <2>2, <2>3, PostFirstType, Untouched DEF WorkerPosts, TypeInv
<1>7. CASE WorkerFlushFails
  <2>1. RedisOK'
    BY <1>7, EmptyFacts DEF WorkerFlushFails, TypeInv, RedisOK
  <2>2. WorkerOK'
    BY <1>7, EmptyFacts DEF WorkerFlushFails, TypeInv, WorkerOK
  <2>3. HistoryOK'
    BY <1>7, FaultType DEF WorkerFlushFails, TypeInv, HistoryOK, history
  <2> QED
    BY <1>7, <2>1, <2>2, <2>3, Untouched DEF WorkerFlushFails, TypeInv
<1> QED
  BY <1>1, <1>2, <1>3, <1>4, <1>5, <1>6, <1>7 DEF WorkerStep

LEMMA EnvType ==
    ASSUME TypeInv,
           \/ PollerStep \/ (\E t \in Requests : CloseTicket(t))
           \/ OutageStarts \/ OutageEnds \/ Crash
    PROVE  TypeInv'
<1>1. CASE PollerStep
  <2>1. RedisOK'
    BY <1>1, EmptyFacts DEF PollerStep, SeeClosed, DropTicket, DropFSM, DropBuffer,
                            TypeInv, RedisOK, redis
  <2>2. HistoryOK'
    BY <1>1 DEF PollerStep, SeeClosed, DropTicket, DropFSM, DropBuffer, TypeInv, HistoryOK, history
  <2>3. UNCHANGED <<zoho, handler, worker>>
    BY <1>1 DEF PollerStep, SeeClosed, DropTicket, DropFSM, DropBuffer
  <2> QED
    BY <2>1, <2>2, <2>3, Untouched DEF TypeInv
<1>2. CASE (\E t \in Requests : CloseTicket(t)) \/ OutageStarts \/ OutageEnds
  <2>1. ZohoOK'
    BY <1>2 DEF CloseTicket, OutageStarts, OutageEnds, TypeInv, ZohoOK
  <2>2. HistoryOK'
    BY <1>2, BoundsAssumption DEF CloseTicket, OutageStarts, OutageEnds, TypeInv, HistoryOK, history
  <2>3. UNCHANGED <<redis, handler, worker>>
    BY <1>2 DEF CloseTicket, OutageStarts, OutageEnds
  <2> QED
    BY <2>1, <2>2, <2>3, Untouched DEF TypeInv
<1>3. CASE Crash
  <2>1. HandlerOK'
    BY <1>3, EmptyFacts DEF Crash, TypeInv, HandlerOK, Creating
  <2>2. WorkerOK'
    BY <1>3, EmptyFacts DEF Crash, TypeInv, WorkerOK
  <2>3. HistoryOK'
    BY <1>3, FaultType DEF Crash, TypeInv, HistoryOK, history
  <2> QED
    BY <1>3, <2>1, <2>2, <2>3, Untouched DEF Crash, TypeInv
<1> QED
  BY <1>1, <1>2, <1>3

LEMMA StepType ==
    ASSUME TypeInv, [Next]_vars
    PROVE  TypeInv'
<1>1. CASE UNCHANGED vars
  BY <1>1, Untouched DEF vars, TypeInv
<1> QED
  BY <1>1, HandlerType, WorkerType, EnvType DEF Next

\* The state of Redis, Zoho, the handler, the worker and the poller stays well
\* formed: no flush posts from an empty list or to no ticket, whichever of
\* the steps in between fails or is cut off by a crash.
THEOREM TypeCorrect == Spec => []TypeOK
<1>1. Spec => []TypeInv
  BY InitType, StepType, PTL DEF Spec
<1> QED
  BY <1>1, TypeInvType, PTL

-----------------------------------------------------------------------------
(* A request is in one place *)

\* It is created and flushed by the handler, or queued, or by the worker.
Owners ==
    /\ Distinct(queue)
    /\ \A t \in ToSet(queue) : t <= requests /\ t # wreq
    /\ wreq <= requests
    /\ hpc \in Creating => requests \notin ToSet(queue) /\ wreq # requests

LEMMA OwnersType ==
    ASSUME TypeInv
    PROVE  /\ ToSet(queue) \subseteq Requests /\ NoTicket \notin ToSet(queue)
           /\ \A t \in Requests : t \in Nat /\ t # NoTicket /\ NoTicket < t
           /\ requests \in Nat /\ wreq \in Nat /\ NoTicket = 0
<1>1. ToSet(queue) \subseteq Requests
  BY MembersOf DEF TypeInv, RedisOK
<1>2. \A t \in Requests : t \in Nat /\ t # NoTicket /\ NoTicket < t
  BY BoundsAssumption DEF Requests, NoTicket
<1> QED
  BY <1>1, <1>2, BoundsAssumption DEF NoTicket, TypeInv, HandlerOK, WorkerOK

LEMMA OwnersStay ==
    ASSUME TypeInv, Owners, UNCHANGED <<queue, requests>>, wreq' \in {wreq, NoTicket},
           hpc' \in Creating => hpc \in Creating
    PROVE  Owners'
<1>1. /\ NoTicket \notin ToSet(queue) /\ NoTicket <= requests
      /\ hpc \in Creating => requests # NoTicket
  BY OwnersType DEF TypeInv, HandlerOK
<1>2. UNCHANGED Distinct(queue) /\ UNCHANGED ToSet(queue)
  BY DEF Distinct, ToSet
<1> QED
  BY <1>1, <1>2 DEF Owners

LEMMA InitOwners == Init => Owners
BY EmptyFacts DEF Init, Owners, Creating, NoTicket

LEMMA StepOwners ==
    ASSUME TypeInv, Owners, [Next]_vars
    PROVE  Owners'
<1>1. CASE HandlerStep /\ ~Enqueue
  <2>1. UNCHANGED <<queue, requests, wreq>> /\ (hpc' \in Creating => hpc \in Creating)
    BY <1>1 DEF HandlerStep, HandlerCreates, HandlerStores, HandlerReads, HandlerClears, HandlerPosts,
                Forward, ForwardFails, Push, HandlerGoto, Store, redis, worker, Creating
  <2> QED
    BY <2>1, OwnersStay
<1>2. CASE Enqueue
  <2>1. /\ hpc = "enqueue" /\ hpc' = "free" /\ queue' = Append(queue, requests)
        /\ UNCHANGED <<requests, wreq>> /\ requests \in Requests
    BY <1>2 DEF Enqueue, HandlerGoto, worker, TypeInv, HandlerOK, Creating
  <2>2. requests \notin ToSet(queue) /\ wreq # requests /\ requests <= requests
    BY <2>1, OwnersType DEF Owners, Creating
  <2>3. Distinct(queue') /\ ToSet(queue') = ToSet(queue) \cup {requests}
    BY <2>1, <2>2, AppendDistinct, AppendFacts DEF Owners, TypeInv, RedisOK
  <2>4. Distinct(queue)' /\ ToSet(queue)' = ToSet(queue) \cup {requests}
    BY <2>3 DEF Distinct, ToSet
  <2> QED
    BY <2>1, <2>2, <2>4 DEF Owners, Creating
<1>3. CASE Dequeue
  <2>1. /\ queue # <<>> /\ queue' = Tail(queue) /\ wreq' = Head(queue)
        /\ UNCHANGED <<requests, hpc>> /\ queue \in Seq(Requests)
    BY <1>3 DEF Dequeue, handler, TypeInv, RedisOK
  <2>2. /\ Distinct(Tail(queue)) /\ Head(queue) \notin ToSet(Tail(queue))
        /\ ToSet(queue) = {Head(queue)} \cup ToSet(Tail(queue))
    BY <2>1, TailDistinct, TailFacts DEF Owners
  <2>3. Distinct(queue)' /\ ToSet(queue)' = ToSet(Tail(queue))
    BY <2>1, <2>2 DEF Distinct, ToSet
  <2> QED
    BY <2>1, <2>2, <2>3 DEF Owners
<1>4. CASE WorkerCreates
  <2>1. CASE UNCHANGED <<queue, wreq>>
    BY <1>4, <2>1, OwnersStay DEF WorkerCreates, handler
  <2>2. CASE queue' = Append(queue, wreq) /\ wreq' = NoTicket
    <3>1. wreq \in Requests /\ UNCHANGED <<requests, hpc>>
      BY <1>4 DEF WorkerCreates, TypeInv, WorkerOK, handler
    <3>2. wreq \notin ToSet(queue) /\ wreq <= requests
      BY DEF Owners
    <3>3. Distinct(queue') /\ ToSet(queue') = ToSet(queue) \cup {wreq}
      BY <2>2, <3>1, <3>2, AppendDistinct, AppendFacts DEF Owners, TypeInv, RedisOK
    <3>4. Distinct(queue)' /\ ToSet(queue)' = ToSet(queue) \cup {wreq}
      BY <3>3 DEF Distinct, ToSet
    <3>5. wreq # NoTicket /\ NoTicket \notin ToSet(queue) /\ NoTicket <= requests
          /\ (hpc \in Creating => requests # NoTicket)
      BY <3>1, OwnersType DEF TypeInv, HandlerOK
    <3> QED
      BY <2>2, <3>1, <3>2, <3>4, <3>5 DEF Owners
  <2> QED
    BY <1>4, <2>1, <2>2 DEF WorkerCreates, WorkerGoto
<1>5. CASE WorkerStep /\ ~Dequeue /\ ~WorkerCreates
  <2>1. UNCHANGED <<queue, requests, hpc>> /\ wreq' \in {wreq, NoTicket}
    BY <1>5 DEF WorkerStep, WorkerStores, WorkerReads, WorkerClears, WorkerPosts, Store, WorkerGoto,
                redis, handler
  <2> QED
    BY <2>1, OwnersStay
<1>6. CASE Confirm
  <2>1. /\ requests' = requests + 1 /\ UNCHANGED <<queue, wreq>> /\ hpc' = "create"
    BY <1>6 DEF Confirm, worker
  <2>2. ToSet(queue) \subseteq Nat /\ requests \in Nat /\ wreq \in Nat
    BY OwnersType
  <2>3. UNCHANGED Distinct(queue) /\ UNCHANGED ToSet(queue)
    BY <2>1 DEF Distinct, ToSet
  <2>4. \A t \in ToSet(queue) : t <= requests + 1 /\ t # requests + 1
    BY <2>2 DEF Owners
  <2>5. wreq <= requests + 1 /\ wreq # requests + 1
    BY <2>2 DEF Owners
  <2> QED
    BY <2>1, <2>3, <2>4, <2>5 DEF Owners
<1>7. CASE HandlerFlushFails \/ WorkerFlushFails \/ PollerStep \/ Message \/ Crash
           \/ (\E t \in Requests : CloseTicket(t)) \/ OutageStarts \/ OutageEnds \/ UNCHANGED vars
  <2>1. UNCHANGED <<queue, requests>> /\ wreq' \in {wreq, NoTicket}
        /\ (hpc' \in Creating => hpc \in Creating)
    BY <1>7 DEF HandlerFlushFails, WorkerFlushFails, PollerStep, SeeClosed, DropTicket, DropFSM,
                DropBuffer, Message, Crash, CloseTicket, OutageStarts, OutageEnds, vars,
                redis, handler, worker, Creating
  <2> QED
    BY <2>1, OwnersStay
<1> QED
  BY <1>1, <1>2, <1>3, <1>4, <1>5, <1>6, <1>7 DEF Next, HandlerStep, WorkerStep

-----------------------------------------------------------------------------
(* The buffer, the flushes' hands and the tickets *)

AtHand(m) == hpc \in {"forward", "push"} /\ m = sent

\* Messages are buffered in order, and the one at hand is nowhere yet, unless
\* it is on a ticket with the answer lost.
InLine ==
    /\ Ascending(buffer) /\ Ascending(hitems) /\ Ascending(witems)
    /\ ToSet(buffer) \cup ToSet(hitems) \cup ToSet(witems) \subseteq buffered
    /\ \A m \in buffered : m <= sent /\ ~AtHand(m)
    /\ \A t \in Requests : \A m \in ToSet(comments[t]) :
          m <= sent /\ (AtHand(m) => hpc = "push" /\ m \in unsure)

\* What is posted is no longer in the buffer.
InHands ==
    /\ hpc = "post" => ToSet(hitems) \cap ToSet(buffer) = {}
    /\ wpc = "post" => ToSet(witems) \cap ToSet(buffer) = {}
    /\ \A t \in Requests : ToSet(comments[t]) \cap ToSet(buffer) \subseteq unsure

\* The flush of the request is still to come.
Unflushed(t) ==
    \/ t > requests \/ t \in ToSet(queue)
    \/ t = requests /\ hpc \in {"create", "enqueue", "store", "read"}
    \/ t = wreq /\ wpc \in {"create", "store", "read"}

\* The messages that a flush has posted to the ticket.
Flushed(t) == {a \in ToSet(comments[t]) : a \in buffered /\ a \notin unsure}

\* A ticket is flushed once, in ascending order.
InFlush ==
    /\ \A t \in Requests : Unflushed(t) => Flushed(t) = {}
    /\ \A m \in ToSet(hitems) : \A a \in Flushed(requests) : a < m
    /\ \A m \in ToSet(witems) : \A a \in Flushed(wreq) : a < m

Relayed == InLine /\ InHands /\ InFlush /\ PostedOnce /\ OrderKept

LEMMA MessageTypes ==
    ASSUME TypeInv
    PROVE  /\ Messages \subseteq Nat /\ sent \in Nat
           /\ buffer \in Seq(Messages) /\ hitems \in Seq(Messages) /\ witems \in Seq(Messages)
           /\ ToSet(buffer) \subseteq Messages /\ ToSet(hitems) \subseteq Messages
           /\ ToSet(witems) \subseteq Messages /\ buffered \subseteq Messages
           /\ \A t \in Requests : comments[t] \in Seq(Messages) /\ ToSet(comments[t]) \subseteq Messages
<1>1. Messages \subseteq Nat /\ sent \in Nat
  BY BoundsAssumption DEF Messages, TypeInv, HandlerOK
<1> QED
  BY <1>1, MembersOf DEF TypeInv, RedisOK, ZohoOK, HandlerOK, WorkerOK, HistoryOK

LEMMA InitRelayed == Init => Relayed
<1> SUFFICES ASSUME Init PROVE Relayed
  OBVIOUS
<1>1. /\ buffer = <<>> /\ hitems = <<>> /\ witems = <<>> /\ buffered = {}
      /\ hpc = "free" /\ wpc = "idle"
      /\ \A t \in Requests : comments[t] = <<>>
  BY DEF Init
<1>2. /\ ToSet(buffer) = {} /\ ToSet(hitems) = {} /\ ToSet(witems) = {}
      /\ Ascending(buffer) /\ Ascending(hitems) /\ Ascending(witems)
      /\ \A t \in Requests : ToSet(comments[t]) = {}
  BY <1>1, EmptyFacts
<1>4. InLine
  BY <1>1, <1>2 DEF InLine
<1>5. InHands
  BY <1>1, <1>2 DEF InHands
<1>6. InFlush
  BY <1>2 DEF InFlush, Flushed
<1>3. \A t \in Requests : Len(comments[t]) = 0
  BY <1>1
<1> QED
  BY <1>3, <1>4, <1>5, <1>6 DEF Relayed, PostedOnce, OrderKept

\* A message goes onto a ticket that does not show it, and after which no
\* greater one has come by another way.
LEMMA PostKeepsOrder ==
    ASSUME TypeInv, PostedOnce, OrderKept, NEW t \in Requests, NEW x \in Messages,
           comments' = [comments EXCEPT ![t] = Append(@, x)],
           buffered' = buffered, unsure \subseteq unsure',
           x \notin ToSet(comments[t]) \/ x \in unsure',
           \A a \in ToSet(comments[t]) :
              a > x /\ a \notin unsure' => x \in buffered /\ a \notin buffered
    PROVE  PostedOnce' /\ OrderKept'
<1> DEFINE q == comments[t]
           r == Append(q, x)
<1>1. /\ comments'[t] = r /\ \A s \in Requests \ {t} : comments'[s] = comments[s]
      /\ q \in Seq(Messages)
  BY MessageTypes DEF TypeInv, ZohoOK
<1>2. /\ Len(r) = Len(q) + 1 /\ r[Len(q) + 1] = x
      /\ Len(q) \in Nat
      /\ \A k \in 1..Len(q) : r[k] = q[k] /\ q[k] \in ToSet(q)
  BY <1>1, AppendFacts, LenProperties DEF ToSet
<1>3. /\ \A i, j \in 1..Len(q) : i # j /\ q[i] = q[j] => q[i] \in unsure
      /\ \A i, j \in 1..Len(q) :
            i < j /\ q[i] > q[j] /\ q[i] \notin unsure => q[j] \in buffered /\ q[i] \notin buffered
  BY DEF PostedOnce, OrderKept
<1>4. /\ x \notin ToSet(q) \/ x \in unsure'
      /\ \A a \in ToSet(q) : a > x /\ a \notin unsure' => x \in buffered /\ a \notin buffered
  OBVIOUS
<1> HIDE DEF r, q
<1>5. ASSUME NEW i \in 1..Len(r), NEW j \in 1..Len(r)
      PROVE  /\ i # j /\ r[i] = r[j] => r[i] \in unsure'
             /\ i < j /\ r[i] > r[j] /\ r[i] \notin unsure' => r[j] \in buffered /\ r[i] \notin buffered
  <2>1. (i \in 1..Len(q) \/ i = Len(q) + 1) /\ (j \in 1..Len(q) \/ j = Len(q) + 1)
    BY <1>2
  <2>2. CASE i \in 1..Len(q) /\ j \in 1..Len(q)
    BY <1>2, <1>3, <2>2
  <2>3. CASE i \in 1..Len(q) /\ j = Len(q) + 1
    BY <1>2, <1>4, <2>3
  <2>4. CASE i = Len(q) + 1 /\ j \in 1..Len(q)
    BY <1>2, <1>4, <2>4
  <2>5. CASE i = Len(q) + 1 /\ j = Len(q) + 1
    BY <1>2, <2>5
  <2> QED
    BY <2>1, <2>2, <2>3, <2>4, <2>5
<1>6. ASSUME NEW s \in Requests, NEW i \in 1..Len(comments'[s]), NEW j \in 1..Len(comments'[s])
      PROVE  /\ i # j /\ comments'[s][i] = comments'[s][j] => comments'[s][i] \in unsure'
             /\ i < j /\ comments'[s][i] > comments'[s][j] /\ comments'[s][i] \notin unsure' =>
                   comments'[s][j] \in buffered' /\ comments'[s][i] \notin buffered'
  <2>1. CASE s = t
    <3>1. comments'[s] = r /\ i \in 1..Len(r) /\ j \in 1..Len(r)
      BY <1>1, <1>6, <2>1
    <3>2. /\ i # j /\ r[i] = r[j] => r[i] \in unsure'
          /\ i < j /\ r[i] > r[j] /\ r[i] \notin unsure' => r[j] \in buffered /\ r[i] \notin buffered
      BY <1>5, <3>1
    <3> QED
      BY <3>1, <3>2
  <2>2. CASE s # t
    BY <1>1, <1>6, <2>2 DEF PostedOnce, OrderKept
  <2> QED
    BY <2>1, <2>2
<1> QED
  BY <1>6 DEF PostedOnce, OrderKept

\* Steps that post and buffer nothing: at most they drop what is in the buffer
\* or in hand, or go on to a later stage.
LEMMA Stay ==
    ASSUME TypeInv, Relayed, UNCHANGED <<comments, buffered, unsure, sent>>,
           buffer' \in {buffer, <<>>},
           Ascending(hitems'), ToSet(hitems') \subseteq ToSet(hitems),
           requests' = requests \/ ToSet(hitems') = {},
           Ascending(witems'), ToSet(witems') \subseteq ToSet(witems),
           wreq' = wreq \/ ToSet(witems') = {},
           hpc' \in {"forward", "push"} => hpc' = hpc \/ hpc = "forward",
           hpc' = "post" => hpc = "post" \/ buffer' = <<>>,
           wpc' = "post" => wpc = "post" \/ buffer' = <<>>,
           \A t \in Requests : Unflushed(t)' => Unflushed(t)
    PROVE  Relayed'
<1>1. Ascending(buffer') /\ ToSet(buffer') \subseteq ToSet(buffer)
  BY EmptyFacts DEF Relayed, InLine
<1>2. \A m : AtHand(m)' => AtHand(m)
  BY DEF AtHand
<1>3. Ascending(buffer)' /\ Ascending(hitems)' /\ Ascending(witems)'
  BY <1>1 DEF Ascending
<1>4. /\ ToSet(buffer)' = ToSet(buffer') /\ ToSet(hitems)' = ToSet(hitems')
      /\ ToSet(witems)' = ToSet(witems')
      /\ \A t \in Requests : ToSet(comments[t])' = ToSet(comments[t])
  BY DEF ToSet
<1>5. InLine'
  <2>1. \A t \in Requests : \A m \in ToSet(comments[t]) : AtHand(m)' => hpc' = "push" /\ m \in unsure
    BY <1>2 DEF Relayed, InLine, AtHand
  <2> QED
    BY <1>1, <1>2, <1>3, <1>4, <2>1 DEF Relayed, InLine
<1>6. InHands'
  <2>1. buffer' = <<>> => ToSet(buffer') = {}
    BY EmptyFacts
  <2> QED
    BY <1>1, <1>4, <2>1 DEF Relayed, InHands
<1>7. \A t : Flushed(t)' = Flushed(t)
  BY DEF Flushed, ToSet
<1>8. InFlush'
  <2>1. (\A t \in Requests : Unflushed(t) => Flushed(t) = {})'
    BY <1>7 DEF Relayed, InFlush
  <2>2. (\A m \in ToSet(hitems) : \A a \in Flushed(requests) : a < m)'
    <3>1. CASE requests' = requests
      BY <1>4, <1>7, <3>1 DEF Relayed, InFlush
    <3>2. CASE ToSet(hitems') = {}
      BY <1>4, <3>2
    <3> QED
      BY <3>1, <3>2
  <2>3. (\A m \in ToSet(witems) : \A a \in Flushed(wreq) : a < m)'
    <3>1. CASE wreq' = wreq
      BY <1>4, <1>7, <3>1 DEF Relayed, InFlush
    <3>2. CASE ToSet(witems') = {}
      BY <1>4, <3>2
    <3> QED
      BY <3>1, <3>2
  <2> QED
    BY <2>1, <2>2, <2>3 DEF InFlush
<1>9. PostedOnce' /\ OrderKept'
  BY DEF Relayed, PostedOnce, OrderKept
<1> QED
  BY <1>5, <1>6, <1>8, <1>9 DEF Relayed

LEMMA HandlerStays ==
    ASSUME TypeInv, Relayed,
           HandlerCreates \/ Enqueue \/ HandlerStores \/ HandlerClears \/ HandlerFlushFails
              \/ ForwardFails \/ Confirm
    PROVE  Relayed'
<1>1. Ascending(hitems) /\ Ascending(witems)
  BY DEF Relayed, InLine
<1>2. /\ UNCHANGED <<comments, buffered, unsure, sent, witems, wreq, wpc>>
      /\ hpc' \notin {"forward"} /\ (hpc' = "push" => hpc = "forward")
  BY DEF HandlerCreates, Enqueue, HandlerStores, HandlerClears, HandlerFlushFails, ForwardFails, Confirm,
         Create, Store, HandlerGoto, redis, zoho, handler, worker, history
<1>3. CASE HandlerCreates \/ HandlerStores \/ HandlerClears \/ ForwardFails
  <2>1. /\ UNCHANGED <<queue, requests, hitems>> /\ buffer' \in {buffer, <<>>}
        /\ hpc' = "post" => buffer' = <<>>
        /\ hpc' \in {"create", "enqueue", "store", "read"} => hpc \in {"create", "store"}
    BY <1>3 DEF HandlerCreates, HandlerStores, HandlerClears, ForwardFails, Store, HandlerGoto, redis
  <2>2. \A t \in Requests : Unflushed(t)' => Unflushed(t)
    BY <1>2, <2>1 DEF Unflushed, ToSet
  <2> QED
    BY <1>1, <1>2, <2>1, <2>2, Stay
<1>4. CASE Enqueue
  <2>1. /\ hpc = "enqueue" /\ hpc' = "free" /\ UNCHANGED <<requests, hitems, buffer>>
        /\ queue' = Append(queue, requests) /\ requests \in Requests
    BY <1>4 DEF Enqueue, HandlerGoto, TypeInv, HandlerOK, Creating
  <2>2. ToSet(queue') = ToSet(queue) \cup {requests}
    BY <2>1, AppendFacts DEF TypeInv, RedisOK
  <2>3. ToSet(queue)' = ToSet(queue) \cup {requests}
    BY <2>2 DEF ToSet
  <2>4. \A t \in Requests : Unflushed(t)' => Unflushed(t)
    BY <1>2, <2>1, <2>3 DEF Unflushed
  <2> QED
    BY <1>1, <1>2, <2>1, <2>4, Stay
<1>5. CASE HandlerFlushFails
  <2>1. /\ UNCHANGED <<queue, requests>> /\ hitems' = <<>> /\ buffer' \in {buffer, <<>>}
        /\ hpc' = "free"
    BY <1>5 DEF HandlerFlushFails
  <2>2. Ascending(hitems') /\ ToSet(hitems') = {}
    BY <2>1, EmptyFacts
  <2>3. \A t \in Requests : Unflushed(t)' => Unflushed(t)
    BY <1>2, <2>1 DEF Unflushed, ToSet
  <2> QED
    BY <1>1, <1>2, <2>1, <2>2, <2>3, Stay
<1>6. CASE Confirm
  <2>1. /\ hpc = "free" /\ hpc' = "create" /\ requests' = requests + 1
        /\ UNCHANGED <<queue, buffer, hitems>>
    BY <1>6 DEF Confirm
  <2>2. hitems = <<>>
    BY <2>1 DEF TypeInv, HandlerOK
  <2>3. Ascending(hitems') /\ ToSet(hitems') = {}
    BY <2>1, <2>2, EmptyFacts
  <2>4. \A t \in Requests : Unflushed(t)' => Unflushed(t)
    <3>1. \A t \in Requests : t > requests' \/ t = requests' => t > requests
      BY <2>1, OwnersType
    <3> QED
      BY <1>2, <2>1, <3>1 DEF Unflushed, ToSet
  <2> QED
    BY <1>1, <1>2, <2>1, <2>3, <2>4, Stay
<1> QED
  BY <1>3, <1>4, <1>5, <1>6

LEMMA WorkerStays ==
    ASSUME TypeInv, Relayed,
           Dequeue \/ WorkerCreates \/ WorkerStores \/ WorkerClears \/ WorkerFlushFails
    PROVE  Relayed'
<1>1. Ascending(hitems) /\ Ascending(witems)
  BY DEF Relayed, InLine
<1>2. UNCHANGED <<comments, buffered, unsure, sent, hitems, requests, hpc>>
  BY DEF Dequeue, WorkerCreates, WorkerStores, WorkerClears, WorkerFlushFails,
         Create, Store, WorkerGoto, redis, zoho, handler, worker, history
<1>3. CASE Dequeue
  <2>1. /\ wpc' = "create" /\ wreq' = Head(queue) /\ queue' = Tail(queue)
        /\ queue # <<>> /\ queue \in Seq(Requests) /\ UNCHANGED <<witems, buffer>> /\ witems = <<>>
    BY <1>3 DEF Dequeue, TypeInv, RedisOK, WorkerOK
  <2>2. ToSet(queue) = {Head(queue)} \cup ToSet(queue')
    BY <2>1, TailFacts
  <2>3. ToSet(queue) = {Head(queue)} \cup ToSet(queue)'
    BY <2>2 DEF ToSet
  <2>4. \A t \in Requests : Unflushed(t)' => Unflushed(t)
    BY <1>2, <2>1, <2>3 DEF Unflushed
  <2>5. ToSet(witems') = {}
    BY <2>1, EmptyFacts
  <2> QED
    BY <1>1, <1>2, <2>1, <2>4, <2>5, Stay
<1>4. CASE WorkerCreates
  <2>1. /\ wpc = "create" /\ wreq \in Requests /\ UNCHANGED <<witems, buffer>> /\ witems = <<>>
    BY <1>4 DEF WorkerCreates, WorkerGoto, TypeInv, WorkerOK
  <2>2. \/ UNCHANGED <<queue, wreq>> /\ wpc' = "store"
        \/ queue' = Append(queue, wreq) /\ wpc' = "idle"
    BY <1>4 DEF WorkerCreates, WorkerGoto
  <2>3. ToSet(Append(queue, wreq)) = ToSet(queue) \cup {wreq}
    BY <2>1, AppendFacts DEF TypeInv, RedisOK
  <2>4. \A t \in ToSet(queue)' : t \in ToSet(queue) \/ t = wreq
    <3>1. CASE queue' = queue
      BY <3>1 DEF ToSet
    <3>2. CASE queue' = Append(queue, wreq)
      BY <2>3, <3>2 DEF ToSet
    <3> QED
      BY <2>2, <3>1, <3>2
  <2>5. \A t \in Requests : Unflushed(t)' => Unflushed(t)
    BY <1>2, <2>1, <2>2, <2>4 DEF Unflushed
  <2>6. ToSet(witems') = {}
    BY <2>1, EmptyFacts
  <2> QED
    BY <1>1, <1>2, <2>1, <2>2, <2>5, <2>6, Stay
<1>5. CASE WorkerStores \/ WorkerClears
  <2>1. /\ UNCHANGED <<queue, wreq, witems>> /\ buffer' \in {buffer, <<>>}
        /\ wpc' = "post" => buffer' = <<>>
        /\ wpc' \in {"create", "store", "read"} => wpc = "store"
    BY <1>5 DEF WorkerStores, WorkerClears, Store, WorkerGoto
  <2>2. \A t \in Requests : Unflushed(t)' => Unflushed(t)
    BY <1>2, <2>1 DEF Unflushed, ToSet
  <2> QED
    BY <1>1, <1>2, <2>1, <2>2, Stay
<1>6. CASE WorkerFlushFails
  <2>1. /\ UNCHANGED queue /\ witems' = <<>> /\ wpc' = "idle" /\ buffer' \in {buffer, <<>>}
    BY <1>6 DEF WorkerFlushFails
  <2>2. Ascending(witems') /\ ToSet(witems') = {}
    BY <2>1, EmptyFacts
  <2>3. \A t \in Requests : Unflushed(t)' => Unflushed(t)
    BY <1>2, <2>1 DEF Unflushed, ToSet
  <2> QED
    BY <1>1, <1>2, <2>1, <2>2, <2>3, Stay
<1> QED
  BY <1>3, <1>4, <1>5, <1>6

LEMMA EnvStays ==
    ASSUME TypeInv, Relayed,
           PollerStep \/ (\E t \in Requests : CloseTicket(t)) \/ OutageStarts \/ OutageEnds \/ Crash
              \/ UNCHANGED vars
    PROVE  Relayed'
<1>1. Ascending(hitems) /\ Ascending(witems)
  BY DEF Relayed, InLine
<1>2. /\ UNCHANGED <<comments, buffered, unsure, sent, queue, requests>>
      /\ buffer' \in {buffer, <<>>}
  BY DEF PollerStep, SeeClosed, DropTicket, DropFSM, DropBuffer, CloseTicket, OutageStarts, OutageEnds,
         Crash, vars, redis, zoho, handler, worker, history
<1>3. CASE UNCHANGED <<handler, worker>>
  <2>1. UNCHANGED <<hitems, hpc, witems, wreq, wpc>>
    BY <1>3 DEF handler, worker
  <2>2. \A t \in Requests : Unflushed(t)' => Unflushed(t)
    BY <1>2, <2>1 DEF Unflushed, ToSet
  <2> QED
    BY <1>1, <1>2, <2>1, <2>2, Stay
<1>4. CASE Crash
  <2>1. /\ hpc' = "free" /\ hitems' = <<>> /\ wpc' = "idle" /\ witems' = <<>>
    BY <1>4 DEF Crash
  <2>2. /\ Ascending(witems') /\ ToSet(witems') = {} /\ Ascending(hitems') /\ ToSet(hitems') = {}
    BY <2>1, EmptyFacts
  <2>3. \A t \in Requests : Unflushed(t)' => Unflushed(t)
    BY <1>2, <2>1 DEF Unflushed, ToSet
  <2> QED
    BY <1>2, <2>1, <2>2, <2>3, Stay
<1> QED
  BY <1>3, <1>4 DEF PollerStep, SeeClosed, DropTicket, DropFSM, DropBuffer, CloseTicket, OutageStarts,
                    OutageEnds, vars

\* A flush takes what is buffered, and has posted nothing yet.
LEMMA FlushReads ==
    ASSUME TypeInv, Owners, Relayed, HandlerReads \/ WorkerReads
    PROVE  Relayed'
<1>1. /\ UNCHANGED <<comments, buffered, unsure, sent, requests, queue, buffer>>
      /\ hpc' = hpc \/ (hpc = "read" /\ hpc' \in {"free", "clear"})
      /\ wpc' = wpc \/ (wpc = "read" /\ wpc' \in {"idle", "clear"})
  BY DEF HandlerReads, WorkerReads, redis, zoho, handler, worker, history
<1>2. /\ hitems' = hitems \/ (hitems' = buffer /\ hpc = "read")
      /\ witems' = witems \/ (witems' = buffer /\ wpc = "read" /\ (buffer = <<>> \/ wreq' = wreq))
      /\ wreq' = wreq \/ witems' = <<>>
      /\ hpc' = "post" => hitems' = hitems
      /\ wpc' = "post" => witems' = witems
  BY DEF HandlerReads, WorkerReads, handler, worker
<1>3. \A m : AtHand(m)' => AtHand(m) /\ hpc' = hpc
  BY <1>1 DEF AtHand
<1>4. /\ Ascending(buffer)' /\ Ascending(hitems)' /\ Ascending(witems)'
      /\ ToSet(buffer)' = ToSet(buffer)
      /\ \A t \in Requests : ToSet(comments[t])' = ToSet(comments[t])
      /\ hitems' = hitems => ToSet(hitems)' = ToSet(hitems)
      /\ hitems' = buffer => ToSet(hitems)' = ToSet(buffer)
      /\ witems' = witems => ToSet(witems)' = ToSet(witems)
      /\ witems' = buffer => ToSet(witems)' = ToSet(buffer)
  BY <1>1, <1>2 DEF Relayed, InLine, Ascending, ToSet
<1>5. InLine'
  <2>1. ToSet(buffer)' \cup ToSet(hitems)' \cup ToSet(witems)' \subseteq buffered
    BY <1>2, <1>4 DEF Relayed, InLine
  <2> QED
    BY <1>1, <1>3, <1>4, <2>1 DEF Relayed, InLine
<1>6. InHands'
  <2>1. (hpc' = "post" => hpc = "post") /\ (wpc' = "post" => wpc = "post")
    BY <1>1
  <2> QED
    BY <1>1, <1>2, <1>4, <2>1 DEF Relayed, InHands
<1>7. \A t : Flushed(t)' = Flushed(t)
  BY <1>1 DEF Flushed, ToSet
<1>8. InFlush'
  <2>1. \A t \in Requests : Unflushed(t)' => Unflushed(t)
    <3>1. ToSet(queue)' = ToSet(queue)
      BY <1>1 DEF ToSet
    <3>2. wpc' \in {"create", "store", "read"} => wpc' = wpc /\ wreq' = wreq
      BY <1>1, <1>2 DEF HandlerReads, WorkerReads, worker, TypeInv, WorkerOK, HandlerOK
    <3> QED
      BY <1>1, <3>1, <3>2 DEF Unflushed
  <2>2. \A m \in ToSet(hitems)' : \A a \in Flushed(requests) : a < m
    <3>1. CASE hitems' = hitems
      BY <1>4, <3>1 DEF Relayed, InFlush
    <3>2. CASE hpc = "read"
      <4>1. requests \in Requests /\ Unflushed(requests)
        BY <3>2 DEF Unflushed, TypeInv, HandlerOK, Creating
      <4> QED
        BY <4>1 DEF Relayed, InFlush
    <3> QED
      BY <1>2, <3>1, <3>2
  <2>3. \A m \in ToSet(witems)' : \A a \in Flushed(wreq') : a < m
    <3>1. CASE witems' = <<>>
      <4>1. ToSet(witems)' = {}
        BY <3>1, EmptyFacts DEF ToSet
      <4> QED
        BY <4>1
    <3>2. CASE witems' = witems /\ wreq' = wreq
      BY <1>4, <3>2 DEF Relayed, InFlush
    <3>3. CASE wpc = "read" /\ wreq' = wreq
      <4>1. wreq \in Requests /\ Unflushed(wreq)
        BY <3>3 DEF Unflushed, TypeInv, WorkerOK
      <4> QED
        BY <3>3, <4>1 DEF Relayed, InFlush
    <3> QED
      BY <1>2, <3>1, <3>2, <3>3
  <2> QED
    BY <1>1, <1>7, <2>1, <2>2, <2>3 DEF Relayed, InFlush
<1>9. PostedOnce' /\ OrderKept'
  BY <1>1 DEF Relayed, PostedOnce, OrderKept
<1> QED
  BY <1>5, <1>6, <1>8, <1>9 DEF Relayed

\* One item of a flush: it goes onto the flush's ticket, after the lesser ones
\* the flush has posted, or is refused.
LEMMA FlushPost ==
    ASSUME TypeInv, Relayed, NEW t \in Requests, NEW items \in Seq(Messages), items # <<>>,
           Ascending(items), ToSet(items) \subseteq buffered, ToSet(items) \cap ToSet(buffer) = {},
           \A m \in ToSet(items) : \A a \in Flushed(t) : a < m,
           PostFirst(t, items)
    PROVE  /\ PostedOnce' /\ OrderKept'
           /\ UNCHANGED <<buffered, unsure>>
           /\ Ascending(Tail(items)) /\ ToSet(Tail(items)) \subseteq ToSet(items)
           /\ \A s \in Requests : ToSet(comments[s])' \subseteq ToSet(comments[s]) \cup ToSet(items)
           /\ \A s \in Requests \ {t} : Flushed(s)' = Flushed(s)
           /\ \A m \in ToSet(Tail(items)) : \A a \in Flushed(t)' : a < m
<1> DEFINE x == Head(items)
<1>1. /\ x \in Messages /\ x \in ToSet(items) /\ ToSet(Tail(items)) \subseteq ToSet(items)
      /\ Ascending(Tail(items)) /\ \A m \in ToSet(Tail(items)) : x < m
  <2>1. /\ x \in Messages /\ ToSet(items) = {x} \cup ToSet(Tail(items))
    BY TailFacts
  <2>2. Messages \subseteq Nat
    BY MessageTypes
  <2>3. Ascending(Tail(items)) /\ \A m \in ToSet(Tail(items)) : x < m
    BY <2>2, TailAscending
  <2> QED
    BY <2>1, <2>3
<1>2. UNCHANGED <<buffered, unsure>>
  BY DEF PostFirst, history
<1> HIDE DEF x
<1>3. CASE UNCHANGED comments
  <2>1. PostedOnce' /\ OrderKept'
    BY <1>2, <1>3 DEF Relayed, PostedOnce, OrderKept
  <2>2. \A s \in Requests : ToSet(comments[s])' = ToSet(comments[s]) /\ Flushed(s)' = Flushed(s)
    BY <1>2, <1>3 DEF ToSet, Flushed
  <2> QED
    BY <1>1, <1>2, <2>1, <2>2
<1>4. CASE comments' = [comments EXCEPT ![t] = Append(@, x)]
  <2>1. x \in buffered /\ x \notin ToSet(buffer) /\ x \in Nat
    BY <1>1, MessageTypes
  <2>2. \A a \in Flushed(t) : a < x /\ a \in Nat
    BY <1>1, MessageTypes DEF Flushed
  <2>3. x \notin ToSet(comments[t]) \/ x \in unsure
    BY <2>1, <2>2 DEF Flushed
  <2>4. \A a \in ToSet(comments[t]) : a > x /\ a \notin unsure => a \notin buffered
    BY <2>1, <2>2 DEF Flushed
  <2>5. PostedOnce' /\ OrderKept'
    BY <1>1, <1>2, <1>4, <2>1, <2>3, <2>4, PostKeepsOrder DEF Relayed
  <2>6. ToSet(comments'[t]) = ToSet(comments[t]) \cup {x}
    BY <1>1, <1>4, AppendFacts DEF TypeInv, ZohoOK
  <2>7. \A s \in Requests \ {t} : ToSet(comments[s])' = ToSet(comments[s]) /\ Flushed(s)' = Flushed(s)
    BY <1>2, <1>4 DEF ToSet, Flushed, TypeInv, ZohoOK
  <2>8. ToSet(comments[t])' = ToSet(comments[t]) \cup {x}
    BY <2>6 DEF ToSet
  <2>9. \A a \in Flushed(t)' : a \in Flushed(t) \/ a = x
    BY <1>2, <2>8 DEF Flushed
  <2>10. \A m \in ToSet(Tail(items)) : \A a \in Flushed(t)' : a < m
    BY <1>1, <2>9
  <2> QED
    BY <1>1, <1>2, <2>5, <2>7, <2>8, <2>10
<1> QED
  BY <1>3, <1>4 DEF PostFirst, zoho, x

LEMMA FlushPosts ==
    ASSUME TypeInv, Owners, Relayed, HandlerPosts \/ WorkerPosts
    PROVE  Relayed'
<1>1. UNCHANGED <<sent, requests, queue, buffer>>
  BY DEF HandlerPosts, WorkerPosts, redis, handler
<1>2. /\ ToSet(hitems) \subseteq buffered /\ ToSet(witems) \subseteq buffered
      /\ ToSet(buffer) \subseteq buffered /\ \A m \in buffered : m <= sent /\ ~AtHand(m)
      /\ Ascending(buffer) /\ Ascending(hitems) /\ Ascending(witems)
  BY DEF Relayed, InLine
<1>3. ToSet(buffer)' = ToSet(buffer) /\ Ascending(buffer)' /\ ToSet(queue)' = ToSet(queue)
  BY <1>1, <1>2 DEF ToSet, Ascending
<1>4. CASE HandlerPosts
  <2>1. /\ hpc = "post" /\ requests \in Requests /\ hitems # <<>> /\ hitems \in Seq(Messages)
        /\ PostFirst(requests, hitems) /\ hitems' = Tail(hitems) /\ hpc' \in {"free", "post"}
        /\ UNCHANGED <<wpc, wreq, witems>>
    BY <1>4 DEF HandlerPosts, worker, TypeInv, HandlerOK, Creating
  <2>2. PICK t \in Requests : t = requests
    BY <2>1
  <2>3. /\ ToSet(hitems) \cap ToSet(buffer) = {} /\ PostFirst(t, hitems)
        /\ \A m \in ToSet(hitems) : \A a \in Flushed(t) : a < m
    BY <2>1, <2>2 DEF Relayed, InHands, InFlush
  <2>4. /\ PostedOnce' /\ OrderKept'
        /\ UNCHANGED <<buffered, unsure>>
        /\ Ascending(Tail(hitems)) /\ ToSet(Tail(hitems)) \subseteq ToSet(hitems)
        /\ \A s \in Requests : ToSet(comments[s])' \subseteq ToSet(comments[s]) \cup ToSet(hitems)
        /\ \A s \in Requests \ {t} : Flushed(s)' = Flushed(s)
        /\ \A m \in ToSet(Tail(hitems)) : \A a \in Flushed(t)' : a < m
    BY <1>2, <2>1, <2>3, FlushPost
  <2>5. /\ Ascending(hitems)' /\ ToSet(hitems)' = ToSet(Tail(hitems))
        /\ Ascending(witems)' /\ ToSet(witems)' = ToSet(witems)
    BY <1>2, <2>1, <2>4 DEF ToSet, Ascending
  <2>6. InLine'
    <3>1. \A m : ~AtHand(m)'
      BY <2>1 DEF AtHand
    <3>2. \A s \in Requests : \A m \in ToSet(comments[s])' : m <= sent
      BY <1>2, <2>4 DEF Relayed, InLine
    <3> QED
      BY <1>1, <1>2, <1>3, <2>4, <2>5, <3>1, <3>2 DEF InLine
  <2>7. InHands'
    <3>1. \A s \in Requests : ToSet(comments[s])' \cap ToSet(buffer) \subseteq unsure
      BY <2>3, <2>4 DEF Relayed, InHands
    <3> QED
      BY <1>3, <2>1, <2>3, <2>4, <2>5, <3>1 DEF Relayed, InHands
  <2>8. InFlush'
    <3>1. \A s \in Requests : Unflushed(s)' => Unflushed(s) /\ s # t
      BY <1>1, <1>3, <2>1, <2>2, OwnersType DEF Unflushed, Owners, Creating
    <3>2. \A s \in Requests : Unflushed(s)' => Flushed(s)' = {}
      BY <2>4, <3>1 DEF Relayed, InFlush
    <3>3. \A m \in ToSet(hitems)' : \A a \in Flushed(requests)' : a < m
      <4>1. Flushed(requests)' = Flushed(t)'
        BY <1>1, <2>2 DEF Flushed
      <4> QED
        BY <2>4, <2>5, <4>1
    <3>4. \A m \in ToSet(witems)' : \A a \in Flushed(wreq)' : a < m
      <4>1. CASE witems = <<>>
        BY <2>5, <4>1, EmptyFacts
      <4>2. CASE witems # <<>>
        <5>1. PICK u \in Requests : u = wreq
          BY <4>2 DEF TypeInv, WorkerOK
        <5>2. u # t
          BY <2>1, <2>2, <5>1 DEF Owners, Creating
        <5>3. Flushed(wreq)' = Flushed(u)' /\ Flushed(wreq) = Flushed(u)
          BY <2>1, <5>1 DEF Flushed
        <5> QED
          BY <2>4, <2>5, <5>2, <5>3 DEF Relayed, InFlush
      <4> QED
        BY <4>1, <4>2
    <3> QED
      BY <3>2, <3>3, <3>4 DEF InFlush
  <2> QED
    BY <2>4, <2>6, <2>7, <2>8 DEF Relayed
<1>5. CASE WorkerPosts
  <2>1. /\ wpc = "post" /\ wreq \in Requests /\ witems # <<>> /\ witems \in Seq(Messages)
        /\ PostFirst(wreq, witems) /\ witems' = Tail(witems)
        /\ \/ wpc' = "post" /\ wreq' = wreq
           \/ wpc' = "idle" /\ witems' = <<>>
        /\ UNCHANGED <<hpc, hitems>>
    <3>1. /\ wpc = "post" /\ wreq \in Requests /\ witems # <<>> /\ witems \in Seq(Messages)
          /\ PostFirst(wreq, witems)
      BY <1>5 DEF WorkerPosts, TypeInv, WorkerOK
    <3>2. Len(witems) = 1 <=> Tail(witems) = <<>>
      BY <3>1, TailFacts
    <3> QED
      BY <1>5, <3>1, <3>2 DEF WorkerPosts, handler
  <2>2. PICK t \in Requests : t = wreq
    BY <2>1
  <2>3. /\ ToSet(witems) \cap ToSet(buffer) = {} /\ PostFirst(t, witems)
        /\ \A m \in ToSet(witems) : \A a \in Flushed(t) : a < m
    BY <2>1, <2>2 DEF Relayed, InHands, InFlush
  <2>4. /\ PostedOnce' /\ OrderKept'
        /\ UNCHANGED <<buffered, unsure>>
        /\ Ascending(Tail(witems)) /\ ToSet(Tail(witems)) \subseteq ToSet(witems)
        /\ \A s \in Requests : ToSet(comments[s])' \subseteq ToSet(comments[s]) \cup ToSet(witems)
        /\ \A s \in Requests \ {t} : Flushed(s)' = Flushed(s)
        /\ \A m \in ToSet(Tail(witems)) : \A a \in Flushed(t)' : a < m
    BY <1>2, <2>1, <2>3, FlushPost
  <2>5. /\ Ascending(witems)' /\ ToSet(witems)' = ToSet(Tail(witems))
        /\ Ascending(hitems)' /\ ToSet(hitems)' = ToSet(hitems)
    BY <1>2, <2>1, <2>4 DEF ToSet, Ascending
  <2>6. InLine'
    <3>1. \A m : AtHand(m)' <=> AtHand(m)
      BY <1>1, <2>1 DEF AtHand
    <3>2. \A s \in Requests : \A m \in ToSet(comments[s])' :
             m <= sent /\ (AtHand(m) => hpc = "push" /\ m \in unsure)
      BY <1>2, <2>4 DEF Relayed, InLine
    <3> QED
      BY <1>1, <1>2, <1>3, <2>1, <2>4, <2>5, <3>1, <3>2 DEF InLine
  <2>7. InHands'
    <3>1. \A s \in Requests : ToSet(comments[s])' \cap ToSet(buffer) \subseteq unsure
      BY <2>3, <2>4 DEF Relayed, InHands
    <3> QED
      BY <1>3, <2>1, <2>3, <2>4, <2>5, <3>1 DEF Relayed, InHands
  <2>8. InFlush'
    <3>1. \A s \in Requests : Unflushed(s)' => Unflushed(s) /\ s # t
      BY <1>1, <1>3, <2>1, <2>2, OwnersType DEF Unflushed, Owners, Creating
    <3>2. \A s \in Requests : Unflushed(s)' => Flushed(s)' = {}
      BY <2>4, <3>1 DEF Relayed, InFlush
    <3>3. \A m \in ToSet(witems)' : \A a \in Flushed(wreq)' : a < m
      <4>1. CASE witems' = <<>>
        <5>1. ToSet(witems)' = {}
          BY <4>1, EmptyFacts DEF ToSet
        <5> QED
          BY <5>1
      <4>2. CASE wreq' = wreq
        <5>1. Flushed(wreq)' = Flushed(t)'
          BY <2>2, <4>2 DEF Flushed
        <5> QED
          BY <2>4, <2>5, <5>1
      <4> QED
        BY <2>1, <4>1, <4>2
    <3>4. \A m \in ToSet(hitems)' : \A a \in Flushed(requests)' : a < m
      <4>1. CASE hitems = <<>>
        BY <2>5, <4>1, EmptyFacts
      <4>2. CASE hitems # <<>>
        <5>1. PICK u \in Requests : u = requests
          BY <4>2 DEF TypeInv, HandlerOK, Creating
        <5>2. u # t
          BY <2>2, <4>2, <5>1 DEF Owners, Creating, TypeInv, HandlerOK
        <5>3. Flushed(requests)' = Flushed(u)' /\ Flushed(requests) = Flushed(u)
          BY <1>1, <5>1 DEF Flushed
        <5> QED
          BY <2>4, <2>5, <5>2, <5>3 DEF Relayed, InFlush
      <4> QED
        BY <4>1, <4>2
    <3> QED
      BY <3>2, <3>3, <3>4 DEF InFlush
  <2> QED
    BY <2>4, <2>6, <2>7, <2>8 DEF Relayed
<1> QED
  BY <1>4, <1>5

LEMMA MessageRelayed ==
    ASSUME TypeInv, Relayed, Message
    PROVE  Relayed'
<1>1. /\ hpc = "free" /\ hpc' \in {"push", "forward"} /\ sent' = sent + 1
      /\ UNCHANGED <<comments, buffer, queue, requests, hitems, wpc, wreq, witems, buffered, unsure>>
  BY DEF Message, redis, zoho, worker, history
<1>2. /\ sent \in Nat /\ buffered \subseteq Nat
      /\ \A t \in Requests : ToSet(comments[t]) \subseteq Nat
  BY MessageTypes
<1>3. /\ \A t \in Requests : ToSet(comments[t])' = ToSet(comments[t])
      /\ ToSet(buffer)' = ToSet(buffer) /\ ToSet(hitems)' = ToSet(hitems)
      /\ ToSet(witems)' = ToSet(witems) /\ ToSet(queue)' = ToSet(queue)
      /\ \A t : Flushed(t)' = Flushed(t)
  BY <1>1 DEF ToSet, Flushed
<1>4. InLine'
  <2>1. \A m : m \in Nat /\ m <= sent => m <= sent' /\ ~AtHand(m)'
    BY <1>1, <1>2 DEF AtHand
  <2>2. Ascending(buffer)' /\ Ascending(hitems)' /\ Ascending(witems)'
    BY <1>1 DEF Relayed, InLine, Ascending
  <2>3. \A m \in buffered : m <= sent' /\ ~AtHand(m)'
    BY <1>2, <2>1 DEF Relayed, InLine
  <2>4. \A t \in Requests : \A m \in ToSet(comments[t]) : m <= sent' /\ ~AtHand(m)'
    BY <1>2, <2>1 DEF Relayed, InLine
  <2> QED
    BY <1>1, <1>3, <2>2, <2>3, <2>4 DEF Relayed, InLine
<1>5. InHands'
  BY <1>1, <1>3 DEF Relayed, InHands
<1>6. InFlush'
  <2>1. \A t \in Requests : Unflushed(t)' => Unflushed(t)
    BY <1>1, <1>3 DEF Unflushed
  <2> QED
    BY <1>1, <1>3, <2>1 DEF Relayed, InFlush
<1>7. PostedOnce' /\ OrderKept'
  BY <1>1 DEF Relayed, PostedOnce, OrderKept
<1> QED
  BY <1>4, <1>5, <1>6, <1>7 DEF Relayed

\* The message at hand is greater than all the ticket shows, and was not pushed.
LEMMA ForwardRelayed ==
    ASSUME TypeInv, Relayed, Forward
    PROVE  Relayed'
<1>1. /\ hpc = "forward" /\ href \in Requests /\ sent \in Messages
      /\ comments' = [comments EXCEPT ![href] = Append(@, sent)]
      /\ UNCHANGED <<buffer, queue, requests, sent, hitems, wpc, wreq, witems, buffered>>
      /\ \/ hpc' = "free" /\ unsure' = unsure
         \/ hpc' = "push" /\ unsure' = unsure \cup {sent}
  BY DEF Forward, HandlerGoto, redis, worker, TypeInv, HandlerOK
<1>2. PICK h \in Requests : h = href
  BY <1>1
<1>3. /\ \A t \in Requests : ToSet(comments[t]) \subseteq Nat
      /\ \A t \in Requests : \A m \in ToSet(comments[t]) : m <= sent /\ m # sent
      /\ sent \notin buffered /\ sent \in Nat
  BY <1>1, MessageTypes DEF Relayed, InLine, AtHand
<1>4. /\ ToSet(buffer)' = ToSet(buffer) /\ ToSet(hitems)' = ToSet(hitems)
      /\ ToSet(witems)' = ToSet(witems) /\ ToSet(queue)' = ToSet(queue)
  BY <1>1 DEF ToSet
<1>5. \A t \in Requests : ToSet(comments[t])' \subseteq ToSet(comments[t]) \cup {sent}
  <2>1. \A t \in Requests \ {h} : ToSet(comments[t])' = ToSet(comments[t])
    BY <1>1, <1>2 DEF ToSet, TypeInv, ZohoOK
  <2>2. ToSet(comments'[h]) = ToSet(comments[h]) \cup {sent}
    BY <1>1, <1>2, AppendFacts DEF TypeInv, ZohoOK
  <2>3. ToSet(comments[h])' = ToSet(comments[h]) \cup {sent}
    BY <2>2 DEF ToSet
  <2> QED
    BY <2>1, <2>3
<1>6. \A t \in Requests : Flushed(t)' \subseteq Flushed(t)
  BY <1>1, <1>3, <1>5 DEF Flushed
<1>7. PostedOnce' /\ OrderKept'
  <2>1. \A a \in ToSet(comments[h]) : ~(a > sent) /\ sent # a
    BY <1>3
  <2>2. unsure \subseteq unsure'
    BY <1>1
  <2>3. PICK x \in Messages : x = sent
    BY <1>1
  <2>4. comments' = [comments EXCEPT ![h] = Append(@, x)] /\ buffered' = buffered
    BY <1>1, <1>2, <2>3
  <2> QED
    BY <2>1, <2>2, <2>3, <2>4, PostKeepsOrder DEF Relayed
<1>8. InLine'
  <2>1. Ascending(buffer)' /\ Ascending(hitems)' /\ Ascending(witems)'
    BY <1>1 DEF Relayed, InLine, Ascending
  <2>2. \A m : AtHand(m)' => AtHand(m) /\ hpc' = "push" /\ m \in unsure'
    BY <1>1 DEF AtHand
  <2>3. \A t \in Requests : \A m \in ToSet(comments[t])' : m <= sent
    BY <1>3, <1>5
  <2> QED
    BY <1>1, <1>4, <2>1, <2>2, <2>3 DEF Relayed, InLine
<1>9. InHands'
  <2>1. ToSet(buffer) \subseteq buffered
    BY DEF Relayed, InLine
  <2>2. \A t \in Requests : ToSet(comments[t])' \cap ToSet(buffer) \subseteq unsure'
    BY <1>1, <1>3, <1>5, <2>1 DEF Relayed, InHands
  <2> QED
    BY <1>1, <1>4, <2>2 DEF Relayed, InHands
<1>10. InFlush'
  <2>1. \A t \in Requests : Unflushed(t)' => Unflushed(t)
    BY <1>1, <1>4 DEF Unflushed
  <2>2. \A t \in Requests : Unflushed(t)' => Flushed(t)' = {}
    BY <1>6, <2>1 DEF Relayed, InFlush
  <2>3. \A m \in ToSet(hitems)' : \A a \in Flushed(requests)' : a < m
    <3>1. CASE hitems = <<>>
      BY <1>4, <3>1, EmptyFacts
    <3>2. CASE hitems # <<>>
      BY <1>1, <3>2 DEF TypeInv, HandlerOK
    <3> QED
      BY <3>1, <3>2
  <2>4. \A m \in ToSet(witems)' : \A a \in Flushed(wreq)' : a < m
    <3>1. CASE witems = <<>>
      BY <1>4, <3>1, EmptyFacts
    <3>2. CASE witems # <<>>
      <4>1. PICK u \in Requests : u = wreq
        BY <3>2 DEF TypeInv, WorkerOK
      <4>2. Flushed(wreq)' = Flushed(u)' /\ Flushed(wreq) = Flushed(u)
        BY <1>1, <4>1 DEF Flushed
      <4> QED
        BY <1>4, <1>6, <4>2 DEF Relayed, InFlush
    <3> QED
      BY <3>1, <3>2
  <2> QED
    BY <2>2, <2>3, <2>4 DEF InFlush
<1> QED
  BY <1>7, <1>8, <1>9, <1>10 DEF Relayed

\* The message at hand goes to the end of the buffer; if a ticket shows it all
\* the same, the answer to its POST was lost.
LEMMA PushRelayed ==
    ASSUME TypeInv, Relayed, Push
    PROVE  Relayed'
<1>1. /\ hpc = "push" /\ hpc' = "free" /\ sent \in Messages /\ hitems = <<>>
      /\ UNCHANGED <<comments, queue, requests, sent, hitems, wpc, wreq, witems, unsure>>
  BY DEF Push, HandlerGoto, zoho, worker, history, TypeInv, HandlerOK
<1>2. Ascending(hitems) /\ Ascending(witems)
  BY DEF Relayed, InLine
<1>3. \A t \in Requests : Unflushed(t)' => Unflushed(t)
  BY <1>1 DEF Unflushed, ToSet
<1>4. CASE UNCHANGED <<buffer, buffered>>
  BY <1>1, <1>2, <1>3, <1>4, Stay
<1>5. CASE buffer' = Append(buffer, sent) /\ buffered' = buffered \cup {sent}
  <2>1. /\ sent \notin buffered /\ ToSet(buffer) \subseteq buffered /\ ToSet(witems) \subseteq buffered
        /\ \A t \in Requests : sent \in ToSet(comments[t]) => sent \in unsure
        /\ \A m \in buffered : m < sent
    BY <1>1, MessageTypes DEF Relayed, InLine, AtHand
  <2>2. Ascending(buffer') /\ ToSet(buffer') = ToSet(buffer) \cup {sent}
    <3>1. buffer \in Seq(Messages) /\ Messages \subseteq Nat /\ \A m \in ToSet(buffer) : m < sent
      BY <2>1, MessageTypes
    <3>2. Ascending(buffer)
      BY DEF Relayed, InLine
    <3>3. Ascending(Append(buffer, sent))
      BY <1>1, <3>1, <3>2, AppendAscending
    <3>4. ToSet(Append(buffer, sent)) = ToSet(buffer) \cup {sent}
      BY <1>1, <3>1, AppendFacts
    <3> QED
      BY <1>5, <3>3, <3>4
  <2>3. /\ Ascending(buffer)' /\ Ascending(hitems)' /\ Ascending(witems)'
        /\ ToSet(buffer)' = ToSet(buffer) \cup {sent}
        /\ ToSet(hitems)' = {} /\ ToSet(witems)' = ToSet(witems)
        /\ \A t \in Requests : ToSet(comments[t])' = ToSet(comments[t])
    BY <1>1, <1>2, <2>2, EmptyFacts DEF Ascending, ToSet
  <2>4. \A t \in Requests : Flushed(t)' = Flushed(t)
    BY <1>1, <1>5, <2>1, <2>3 DEF Flushed
  <2>5. InLine'
    <3>1. \A m : ~AtHand(m)'
      BY <1>1 DEF AtHand
    <3>2. \A t \in Requests : \A m \in ToSet(comments[t]) : m <= sent
      BY DEF Relayed, InLine
    <3>3. \A m \in buffered' : m <= sent
      BY <1>5, <2>1, MessageTypes
    <3> QED
      BY <1>1, <1>5, <2>1, <2>3, <3>1, <3>2, <3>3 DEF InLine
  <2>6. InHands'
    BY <1>1, <2>1, <2>3 DEF Relayed, InHands
  <2>7. InFlush'
    <3>1. \A m \in ToSet(witems)' : \A a \in Flushed(wreq)' : a < m
      <4>1. CASE witems = <<>>
        BY <2>3, <4>1, EmptyFacts
      <4>2. CASE witems # <<>>
        <5>1. PICK u \in Requests : u = wreq
          BY <4>2 DEF TypeInv, WorkerOK
        <5>2. Flushed(wreq)' = Flushed(u)' /\ Flushed(wreq) = Flushed(u)
          BY <1>1, <5>1 DEF Flushed
        <5> QED
          BY <2>3, <2>4, <5>2 DEF Relayed, InFlush
      <4> QED
        BY <4>1, <4>2
    <3> QED
      BY <1>3, <2>3, <2>4, <3>1 DEF Relayed, InFlush
  <2>8. PostedOnce'
    BY <1>1 DEF Relayed, PostedOnce
  <2>9. OrderKept'
    <3>1. \A t \in Requests : \A i \in 1..Len(comments[t]) :
            comments[t][i] = sent => comments[t][i] \in unsure
      <4>1. \A t \in Requests : \A i \in 1..Len(comments[t]) : comments[t][i] \in ToSet(comments[t])
        BY LenProperties DEF TypeInv, ZohoOK, ToSet
      <4> QED
        BY <2>1, <4>1
    <3> QED
      BY <1>1, <1>5, <3>1 DEF Relayed, OrderKept
  <2> QED
    BY <2>5, <2>6, <2>7, <2>8, <2>9 DEF Relayed
<1> QED
  BY <1>4, <1>5 DEF Push, history

LEMMA StepRelayed ==
    ASSUME TypeInv, Owners, Relayed, [Next]_vars
    PROVE  Relayed'
BY HandlerStays, WorkerStays, EnvStays, FlushReads, FlushPosts, MessageRelayed, ForwardRelayed, PushRelayed
DEF Next, HandlerStep, WorkerStep

LEMMA RelayedAlways == Spec => [](TypeInv /\ Owners /\ Relayed)
<1>1. Init => TypeInv /\ Owners /\ Relayed
  BY InitType, InitOwners, InitRelayed
<1>2. TypeInv /\ Owners /\ Relayed /\ [Next]_vars => (TypeInv /\ Owners /\ Relayed)'
  BY StepType, StepOwners, StepRelayed
<1> QED
  BY <1>1, <1>2, PTL DEF Spec

\* No ticket shows a message twice unless the answer to its POST was lost,
\* although the handler's flush, the worker's flush, forwardToTicket and the
\* poller's DelPendingComments work on one list without a lock between them.
THEOREM PostsOnce == Spec => []PostedOnce
<1>1. TypeInv /\ Owners /\ Relayed => PostedOnce
  BY DEF Relayed
<1> QED
  BY <1>1, RelayedAlways, PTL

\* The operator reads a client's messages in the order they were written,
\* except that one sent once the ticket is stored may overtake those that the
\* flush of finalizeTicket or process has not posted yet.
THEOREM KeepsOrder == Spec => []OrderKept
<1>1. TypeInv /\ Owners /\ Relayed => OrderKept
  BY DEF Relayed
<1> QED
  BY <1>1, RelayedAlways, PTL
=============================================================================
