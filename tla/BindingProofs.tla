---------------------------- MODULE BindingProofs ----------------------------
(***************************************************************************)
(* Theorems about Binding, for all chats, accounts and keys, all limits    *)
(* and every choice of faults.                                             *)
(***************************************************************************)
EXTENDS Binding, TLAPS

-----------------------------------------------------------------------------
(* Types *)

\* An attempt counted, and not yet refunded or answered.
Owing(c) == pc[c] \in {"expire", "verify", "bind", "release_refund", "refund"}

\* Whose Bind is running, or is being undone.
Holder(c, t) == token[c] = t /\ pc[c] \in {"bind", "release", "release_refund"}

\* The counter has room for what the attempt may still do to it, and an
\* attempt past Verify has a real key.
Counted ==
    \A c \in Chats :
        /\ Owing(c) => attempts[c] >= 0
        /\ pc[c] = "incr" => attempts[c] < MaxCount
Keyed ==
    \A c \in Chats :
        /\ pc[c] \in {"bind", "release", "release_refund", "refund"} => token[c] \in Tokens
        /\ pc[c] = "free" => token[c] = Forged
        /\ token[c] \in Tokens => minted[token[c]] \in Accounts

TypeInv == TypeOK /\ Counted /\ Keyed

LEMMA InitType == Init => TypeInv
<1> SUFFICES ASSUME Init PROVE TypeInv
  OBVIOUS
<1>1. /\ minted \in [Tokens -> Accounts \cup {NoAccount}]
      /\ stale \subseteq Tokens /\ claims \subseteq Tokens
      /\ wins \in [Tokens -> Nat]
      /\ unsure \subseteq Tokens /\ rejected \subseteq Tokens
  BY DEF Init
<1>2. /\ attempts \in [Chats -> -1..MaxCount]
      /\ timed \subseteq Chats
      /\ faults \in 0..MaxFaults
      /\ verdicts \in [Chats -> Nat]
  BY BoundsAssumption DEF Init
<1>3. members \in [Accounts -> SUBSET Chats]
  BY DEF Init, Registry!Init
<1>4. /\ pc \in [Chats -> {"free", "incr", "expire", "verify", "bind",
                           "release", "release_refund", "refund"}]
      /\ token \in [Chats -> Tokens \cup {Forged}]
  BY DEF Init
<1>5. Counted /\ Keyed
  BY NullAssumption DEF Init, Counted, Keyed, Owing
<1> QED
  BY <1>1, <1>2, <1>3, <1>4, <1>5 DEF TypeInv, TypeOK

LEMMA FaultCounted ==
    ASSUME TypeOK, NEW e, Fault(e)
    PROVE  faults' \in 0..MaxFaults /\ faults' # 0
BY BoundsAssumption DEF TypeOK, Fault

\* Each action of an attempt keeps the types: first those of what the client
\* counts, then those of what Bind and the end of an attempt change.
LEMMA CountingType ==
    ASSUME TypeInv, NEW c \in Chats,
           \/ Incr(c) \/ Expire(c) \/ CounterFails(c)
           \/ Refund(c) \/ WindowEnds(c) \/ Deadline(c)
    PROVE  TypeInv'
<1> USE BoundsAssumption, NullAssumption
    DEF TypeInv, TypeOK, Counted, Keyed, Owing, Goto, Return, Answer, store, history
<1>1. CASE Incr(c)
  BY <1>1 DEF Incr
<1>2. CASE Expire(c)
  BY <1>2 DEF Expire
<1>3. CASE CounterFails(c)
  BY <1>3, FaultCounted DEF CounterFails
<1>4. CASE Refund(c)
  BY <1>4, FaultCounted DEF Refund
<1>5. CASE WindowEnds(c)
  BY <1>5 DEF WindowEnds
<1>6. CASE Deadline(c)
  BY <1>6, FaultCounted DEF Deadline
<1> QED
  BY <1>1, <1>2, <1>3, <1>4, <1>5, <1>6

LEMMA BindsType ==
    ASSUME TypeOK, NEW c \in Chats, Binds(c)
    PROVE  members' \in [Accounts -> SUBSET Chats]
BY DEF TypeOK, Binds, Registry!Join

LEMMA RedeemingType ==
    ASSUME TypeInv, NEW c \in Chats,
           \/ Reject(c) \/ Claim(c) \/ ClaimFails(c)
           \/ BindSucceeds(c) \/ BindRejects(c) \/ BindLimited(c) \/ BindFails(c)
           \/ Release(c)
    PROVE  TypeInv'
<1> USE BoundsAssumption, NullAssumption
    DEF TypeInv, TypeOK, Counted, Keyed, Owing, Goto, Return, Answer, store, history
<1>1. CASE Reject(c)
  BY <1>1 DEF Reject
<1>2. CASE Claim(c)
  BY <1>2 DEF Claim
<1>3. CASE ClaimFails(c)
  BY <1>3, FaultCounted DEF ClaimFails
<1>4. CASE BindSucceeds(c)
  BY <1>4, BindsType DEF BindSucceeds
<1>5. CASE BindRejects(c)
  BY <1>5 DEF BindRejects
<1>6. CASE BindLimited(c)
  BY <1>6 DEF BindLimited
<1>7. CASE BindFails(c)
  BY <1>7, BindsType, FaultCounted DEF BindFails
<1>8. CASE Release(c)
  BY <1>8, FaultCounted DEF Release
<1> QED
  BY <1>1, <1>2, <1>3, <1>4, <1>5, <1>6, <1>7, <1>8

LEMMA StepType == TypeInv /\ [Next]_vars => TypeInv'
<1> SUFFICES ASSUME TypeInv, [Next]_vars PROVE TypeInv'
  OBVIOUS
<1> USE DEF TypeInv, TypeOK, Counted, Keyed, Owing, store, history
<1>1. ASSUME NEW t \in Tokens, NEW a \in Accounts, Mint(t, a) PROVE TypeInv'
  BY <1>1 DEF Mint
<1>2. ASSUME NEW c \in Chats, NEW t \in Tokens \cup {Forged}, Redeem(c, t) PROVE TypeInv'
  BY <1>2, NullAssumption DEF Redeem, Goto
<1>3. ASSUME NEW c \in Chats, Step(c) PROVE TypeInv'
  BY <1>3, CountingType, RedeemingType DEF Step
<1>4. ASSUME NEW c \in Chats, WindowEnds(c) \/ Deadline(c) PROVE TypeInv'
  BY <1>4, CountingType
<1>5. ASSUME NEW c \in Chats, NEW a \in Accounts, Unbind(c, a) PROVE TypeInv'
  BY <1>5 DEF Unbind, Registry!Leave
<1>6. ASSUME NEW t \in Tokens, TokenExpires(t) \/ ClaimExpires(t) PROVE TypeInv'
  BY <1>6 DEF TokenExpires, ClaimExpires
<1>7. CASE Crash
  BY <1>7, FaultCounted, NullAssumption DEF Crash
<1>8. CASE UNCHANGED vars
  BY <1>8 DEF vars
<1> QED
  BY <1>1, <1>2, <1>3, <1>4, <1>5, <1>6, <1>7, <1>8 DEF Next

\* Every variable of Binding keeps its type, whatever fails.
THEOREM TypeCorrect == Spec => []TypeOK
<1>1. TypeInv => TypeOK
  BY DEF TypeInv
<1> QED
  BY <1>1, InitType, StepType, PTL DEF Spec

-----------------------------------------------------------------------------
(* One redemption *)

\* A key being redeemed is claimed, by one chat, and has not been good for a
\* Bind yet.  One that has been good for a Bind stays claimed, and nobody's,
\* until it is past its validity: it can then not be claimed again.
Claimed ==
    \A t \in Tokens :
        /\ \A c \in Chats : Holder(c, t) => t \in claims
        /\ \A c, d \in Chats : Holder(c, t) /\ Holder(d, t) => c = d
Spent ==
    \A t \in Tokens \ unsure :
        /\ wins[t] <= 1
        /\ wins[t] > 0 => /\ t \in claims \cup stale
                          /\ \A c \in Chats : ~Holder(c, t)

RedemptionInv == TypeInv /\ Claimed /\ Spent

LEMMA InitRedemption == Init => RedemptionInv
<1> SUFFICES ASSUME Init PROVE Claimed /\ Spent
  BY InitType DEF RedemptionInv
<1> QED
  BY NullAssumption DEF Init, Claimed, Spent, Holder

\* A step after which nobody holds a key that nobody held before, and which
\* changes neither the claims nor the wins, keeps both parts.
LEMMA NothingClaimed ==
    ASSUME RedemptionInv,
           \A c \in Chats, t \in Tokens : Holder(c, t)' => Holder(c, t),
           UNCHANGED <<claims, wins, unsure>>, stale \subseteq stale'
    PROVE  Claimed' /\ Spent'
BY DEF RedemptionInv, Claimed, Spent

LEMMA StepRedemption == RedemptionInv /\ [Next]_vars => RedemptionInv'
<1> SUFFICES ASSUME RedemptionInv, [Next]_vars PROVE Claimed' /\ Spent'
  BY StepType DEF RedemptionInv
<1> USE DEF Goto, Return, Answer
<1>t. TypeInv
  BY DEF RedemptionInv
<1>1. ASSUME NEW c \in Chats,
             \/ Incr(c) \/ Expire(c) \/ CounterFails(c) \/ Reject(c) \/ ClaimFails(c)
             \/ Refund(c) \/ WindowEnds(c) \/ Deadline(c) \/ BindRejects(c) \/ BindLimited(c)
      PROVE  Claimed' /\ Spent'
  <2>1. CASE Incr(c) \/ Expire(c) \/ CounterFails(c) \/ Reject(c)
    BY <1>t, <2>1, NothingClaimed
    DEF Incr, Expire, CounterFails, Reject, Holder, history, store, TypeInv, TypeOK
  <2>2. CASE ClaimFails(c)
    <3>1. /\ claims \subseteq claims'
          /\ \A d \in Chats, t \in Tokens : Holder(d, t)' => Holder(d, t)
          /\ UNCHANGED <<wins, unsure, stale>>
      BY <1>t, <2>2 DEF ClaimFails, Holder, history, TypeInv, TypeOK
    <3> QED
      BY <3>1 DEF RedemptionInv, Claimed, Spent
  <2>3. CASE Refund(c) \/ WindowEnds(c) \/ Deadline(c) \/ BindRejects(c) \/ BindLimited(c)
    BY <1>t, <2>3, NothingClaimed
    DEF Refund, WindowEnds, Deadline, BindRejects, BindLimited, Holder, history, store,
        TypeInv, TypeOK
  <2> QED
    BY <1>1, <2>1, <2>2, <2>3
<1>2. ASSUME NEW c \in Chats, Claim(c) PROVE Claimed' /\ Spent'
  <2>1. CASE token[c] \in claims
    BY <1>t, <1>2, <2>1, NothingClaimed DEF Claim, Holder, TypeInv, TypeOK
  <2>2. CASE token[c] \notin claims
    \* nobody held it, and its validity shows that it was not good for a Bind
    <3>1. /\ token[c] \in Tokens \ stale
          /\ claims' = claims \cup {token[c]}
          /\ \A d \in Chats, t \in Tokens :
                 Holder(d, t)' => Holder(d, t) \/ (d = c /\ t = token[c])
          /\ UNCHANGED <<wins, unsure, stale>>
      BY <1>t, <1>2, <2>2 DEF Claim, Holder, TypeInv, TypeOK
    <3>2. \A d \in Chats : ~Holder(d, token[c])
      BY <2>2, <3>1 DEF RedemptionInv, Claimed
    <3>3. token[c] \in unsure \/ ~(wins[token[c]] > 0)
      BY <2>2, <3>1 DEF RedemptionInv, Spent
    <3>4. Claimed'
      BY <3>1, <3>2 DEF RedemptionInv, Claimed
    <3>5. Spent'
      BY <3>1, <3>3 DEF RedemptionInv, Spent
    <3> QED
      BY <3>4, <3>5
  <2> QED
    BY <2>1, <2>2
<1>3. ASSUME NEW c \in Chats, BindSucceeds(c) PROVE Claimed' /\ Spent'
  \* its holder lets it go, and it had no other
  <2> PICK k \in Tokens : k = token[c]
    BY <1>t, <1>3 DEF BindSucceeds, TypeInv, Keyed
  <2>1. /\ Holder(c, k)
        /\ wins' = [wins EXCEPT ![k] = @ + 1]
        /\ \A d \in Chats, t \in Tokens : Holder(d, t)' => Holder(d, t) /\ d # c
        /\ UNCHANGED <<claims, unsure, stale>>
    BY <1>t, <1>3, NullAssumption
    DEF BindSucceeds, Holder, store, TypeInv, TypeOK, Keyed
  <2>2. Claimed'
    BY <2>1 DEF RedemptionInv, Claimed
  <2>3. k \in claims /\ \A d \in Chats : ~Holder(d, k)'
    BY <2>1 DEF RedemptionInv, Claimed
  <2>4. wins \in [Tokens -> Nat]
    BY <1>t DEF TypeInv, TypeOK
  <2>5. k \notin unsure => wins[k] = 0
    <3>1. k \notin unsure => ~(wins[k] > 0)
      BY <2>1 DEF RedemptionInv, Spent
    <3> QED
      BY <2>4, <3>1
  <2>6. Spent'
    BY <2>1, <2>3, <2>4, <2>5 DEF RedemptionInv, Spent
  <2> QED
    BY <2>2, <2>6
<1>4. ASSUME NEW c \in Chats, BindFails(c) PROVE Claimed' /\ Spent'
  <2>1. /\ token[c] \in Tokens
        /\ \A t \in Tokens \ unsure' : wins'[t] = wins[t]
        /\ unsure \subseteq unsure'
        /\ \A d \in Chats, t \in Tokens : Holder(d, t)' => Holder(d, t)
        /\ UNCHANGED <<claims, stale>>
    BY <1>t, <1>4 DEF BindFails, Holder, store, TypeInv, TypeOK, Keyed
  <2> QED
    BY <2>1 DEF RedemptionInv, Claimed, Spent
<1>5. ASSUME NEW c \in Chats, Release(c) PROVE Claimed' /\ Spent'
  <2>1. /\ token[c] \in Tokens /\ Holder(c, token[c])
        /\ claims' = claims \ {token[c]} \/ claims' = claims
        /\ \A d \in Chats, t \in Tokens : Holder(d, t)' => Holder(d, t) /\ d # c
        /\ UNCHANGED <<wins, unsure, stale>>
    BY <1>t, <1>5, NullAssumption DEF Release, Holder, history, TypeInv, TypeOK, Keyed
  <2>2. Claimed'
    BY <2>1 DEF RedemptionInv, Claimed
  <2>3. token[c] \notin unsure => ~(wins[token[c]] > 0)
    BY <2>1 DEF RedemptionInv, Spent
  <2>4. Spent'
    BY <2>1, <2>3 DEF RedemptionInv, Spent
  <2> QED
    BY <2>2, <2>4
<1>6. ASSUME NEW t \in Tokens, ClaimExpires(t) PROVE Claimed' /\ Spent'
  <2>1. /\ t \in stale /\ \A c \in Chats : ~Holder(c, t)
        /\ claims' = claims \ {t}
        /\ \A d \in Chats, u \in Tokens : Holder(d, u)' <=> Holder(d, u)
        /\ UNCHANGED <<wins, unsure, stale>>
    BY <1>6 DEF ClaimExpires, Outlived, Holder, history
  <2> QED
    BY <2>1 DEF RedemptionInv, Claimed, Spent
<1>7. CASE \/ \E t \in Tokens, a \in Accounts : Mint(t, a)
           \/ \E c \in Chats, a \in Accounts : Unbind(c, a)
           \/ \E t \in Tokens : TokenExpires(t)
           \/ UNCHANGED vars
  <2>1. UNCHANGED <<claims, wins, unsure, pc, token>> /\ stale \subseteq stale'
    BY <1>7 DEF Mint, Unbind, TokenExpires, vars, store, history
  <2> QED
    BY <2>1, NothingClaimed DEF Holder
<1>8. CASE \/ \E c \in Chats, t \in Tokens \cup {Forged} : Redeem(c, t)
           \/ Crash
  <2>1. UNCHANGED <<claims, wins, unsure, stale>>
    BY <1>8 DEF Redeem, Crash, store, history
  <2>2. \A c \in Chats, t \in Tokens : Holder(c, t)' => Holder(c, t)
    BY <1>t, <1>8 DEF Redeem, Crash, Holder, TypeInv, TypeOK
  <2> QED
    BY <2>1, <2>2, NothingClaimed
<1> QED
  BY <1>1, <1>2, <1>3, <1>4, <1>5, <1>6, <1>7, <1>8 DEF Next, Step

\* A key is good for one Bind, for every number of chats that send it at once,
\* through restarts, Redis failures, dead contexts and expiring claims, unless
\* a Bind that seemed to fail was one.
THEOREM SingleUse == Spec => []OneRedemption
<1>1. RedemptionInv => OneRedemption
  BY DEF RedemptionInv, TypeInv, TypeOK, Spent, OneRedemption
<1> QED
  BY <1>1, InitRedemption, StepRedemption, PTL DEF Spec

-----------------------------------------------------------------------------
(* What a run without faults leaves: keys, counters, time-outs *)

\* A claimed key that was good for nothing yet is being redeemed by an attempt
\* that will release it.
KeyHeld ==
    \A t \in claims : \/ wins[t] > 0 \/ t \in rejected
                      \/ \E c \in Chats : Holder(c, t)

\* The counter is ahead of the answers by the attempt that owes one.
Paid == \A c \in Chats : attempts[c] <= verdicts[c] + (IF Owing(c) THEN 1 ELSE 0)

\* A counter above zero has its TTL, but for an INCR whose EXPIRE is next.
Lapsing == \A c \in Chats : attempts[c] > 0 => c \in timed \/ pc[c] = "expire"

CleanInv == TypeInv /\ (faults = 0 => KeyHeld /\ Paid /\ Lapsing)

LEMMA InitClean == Init => CleanInv
<1> SUFFICES ASSUME Init PROVE KeyHeld /\ Paid /\ Lapsing
  BY InitType DEF CleanInv
<1> QED
  BY DEF Init, KeyHeld, Paid, Lapsing

\* A step that changes neither the claims nor what was a success or a verdict,
\* and moves no holder, keeps the first part.
LEMMA HoldersStay ==
    ASSUME KeyHeld, UNCHANGED <<claims, wins, rejected>>,
           \A d \in Chats, t \in Tokens : Holder(d, t) => Holder(d, t)',
           claims \subseteq Tokens
    PROVE  KeyHeld'
BY DEF KeyHeld

\* A step that changes no counter, no time-out and no attempt keeps the others.
LEMMA CountersStay ==
    ASSUME Paid, Lapsing, UNCHANGED <<attempts, verdicts, timed, pc>>
    PROVE  Paid' /\ Lapsing'
BY DEF Paid, Lapsing, Owing

LEMMA StepCountersClean ==
    ASSUME TypeInv, Paid, Lapsing, NEW c \in Chats, faults' = 0, Step(c)
    PROVE  Paid' /\ Lapsing'
<1> USE DEF TypeInv, TypeOK, Counted, Paid, Lapsing, Owing, Goto, Return, Answer, store, history
<1>f. ASSUME NEW e, Fault(e) PROVE FALSE
  BY <1>f, FaultCounted
<1>1. CASE Incr(c)
  BY <1>1 DEF Incr
<1>2. CASE Expire(c)
  BY <1>2 DEF Expire
<1>3. CASE CounterFails(c) \/ ClaimFails(c)
  BY <1>3, <1>f DEF CounterFails, ClaimFails
<1>4. CASE Reject(c)
  BY <1>4 DEF Reject
<1>5. CASE Claim(c)
  BY <1>5 DEF Claim
<1>6. CASE BindSucceeds(c) \/ BindRejects(c)
  BY <1>6 DEF BindSucceeds, BindRejects
<1>7. CASE BindLimited(c)
  BY <1>7 DEF BindLimited
<1>8. CASE BindFails(c)
  BY <1>8 DEF BindFails
<1>9. CASE Release(c)
  BY <1>9 DEF Release
<1>10. CASE Refund(c)
  BY <1>10, <1>f DEF Refund
<1> QED
  BY <1>1, <1>2, <1>3, <1>4, <1>5, <1>6, <1>7, <1>8, <1>9, <1>10 DEF Step

LEMMA StepKeysClean ==
    ASSUME TypeInv, KeyHeld, NEW c \in Chats, faults' = 0, Step(c)
    PROVE  KeyHeld'
<1> USE DEF TypeInv, TypeOK, Keyed, Goto, Return, Answer, store, history
<1>f. ASSUME NEW e, Fault(e) PROVE FALSE
  BY <1>f, FaultCounted
<1>1. CASE Incr(c) \/ Expire(c) \/ Reject(c) \/ Refund(c)
  BY <1>1, HoldersStay DEF Incr, Expire, Reject, Refund, Holder
<1>2. CASE CounterFails(c) \/ ClaimFails(c)
  BY <1>2, <1>f DEF CounterFails, ClaimFails
<1>3. CASE Claim(c)
  BY <1>3 DEF Claim, KeyHeld, Holder
<1>4. CASE BindSucceeds(c)
  BY <1>4 DEF BindSucceeds, KeyHeld, Holder
<1>5. CASE BindRejects(c)
  BY <1>5 DEF BindRejects, KeyHeld, Holder
<1>6. CASE BindLimited(c)
  BY <1>6, HoldersStay DEF BindLimited, Holder
<1>7. CASE BindFails(c)
  BY <1>7, <1>f, HoldersStay DEF BindFails, Holder
<1>8. CASE Release(c)
  BY <1>8, <1>f DEF Release, KeyHeld, Holder
<1> QED
  BY <1>1, <1>2, <1>3, <1>4, <1>5, <1>6, <1>7, <1>8 DEF Step

LEMMA StepClean == CleanInv /\ [Next]_vars => CleanInv'
<1> SUFFICES ASSUME CleanInv, [Next]_vars, faults' = 0 PROVE KeyHeld' /\ Paid' /\ Lapsing'
  BY StepType DEF CleanInv
<1>t. TypeInv
  BY DEF CleanInv
<1>f. ASSUME NEW e, Fault(e) PROVE FALSE
  BY <1>f, <1>t, FaultCounted DEF TypeInv
<1>s. ASSUME NEW c \in Chats, Step(c), faults # 0 PROVE FALSE
  BY <1>s, <1>f
  DEF Step, Incr, Expire, CounterFails, Reject, Claim, ClaimFails, BindSucceeds,
      BindRejects, BindLimited, BindFails, Release, Refund
<1>1. ASSUME NEW c \in Chats, Step(c) PROVE KeyHeld' /\ Paid' /\ Lapsing'
  BY <1>t, <1>1, <1>s, StepCountersClean, StepKeysClean DEF CleanInv
<1>2. CASE \/ \E t \in Tokens, a \in Accounts : Mint(t, a)
           \/ \E c \in Chats, a \in Accounts : Unbind(c, a)
           \/ \E t \in Tokens : TokenExpires(t)
           \/ UNCHANGED vars
  <2>1. UNCHANGED <<claims, wins, rejected, pc, token, attempts, verdicts, timed, faults>>
    BY <1>2 DEF Mint, Unbind, TokenExpires, vars, store, history
  <2> QED
    BY <1>t, <2>1, HoldersStay, CountersStay DEF CleanInv, Holder, TypeInv, TypeOK
<1>3. ASSUME NEW c \in Chats, NEW t \in Tokens \cup {Forged}, Redeem(c, t)
      PROVE  KeyHeld' /\ Paid' /\ Lapsing'
  <2>1. /\ UNCHANGED <<claims, wins, rejected, attempts, verdicts, timed, faults>>
        /\ pc[c] = "free" /\ pc' = [pc EXCEPT ![c] = "incr"]
        /\ token' = [token EXCEPT ![c] = t]
    BY <1>3 DEF Redeem, Goto, store, history
  <2>2. \A d \in Chats, u \in Tokens : Holder(d, u) => Holder(d, u)'
    BY <1>t, <2>1 DEF Holder, TypeInv, TypeOK
  <2> QED
    BY <1>t, <2>1, <2>2, HoldersStay DEF CleanInv, Paid, Lapsing, Owing, TypeInv, TypeOK
<1>4. ASSUME NEW c \in Chats, WindowEnds(c) PROVE KeyHeld' /\ Paid' /\ Lapsing'
  <2>1. /\ UNCHANGED <<claims, wins, rejected, pc, token, faults>>
        /\ attempts' = [attempts EXCEPT ![c] = 0]
        /\ timed' = timed \ {c}
        /\ verdicts' = [verdicts EXCEPT ![c] = 0]
    BY <1>4 DEF WindowEnds
  <2> QED
    BY <1>t, <2>1, HoldersStay DEF CleanInv, Holder, Paid, Lapsing, Owing, TypeInv, TypeOK
<1>5. ASSUME NEW t \in Tokens, ClaimExpires(t) PROVE KeyHeld' /\ Paid' /\ Lapsing'
  <2>1. /\ UNCHANGED <<wins, rejected, pc, token, attempts, verdicts, timed, faults>>
        /\ claims' \subseteq claims
    BY <1>5 DEF ClaimExpires, history
  <2>2. KeyHeld'
    BY <2>1 DEF CleanInv, KeyHeld, Holder
  <2> QED
    BY <2>1, <2>2, CountersStay DEF CleanInv
<1>6. ASSUME NEW c \in Chats, Deadline(c) PROVE FALSE
  BY <1>6, <1>f DEF Deadline
<1>7. CASE Crash
  BY <1>7, <1>f DEF Crash
<1> QED
  BY <1>1, <1>2, <1>3, <1>4, <1>5, <1>6, <1>7 DEF Next

\* Without a fault no key is lost to a full account or to an outage of Zoho.
THEOREM KeysSpared == Spec => []KeysNotWasted
<1>1. CleanInv => KeysNotWasted
  BY DEF CleanInv, KeyHeld, Holder, KeysNotWasted
<1> QED
  BY <1>1, InitClean, StepClean, PTL DEF Spec

\* Without a fault only the attempts that got an answer count against a chat.
THEOREM BudgetSpared == Spec => []BudgetIntact
<1>1. CleanInv => BudgetIntact
  <2> SUFFICES ASSUME CleanInv, faults = 0, NEW c \in Chats, pc[c] = "free"
               PROVE  attempts[c] <= verdicts[c]
    BY DEF BudgetIntact
  <2>1. attempts[c] <= verdicts[c] + 0
    BY DEF CleanInv, Paid, Owing
  <2> QED
    BY <2>1 DEF CleanInv, TypeInv, TypeOK
<1> QED
  BY <1>1, InitClean, StepClean, PTL DEF Spec

\* Without a fault the lockout of a chat ends with its window.
THEOREM LockoutLifted == Spec => []LockoutEnds
<1>1. CleanInv => LockoutEnds
  BY DEF CleanInv, Lapsing, LockoutEnds
<1> QED
  BY <1>1, InitClean, StepClean, PTL DEF Spec
=============================================================================
