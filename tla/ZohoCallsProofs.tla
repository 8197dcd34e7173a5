--------------------------- MODULE ZohoCallsProofs ---------------------------
(***************************************************************************)
(* Theorems about ZohoCalls, for any number of callers and retries and     *)
(* every choice of faults.                                                 *)
(***************************************************************************)
EXTENDS ZohoCalls, TLAPS

\* Each request so far was one of the attempts, or the one a 401 gave back.
Accounted ==
    \A c \in Callers :
        /\ requests[c] <= attempt[c] + 1
        /\ ~refreshed[c] => requests[c] <= attempt[c]

CallsInv == TypeOK /\ Accounted

LEMMA InitCalls == Init => CallsInv
<1> SUFFICES ASSUME Init PROVE CallsInv
  OBVIOUS
<1>1. /\ attempt \in [Callers -> 0..MaxRetries]
      /\ requests \in [Callers -> Nat]
      /\ tries \in 0..MaxRetries
      /\ revocations \in 0..MaxRevocations /\ faults \in 0..MaxFaults
  BY BoundsAssumption DEF Init
<1>2. /\ memory \in Token /\ cached \in Token
      /\ holder \in Callers \cup {Nobody}
      /\ token \in [Callers -> Token]
  BY DEF Init, Token
<1>3. /\ pc \in [Callers -> {"idle", "wait", "lock", "look", "refresh", "store",
                             "send", "invalidate", "evict"}]
      /\ refreshed \in [Callers -> BOOLEAN]
      /\ ended \subseteq Callers
  BY DEF Init
<1>4. \A c \in Callers : requests[c] = 0 /\ attempt[c] = 0
  BY ZenonT(40) DEF Init
<1>5. Accounted
  <2> SUFFICES ASSUME NEW c \in Callers
               PROVE  requests[c] <= attempt[c] + 1 /\ requests[c] <= attempt[c]
    BY Zenon DEF Accounted
  <2> QED
    BY <1>4
<1> QED
  BY <1>1, <1>2, <1>3, <1>5 DEF CallsInv, TypeOK

LEMMA FaultCounted ==
    ASSUME TypeOK, NEW e, Fault(e)
    PROVE  faults' \in 0..MaxFaults
BY BoundsAssumption DEF TypeOK, Fault

LEMMA RedisCounted ==
    ASSUME TypeOK, NEW c \in Callers, RedisFails(c) \/ RedisWorks(c)
    PROVE  faults' \in 0..MaxFaults
BY FaultCounted DEF RedisFails, RedisWorks, TypeOK

\* What a call that returns, or begins an attempt again, leaves.
LEMMA ReturnKeeps ==
    ASSUME CallsInv, NEW c \in Callers, Return(c)
    PROVE  /\ pc' \in [Callers -> {"idle", "wait", "lock", "look", "refresh", "store",
                                   "send", "invalidate", "evict"}]
           /\ attempt' \in [Callers -> 0..MaxRetries]
           /\ refreshed' \in [Callers -> BOOLEAN]
           /\ token' \in [Callers -> Token]
           /\ ended' \subseteq Callers
           /\ requests' \in [Callers -> Nat]
           /\ Accounted'
<1> USE DEF CallsInv, TypeOK, Return, Goto
<1>1. /\ pc' \in [Callers -> {"idle", "wait", "lock", "look", "refresh", "store",
                              "send", "invalidate", "evict"}]
      /\ token' \in [Callers -> Token]
      /\ ended' \subseteq Callers
  BY DEF Token
<1>2. attempt' \in [Callers -> 0..MaxRetries] /\ requests' \in [Callers -> Nat]
  BY BoundsAssumption
<1>3. refreshed' \in [Callers -> BOOLEAN]
  OBVIOUS
<1>4. Accounted'
  BY DEF Accounted
<1> QED
  BY <1>1, <1>2, <1>3, <1>4

\* The steps of AccessToken and of refresh.
LEMMA TokenStep ==
    ASSUME CallsInv, NEW c \in Callers,
           \/ Wait(c) \/ Lock(c) \/ Look(c)
           \/ RefreshSucceeds(c) \/ RefreshFails(c) \/ RefreshRefused(c) \/ Store(c)
    PROVE  CallsInv'
<1> USE BoundsAssumption
    DEF CallsInv, TypeOK, Accounted, Goto, Return, Retry, Acquire, Token, call
<1>1. CASE Wait(c)
  <2>1. CASE Return(c)
    BY <1>1, <2>1, ReturnKeeps DEF Wait
  <2>2. CASE Goto(c, "lock") /\ UNCHANGED <<attempt, refreshed, token, ended, requests>>
    BY <1>1, <2>2 DEF Wait
  <2> QED
    BY <1>1, <2>1, <2>2 DEF Wait
<1>2. CASE Lock(c)
  BY <1>2 DEF Lock
<1>3. CASE Look(c)
  BY <1>3, RedisCounted DEF Look
<1>4. CASE RefreshSucceeds(c)
  BY <1>4 DEF RefreshSucceeds
<1>5. CASE RefreshFails(c)
  BY <1>5 DEF RefreshFails
<1>6. CASE RefreshRefused(c)
  <2>1. CASE Return(c)
    BY <1>6, <2>1, ReturnKeeps DEF RefreshRefused
  <2>2. CASE attempt[c] < MaxRetries
    BY <1>6, <2>2 DEF RefreshRefused
  <2> QED
    BY <1>6, <2>1, <2>2 DEF RefreshRefused
<1>7. CASE Store(c)
  BY <1>7, RedisCounted DEF Store
<1> QED
  BY <1>1, <1>2, <1>3, <1>4, <1>5, <1>6, <1>7

\* The steps of the request, and of Invalidate.
LEMMA RequestStep ==
    ASSUME CallsInv, NEW c \in Callers,
           Answered(c) \/ Fails(c) \/ Unauthorized(c) \/ Clear(c) \/ Evict(c)
    PROVE  CallsInv'
<1> USE BoundsAssumption
    DEF CallsInv, TypeOK, Accounted, Goto, Return, Sent, Token
<1>1. CASE Answered(c)
  BY <1>1, ReturnKeeps DEF Answered
<1>2. CASE Fails(c)
  <2>1. CASE Return(c)
    BY <1>2, <2>1, ReturnKeeps DEF Fails
  <2>2. CASE attempt[c] < MaxRetries
    BY <1>2, <2>2 DEF Fails
  <2> QED
    BY <1>2, <2>1, <2>2 DEF Fails
<1>3. CASE Unauthorized(c)
  <2>1. CASE Return(c)
    BY <1>3, <2>1, ReturnKeeps DEF Unauthorized
  <2>2. CASE ~refreshed[c]
    <3>1. /\ UNCHANGED <<attempt, token, ended, memory, cached, holder, tries, revocations, faults>>
          /\ pc' = [pc EXCEPT ![c] = "invalidate"]
          /\ requests' = [requests EXCEPT ![c] = @ + 1]
          /\ refreshed' = [refreshed EXCEPT ![c] = TRUE]
      BY <1>3, <2>2 DEF Unauthorized
    <3>2. refreshed' \in [Callers -> BOOLEAN] /\ refreshed'[c]
      BY <3>1
    <3>3. \A d \in Callers : d # c => refreshed'[d] = refreshed[d]
      BY <3>1
    <3>4. requests[c] <= attempt[c]
      BY <2>2
    <3>5. requests' \in [Callers -> Nat] /\ requests'[c] = requests[c] + 1
      BY <3>1
    <3>6. ASSUME NEW d \in Callers
          PROVE  /\ requests'[d] <= attempt'[d] + 1
                 /\ ~refreshed'[d] => requests'[d] <= attempt'[d]
      <4>1. CASE d = c
        BY <3>1, <3>2, <3>4, <3>5, <4>1
      <4>2. CASE d # c
        BY <3>1, <3>3, <4>2
      <4> QED
        BY <4>1, <4>2
    <3> QED
      BY <3>1, <3>2, <3>5, <3>6
  <2> QED
    BY <1>3, <2>1, <2>2 DEF Unauthorized
<1>4. CASE Clear(c)
  BY <1>4 DEF Clear
<1>5. CASE Evict(c)
  BY <1>5, RedisCounted DEF Evict
<1> QED
  BY <1>1, <1>2, <1>3, <1>4, <1>5

LEMMA StepCalls == CallsInv /\ [Next]_vars => CallsInv'
<1> SUFFICES ASSUME CallsInv, [Next]_vars PROVE CallsInv'
  OBVIOUS
<1> USE BoundsAssumption DEF CallsInv, TypeOK, Accounted, Token, call
<1>1. ASSUME NEW c \in Callers, Step(c) PROVE CallsInv'
  BY <1>1, TokenStep, RequestStep DEF Step
<1>2. ASSUME NEW c \in Callers, Begin(c) PROVE CallsInv'
  BY <1>2 DEF Begin, Goto
<1>3. ASSUME NEW c \in Callers, Deadline(c) PROVE CallsInv'
  BY <1>3, FaultCounted DEF Deadline
<1>4. CASE Revoke
  BY <1>4 DEF Revoke, Dies
<1>5. CASE MemoryExpires \/ CacheExpires
  BY <1>5 DEF MemoryExpires, CacheExpires
<1>6. CASE Crash
  BY <1>6, FaultCounted DEF Crash
<1>7. CASE UNCHANGED vars
  BY <1>7 DEF vars
<1> QED
  BY <1>1, <1>2, <1>3, <1>4, <1>5, <1>6, <1>7 DEF Next

\* Every variable of ZohoCalls keeps its type, whatever fails.
THEOREM TypeCorrect == Spec => []TypeOK
<1>1. CallsInv => TypeOK
  BY DEF CallsInv
<1> QED
  BY <1>1, InitCalls, StepCalls, PTL DEF Spec

\* A call is bounded: at most one request per attempt, and the one that a 401
\* gives back, for any number of callers, retries and revocations.
THEOREM CallsBounded == Spec => []FewRequests
<1>1. CallsInv => FewRequests
  <2> SUFFICES ASSUME CallsInv, NEW c \in Callers PROVE requests[c] <= MaxRetries + 1
    BY ZenonT(40) DEF FewRequests
  <2>1. requests[c] <= attempt[c] + 1
    BY DEF CallsInv, Accounted
  <2> QED
    BY <2>1, BoundsAssumption DEF CallsInv, TypeOK
<1> QED
  BY <1>1, InitCalls, StepCalls, PTL DEF Spec
=============================================================================
