------------------------------ MODULE ZohoCalls ------------------------------
(***************************************************************************)
(* Calls of the Desk API: the retry loop of do (and of doMultipart, which  *)
(* is the same loop) in zoho/client.go over the token manager of           *)
(* zoho/auth.go, whose mutex is held while a token is refreshed.  A token  *)
(* is "good" until Zoho revokes it; expiry is the margin's business: a     *)
(* cached token disappears before it dies of age.                          *)
(***************************************************************************)
EXTENDS Naturals

CONSTANTS
    Callers,
    MaxRetries,         \* maxRetries, in do and in refresh
    MaxRevocations,     \* how often Zoho revokes its tokens (a bound)
    MaxFaults,          \* how many events of Env there are (a bound)
    Env,                \* a subset of EnvEvents
    Nobody

\* redis: a command fails;  deadline: a caller's context ends;
\* crash: the process stops and starts again
EnvEvents == {"redis", "deadline", "crash"}

ASSUME NobodyAssumption == Nobody \notin Callers
ASSUME BoundsAssumption ==
    MaxRetries \in Nat /\ MaxRevocations \in Nat /\ MaxFaults \in Nat
ASSUME EnvAssumption == Env \subseteq EnvEvents

VARIABLES
    memory,     \* t.token
    cached,     \* zoho:access_token in Redis
    holder,     \* who holds t.mu across a step
    tries,      \* the attempts of the refresh under way
    pc,
    attempt,    \* the loop variable of do
    refreshed,  \* refreshedOn401
    token,      \* what the caller's request carries
    ended,      \* the callers whose context has ended
    requests,   \* how many requests the call has sent (history)
    revocations, faults     \* bounds

call == <<pc, attempt, refreshed, token, ended, requests>>
vars == <<memory, cached, holder, tries, call, revocations, faults>>

Token == {"none", "good", "dead"}

TypeOK ==
    /\ memory \in Token /\ cached \in Token
    /\ holder \in Callers \cup {Nobody}
    /\ tries \in 0..MaxRetries
    /\ pc \in [Callers -> {"idle", "wait", "lock", "look", "refresh", "store",
                           "send", "invalidate", "evict"}]
    /\ attempt \in [Callers -> 0..MaxRetries]
    /\ refreshed \in [Callers -> BOOLEAN]
    /\ token \in [Callers -> Token]
    /\ ended \subseteq Callers
    /\ requests \in [Callers -> Nat]
    /\ revocations \in 0..MaxRevocations /\ faults \in 0..MaxFaults

Init ==
    /\ memory = "none" /\ cached = "none"
    /\ holder = Nobody /\ tries = 0
    /\ pc = [c \in Callers |-> "idle"]
    /\ attempt = [c \in Callers |-> 0]
    /\ refreshed = [c \in Callers |-> FALSE]
    /\ token = [c \in Callers |-> "none"]
    /\ ended = {}
    /\ requests = [c \in Callers |-> 0]
    /\ revocations = 0 /\ faults = 0

Goto(c, place) == pc' = [pc EXCEPT ![c] = place]

Return(c) ==
    /\ Goto(c, "idle")
    /\ attempt' = [attempt EXCEPT ![c] = 0]
    /\ refreshed' = [refreshed EXCEPT ![c] = FALSE]
    /\ token' = [token EXCEPT ![c] = "none"]
    /\ ended' = ended \ {c}
    /\ requests' = [requests EXCEPT ![c] = 0]

\* The attempt is used up; the next one waits for its backoff.
RetriesForever(c) ==
    /\ Goto(c, "wait")
    /\ UNCHANGED <<attempt, refreshed, token, ended, requests>>
Retry(c) ==
    IF attempt[c] < MaxRetries
    THEN /\ Goto(c, "wait")
         /\ attempt' = [attempt EXCEPT ![c] = @ + 1]
         /\ UNCHANGED <<refreshed, token, ended, requests>>
    ELSE Return(c)

\* AccessToken returns a token, and lets go of the mutex.
Acquire(c, t) ==
    /\ token' = [token EXCEPT ![c] = t]
    /\ Goto(c, "send")
    /\ UNCHANGED <<attempt, refreshed, ended, requests>>

Fault(e) ==
    /\ e \in Env
    /\ faults < MaxFaults
    /\ faults' = faults + 1

\* A Redis command can fail, and does once the context has ended.
RedisFails(c) == (c \in ended /\ UNCHANGED faults) \/ Fault("redis")
RedisWorks(c) == c \notin ended /\ UNCHANGED faults

-----------------------------------------------------------------------------
(* AccessToken *)

Begin(c) ==
    /\ pc[c] = "idle"
    /\ Goto(c, "lock")
    /\ UNCHANGED <<memory, cached, holder, tries, attempt, refreshed, token, ended,
                   requests, revocations, faults>>

\* The backoff ends, or the context does first.
Wait(c) ==
    /\ pc[c] = "wait"
    /\ \/ Goto(c, "lock") /\ UNCHANGED <<attempt, refreshed, token, ended, requests>>
       \/ c \in ended /\ Return(c)
    /\ UNCHANGED <<memory, cached, holder, tries, revocations, faults>>

\* The mutex is waited for whatever becomes of the context.
Lock(c) ==
    /\ pc[c] = "lock" /\ holder = Nobody
    /\ IF memory # "none"
       THEN Acquire(c, memory) /\ UNCHANGED holder
       ELSE /\ holder' = c
            /\ Goto(c, "look")
            /\ UNCHANGED <<attempt, refreshed, token, ended, requests>>
    /\ UNCHANGED <<memory, cached, tries, revocations, faults>>

\* GetToken: another instance, or an earlier process, may have left one.
Look(c) ==
    /\ pc[c] = "look"
    /\ \/ /\ RedisWorks(c)
          /\ cached # "none"
          /\ memory' = cached
          /\ Acquire(c, cached)
          /\ holder' = Nobody
          /\ UNCHANGED tries
       \/ /\ RedisFails(c) \/ (RedisWorks(c) /\ cached = "none")
          /\ Goto(c, "refresh")
          /\ tries' = 0
          /\ UNCHANGED <<memory, holder, attempt, refreshed, token, ended, requests>>
    /\ UNCHANGED <<cached, revocations>>

RefreshSucceeds(c) ==
    /\ pc[c] = "refresh" /\ c \notin ended
    /\ memory' = "good"
    /\ Goto(c, "store")
    /\ UNCHANGED <<cached, holder, tries, attempt, refreshed, token, ended, requests,
                   revocations, faults>>

\* A transport error, a 429 or a 5xx uses up a try of the refresh ...
RefreshTriesOn(c) ==
    /\ pc[c] = "refresh"
    /\ tries <= MaxRetries
    /\ tries' = tries + 1
    /\ UNCHANGED <<memory, cached, holder, call, revocations, faults>>
RefreshFails(c) ==
    /\ pc[c] = "refresh"
    /\ tries < MaxRetries
    /\ tries' = tries + 1
    /\ UNCHANGED <<memory, cached, holder, call, revocations, faults>>

\* ... and the last try, an error answer, or the end of the context ends it.
RefreshRefused(c) ==
    /\ pc[c] = "refresh"
    /\ holder' = Nobody
    /\ Retry(c)
    /\ UNCHANGED <<memory, cached, tries, revocations, faults>>

\* SetToken, whose error is logged.
Store(c) ==
    /\ pc[c] = "store"
    /\ \/ RedisWorks(c) /\ cached' = memory
       \/ RedisFails(c) /\ UNCHANGED cached
    /\ Acquire(c, memory)
    /\ holder' = Nobody
    /\ UNCHANGED <<memory, tries, revocations>>

-----------------------------------------------------------------------------
(* The request and its answer *)

Sent(c) == requests' = [requests EXCEPT ![c] = @ + 1]

\* A 2xx, or a status that is not worth a retry.
Answered(c) ==
    /\ pc[c] = "send" /\ c \notin ended
    /\ token[c] = "good"
    /\ Return(c)
    /\ UNCHANGED <<memory, cached, holder, tries, revocations, faults>>

\* A transport error, a 429 or a 5xx.
Fails(c) ==
    /\ pc[c] = "send"
    /\ IF attempt[c] < MaxRetries
       THEN /\ Goto(c, "wait")
            /\ attempt' = [attempt EXCEPT ![c] = @ + 1]
            /\ Sent(c)
            /\ UNCHANGED <<refreshed, token, ended>>
       ELSE Return(c)
    /\ UNCHANGED <<memory, cached, holder, tries, revocations, faults>>

\* A first 401 has the token replaced and does not count as an attempt; a
\* second one is an answer.
RefreshesEveryTime(c) ==
    /\ pc[c] = "send" /\ c \notin ended
    /\ token[c] = "dead"
    /\ Goto(c, "invalidate")
    /\ refreshed' = [refreshed EXCEPT ![c] = TRUE]
    /\ Sent(c)
    /\ UNCHANGED <<attempt, token, ended, memory, cached, holder, tries, revocations, faults>>
Unauthorized(c) ==
    /\ pc[c] = "send" /\ c \notin ended
    /\ token[c] = "dead"
    /\ IF refreshed[c]
       THEN Return(c)
       ELSE /\ Goto(c, "invalidate")
            /\ refreshed' = [refreshed EXCEPT ![c] = TRUE]
            /\ Sent(c)
            /\ UNCHANGED <<attempt, token, ended>>
    /\ UNCHANGED <<memory, cached, holder, tries, revocations, faults>>

\* Invalidate: the memory under the mutex, Redis after it.
Clear(c) ==
    /\ pc[c] = "invalidate" /\ holder = Nobody
    /\ memory' = "none"
    /\ Goto(c, "evict")
    /\ UNCHANGED <<cached, holder, tries, attempt, refreshed, token, ended, requests,
                   revocations, faults>>

EvictNothing(c) ==
    /\ pc[c] = "evict"
    /\ Goto(c, IF attempt[c] = 0 THEN "lock" ELSE "wait")
    /\ UNCHANGED <<memory, cached, holder, tries, attempt, refreshed, token, ended,
                   requests, revocations, faults>>
Evict(c) ==
    /\ pc[c] = "evict"
    /\ \/ RedisWorks(c) /\ cached' = "none"
       \/ RedisFails(c) /\ UNCHANGED cached
    /\ Goto(c, IF attempt[c] = 0 THEN "lock" ELSE "wait")
    /\ UNCHANGED <<memory, holder, tries, attempt, refreshed, token, ended, requests,
                   revocations>>

-----------------------------------------------------------------------------
(* The environment *)

Dies(t) == IF t = "good" THEN "dead" ELSE t

Revoke ==
    /\ revocations < MaxRevocations
    /\ revocations' = revocations + 1
    /\ memory' = Dies(memory)
    /\ cached' = Dies(cached)
    /\ token' = [c \in Callers |-> Dies(token[c])]
    /\ UNCHANGED <<holder, tries, pc, attempt, refreshed, ended, requests, faults>>

\* expiresAt passes (never just after a refresh), or the key's TTL.
MemoryExpires ==
    /\ holder = Nobody /\ memory # "none"
    /\ memory' = "none"
    /\ UNCHANGED <<cached, holder, tries, call, revocations, faults>>

CacheExpires ==
    /\ cached # "none"
    /\ cached' = "none"
    /\ UNCHANGED <<memory, holder, tries, call, revocations, faults>>

Deadline(c) ==
    /\ pc[c] # "idle" /\ c \notin ended
    /\ Fault("deadline")
    /\ ended' = ended \cup {c}
    /\ UNCHANGED <<memory, cached, holder, tries, pc, attempt, refreshed, token, requests,
                   revocations>>

Crash ==
    /\ Fault("crash")
    /\ memory' = "none" /\ holder' = Nobody /\ tries' = 0
    /\ pc' = [c \in Callers |-> "idle"]
    /\ attempt' = [c \in Callers |-> 0]
    /\ refreshed' = [c \in Callers |-> FALSE]
    /\ token' = [c \in Callers |-> "none"]
    /\ ended' = {}
    /\ requests' = [c \in Callers |-> 0]
    /\ UNCHANGED <<cached, revocations>>

-----------------------------------------------------------------------------
Step(c) ==
    \/ Wait(c) \/ Lock(c) \/ Look(c)
    \/ RefreshSucceeds(c) \/ RefreshFails(c) \/ RefreshRefused(c) \/ Store(c)
    \/ Answered(c) \/ Fails(c) \/ Unauthorized(c) \/ Clear(c) \/ Evict(c)

Next ==
    \/ \E c \in Callers : Begin(c) \/ Step(c) \/ Deadline(c)
    \/ Revoke \/ MemoryExpires \/ CacheExpires \/ Crash

Spec == Init /\ [][Next]_vars

\* A call goes on: requests and commands end by their timeouts, backoffs by
\* their timers.  A sync.Mutex is handed to a goroutine that has waited long.
\* The poller and the worker keep calling; and Zoho, asked again and again
\* with a dead token, says so in the end.
Fairness ==
    \A c \in Callers :
        /\ WF_vars(Begin(c)) /\ WF_vars(Step(c))
        /\ SF_vars(Lock(c)) /\ SF_vars(Clear(c))
        /\ SF_vars(Unauthorized(c))

FairSpec == Spec /\ Fairness

-----------------------------------------------------------------------------
(* Properties *)

\* A call sends no more requests than its attempts and the one that a 401
\* gives back, whatever happens to the tokens in the meantime.  (The request
\* that ends the call comes on top of those counted.)
FewRequests == \A c \in Callers : requests[c] <= MaxRetries + 1

\* Every call returns: no retry loop spins for ever, and nobody waits for
\* ever for the token's mutex.
CallReturns == \A c \in Callers : pc[c] # "idle" ~> pc[c] = "idle"

\* Once Zoho stops revoking and Redis works, the process stops using dead
\* tokens, although a cleared one can be read back from Redis by another
\* caller before it is evicted there.
DeadTokenReplaced == <>[](memory # "dead")
=============================================================================
