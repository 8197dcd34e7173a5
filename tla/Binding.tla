------------------------------- MODULE Binding -------------------------------
(***************************************************************************)
(* The redemption of access keys (binding tokens): handleBinding of        *)
(* bot/handlers.go over auth/token.go and the Redis keys binding_token:    *)
(* and bind_attempts:, one attempt at a time per chat, under the chat      *)
(* lock.  registry.Bind is one step of AccountMembers here; module         *)
(* Registry shows that it behaves like one.                                *)
(***************************************************************************)
EXTENDS Integers, FiniteSets

CONSTANTS
    Chats, Accounts, Tokens,
    MaxChatsPerAccount,
    MaxBindAttempts,
    MaxCount,           \* a client stops counting there (a bound)
    Env,                \* what may go wrong, a subset of EnvEvents
    MaxFaults,          \* how often, but for "zoho", it does (a bound)
    Forged, NoAccount

\* zoho:     registry.Bind fails for a transient reason
\* lost:     it binds the chat, and seems to have failed
\* redis:    a command fails, executed or not
\* deadline: the update's 30s run out: whatever it still calls fails
\* crash:    the process stops and starts again
EnvEvents == {"zoho", "lost", "redis", "deadline", "crash"}

ASSUME NullAssumption == Forged \notin Tokens /\ NoAccount \notin Accounts
ASSUME BoundsAssumption ==
    /\ MaxChatsPerAccount \in Nat /\ MaxBindAttempts \in Nat
    /\ MaxCount \in Nat \ {0} /\ MaxFaults \in Nat
ASSUME EnvAssumption == Env \subseteq EnvEvents

VARIABLES
    minted,     \* the account each token was made for
    stale,      \* the tokens past their validity
    claims,     \* binding_token:{jti}
    attempts,   \* bind_attempts:{chat}, 0 when absent
    timed,      \* the chats whose counter has its TTL
    members,    \* the chats of each account
    pc, token,  \* each chat's attempt
    \* bounds and history
    faults,
    wins,       \* how many Binds each token has been good for
    unsure,     \* tokens whose Bind was applied and seemed to fail
    rejected,   \* tokens rejected for good: unknown client, or chat bound elsewhere
    verdicts    \* each chat's attempts in this window that got an answer, good or bad

store   == <<claims, attempts, timed>>
history == <<wins, unsure, rejected, verdicts>>
vars    == <<minted, stale, store, members, pc, token, faults, history>>

Registry == INSTANCE AccountMembers

TypeOK ==
    /\ minted \in [Tokens -> Accounts \cup {NoAccount}]
    /\ stale \subseteq Tokens
    /\ claims \subseteq Tokens
    /\ attempts \in [Chats -> -1..MaxCount]
    /\ timed \subseteq Chats
    /\ members \in [Accounts -> SUBSET Chats]
    /\ pc \in [Chats -> {"free", "incr", "expire", "verify", "bind",
                         "release", "release_refund", "refund"}]
    /\ token \in [Chats -> Tokens \cup {Forged}]
    /\ faults \in 0..MaxFaults
    /\ wins \in [Tokens -> Nat]
    /\ unsure \subseteq Tokens /\ rejected \subseteq Tokens
    /\ verdicts \in [Chats -> Nat]

Init ==
    /\ minted = [t \in Tokens |-> NoAccount]
    /\ stale = {} /\ claims = {}
    /\ attempts = [c \in Chats |-> 0] /\ timed = {}
    /\ Registry!Init
    /\ pc = [c \in Chats |-> "free"]
    /\ token = [c \in Chats |-> Forged]
    /\ faults = 0
    /\ wins = [t \in Tokens |-> 0]
    /\ unsure = {} /\ rejected = {}
    /\ verdicts = [c \in Chats |-> 0]

Fault(e) ==
    /\ e \in Env
    /\ faults < MaxFaults
    /\ faults' = faults + 1

Goto(c, place) == pc' = [pc EXCEPT ![c] = place]

\* The attempt ends without an answer, or with one.
Return(c) ==
    /\ Goto(c, "free")
    /\ token' = [token EXCEPT ![c] = Forged]

Answer(c) == verdicts' = [verdicts EXCEPT ![c] = @ + 1]

-----------------------------------------------------------------------------
\* The token service makes a key for a client.
Mint(t, a) ==
    /\ minted[t] = NoAccount
    /\ minted' = [minted EXCEPT ![t] = a]
    /\ UNCHANGED <<stale, store, members, pc, token, faults, history>>

\* A chat sends a key, or something shaped like one.
Redeem(c, t) ==
    /\ pc[c] = "free"
    /\ t \in {Forged} \cup {m \in Tokens : minted[m] # NoAccount}
    /\ attempts[c] < MaxCount
    /\ Goto(c, "incr")
    /\ token' = [token EXCEPT ![c] = t]
    /\ UNCHANGED <<minted, stale, store, members, faults, history>>

\* IncrBindAttempts: INCR, and the limit ...
Incr(c) ==
    /\ pc[c] = "incr"
    /\ attempts' = [attempts EXCEPT ![c] = @ + 1]
    /\ IF attempts'[c] = 1
       THEN Goto(c, "expire") /\ UNCHANGED <<token, verdicts>>
       ELSE IF attempts'[c] > MaxBindAttempts
            THEN Return(c) /\ Answer(c)
            ELSE Goto(c, "verify") /\ UNCHANGED <<token, verdicts>>
    /\ UNCHANGED <<minted, stale, claims, timed, members, faults, wins, unsure, rejected>>

\* ... and the EXPIRE of a first attempt.
NoExpire(c) ==
    /\ pc[c] = "expire"
    /\ Goto(c, "verify")
    /\ UNCHANGED <<minted, stale, store, members, token, faults, history>>
Expire(c) ==
    /\ pc[c] = "expire"
    /\ timed' = timed \cup {c}
    /\ Goto(c, "verify")
    /\ UNCHANGED <<minted, stale, claims, attempts, members, token, faults, history>>

\* If either fails the attempt is refused: binding is not guarded otherwise.
CounterFails(c) ==
    /\ pc[c] \in {"incr", "expire"}
    /\ Fault("redis")
    /\ Return(c)
    /\ \/ UNCHANGED <<attempts, timed>>
       \/ pc[c] = "incr" /\ attempts' = [attempts EXCEPT ![c] = @ + 1] /\ UNCHANGED timed
       \/ pc[c] = "expire" /\ timed' = timed \cup {c} /\ UNCHANGED attempts
    /\ UNCHANGED <<minted, stale, claims, members, history>>

\* Verify: a bad signature, or a token past its validity,
Reject(c) ==
    /\ pc[c] = "verify"
    /\ token[c] \in {Forged} \cup stale
    /\ Return(c) /\ Answer(c)
    /\ UNCHANGED <<minted, stale, store, members, faults, wins, unsure, rejected>>

\* ... or one that is claimed by whoever comes first (SETNX).
ClaimUnguarded(c) ==
    /\ pc[c] = "verify"
    /\ token[c] \in Tokens \ stale
    /\ claims' = claims \cup {token[c]}
    /\ Goto(c, "bind") /\ UNCHANGED <<token, verdicts>>
    /\ UNCHANGED <<minted, stale, attempts, timed, members, faults, wins, unsure, rejected>>
Claim(c) ==
    /\ pc[c] = "verify"
    /\ token[c] \in Tokens \ stale
    /\ IF token[c] \in claims
       THEN Return(c) /\ Answer(c) /\ UNCHANGED claims
       ELSE /\ claims' = claims \cup {token[c]}
            /\ Goto(c, "bind") /\ UNCHANGED <<token, verdicts>>
    /\ UNCHANGED <<minted, stale, attempts, timed, members, faults, wins, unsure, rejected>>

ClaimFails(c) ==
    /\ pc[c] = "verify"
    /\ token[c] \in Tokens \ stale
    /\ Fault("redis")
    /\ claims' \in {claims, claims \cup {token[c]}}
    /\ Goto(c, "refund")
    /\ UNCHANGED <<minted, stale, attempts, timed, members, token, history>>

-----------------------------------------------------------------------------
(* registry.Bind, and what its outcome does to the claim and the counter *)

Account(c) == minted[token[c]]
Elsewhere(c) == \E a \in Accounts \ {Account(c)} : c \in members[a]
Full(a) == Cardinality(members[a]) >= MaxChatsPerAccount

Binds(c) ==
    \/ Registry!Join(c, Account(c))
    \/ c \in members[Account(c)] /\ UNCHANGED members

BindSucceeds(c) ==
    /\ pc[c] = "bind"
    /\ Binds(c)
    /\ wins' = [wins EXCEPT ![token[c]] = @ + 1]
    /\ Return(c) /\ Answer(c)
    /\ UNCHANGED <<minted, stale, store, faults, unsure, rejected>>

\* ErrUnknownClient (the account is gone) and ErrChatBound keep the claim.
BindRejects(c) ==
    /\ pc[c] = "bind"
    /\ c \notin members[Account(c)]
    /\ rejected' = rejected \cup {token[c]}
    /\ Return(c) /\ Answer(c)
    /\ UNCHANGED <<minted, stale, store, members, faults, wins, unsure>>

\* ErrChatLimit releases it.
LimitKeepsClaim(c) ==
    /\ pc[c] = "bind"
    /\ c \notin members[Account(c)] /\ ~Elsewhere(c) /\ Full(Account(c))
    /\ Return(c)
    /\ Answer(c)
    /\ UNCHANGED <<minted, stale, store, members, faults, wins, unsure, rejected>>
BindLimited(c) ==
    /\ pc[c] = "bind"
    /\ c \notin members[Account(c)] /\ ~Elsewhere(c) /\ Full(Account(c))
    /\ Goto(c, "release")
    /\ Answer(c)
    /\ UNCHANGED <<minted, stale, store, members, token, faults, wins, unsure, rejected>>

\* Any other error releases it and refunds the attempt.
RefundsToo(c) ==
    /\ pc[c] = "bind"
    /\ attempts' = [attempts EXCEPT ![c] = @ - 1]
    /\ Goto(c, "release_refund")
    /\ UNCHANGED <<minted, stale, claims, timed, members, token, faults, history>>
BindFails(c) ==
    /\ pc[c] = "bind"
    /\ \/ "zoho" \in Env /\ UNCHANGED <<members, wins, unsure, faults>>
       \/ /\ Fault("lost")
          /\ Binds(c)
          /\ wins' = [wins EXCEPT ![token[c]] = @ + 1]
          /\ unsure' = unsure \cup {token[c]}
    /\ Goto(c, "release_refund")
    /\ UNCHANGED <<minted, stale, store, token, rejected, verdicts>>

\* ReleaseToken, whose error is logged.
Release(c) ==
    /\ pc[c] \in {"release", "release_refund"}
    /\ \/ claims' = claims \ {token[c]} /\ UNCHANGED faults
       \/ Fault("redis") /\ UNCHANGED claims
    /\ IF pc[c] = "release" THEN Return(c) ELSE Goto(c, "refund") /\ UNCHANGED token
    /\ UNCHANGED <<minted, stale, attempts, timed, members, history>>

NoRefund(c) ==
    /\ pc[c] = "refund"
    /\ Return(c)
    /\ UNCHANGED <<minted, stale, store, members, faults, history>>
Refund(c) ==
    /\ pc[c] = "refund"
    /\ \/ attempts' = [attempts EXCEPT ![c] = @ - 1] /\ UNCHANGED faults
       \/ Fault("redis") /\ UNCHANGED attempts
    /\ Return(c)
    /\ UNCHANGED <<minted, stale, claims, timed, members, history>>

-----------------------------------------------------------------------------
(* Time, the administrator, and the environment *)

\* The hour of the counter is over (a DECR later starts it below zero).
WindowEnds(c) ==
    /\ c \in timed
    /\ attempts' = [attempts EXCEPT ![c] = 0]
    /\ timed' = timed \ {c}
    /\ verdicts' = [verdicts EXCEPT ![c] = 0]
    /\ UNCHANGED <<minted, stale, claims, members, pc, token, faults, wins, unsure, rejected>>

TokenExpires(t) ==
    /\ minted[t] # NoAccount /\ t \notin stale
    /\ stale' = stale \cup {t}
    /\ UNCHANGED <<minted, store, members, pc, token, faults, history>>

\* bindingClaimTTL: a claim outlives its token (by an hour, longer than an
\* attempt can take).
ADay(t) == t \in claims
Outlived(t) == t \in claims /\ t \in stale /\ \A c \in Chats : token[c] # t

ClaimExpires(t) ==
    /\ Outlived(t)
    /\ claims' = claims \ {t}
    /\ UNCHANGED <<minted, stale, attempts, timed, members, pc, token, faults, history>>

\* An admin unbind, under the chat lock.
Unbind(c, a) ==
    /\ pc[c] = "free"
    /\ Registry!Leave(c, a)
    /\ UNCHANGED <<minted, stale, store, pc, token, faults, history>>

Deadline(c) ==
    /\ pc[c] # "free"
    /\ Fault("deadline")
    /\ Return(c)
    /\ UNCHANGED <<minted, stale, store, members, history>>

Crash ==
    /\ Fault("crash")
    /\ pc' = [c \in Chats |-> "free"]
    /\ token' = [c \in Chats |-> Forged]
    /\ UNCHANGED <<minted, stale, store, members, history>>

-----------------------------------------------------------------------------
Step(c) ==
    \/ Incr(c) \/ Expire(c) \/ CounterFails(c)
    \/ Reject(c) \/ Claim(c) \/ ClaimFails(c)
    \/ BindSucceeds(c) \/ BindRejects(c) \/ BindLimited(c) \/ BindFails(c)
    \/ Release(c) \/ Refund(c)

Next ==
    \/ \E t \in Tokens, a \in Accounts : Mint(t, a)
    \/ \E c \in Chats : (\E t \in Tokens \cup {Forged} : Redeem(c, t)) \/ Step(c)
    \/ \E c \in Chats : WindowEnds(c) \/ Deadline(c) \/ \E a \in Accounts : Unbind(c, a)
    \/ \E t \in Tokens : TokenExpires(t) \/ ClaimExpires(t)
    \/ Crash

Spec == Init /\ [][Next]_vars

-----------------------------------------------------------------------------
(* Properties *)

\* A key is good for one Bind, however many chats send it at once and however
\* often it is sent, until it expires and after; unless a Bind that seemed to
\* fail was one.
OneRedemption == \A t \in Tokens : wins[t] > 1 => t \in unsure

\* Without a fault no key is lost: a claimed one is being redeemed, was good
\* for a Bind, or was rejected for good.  An account that is full, or a Zoho
\* that is down, leaves it usable.
KeysNotWasted ==
    faults = 0 =>
        \A t \in claims : \/ wins[t] > 0 \/ t \in rejected
                          \/ \E c \in Chats : token[c] = t

\* Without a fault an outage of Zoho costs no attempt: between two attempts of
\* a chat its counter is at most the number of those that got an answer.
BudgetIntact ==
    faults = 0 => \A c \in Chats : pc[c] = "free" => attempts[c] <= verdicts[c]

\* Without a fault a chat that has used up its attempts gets new ones: its
\* counter has its TTL, even when a refund came after the hour.
LockoutEnds ==
    faults = 0 => \A c \in Chats : pc[c] = "free" /\ attempts[c] > 0 => c \in timed
=============================================================================
