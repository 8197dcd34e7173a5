------------------------------- MODULE Registry -------------------------------
(***************************************************************************)
(* registry/registry.go: which client is behind a chat.  The binding is a  *)
(* custom field of a Zoho account; Redis holds what the bot believes of    *)
(* it, with TTLs.  Authorize runs for every update, before the chat lock   *)
(* is taken; Bind (after a token) and Revoke (admin unbind) run under the  *)
(* chat lock and, all chats together, under bindMu.                        *)
(*                                                                         *)
(* An account and its cf_bot_client_id are one thing here: operators do    *)
(* not move a client id to another account.                                *)
(***************************************************************************)
EXTENDS Naturals, FiniteSets

CONSTANTS
    Chats, Accounts,
    Talking,              \* the chats that write to the bot (Authorize)
    MaxChatsPerAccount,
    Env,                  \* what may go wrong, a subset of EnvEvents
    MaxFaults,            \* how often it does (a bound; not for "zoho" and "dissolve")
    NoAccount,            \* no value under the key, or no account found
    AuthUnknown           \* the negative entry of auth:{chat}

\* zoho:     a call fails and changes nothing
\* lost:     a PATCH is applied and its answer lost
\* redis:    an outage: commands fail, and leave the keys alone
\* skip:     a scan cannot read an account and goes on without it
\* expiry:   a key reaches its TTL
\* dissolve: an operator deletes an account
\* crash:    the process stops and starts again
EnvEvents == {"zoho", "lost", "redis", "skip", "expiry", "dissolve", "crash"}

ASSUME NullAssumption ==
    NoAccount \notin Accounts /\ AuthUnknown \notin Accounts /\ AuthUnknown # NoAccount
ASSUME LimitAssumption == MaxChatsPerAccount \in Nat
ASSUME FaultsAssumption == MaxFaults \in Nat
ASSUME TalkingAssumption == Talking \subseteq Chats
ASSUME EnvAssumption == Env \subseteq EnvEvents
ASSUME ChatsAssumption == IsFiniteSet(Chats)

VARIABLES
    \* Zoho
    chatIDs,    \* cf_telegram_chat_id of each account
    live,       \* the accounts that exist
    \* Redis
    auth,       \* auth:{chat}
    byChat,     \* acc_by_chat:{chat}
    byBot,      \* the accounts with an entry acc_by_botid:{id}
    profiles,   \* the accounts with an entry client:{id}
    redisUp,    \* its commands succeed
    faults,     \* the events of Env so far
    \* memory
    mayScan,    \* the scan limiter would allow a scan
    apc, aacc,  \* each chat's Authorize: its place and the account it found
    bpc, bacc,  \* each chat's Bind or Revoke: its place and its account
    bchats,     \* AccountInfo.ChatIDs it read
    \* history
    joined,     \* the accounts each chat has been put on
    settled,    \* how the chat's last Bind or Revoke ended
    crossed     \* the chats with an Authorize under way at that moment

zoho    == <<chatIDs, live>>
redis   == <<auth, byChat, byBot, profiles>>
world   == <<zoho, redisUp, faults>>
asking  == <<apc, aacc>>
binding == <<bpc, bacc, bchats>>
history == <<joined, settled, crossed>>
vars    == <<world, redis, mayScan, asking, binding, history>>

BindingPCs == {"free", "check_cache", "check_zoho", "patch", "bind_cache", "unpatch", "forget"}

TypeOK ==
    /\ chatIDs \in [Accounts -> SUBSET Chats]
    /\ live \subseteq Accounts
    /\ auth \in [Chats -> Accounts \cup {NoAccount, AuthUnknown}]
    /\ byChat \in [Chats -> Accounts \cup {NoAccount}]
    /\ byBot \subseteq Accounts
    /\ profiles \subseteq Accounts
    /\ redisUp \in BOOLEAN
    /\ faults \in 0..MaxFaults
    /\ mayScan \in BOOLEAN
    /\ apc \in [Chats -> {"free", "lookup", "scan", "refuse", "cache", "profile", "drop"}]
    /\ aacc \in [Chats -> Accounts \cup {NoAccount}]
    /\ bpc \in [Chats -> BindingPCs]
    /\ bacc \in [Chats -> Accounts \cup {NoAccount}]
    /\ bchats \in [Chats -> SUBSET Chats]
    /\ joined \in [Chats -> SUBSET Accounts]
    /\ settled \in [Chats -> {"open", "bound", "revoked"}]
    /\ crossed \subseteq Chats

Init ==
    /\ chatIDs = [a \in Accounts |-> {}]
    /\ live = Accounts
    /\ auth = [c \in Chats |-> NoAccount]
    /\ byChat = [c \in Chats |-> NoAccount]
    /\ byBot = {} /\ profiles = {}
    /\ redisUp = TRUE
    /\ faults = 0
    /\ mayScan = TRUE
    /\ apc = [c \in Chats |-> "free"]
    /\ aacc = [c \in Chats |-> NoAccount]
    /\ bpc = [c \in Chats |-> "free"]
    /\ bacc = [c \in Chats |-> NoAccount]
    /\ bchats = [c \in Chats |-> {}]
    /\ joined = [c \in Chats |-> {}]
    /\ settled = [c \in Chats |-> "open"]
    /\ crossed = {}

Fault(e) ==
    /\ e \in Env
    /\ faults < MaxFaults
    /\ faults' = faults + 1

-----------------------------------------------------------------------------
(* Reading Zoho *)

\* AccountByChatID: every account is read; one that cannot be is left out.
Scan(c) ==
    LET holders == {a \in Accounts : c \in chatIDs[a]}
    IN  IF holders = {} THEN {NoAccount}
        ELSE holders \cup (IF "skip" \in Env THEN {NoAccount} ELSE {})

\* The answers of AccountByBotClientID.
ScanByBot(a) ==
    {IF a \in live THEN a ELSE NoAccount} \cup (IF "skip" \in Env THEN {NoAccount} ELSE {})

\* The index entry of chat c, if it still holds; a failing read finds none.
Indexed(c) ==
    IF redisUp /\ byChat[c] # NoAccount /\ c \in chatIDs[byChat[c]]
    THEN byChat[c] ELSE NoAccount

\* What a key holds after a write whose failure is logged at most.
Written(old, new) == IF redisUp THEN new ELSE old

\* A stale index entry is dropped before the scan.
DropStale(c) ==
    IF redisUp /\ byChat[c] # NoAccount /\ c \notin chatIDs[byChat[c]]
    THEN byChat' = [byChat EXCEPT ![c] = NoAccount] ELSE UNCHANGED byChat

\* indexAccount, as part of the scan that found account a.
IndexAccount(a) ==
    /\ byBot' = Written(byBot, byBot \cup {a})
    /\ byChat' = Written(byChat, [c \in Chats |-> IF c \in chatIDs[a] THEN a ELSE byChat[c]])

\* cache(): the entry of the chat, the profile, both indexes.
Cache(c, a) ==
    /\ auth' = Written(auth, [auth EXCEPT ![c] = a])
    /\ profiles' = Written(profiles, profiles \cup {a})
    /\ byBot' = Written(byBot, byBot \cup {a})
    /\ byChat' = Written(byChat, [byChat EXCEPT ![c] = a])

-----------------------------------------------------------------------------
(* Authorize *)

Asked(c, pc, a) ==
    /\ apc' = [apc EXCEPT ![c] = pc]
    /\ aacc' = [aacc EXCEPT ![c] = a]

\* GetAuth: a hit goes on to the profile, "unknown" is refused at once, a miss
\* goes on to the lookup.
Authorize(c) ==
    /\ apc[c] = "free"
    /\ redisUp
    /\ auth[c] # AuthUnknown
    /\ IF auth[c] = NoAccount THEN Asked(c, "lookup", NoAccount)
                              ELSE Asked(c, "profile", auth[c])
    /\ UNCHANGED <<world, redis, mayScan, binding, history>>

\* Authorize gives up with an error: Zoho failed, or a throttled scan for a
\* profile (ErrScanThrottled is handled for a lookup only).
AuthorizeFails(c) ==
    /\ \/ apc[c] \in {"lookup", "scan", "profile"} /\ "zoho" \in Env
       \/ apc[c] = "profile" /\ ~mayScan
    /\ Asked(c, "free", NoAccount)
    /\ UNCHANGED <<world, redis, mayScan, binding, history>>

\* resolveByChatID, from the index,
LookUpIndex(c) ==
    /\ apc[c] = "lookup"
    /\ IF Indexed(c) = NoAccount THEN Asked(c, "scan", NoAccount) /\ DropStale(c)
                                 ELSE Asked(c, "cache", Indexed(c)) /\ UNCHANGED byChat
    /\ UNCHANGED <<world, auth, byBot, profiles, mayScan, binding, history>>

\* ... or by a scan, if the limiter allows one; else "unknown" for a minute.
ScanAccounts(c) ==
    /\ apc[c] = "scan"
    /\ IF mayScan
       THEN \E a \in Scan(c) :
              IF a = NoAccount THEN Asked(c, "refuse", NoAccount) /\ UNCHANGED <<byBot, byChat>>
                               ELSE Asked(c, "cache", a) /\ IndexAccount(a)
       ELSE Asked(c, "refuse", NoAccount) /\ UNCHANGED <<byBot, byChat>>
    /\ mayScan' = FALSE
    /\ UNCHANGED <<world, auth, profiles, binding, history>>

\* SetAuthUnknown, or SetAuthUnknownThrottled.
NegativeIndex(c) ==
    /\ apc[c] = "refuse"
    /\ byChat' = Written(byChat, [byChat EXCEPT ![c] = AuthUnknown])
    /\ Asked(c, "free", NoAccount)
    /\ UNCHANGED <<world, auth, byBot, profiles, mayScan, binding, history>>
Refuse(c) ==
    /\ apc[c] = "refuse"
    /\ auth' = Written(auth, [auth EXCEPT ![c] = AuthUnknown])
    /\ Asked(c, "free", NoAccount)
    /\ UNCHANGED <<world, byChat, byBot, profiles, mayScan, binding, history>>

CacheAuth(c) ==
    /\ apc[c] = "cache"
    /\ Cache(c, aacc[c])
    /\ Asked(c, "free", NoAccount)
    /\ UNCHANGED <<world, mayScan, binding, history>>

\* profileByID, from client:{id},
ReadProfile(c) ==
    /\ apc[c] = "profile"
    /\ redisUp /\ aacc[c] \in profiles
    /\ Asked(c, "free", NoAccount)
    /\ UNCHANGED <<world, redis, mayScan, binding, history>>

\* ... by the index and one GET,
FetchProfile(c) ==
    /\ apc[c] = "profile"
    /\ redisUp /\ aacc[c] \in (byBot \cap live) \ profiles
    /\ profiles' = Written(profiles, profiles \cup {aacc[c]})
    /\ Asked(c, "free", NoAccount)
    /\ UNCHANGED <<world, auth, byChat, byBot, mayScan, binding, history>>

\* ... or by a scan.
ScanForProfile(c) ==
    /\ apc[c] = "profile"
    /\ ~redisUp \/ aacc[c] \notin profiles \cup (byBot \cap live)
    /\ mayScan
    /\ mayScan' = FALSE
    /\ \E a \in ScanByBot(aacc[c]) :
          IF a = NoAccount
          THEN Asked(c, "drop", NoAccount) /\ UNCHANGED <<profiles, byBot, byChat>>
          ELSE /\ Asked(c, "free", NoAccount)
               /\ profiles' = Written(profiles, profiles \cup {a})
               /\ IndexAccount(a)
    /\ UNCHANGED <<world, auth, binding, history>>

\* The account is gone: the stale binding is dropped.
DropAuth(c) ==
    /\ apc[c] = "drop"
    /\ auth' = Written(auth, [auth EXCEPT ![c] = NoAccount])
    /\ Asked(c, "free", NoAccount)
    /\ UNCHANGED <<world, byChat, byBot, profiles, mayScan, binding, history>>

-----------------------------------------------------------------------------
(* Bind and Revoke *)

Goto(c, pc) == bpc' = [bpc EXCEPT ![c] = pc]

Return(c) ==
    /\ Goto(c, "free")
    /\ bacc' = [bacc EXCEPT ![c] = NoAccount]
    /\ bchats' = [bchats EXCEPT ![c] = {}]

\* It returned nil; the chat's Authorize of the moment may be behind.
Settle(c, s) ==
    /\ settled' = [settled EXCEPT ![c] = s]
    /\ crossed' = IF apc[c] = "free" THEN crossed \ {c} ELSE crossed \cup {c}

EnterBind(c, a) ==
    /\ Goto(c, "check_cache")
    /\ bacc' = [bacc EXCEPT ![c] = a]
    /\ bchats' = [bchats EXCEPT ![c] = chatIDs[a]]

NoBindMu == TRUE
BindMuFree == \A c \in Chats : bpc[c] = "free"

Open(c) == settled' = [settled EXCEPT ![c] = "open"]

\* The lock, and resolveByBotID; the scan is not limited here.
StartBind(c, a) ==
    /\ bpc[c] = "free"
    /\ BindMuFree
    /\ Open(c)
    /\ IF redisUp /\ a \in byBot \cap live
       THEN EnterBind(c, a) /\ UNCHANGED <<byBot, byChat>>
       ELSE \E found \in ScanByBot(a) :
              IF found = NoAccount
              THEN UNCHANGED <<binding, byBot, byChat>>
              ELSE EnterBind(c, a) /\ IndexAccount(a)
    /\ UNCHANGED <<world, auth, profiles, mayScan, asking, joined, crossed>>

\* Isolation by the cache; a failing read passes.  A chat already on the
\* account needs no write.
CheckCache(c) ==
    /\ bpc[c] = "check_cache"
    /\ \/ /\ redisUp /\ auth[c] \in Accounts \ {bacc[c]}
          /\ Return(c)
       \/ /\ ~redisUp \/ auth[c] \notin Accounts \ {bacc[c]}
          /\ Goto(c, IF c \in bchats[c] THEN "bind_cache" ELSE "check_zoho")
          /\ UNCHANGED <<bacc, bchats>>
    /\ UNCHANGED <<world, redis, mayScan, asking, history>>

\* The account bound to the chat, by index or unlimited scan.
ResolveByChatID(c) ==
    IF Indexed(c) = NoAccount THEN Scan(c) ELSE {Indexed(c)}

\* What that leaves in the indexes when the answer is a.
Reindex(c, a) ==
    IF Indexed(c) # NoAccount THEN UNCHANGED <<byBot, byChat>>
    ELSE IF a = NoAccount THEN DropStale(c) /\ UNCHANGED byBot
    ELSE IndexAccount(a)

\* Isolation by Zoho, then the limit.
CheckZoho(c) ==
    /\ bpc[c] = "check_zoho"
    /\ \E other \in ResolveByChatID(c) :
          /\ IF other \in {NoAccount, bacc[c]} /\ Cardinality(bchats[c]) < MaxChatsPerAccount
             THEN Goto(c, "patch") /\ UNCHANGED <<bacc, bchats>>
             ELSE Return(c)
          /\ Reindex(c, other)
    /\ UNCHANGED <<world, auth, profiles, mayScan, asking, history>>

\* SetAccountChatIDs overwrites the whole list.
PatchChatIDs(c, list) ==
    /\ bacc[c] \in live
    /\ chatIDs' = [chatIDs EXCEPT ![bacc[c]] = list]

Patch(c) ==
    /\ bpc[c] = "patch"
    /\ PatchChatIDs(c, bchats[c] \cup {c})
    /\ joined' = [joined EXCEPT ![c] = @ \cup {bacc[c]}]
    /\ \/ Goto(c, "bind_cache") /\ UNCHANGED <<bacc, bchats, faults>>
       \/ Fault("lost") /\ Return(c)
    /\ UNCHANGED <<live, redisUp, redis, mayScan, asking, settled, crossed>>

BindCache(c) ==
    /\ bpc[c] = "bind_cache"
    /\ Cache(c, bacc[c])
    /\ Return(c)
    /\ IF auth'[c] = bacc[c] THEN Settle(c, "bound") ELSE UNCHANGED <<settled, crossed>>
    /\ UNCHANGED <<world, mayScan, asking, joined>>

StartRevoke(c) ==
    /\ bpc[c] = "free"
    /\ BindMuFree
    /\ Open(c)
    /\ \E a \in ResolveByChatID(c) :
          /\ IF a = NoAccount
             THEN Goto(c, "forget") /\ UNCHANGED <<bacc, bchats>>
             ELSE /\ Goto(c, "unpatch")
                  /\ bacc' = [bacc EXCEPT ![c] = a]
                  /\ bchats' = [bchats EXCEPT ![c] = chatIDs[a]]
          /\ Reindex(c, a)
    /\ UNCHANGED <<world, auth, profiles, mayScan, asking, joined, crossed>>

Unpatch(c) ==
    /\ bpc[c] = "unpatch"
    /\ PatchChatIDs(c, bchats[c] \ {c})
    /\ \/ Goto(c, "forget") /\ UNCHANGED <<bacc, bchats, faults>>
       \/ Fault("lost") /\ Return(c)
    /\ UNCHANGED <<live, redisUp, redis, mayScan, asking, history>>

\* DelAccountIDByChat, whose error is logged, and DelAuth, whose error is
\* Revoke's.
IndexOnly(c) ==
    /\ bpc[c] = "forget"
    /\ byChat' = Written(byChat, [byChat EXCEPT ![c] = NoAccount])
    /\ IF redisUp THEN Settle(c, "revoked") ELSE UNCHANGED <<settled, crossed>>
    /\ Return(c)
    /\ UNCHANGED <<world, auth, byBot, profiles, mayScan, asking, joined>>
Forget(c) ==
    /\ bpc[c] = "forget"
    /\ byChat' = Written(byChat, [byChat EXCEPT ![c] = NoAccount])
    /\ auth' = Written(auth, [auth EXCEPT ![c] = NoAccount])
    /\ IF redisUp THEN Settle(c, "revoked") ELSE UNCHANGED <<settled, crossed>>
    /\ Return(c)
    /\ UNCHANGED <<world, byBot, profiles, mayScan, asking, joined>>

\* A call of Zoho fails, or the account it patches is gone.  (One that fails
\* in StartBind or StartRevoke changes nothing.)
CachedAnyway(c) ==
    /\ bpc[c] \in {"check_zoho", "patch", "unpatch"} /\ "zoho" \in Env
    /\ IF bpc[c] = "patch" THEN Goto(c, "bind_cache") /\ UNCHANGED <<bacc, bchats>>
                           ELSE Return(c)
    /\ UNCHANGED <<world, redis, mayScan, asking, history>>
BindingFails(c) ==
    /\ \/ bpc[c] \in {"check_zoho", "patch", "unpatch"} /\ "zoho" \in Env
       \/ bpc[c] \in {"patch", "unpatch"} /\ bacc[c] \notin live
    /\ Return(c)
    /\ UNCHANGED <<world, redis, mayScan, asking, history>>

-----------------------------------------------------------------------------
(* Time and the environment *)

ScanInterval ==
    /\ ~mayScan
    /\ mayScan' = TRUE
    /\ UNCHANGED <<world, redis, asking, binding, history>>

ExpireChatKeys(c) ==
    /\ Fault("expiry")
    /\ \/ auth' = [auth EXCEPT ![c] = NoAccount] /\ UNCHANGED byChat
       \/ byChat' = [byChat EXCEPT ![c] = NoAccount] /\ UNCHANGED auth
    /\ settled' = [settled EXCEPT ![c] = IF @ = "bound" THEN "open" ELSE @]
    /\ UNCHANGED <<zoho, redisUp, byBot, profiles, mayScan, asking, binding, joined, crossed>>

ExpireAccountKeys(a) ==
    /\ Fault("expiry")
    /\ \/ byBot' = byBot \ {a} /\ UNCHANGED profiles
       \/ profiles' = profiles \ {a} /\ UNCHANGED byBot
    /\ UNCHANGED <<zoho, redisUp, auth, byChat, mayScan, asking, binding, history>>

DissolveAccount(a) ==
    /\ "dissolve" \in Env
    /\ a \in live
    /\ live' = live \ {a}
    /\ chatIDs' = [chatIDs EXCEPT ![a] = {}]
    /\ UNCHANGED <<redisUp, faults, redis, mayScan, asking, binding, history>>

RedisOutage ==
    /\ redisUp
    /\ Fault("redis")
    /\ redisUp' = FALSE
    /\ UNCHANGED <<zoho, redis, mayScan, asking, binding, history>>

RedisBack ==
    /\ ~redisUp
    /\ redisUp' = TRUE
    /\ UNCHANGED <<zoho, faults, redis, mayScan, asking, binding, history>>

Crash ==
    /\ Fault("crash")
    /\ mayScan' = TRUE
    /\ apc' = [c \in Chats |-> "free"]
    /\ aacc' = [c \in Chats |-> NoAccount]
    /\ bpc' = [c \in Chats |-> "free"]
    /\ bacc' = [c \in Chats |-> NoAccount]
    /\ bchats' = [c \in Chats |-> {}]
    /\ UNCHANGED <<zoho, redisUp, redis, history>>

-----------------------------------------------------------------------------
AuthorizeStep(c) ==
    \/ Authorize(c) \/ AuthorizeFails(c) \/ LookUpIndex(c) \/ ScanAccounts(c)
    \/ Refuse(c) \/ CacheAuth(c)
    \/ ReadProfile(c) \/ FetchProfile(c) \/ ScanForProfile(c) \/ DropAuth(c)

BindingStep(c) ==
    \/ \E a \in Accounts : StartBind(c, a)
    \/ CheckCache(c) \/ CheckZoho(c) \/ Patch(c) \/ BindCache(c)
    \/ StartRevoke(c) \/ Unpatch(c) \/ Forget(c) \/ BindingFails(c)

Next ==
    \/ \E c \in Talking : AuthorizeStep(c)
    \/ \E c \in Chats : BindingStep(c) \/ ExpireChatKeys(c)
    \/ \E a \in Accounts : ExpireAccountKeys(a) \/ DissolveAccount(a)
    \/ ScanInterval \/ RedisOutage \/ RedisBack \/ Crash

Spec == Init /\ [][Next]_vars

-----------------------------------------------------------------------------
(* Properties *)

\* Whatever fails, expires or is deleted, and however Bind, Revoke and
\* Authorize interleave, the lists in Zoho change as AccountMembers allows: no
\* chat on two accounts, no list over the limit, and no write undoes another.
Members == INSTANCE AccountMembers WITH members <- chatIDs
Exclusive == Members!Spec

\* Authorize never takes a chat for a client on whose account it has not been
\* put by a key: tenants do not see each other's services and tickets.
OnlyOwnAccount ==
    \A c \in Chats : auth[c] \in Accounts => auth[c] \in joined[c]

\* The cache has the last word of a Bind or Revoke that returned without an
\* error, whatever Authorize does later: a revoked chat is out until the next
\* Bind; a bound one is not turned away until its keys expire (a throttled
\* scan then takes it for unknown).  The exception is a chat with an Authorize
\* under way at that very moment, which may overwrite the answer.
LastWordHolds ==
    \A c \in Chats \ crossed :
        /\ settled[c] = "revoked" => auth[c] \notin Accounts
        /\ settled[c] = "bound" /\ (\E a \in Accounts : c \in chatIDs[a]) =>
               auth[c] # AuthUnknown
=============================================================================
