---------------------------- MODULE RegistryProofs ----------------------------
(***************************************************************************)
(* Theorems about Registry, for all finite sets of chats and all accounts, *)
(* limits and faults.                                                      *)
(***************************************************************************)
EXTENDS Registry, FiniteSetTheorems, TLAPS

-----------------------------------------------------------------------------
(* Types *)

\* Who is past the lookup has an account in hand.
Located ==
    \A c \in Chats :
        /\ apc[c] \in {"cache", "profile"} => aacc[c] \in Accounts
        /\ bpc[c] \in {"check_cache", "check_zoho", "patch", "bind_cache", "unpatch"} =>
               bacc[c] \in Accounts

TypeInv == TypeOK /\ Located

LEMMA InitType == Init => TypeInv
<1> SUFFICES ASSUME Init PROVE TypeInv
  OBVIOUS
<1>1. /\ chatIDs \in [Accounts -> SUBSET Chats]
      /\ auth \in [Chats -> Accounts \cup {NoAccount, AuthUnknown}]
      /\ byChat \in [Chats -> Accounts \cup {NoAccount}]
  BY DEF Init
<1>2. /\ apc \in [Chats -> {"free", "lookup", "scan", "refuse", "cache", "profile", "drop"}]
      /\ aacc \in [Chats -> Accounts \cup {NoAccount}]
      /\ bpc \in [Chats -> BindingPCs]
      /\ bacc \in [Chats -> Accounts \cup {NoAccount}]
      /\ bchats \in [Chats -> SUBSET Chats]
  BY DEF Init, BindingPCs
<1>3. /\ joined \in [Chats -> SUBSET Accounts]
      /\ settled \in [Chats -> {"open", "bound", "revoked"}]
      /\ crossed \subseteq Chats
  BY DEF Init
<1>4. faults \in 0..MaxFaults
  BY FaultsAssumption DEF Init
<1>5. Located
  BY DEF Init, Located
<1> QED
  BY <1>1, <1>2, <1>3, <1>4, <1>5 DEF Init, TypeInv, TypeOK

LEMMA FaultCounted ==
    ASSUME TypeOK, NEW e, Fault(e)
    PROVE  faults' \in 0..MaxFaults
BY FaultsAssumption DEF TypeOK, Fault

\* What the reading operators answer, and the writing ones write, has its type.
LEMMA IndexedType ==
    ASSUME TypeOK, NEW c \in Chats
    PROVE  /\ Indexed(c) \in Accounts \cup {NoAccount}
           /\ Scan(c) \subseteq Accounts \cup {NoAccount}
           /\ ResolveByChatID(c) \subseteq Accounts \cup {NoAccount}
BY DEF TypeOK, Indexed, Scan, ResolveByChatID

LEMMA IndexType ==
    ASSUME TypeOK, NEW a \in Accounts, IndexAccount(a)
    PROVE  byBot' \subseteq Accounts /\ byChat' \in [Chats -> Accounts \cup {NoAccount}]
BY DEF TypeOK, IndexAccount, Written

LEMMA DropStaleType ==
    ASSUME TypeOK, NEW c \in Chats, DropStale(c)
    PROVE  byChat' \in [Chats -> Accounts \cup {NoAccount}]
BY DEF TypeOK, DropStale

LEMMA ReindexType ==
    ASSUME TypeOK, NEW c \in Chats, NEW a \in Accounts \cup {NoAccount}, Reindex(c, a)
    PROVE  byBot' \subseteq Accounts /\ byChat' \in [Chats -> Accounts \cup {NoAccount}]
<1>1. CASE Indexed(c) # NoAccount
  BY <1>1 DEF Reindex, TypeOK
<1>2. CASE Indexed(c) = NoAccount /\ a = NoAccount
  BY <1>2, DropStaleType DEF Reindex, TypeOK
<1>3. CASE Indexed(c) = NoAccount /\ a # NoAccount
  BY <1>3, IndexType DEF Reindex
<1> QED
  BY <1>1, <1>2, <1>3

LEMMA CacheType ==
    ASSUME TypeOK, NEW c \in Chats, NEW a \in Accounts, Cache(c, a)
    PROVE  /\ auth' \in [Chats -> Accounts \cup {NoAccount, AuthUnknown}]
           /\ byChat' \in [Chats -> Accounts \cup {NoAccount}]
           /\ byBot' \subseteq Accounts /\ profiles' \subseteq Accounts
BY DEF TypeOK, Cache, Written

\* The typing of what Authorize changes, and of what Bind and Revoke change.
LEMMA AskedType ==
    ASSUME TypeInv, NEW c \in Chats, NEW a \in Accounts \cup {NoAccount},
           NEW pc \in {"free", "lookup", "scan", "refuse", "cache", "profile", "drop"},
           pc \in {"cache", "profile"} => a \in Accounts,
           Asked(c, pc, a), UNCHANGED binding
    PROVE  /\ apc' \in [Chats -> {"free", "lookup", "scan", "refuse", "cache", "profile", "drop"}]
           /\ aacc' \in [Chats -> Accounts \cup {NoAccount}]
           /\ bpc' \in [Chats -> BindingPCs]
           /\ bacc' \in [Chats -> Accounts \cup {NoAccount}]
           /\ bchats' \in [Chats -> SUBSET Chats]
           /\ Located'
BY DEF TypeInv, TypeOK, Located, Asked, binding

LEMMA BindingType ==
    ASSUME TypeInv, NEW c \in Chats, NEW a \in Accounts \cup {NoAccount},
           NEW pc \in BindingPCs, NEW S \in SUBSET Chats,
           pc \in {"free", "forget"} \/ a \in Accounts,
           bpc' = [bpc EXCEPT ![c] = pc],
           bacc' = [bacc EXCEPT ![c] = a],
           bchats' = [bchats EXCEPT ![c] = S],
           UNCHANGED asking
    PROVE  /\ apc' \in [Chats -> {"free", "lookup", "scan", "refuse", "cache", "profile", "drop"}]
           /\ aacc' \in [Chats -> Accounts \cup {NoAccount}]
           /\ bpc' \in [Chats -> BindingPCs]
           /\ bacc' \in [Chats -> Accounts \cup {NoAccount}]
           /\ bchats' \in [Chats -> SUBSET Chats]
           /\ Located'
BY DEF TypeInv, TypeOK, Located, asking

\* Nothing of Bind and Revoke's, or of Authorize's, changes.
LEMMA BindingKept ==
    ASSUME TypeOK, UNCHANGED binding
    PROVE  /\ bpc' \in [Chats -> BindingPCs]
           /\ bacc' \in [Chats -> Accounts \cup {NoAccount}]
           /\ bchats' \in [Chats -> SUBSET Chats]
BY DEF TypeOK, binding

LEMMA ReturnType ==
    ASSUME TypeInv, NEW c \in Chats, Return(c), UNCHANGED asking
    PROVE  /\ apc' \in [Chats -> {"free", "lookup", "scan", "refuse", "cache", "profile", "drop"}]
           /\ aacc' \in [Chats -> Accounts \cup {NoAccount}]
           /\ bpc' \in [Chats -> BindingPCs]
           /\ bacc' \in [Chats -> Accounts \cup {NoAccount}]
           /\ bchats' \in [Chats -> SUBSET Chats]
           /\ Located'
<1>1. "free" \in BindingPCs /\ {} \in SUBSET Chats
  BY DEF BindingPCs
<1> QED
  BY <1>1, BindingType DEF Return, Goto

LEMMA GotoType ==
    ASSUME TypeInv, NEW c \in Chats, NEW pc \in BindingPCs \ {"free"}, Goto(c, pc),
           UNCHANGED <<asking, bacc, bchats>>, bpc[c] \notin {"free", "forget"} \/ pc = "forget"
    PROVE  /\ apc' \in [Chats -> {"free", "lookup", "scan", "refuse", "cache", "profile", "drop"}]
           /\ aacc' \in [Chats -> Accounts \cup {NoAccount}]
           /\ bpc' \in [Chats -> BindingPCs]
           /\ bacc' \in [Chats -> Accounts \cup {NoAccount}]
           /\ bchats' \in [Chats -> SUBSET Chats]
           /\ Located'
BY DEF TypeInv, TypeOK, Located, Goto, asking, BindingPCs

LEMMA SettleType ==
    ASSUME TypeOK, NEW c \in Chats, NEW s \in {"open", "bound", "revoked"}, Settle(c, s)
    PROVE  /\ settled' \in [Chats -> {"open", "bound", "revoked"}]
           /\ crossed' \subseteq Chats
BY DEF TypeOK, Settle

LEMMA AuthorizeType ==
    ASSUME TypeInv, NEW c \in Talking, AuthorizeStep(c)
    PROVE  TypeInv'
<1> c \in Chats
  BY TalkingAssumption
<1> USE DEF TypeInv, TypeOK
<1>1. CASE Authorize(c)
  <2>1. CASE auth[c] = NoAccount
    BY <1>1, <2>1, AskedType DEF Authorize, world, zoho, redis, history, binding
  <2>2. CASE auth[c] # NoAccount
    BY <1>1, <2>2, AskedType DEF Authorize, world, zoho, redis, history, binding
  <2> QED
    BY <2>1, <2>2
<1>2. CASE AuthorizeFails(c)
  BY <1>2, AskedType DEF AuthorizeFails, world, zoho, redis, history, binding
<1>3. CASE LookUpIndex(c)
  <2>1. CASE Indexed(c) = NoAccount
    BY <1>3, <2>1, AskedType, DropStaleType DEF LookUpIndex, world, zoho, redis, history, binding
  <2>2. CASE Indexed(c) # NoAccount
    BY <1>3, <2>2, AskedType, IndexedType DEF LookUpIndex, world, zoho, redis, history, binding
  <2> QED
    BY <2>1, <2>2
<1>4. CASE ScanAccounts(c)
  <2>1. CASE Asked(c, "refuse", NoAccount) /\ UNCHANGED <<byBot, byChat>>
    BY <1>4, <2>1, AskedType DEF ScanAccounts, world, zoho, redis, history, binding
  <2>2. CASE \E a \in Accounts : Asked(c, "cache", a) /\ IndexAccount(a)
    BY <1>4, <2>2, AskedType, IndexType DEF ScanAccounts, world, zoho, redis, history, binding
  <2> QED
    BY <1>4, <2>1, <2>2, IndexedType DEF ScanAccounts
<1>5. CASE Refuse(c)
  BY <1>5, AskedType DEF Refuse, Written, world, zoho, redis, history, binding
<1>6. CASE CacheAuth(c)
  <2>1. aacc[c] \in Accounts
    BY <1>6 DEF CacheAuth, Located
  <2> QED
    BY <1>6, <2>1, AskedType, CacheType DEF CacheAuth, world, zoho, history, binding
<1>7. CASE ReadProfile(c)
  BY <1>7, AskedType DEF ReadProfile, world, zoho, redis, history, binding
<1>8. CASE FetchProfile(c)
  BY <1>8, AskedType DEF FetchProfile, Written, world, zoho, redis, history, binding
<1>9. CASE ScanForProfile(c)
  <2>1. ScanByBot(aacc[c]) \subseteq Accounts \cup {NoAccount}
    BY <1>9 DEF ScanForProfile, Located, ScanByBot
  <2>2. CASE Asked(c, "drop", NoAccount) /\ UNCHANGED <<profiles, byBot, byChat>>
    BY <1>9, <2>2, AskedType DEF ScanForProfile, world, zoho, redis, history, binding
  <2>3. CASE /\ Asked(c, "free", NoAccount)
             /\ \E a \in Accounts : /\ profiles' = Written(profiles, profiles \cup {a})
                                    /\ IndexAccount(a)
    BY <1>9, <2>3, AskedType, IndexType DEF ScanForProfile, Written, world, zoho, history, binding
  <2> QED
    BY <1>9, <2>1, <2>2, <2>3 DEF ScanForProfile
<1>10. CASE DropAuth(c)
  BY <1>10, AskedType DEF DropAuth, Written, world, zoho, redis, history, binding
<1> QED
  BY <1>1, <1>2, <1>3, <1>4, <1>5, <1>6, <1>7, <1>8, <1>9, <1>10 DEF AuthorizeStep

LEMMA BindingStepType ==
    ASSUME TypeInv, NEW c \in Chats, BindingStep(c)
    PROVE  TypeInv'
<1> USE DEF TypeInv, TypeOK
<1>1. ASSUME NEW a \in Accounts, StartBind(c, a) PROVE TypeInv'
  <2>0. "check_cache" \in BindingPCs /\ chatIDs[a] \in SUBSET Chats
    BY DEF BindingPCs
  <2>1. settled' \in [Chats -> {"open", "bound", "revoked"}]
    BY <1>1 DEF StartBind, Open
  <2>2. CASE EnterBind(c, a) /\ UNCHANGED <<byBot, byChat>>
    BY <1>1, <2>0, <2>1, <2>2, BindingType DEF StartBind, EnterBind, Goto, world, zoho
  <2>3. CASE EnterBind(c, a) /\ IndexAccount(a)
    BY <1>1, <2>0, <2>1, <2>3, BindingType, IndexType DEF StartBind, EnterBind, Goto, world, zoho
  <2>4. CASE UNCHANGED <<binding, byBot, byChat>>
    BY <1>1, <2>1, <2>4, BindingKept DEF StartBind, Located, binding, world, zoho, asking
  <2> QED
    BY <1>1, <2>2, <2>3, <2>4 DEF StartBind
<1>2. CASE CheckCache(c)
  <2>1. CASE Return(c)
    BY <1>2, <2>1, ReturnType DEF CheckCache, world, zoho, redis, history
  <2>2. CASE /\ Goto(c, IF c \in bchats[c] THEN "bind_cache" ELSE "check_zoho")
             /\ UNCHANGED <<bacc, bchats>>
    <3>1. {"bind_cache", "check_zoho"} \subseteq BindingPCs \ {"free"}
      BY DEF BindingPCs
    <3> QED
      BY <1>2, <2>2, <3>1, GotoType DEF CheckCache, world, zoho, redis, history
  <2> QED
    BY <1>2, <2>1, <2>2 DEF CheckCache
<1>3. CASE CheckZoho(c)
  <2>1. byBot' \subseteq Accounts /\ byChat' \in [Chats -> Accounts \cup {NoAccount}]
    BY <1>3, IndexedType, ReindexType DEF CheckZoho
  <2>2. CASE Return(c)
    BY <1>3, <2>1, <2>2, ReturnType DEF CheckZoho, world, zoho, history
  <2>3. CASE Goto(c, "patch") /\ UNCHANGED <<bacc, bchats>>
    <3>1. "patch" \in BindingPCs \ {"free"}
      BY DEF BindingPCs
    <3> QED
      BY <1>3, <2>1, <2>3, <3>1, GotoType DEF CheckZoho, world, zoho, history
  <2> QED
    BY <1>3, <2>2, <2>3 DEF CheckZoho
<1>4. CASE Patch(c)
  <2>1. bacc[c] \in Accounts
    BY <1>4 DEF Patch, Located
  <2>2. chatIDs' \in [Accounts -> SUBSET Chats] /\ joined' \in [Chats -> SUBSET Accounts]
    BY <1>4, <2>1 DEF Patch, PatchChatIDs
  <2>3. CASE Goto(c, "bind_cache") /\ UNCHANGED <<bacc, bchats, faults>>
    <3>1. "bind_cache" \in BindingPCs \ {"free"}
      BY DEF BindingPCs
    <3> QED
      BY <1>4, <2>2, <2>3, <3>1, GotoType DEF Patch, redis
  <2>4. CASE Fault("lost") /\ Return(c)
    BY <1>4, <2>2, <2>4, ReturnType, FaultCounted DEF Patch, redis
  <2> QED
    BY <1>4, <2>3, <2>4 DEF Patch
<1>5. CASE BindCache(c)
  <2>1. bacc[c] \in Accounts
    BY <1>5 DEF BindCache, Located
  <2>2. settled' \in [Chats -> {"open", "bound", "revoked"}] /\ crossed' \subseteq Chats
    BY <1>5, SettleType DEF BindCache
  <2> QED
    BY <1>5, <2>1, <2>2, CacheType, ReturnType DEF BindCache, world, zoho
<1>6. CASE StartRevoke(c)
  <2>1. settled' \in [Chats -> {"open", "bound", "revoked"}]
    BY <1>6 DEF StartRevoke, Open
  <2>2. byBot' \subseteq Accounts /\ byChat' \in [Chats -> Accounts \cup {NoAccount}]
    BY <1>6, IndexedType, ReindexType DEF StartRevoke
  <2>3. CASE Goto(c, "forget") /\ UNCHANGED <<bacc, bchats>>
    <3>1. "forget" \in BindingPCs \ {"free"}
      BY DEF BindingPCs
    <3> QED
      BY <1>6, <2>1, <2>2, <2>3, <3>1, GotoType DEF StartRevoke, world, zoho
  <2>4. CASE \E a \in Accounts : /\ Goto(c, "unpatch")
                                 /\ bacc' = [bacc EXCEPT ![c] = a]
                                 /\ bchats' = [bchats EXCEPT ![c] = chatIDs[a]]
    <3>1. PICK a \in Accounts : /\ bpc' = [bpc EXCEPT ![c] = "unpatch"]
                               /\ bacc' = [bacc EXCEPT ![c] = a]
                               /\ bchats' = [bchats EXCEPT ![c] = chatIDs[a]]
      BY <2>4 DEF Goto
    <3>2. "unpatch" \in BindingPCs /\ chatIDs[a] \in SUBSET Chats
      BY DEF BindingPCs
    <3>3. /\ apc' \in [Chats -> {"free", "lookup", "scan", "refuse", "cache", "profile", "drop"}]
          /\ aacc' \in [Chats -> Accounts \cup {NoAccount}]
          /\ bpc' \in [Chats -> BindingPCs]
          /\ bacc' \in [Chats -> Accounts \cup {NoAccount}]
          /\ bchats' \in [Chats -> SUBSET Chats]
          /\ Located'
      BY <1>6, <3>1, <3>2, BindingType, ZenonT(40) DEF StartRevoke
    <3> QED
      BY <1>6, <2>1, <2>2, <3>3 DEF StartRevoke, world, zoho
  <2> QED
    BY <1>6, <2>3, <2>4, IndexedType DEF StartRevoke
<1>7. CASE Unpatch(c)
  <2>1. bacc[c] \in Accounts
    BY <1>7 DEF Unpatch, Located
  <2>2. chatIDs' \in [Accounts -> SUBSET Chats]
    BY <1>7, <2>1 DEF Unpatch, PatchChatIDs
  <2>3. CASE Goto(c, "forget") /\ UNCHANGED <<bacc, bchats, faults>>
    <3>1. "forget" \in BindingPCs \ {"free"}
      BY DEF BindingPCs
    <3> QED
      BY <1>7, <2>2, <2>3, <3>1, GotoType DEF Unpatch, redis, history
  <2>4. CASE Fault("lost") /\ Return(c)
    BY <1>7, <2>2, <2>4, ReturnType, FaultCounted DEF Unpatch, redis, history
  <2> QED
    BY <1>7, <2>3, <2>4 DEF Unpatch
<1>8. CASE Forget(c)
  <2>1. settled' \in [Chats -> {"open", "bound", "revoked"}] /\ crossed' \subseteq Chats
    BY <1>8, SettleType DEF Forget
  <2> QED
    BY <1>8, <2>1, ReturnType DEF Forget, Written, world, zoho
<1>9. CASE BindingFails(c)
  BY <1>9, ReturnType DEF BindingFails, world, zoho, redis, history
<1> QED
  BY <1>1, <1>2, <1>3, <1>4, <1>5, <1>6, <1>7, <1>8, <1>9 DEF BindingStep

LEMMA EnvironmentType ==
    ASSUME TypeInv,
           \/ \E c \in Chats : ExpireChatKeys(c)
           \/ \E a \in Accounts : ExpireAccountKeys(a) \/ DissolveAccount(a)
           \/ ScanInterval \/ RedisOutage \/ RedisBack \/ Crash
    PROVE  TypeInv'
<1> USE DEF TypeInv, TypeOK
<1>1. ASSUME NEW c \in Chats, ExpireChatKeys(c) PROVE TypeInv'
  <2>1. settled' \in [Chats -> {"open", "bound", "revoked"}]
    BY <1>1 DEF ExpireChatKeys
  <2> QED
    BY <1>1, <2>1, FaultCounted DEF ExpireChatKeys, Located, zoho, asking, binding
<1>2. ASSUME NEW a \in Accounts, ExpireAccountKeys(a) PROVE TypeInv'
  BY <1>2, FaultCounted DEF ExpireAccountKeys, Located, zoho, asking, binding, history
<1>3. ASSUME NEW a \in Accounts, DissolveAccount(a) PROVE TypeInv'
  BY <1>3 DEF DissolveAccount, Located, redis, asking, binding, history
<1>4. CASE ScanInterval
  BY <1>4 DEF ScanInterval, Located, world, zoho, redis, asking, binding, history
<1>5. CASE RedisOutage \/ RedisBack
  BY <1>5, FaultCounted DEF RedisOutage, RedisBack, Located, zoho, redis, asking, binding, history
<1>6. CASE Crash
  <2>1. /\ apc' \in [Chats -> {"free", "lookup", "scan", "refuse", "cache", "profile", "drop"}]
        /\ aacc' \in [Chats -> Accounts \cup {NoAccount}]
        /\ bpc' \in [Chats -> BindingPCs]
        /\ bacc' \in [Chats -> Accounts \cup {NoAccount}]
        /\ bchats' \in [Chats -> SUBSET Chats]
    BY <1>6 DEF Crash, BindingPCs
  <2>2. Located'
    BY <1>6 DEF Crash, Located
  <2> QED
    BY <1>6, <2>1, <2>2, FaultCounted DEF Crash, zoho, redis, history
<1> QED
  BY <1>1, <1>2, <1>3, <1>4, <1>5, <1>6

LEMMA StepType == TypeInv /\ [Next]_vars => TypeInv'
<1> SUFFICES ASSUME TypeInv, [Next]_vars PROVE TypeInv'
  OBVIOUS
<1>1. CASE \E c \in Talking : AuthorizeStep(c)
  BY <1>1, AuthorizeType
<1>2. CASE \E c \in Chats : BindingStep(c)
  BY <1>2, BindingStepType
<1>3. CASE UNCHANGED vars
  BY <1>3 DEF TypeInv, TypeOK, Located, vars, world, zoho, redis, asking, binding, history
<1> QED
  BY <1>1, <1>2, <1>3, EnvironmentType DEF Next

\* Every variable keeps its type: no key ever holds what its reader cannot
\* parse, and no call ever works on an account it has not found.
THEOREM TypeCorrect == Spec => []TypeOK
<1>1. TypeInv => TypeOK
  BY DEF TypeInv
<1> QED
  BY <1>1, InitType, StepType, PTL DEF Spec

-----------------------------------------------------------------------------
(* The lists in Zoho *)

\* One call of Bind or Revoke runs at a time; what it read of its account is
\* what the account holds, as long as the account exists; and on the way to a
\* PATCH the chat is where the code believes it is.
Exclusion ==
    \A c, d \in Chats : bpc[c] # "free" /\ bpc[d] # "free" => c = d

ReadHolds ==
    \A c \in Chats :
        bpc[c] \in {"check_cache", "check_zoho", "patch", "unpatch"} /\ bacc[c] \in live =>
            bchats[c] = chatIDs[bacc[c]]

Placed ==
    \A c \in Chats :
        /\ bpc[c] \in {"check_zoho", "patch"} => c \notin bchats[c]
        /\ bpc[c] = "patch" => /\ \A a \in Accounts : c \notin chatIDs[a]
                               /\ Cardinality(bchats[c]) < MaxChatsPerAccount
        /\ bpc[c] = "unpatch" => c \in bchats[c]

Emptied == \A a \in Accounts \ live : chatIDs[a] = {}

ListsInv == TypeInv /\ Exclusion /\ ReadHolds /\ Placed /\ Emptied

LEMMA InitLists == Init => ListsInv /\ Members!Init
<1> SUFFICES ASSUME Init PROVE ListsInv /\ Members!Init
  OBVIOUS
<1>1. Exclusion /\ ReadHolds /\ Placed /\ Emptied
  BY DEF Init, Exclusion, ReadHolds, Placed, Emptied
<1> QED
  BY <1>1, InitType DEF ListsInv, Init, Members!Init

\* A step that leaves Zoho, and Bind and Revoke, alone.
LEMMA ListsKept ==
    ASSUME ListsInv, UNCHANGED <<zoho, binding>>
    PROVE  Exclusion' /\ ReadHolds' /\ Placed' /\ Emptied'
BY DEF ListsInv, Exclusion, ReadHolds, Placed, Emptied, zoho, binding

\* A call that ends.
LEMMA ListsReturn ==
    ASSUME ListsInv, NEW c \in Chats, Return(c), UNCHANGED zoho
    PROVE  Exclusion' /\ ReadHolds' /\ Placed' /\ Emptied'
BY DEF ListsInv, TypeInv, TypeOK, Exclusion, ReadHolds, Placed, Emptied, Return, Goto, zoho

\* Members counts as FiniteSets does.
LEMMA SameCount == \A S : Members!Cardinality(S) = Cardinality(S)
BY Zenon DEF Members!Cardinality, Cardinality

\* A PATCH, as seen from Members, and what holds of the lists after it.
LEMMA PatchIsJoin ==
    ASSUME ListsInv, NEW c \in Chats, Patch(c)
    PROVE  Members!Next /\ Exclusion' /\ ReadHolds' /\ Placed' /\ Emptied'
<1> USE DEF ListsInv, TypeInv, TypeOK
<1> DEFINE b == bacc[c]
<1>1. b \in Accounts /\ b \in live /\ bchats[c] = chatIDs[b]
  BY DEF Patch, PatchChatIDs, Located, ReadHolds
<1>2. chatIDs' = [chatIDs EXCEPT ![b] = chatIDs[b] \cup {c}]
  BY <1>1 DEF Patch, PatchChatIDs
<1>3. Members!Join(c, b)
  BY <1>1, <1>2, SameCount DEF Members!Join, Members!Unbound, Placed, Patch
<1>4. /\ \A d \in Chats \ {c} : bpc[d] = "free" /\ bpc'[d] = "free"
      /\ bpc'[c] \in {"free", "bind_cache"}
  BY DEF Patch, Exclusion, Goto, Return
<1>5. Exclusion' /\ ReadHolds' /\ Placed'
  BY <1>4 DEF Exclusion, ReadHolds, Placed
<1>6. Emptied'
  BY <1>1, <1>2 DEF Emptied, Patch
<1> QED
  BY <1>1, <1>3, <1>5, <1>6 DEF Members!Next

LEMMA UnpatchIsLeave ==
    ASSUME ListsInv, NEW c \in Chats, Unpatch(c)
    PROVE  Members!Next /\ Exclusion' /\ ReadHolds' /\ Placed' /\ Emptied'
<1> USE DEF ListsInv, TypeInv, TypeOK
<1> DEFINE b == bacc[c]
<1>1. b \in Accounts /\ b \in live /\ bchats[c] = chatIDs[b] /\ c \in bchats[c]
  BY DEF Unpatch, PatchChatIDs, Located, ReadHolds, Placed
<1>2. chatIDs' = [chatIDs EXCEPT ![b] = chatIDs[b] \ {c}]
  BY <1>1 DEF Unpatch, PatchChatIDs
<1>3. Members!Leave(c, b)
  BY <1>1, <1>2 DEF Members!Leave
<1>4. /\ \A d \in Chats \ {c} : bpc[d] = "free" /\ bpc'[d] = "free"
      /\ bpc'[c] \in {"free", "forget"}
  BY DEF Unpatch, Exclusion, Goto, Return
<1>5. Exclusion' /\ ReadHolds' /\ Placed'
  BY <1>4 DEF Exclusion, ReadHolds, Placed
<1>6. Emptied'
  BY <1>1, <1>2 DEF Emptied, Unpatch
<1> QED
  BY <1>1, <1>3, <1>5, <1>6 DEF Members!Next

\* The isolation check: when no account was left out of the scan, a chat that
\* goes on to the PATCH is on no account.
LEMMA ResolveFinds ==
    ASSUME TypeOK, "skip" \notin Env, NEW c \in Chats, NEW a \in ResolveByChatID(c)
    PROVE  /\ a # NoAccount => a \in Accounts /\ c \in chatIDs[a]
           /\ a = NoAccount => \A x \in Accounts : c \notin chatIDs[x]
<1> DEFINE holders == {x \in Accounts : c \in chatIDs[x]}
<1>1. CASE Indexed(c) # NoAccount
  BY <1>1, NullAssumption DEF ResolveByChatID, Indexed, TypeOK
<1>2. CASE Indexed(c) = NoAccount /\ holders = {}
  BY <1>2 DEF ResolveByChatID, Scan
<1>3. CASE Indexed(c) = NoAccount /\ holders # {}
  <2>1. a \in holders
    BY <1>3 DEF ResolveByChatID, Scan
  <2> QED
    BY <2>1, NullAssumption
<1> QED
  BY <1>1, <1>2, <1>3

LEMMA CheckZohoLists ==
    ASSUME ListsInv, "skip" \notin Env, NEW c \in Chats, CheckZoho(c)
    PROVE  Exclusion' /\ ReadHolds' /\ Placed' /\ Emptied'
<1> USE DEF ListsInv, TypeInv, TypeOK
<1>1. CASE Return(c)
  BY <1>1, ListsReturn DEF CheckZoho, world
<1>2. CASE ~Return(c)
  <2>1. PICK other \in ResolveByChatID(c) :
           /\ other \in {NoAccount, bacc[c]}
           /\ Cardinality(bchats[c]) < MaxChatsPerAccount
           /\ Goto(c, "patch") /\ UNCHANGED <<bacc, bchats>>
    BY <1>2 DEF CheckZoho
  <2>2. UNCHANGED zoho
    BY DEF CheckZoho, world
  <2>3. c \notin bchats[c] /\ bacc[c] \in Accounts
    BY DEF CheckZoho, Placed, Located
  <2>4. \A a \in Accounts : c \notin chatIDs[a]
    <3>1. CASE other = NoAccount
      BY <3>1, ResolveFinds
    <3>2. CASE other # NoAccount
      <4>1. c \in chatIDs[bacc[c]]
        BY <2>1, <3>2, ResolveFinds
      <4>2. bacc[c] \in live
        BY <2>3, <4>1 DEF Emptied
      <4> QED
        BY <2>3, <4>1, <4>2 DEF ReadHolds, CheckZoho
    <3> QED
      BY <3>1, <3>2
  <2>5. bpc' = [bpc EXCEPT ![c] = "patch"] /\ \A d \in Chats \ {c} : bpc[d] = "free"
    BY <2>1 DEF Goto, Exclusion, CheckZoho
  <2>6. Exclusion'
    BY <2>5 DEF Exclusion
  <2>7. ReadHolds'
    BY <2>1, <2>2, <2>5 DEF ReadHolds, zoho, CheckZoho
  <2>8. Placed'
    BY <2>1, <2>2, <2>3, <2>4, <2>5 DEF Placed, zoho
  <2>9. Emptied'
    BY <2>2 DEF Emptied, zoho
  <2> QED
    BY <2>6, <2>7, <2>8, <2>9
<1> QED
  BY <1>1, <1>2

LEMMA BindingLists ==
    ASSUME ListsInv, "skip" \notin Env, NEW c \in Chats, BindingStep(c)
    PROVE  /\ Exclusion' /\ ReadHolds' /\ Placed' /\ Emptied'
           /\ [Members!Next]_chatIDs
<1> USE DEF ListsInv, TypeInv, TypeOK
<1>1. ASSUME NEW a \in Accounts, StartBind(c, a)
      PROVE  Exclusion' /\ ReadHolds' /\ Placed' /\ Emptied' /\ UNCHANGED chatIDs
  <2>1. CASE EnterBind(c, a)
    <3>1. /\ bpc' = [bpc EXCEPT ![c] = "check_cache"]
          /\ bacc' = [bacc EXCEPT ![c] = a]
          /\ bchats' = [bchats EXCEPT ![c] = chatIDs[a]]
          /\ \A d \in Chats : bpc[d] = "free"
          /\ UNCHANGED zoho
      BY <1>1, <2>1 DEF StartBind, EnterBind, Goto, BindMuFree, world
    <3>2. Exclusion'
      BY <3>1 DEF Exclusion
    <3>3. ReadHolds' /\ Placed' /\ Emptied'
      BY <3>1 DEF ReadHolds, Placed, Emptied, zoho
    <3> QED
      BY <3>1, <3>2, <3>3 DEF zoho
  <2>2. CASE UNCHANGED binding
    BY <1>1, <2>2, ListsKept DEF StartBind, world, zoho
  <2> QED
    BY <1>1, <2>1, <2>2 DEF StartBind
<1>2. CASE CheckCache(c)
  <2>0. UNCHANGED zoho
    BY <1>2 DEF CheckCache, world
  <2>1. CASE Return(c)
    BY <2>0, <2>1, ListsReturn DEF zoho
  <2>2. CASE /\ Goto(c, IF c \in bchats[c] THEN "bind_cache" ELSE "check_zoho")
             /\ UNCHANGED <<bacc, bchats>>
    <3>1. /\ \A d \in Chats \ {c} : bpc[d] = "free" /\ bpc'[d] = "free"
          /\ bpc'[c] = IF c \in bchats[c] THEN "bind_cache" ELSE "check_zoho"
      BY <1>2, <2>2 DEF CheckCache, Goto, Exclusion
    <3>2. Exclusion' /\ Placed'
      BY <2>2, <3>1 DEF Exclusion, Placed
    <3>3. ReadHolds' /\ Emptied'
      BY <1>2, <2>0, <2>2, <3>1 DEF ReadHolds, Emptied, zoho, CheckCache
    <3> QED
      BY <2>0, <3>2, <3>3 DEF zoho
  <2> QED
    BY <1>2, <2>1, <2>2 DEF CheckCache
<1>3. CASE CheckZoho(c)
  BY <1>3, CheckZohoLists DEF CheckZoho, world, zoho
<1>4. CASE Patch(c)
  BY <1>4, PatchIsJoin
<1>5. CASE BindCache(c)
  BY <1>5, ListsReturn DEF BindCache, world, zoho
<1>6. CASE StartRevoke(c)
  <2>0. UNCHANGED zoho /\ \A d \in Chats : bpc[d] = "free"
    BY <1>6 DEF StartRevoke, world, BindMuFree
  <2>1. CASE Goto(c, "forget") /\ UNCHANGED <<bacc, bchats>>
    <3>1. Exclusion' /\ ReadHolds' /\ Placed' /\ Emptied'
      BY <2>0, <2>1 DEF Exclusion, ReadHolds, Placed, Emptied, zoho, Goto
    <3> QED
      BY <2>0, <3>1 DEF zoho
  <2>2. CASE ~ (Goto(c, "forget") /\ UNCHANGED <<bacc, bchats>>)
    <3>1. PICK a \in Accounts : /\ bpc' = [bpc EXCEPT ![c] = "unpatch"]
                               /\ bacc' = [bacc EXCEPT ![c] = a]
                               /\ bchats' = [bchats EXCEPT ![c] = chatIDs[a]]
                               /\ c \in chatIDs[a]
      BY <1>6, <2>2, ResolveFinds DEF StartRevoke, Goto
    <3>2. Exclusion'
      BY <2>0, <3>1 DEF Exclusion
    <3>3. ReadHolds' /\ Placed' /\ Emptied'
      BY <2>0, <3>1 DEF ReadHolds, Placed, Emptied, zoho
    <3> QED
      BY <2>0, <3>2, <3>3 DEF zoho
  <2> QED
    BY <2>1, <2>2
<1>7. CASE Unpatch(c)
  BY <1>7, UnpatchIsLeave
<1>8. CASE Forget(c)
  BY <1>8, ListsReturn DEF Forget, world, zoho
<1>9. CASE BindingFails(c)
  BY <1>9, ListsReturn DEF BindingFails, world, zoho
<1> QED
  BY <1>1, <1>2, <1>3, <1>4, <1>5, <1>6, <1>7, <1>8, <1>9 DEF BindingStep

LEMMA StepLists ==
    "skip" \notin Env /\ ListsInv /\ [Next]_vars => ListsInv' /\ [Members!Next]_chatIDs
<1> SUFFICES ASSUME "skip" \notin Env, ListsInv, [Next]_vars
             PROVE  ListsInv' /\ [Members!Next]_chatIDs
  OBVIOUS
<1>0. TypeInv'
  BY StepType DEF ListsInv
<1>1. ASSUME NEW c \in Talking, AuthorizeStep(c) PROVE UNCHANGED <<zoho, binding>>
  BY <1>1 DEF AuthorizeStep, Authorize, AuthorizeFails, LookUpIndex, ScanAccounts, Refuse,
              CacheAuth, ReadProfile, FetchProfile, ScanForProfile, DropAuth, world
<1>2. ASSUME NEW c \in Chats, BindingStep(c)
      PROVE  Exclusion' /\ ReadHolds' /\ Placed' /\ Emptied' /\ [Members!Next]_chatIDs
  BY <1>2, BindingLists
<1>3. ASSUME \/ \E c \in Chats : ExpireChatKeys(c)
             \/ \E a \in Accounts : ExpireAccountKeys(a)
             \/ ScanInterval \/ RedisOutage \/ RedisBack
             \/ UNCHANGED vars
      PROVE  UNCHANGED <<zoho, binding>>
  BY <1>3 DEF ExpireChatKeys, ExpireAccountKeys, ScanInterval, RedisOutage, RedisBack, vars, world
<1>4. ASSUME NEW a \in Accounts, DissolveAccount(a)
      PROVE  Exclusion' /\ ReadHolds' /\ Placed' /\ Emptied' /\ Members!Next
  <2>1. /\ chatIDs' = [chatIDs EXCEPT ![a] = {}] /\ live' = live \ {a}
        /\ UNCHANGED <<bpc, bacc, bchats>>
    BY <1>4 DEF DissolveAccount, binding
  <2>2. chatIDs \in [Accounts -> SUBSET Chats]
    BY DEF ListsInv, TypeInv, TypeOK
  <2>3. Exclusion' /\ ReadHolds'
    BY <2>1, <2>2 DEF ListsInv, Exclusion, ReadHolds, TypeInv, TypeOK
  <2>4. Placed' /\ Emptied'
    BY <2>1, <2>2 DEF ListsInv, Placed, Emptied
  <2> QED
    BY <2>1, <2>3, <2>4 DEF Members!Next, Members!Dissolve
<1>5. ASSUME Crash
      PROVE  Exclusion' /\ ReadHolds' /\ Placed' /\ Emptied' /\ UNCHANGED zoho
  BY <1>5 DEF Crash, ListsInv, Exclusion, ReadHolds, Placed, Emptied, zoho
<1> QED
  BY <1>0, <1>1, <1>2, <1>3, <1>4, <1>5, ListsKept DEF Next, ListsInv, zoho

\* As long as no scan leaves an account out, the lists in Zoho change as
\* AccountMembers allows, for every number of chats and accounts, every limit
\* and every combination of the other faults: the mutex and the two checks of
\* Bind are enough, whatever Redis says.
THEOREM BindingsExclusive == ("skip" \notin Env) => (Spec => Exclusive)
<1>1. SUFFICES ASSUME "skip" \notin Env PROVE Spec => Exclusive
  OBVIOUS
<1>2. ListsInv /\ [Next]_vars => ListsInv' /\ [Members!Next]_chatIDs
  BY <1>1, StepLists
<1> QED
  BY <1>2, InitLists, PTL DEF Spec, Exclusive, Members!Spec

-----------------------------------------------------------------------------
(* Tenants *)

\* Whatever names an account for a chat, somewhere between Zoho and the cache,
\* names one the chat was put on.
Rooted ==
    /\ \A c \in Chats, a \in Accounts : c \in chatIDs[a] => a \in joined[c]
    /\ \A c \in Chats : auth[c] \in Accounts => auth[c] \in joined[c]
    /\ \A c \in Chats : apc[c] = "cache" => aacc[c] \in joined[c]
    /\ \A c \in Chats : bpc[c] = "bind_cache" => bacc[c] \in joined[c]
    /\ \A c, d \in Chats : bacc[c] \in Accounts /\ d \in bchats[c] => bacc[c] \in joined[d]

TenantInv == TypeInv /\ Rooted

LEMMA InitTenant == Init => TenantInv
<1> SUFFICES ASSUME Init PROVE TenantInv
  OBVIOUS
<1>1. Rooted
  BY NullAssumption DEF Init, Rooted
<1> QED
  BY <1>1, InitType DEF TenantInv

\* An account that answers for a chat holds it, even if a scan left some out.
LEMMA HolderFound ==
    ASSUME TypeOK, NEW c \in Chats
    PROVE  /\ Indexed(c) # NoAccount => Indexed(c) \in Accounts /\ c \in chatIDs[Indexed(c)]
           /\ \A a \in Scan(c) \cup ResolveByChatID(c) :
                  a # NoAccount => a \in Accounts /\ c \in chatIDs[a]
<1>1. Indexed(c) # NoAccount => Indexed(c) \in Accounts /\ c \in chatIDs[Indexed(c)]
  BY NullAssumption DEF TypeOK, Indexed
<1>2. \A a \in Scan(c) : a # NoAccount => a \in Accounts /\ c \in chatIDs[a]
  BY DEF Scan
<1> QED
  BY <1>1, <1>2 DEF ResolveByChatID

LEMMA AuthorizeRooted ==
    ASSUME TenantInv, NEW c \in Talking, AuthorizeStep(c)
    PROVE  Rooted'
<1> c \in Chats
  BY TalkingAssumption
<1> USE DEF TenantInv, TypeInv, TypeOK
\* What is the same in all its steps.
<1>0. UNCHANGED <<zoho, binding, history>>
  BY DEF AuthorizeStep, Authorize, AuthorizeFails, LookUpIndex, ScanAccounts, Refuse,
         CacheAuth, ReadProfile, FetchProfile, ScanForProfile, DropAuth, world
<1>1. ASSUME NEW pc \in {"free", "lookup", "scan", "refuse", "cache", "profile", "drop"},
             NEW a, Asked(c, pc, a), pc = "cache" => a \in joined[c],
             \A d \in Chats : auth'[d] \in Accounts => auth'[d] \in joined[d]
      PROVE  Rooted'
  BY <1>0, <1>1 DEF Rooted, Asked, zoho, binding, history
<1>2. ASSUME NEW x \in {NoAccount, AuthUnknown},
             auth' = Written(auth, [auth EXCEPT ![c] = x])
      PROVE  \A d \in Chats : auth'[d] \in Accounts => auth'[d] \in joined[d]
  BY <1>2, NullAssumption DEF Rooted, Written
<1>3. UNCHANGED auth => \A d \in Chats : auth'[d] \in Accounts => auth'[d] \in joined[d]
  BY DEF Rooted
<1>4. CASE Authorize(c)
  BY <1>1, <1>3, <1>4 DEF Authorize, redis
<1>5. CASE AuthorizeFails(c)
  BY <1>1, <1>3, <1>5 DEF AuthorizeFails, redis
<1>6. CASE LookUpIndex(c)
  <2>1. Indexed(c) # NoAccount => Indexed(c) \in joined[c]
    BY HolderFound DEF Rooted
  <2> QED
    BY <1>1, <1>3, <1>6, <2>1 DEF LookUpIndex
<1>7. CASE ScanAccounts(c)
  <2>1. \A a \in Scan(c) : a # NoAccount => a \in joined[c]
    BY HolderFound DEF Rooted
  <2> QED
    BY <1>1, <1>3, <1>7, <2>1 DEF ScanAccounts
<1>8. CASE Refuse(c)
  BY <1>1, <1>2, <1>8 DEF Refuse
<1>9. CASE CacheAuth(c)
  <2>1. aacc[c] \in joined[c]
    BY <1>9 DEF CacheAuth, Rooted
  <2>2. \A d \in Chats : auth'[d] \in Accounts => auth'[d] \in joined[d]
    BY <1>9, <2>1 DEF CacheAuth, Cache, Written, Rooted
  <2> QED
    BY <1>1, <1>9, <2>2 DEF CacheAuth
<1>10. CASE ReadProfile(c) \/ FetchProfile(c)
  BY <1>1, <1>3, <1>10 DEF ReadProfile, FetchProfile, redis
<1>11. CASE ScanForProfile(c)
  BY <1>1, <1>3, <1>11 DEF ScanForProfile
<1>12. CASE DropAuth(c)
  BY <1>1, <1>2, <1>12 DEF DropAuth
<1> QED
  BY <1>4, <1>5, <1>6, <1>7, <1>8, <1>9, <1>10, <1>11, <1>12 DEF AuthorizeStep

LEMMA BindingRooted ==
    ASSUME TenantInv, NEW c \in Chats, BindingStep(c)
    PROVE  Rooted'
<1> USE DEF TenantInv, TypeInv, TypeOK
<1>1. ASSUME Return(c), UNCHANGED <<zoho, auth, asking, joined>> PROVE Rooted'
  BY <1>1, NullAssumption DEF Rooted, Return, Goto, zoho, asking
<1>2. ASSUME NEW a \in Accounts, StartBind(c, a) PROVE Rooted'
  <2>1. CASE EnterBind(c, a)
    BY <1>2, <2>1 DEF StartBind, EnterBind, Goto, Rooted, world, zoho, asking
  <2>2. CASE UNCHANGED binding
    BY <1>2, <2>2 DEF StartBind, Rooted, world, zoho, asking, binding
  <2> QED
    BY <1>2, <2>1, <2>2 DEF StartBind
<1>3. CASE CheckCache(c)
  <2>1. CASE Return(c)
    BY <1>1, <1>3, <2>1 DEF CheckCache, world, redis, history
  <2>2. CASE /\ Goto(c, IF c \in bchats[c] THEN "bind_cache" ELSE "check_zoho")
             /\ UNCHANGED <<bacc, bchats>>
    <3>1. bacc[c] \in Accounts
      BY <1>3 DEF CheckCache, Located
    <3> QED
      BY <1>3, <2>2, <3>1 DEF CheckCache, Goto, Rooted, world, zoho, redis, asking, history
  <2> QED
    BY <1>3, <2>1, <2>2 DEF CheckCache
<1>4. CASE CheckZoho(c)
  <2>1. CASE Return(c)
    BY <1>1, <1>4, <2>1 DEF CheckZoho, world, history
  <2>2. CASE Goto(c, "patch") /\ UNCHANGED <<bacc, bchats>>
    BY <1>4, <2>2 DEF CheckZoho, Goto, Rooted, world, zoho, asking, history
  <2> QED
    BY <1>4, <2>1, <2>2 DEF CheckZoho
<1>5. CASE Patch(c)
  <2> DEFINE b == bacc[c]
  <2>1. /\ b \in Accounts
        /\ chatIDs' = [chatIDs EXCEPT ![b] = bchats[c] \cup {c}]
        /\ joined' = [joined EXCEPT ![c] = joined[c] \cup {b}]
        /\ UNCHANGED <<auth, asking>>
    BY <1>5 DEF Patch, PatchChatIDs, Located, redis
  <2>2. b \in joined'[c] /\ \A d \in Chats : joined[d] \subseteq joined'[d]
    BY <2>1
  <2>3. \A d \in Chats, a \in Accounts : d \in chatIDs'[a] => a \in joined'[d]
    <3> SUFFICES ASSUME NEW d \in Chats, NEW a \in Accounts, d \in chatIDs'[a]
                 PROVE  a \in joined'[d]
      OBVIOUS
    <3>1. CASE a = b
      BY <2>1, <2>2, <3>1 DEF Rooted
    <3>2. CASE a # b
      BY <2>1, <2>2, <3>2 DEF Rooted
    <3> QED
      BY <3>1, <3>2
  <2>4. CASE Goto(c, "bind_cache") /\ UNCHANGED <<bacc, bchats>>
    BY <2>1, <2>2, <2>3, <2>4 DEF Rooted, Goto, asking
  <2>5. CASE Return(c)
    BY <2>1, <2>2, <2>3, <2>5, NullAssumption DEF Rooted, Return, Goto, asking
  <2> QED
    BY <1>5, <2>4, <2>5 DEF Patch
<1>6. CASE BindCache(c)
  <2>1. bacc[c] \in joined[c]
    BY <1>6 DEF BindCache, Rooted
  <2>2. \A d \in Chats : auth'[d] \in Accounts => auth'[d] \in joined[d]
    BY <1>6, <2>1 DEF BindCache, Cache, Written, Rooted
  <2> QED
    BY <1>6, <2>2, NullAssumption DEF BindCache, Rooted, Return, Goto, world, zoho, asking
<1>7. CASE StartRevoke(c)
  <2>1. UNCHANGED <<zoho, auth, asking, joined>>
    BY <1>7 DEF StartRevoke, world
  <2>2. CASE Goto(c, "forget") /\ UNCHANGED <<bacc, bchats>>
    BY <2>1, <2>2 DEF Goto, Rooted, zoho, asking
  <2>3. CASE ~ (Goto(c, "forget") /\ UNCHANGED <<bacc, bchats>>)
    <3>1. PICK a \in Accounts : /\ bpc' = [bpc EXCEPT ![c] = "unpatch"]
                               /\ bacc' = [bacc EXCEPT ![c] = a]
                               /\ bchats' = [bchats EXCEPT ![c] = chatIDs[a]]
      BY <1>7, <2>3, HolderFound DEF StartRevoke, Goto
    <3> QED
      BY <2>1, <3>1 DEF Rooted, zoho, asking
  <2> QED
    BY <2>2, <2>3
<1>8. CASE Unpatch(c)
  <2>1. /\ bacc[c] \in Accounts
        /\ chatIDs' = [chatIDs EXCEPT ![bacc[c]] = bchats[c] \ {c}]
        /\ UNCHANGED <<auth, asking, joined>>
    BY <1>8 DEF Unpatch, PatchChatIDs, Located, redis, history
  <2>2. \A d \in Chats, a \in Accounts : d \in chatIDs'[a] => a \in joined[d]
    BY <2>1 DEF Rooted
  <2>3. CASE Goto(c, "forget") /\ UNCHANGED <<bacc, bchats>>
    BY <2>1, <2>2, <2>3 DEF Rooted, Goto, asking
  <2>4. CASE Return(c)
    BY <2>1, <2>2, <2>4, NullAssumption DEF Rooted, Return, Goto, asking
  <2> QED
    BY <1>8, <2>3, <2>4 DEF Unpatch
<1>9. CASE Forget(c)
  BY <1>9, NullAssumption DEF Forget, Written, Rooted, Return, Goto, world, zoho, asking
<1>10. CASE BindingFails(c)
  BY <1>1, <1>10 DEF BindingFails, world, redis, history
<1> QED
  BY <1>2, <1>3, <1>4, <1>5, <1>6, <1>7, <1>8, <1>9, <1>10 DEF BindingStep

LEMMA StepTenant == TenantInv /\ [Next]_vars => TenantInv'
<1> SUFFICES ASSUME TenantInv, [Next]_vars PROVE Rooted'
  BY StepType DEF TenantInv
<1> USE DEF TenantInv, TypeInv, TypeOK
<1>1. CASE \E c \in Talking : AuthorizeStep(c)
  BY <1>1, AuthorizeRooted
<1>2. CASE \E c \in Chats : BindingStep(c)
  BY <1>2, BindingRooted
<1>3. ASSUME NEW c \in Chats, ExpireChatKeys(c) PROVE Rooted'
  BY <1>3, NullAssumption DEF ExpireChatKeys, Rooted, zoho, asking, binding
<1>4. ASSUME NEW a \in Accounts, DissolveAccount(a) PROVE Rooted'
  BY <1>4 DEF DissolveAccount, Rooted, redis, asking, binding, history
<1>5. CASE Crash
  BY <1>5, NullAssumption DEF Crash, Rooted, zoho, redis, history
<1>6. CASE \/ \E a \in Accounts : ExpireAccountKeys(a)
           \/ ScanInterval \/ RedisOutage \/ RedisBack
           \/ UNCHANGED vars
  <2>1. UNCHANGED <<zoho, auth, asking, binding, history>>
    BY <1>6 DEF ExpireAccountKeys, ScanInterval, RedisOutage, RedisBack, vars, world, redis
  <2> QED
    BY <2>1 DEF Rooted, zoho, asking, binding, history
<1> QED
  BY <1>1, <1>2, <1>3, <1>4, <1>5, <1>6 DEF Next

\* Authorize answers a chat with an account only if the chat was put on it,
\* whatever fails, expires, is deleted or left out of a scan, for every number
\* of chats and accounts.
THEOREM TenantsApart == Spec => []OnlyOwnAccount
<1>1. TenantInv => OnlyOwnAccount
  BY DEF TenantInv, Rooted, OnlyOwnAccount
<1> QED
  BY <1>1, InitTenant, StepTenant, PTL DEF Spec

-----------------------------------------------------------------------------
(* The last word *)

Away(c) == \A a \in Accounts : c \notin chatIDs[a]

\* No chat is on two accounts.
Single ==
    \A c \in Chats : \A a, b \in Accounts : c \in chatIDs[a] /\ c \in chatIDs[b] => a = b

\* A Bind or Revoke that has returned stays the last one until the next
\* starts; a revoked chat is on no account, a bound one on that of its Bind.
DecidedOf(c) ==
    /\ settled[c] # "open" => bpc[c] = "free"
    /\ bpc[c] = "forget" \/ settled[c] = "revoked" => Away(c)
    /\ bpc[c] = "bind_cache" \/ (bpc[c] = "check_cache" /\ c \in bchats[c]) =>
           \A a \in Accounts : c \in chatIDs[a] => a = bacc[c]

\* Unless one was under way at that moment, an Authorize of the chat cannot
\* reach a write that contradicts it.
HeardOf(c) ==
    c \notin crossed =>
        /\ settled[c] = "revoked" => auth[c] \notin Accounts /\ apc[c] # "cache"
        /\ settled[c] = "bound" =>
              \A a \in Accounts : c \in chatIDs[a] =>
                  /\ auth[c] = a
                  /\ apc[c] = "free" \/ (apc[c] = "profile" /\ aacc[c] = a)

WordInv == ListsInv /\ Single /\ \A c \in Chats : DecidedOf(c) /\ HeardOf(c)

LEMMA InitWord == Init => WordInv
<1> SUFFICES ASSUME Init PROVE WordInv
  OBVIOUS
<1>1. Single /\ \A c \in Chats : DecidedOf(c) /\ HeardOf(c)
  BY DEF Init, Single, DecidedOf, HeardOf, Away
<1> QED
  BY <1>1, InitLists DEF WordInv

\* The lists stay disjoint: a chat joins only when it is on none.
LEMMA SingleKept ==
    ASSUME TypeOK, Single, [Members!Next]_chatIDs
    PROVE  Single'
<1> USE DEF TypeOK, Single
<1>1. ASSUME NEW c \in Chats, NEW a \in Accounts, Members!Join(c, a) PROVE Single'
  BY <1>1 DEF Members!Join, Members!Unbound
<1>2. ASSUME NEW c \in Chats, NEW a \in Accounts, Members!Leave(c, a) PROVE Single'
  BY <1>2 DEF Members!Leave
<1>3. ASSUME NEW a \in Accounts, Members!Dissolve(a) PROVE Single'
  BY <1>3 DEF Members!Dissolve
<1> QED
  BY <1>1, <1>2, <1>3 DEF Members!Next

\* What is said of a chat stands while nothing of the chat changes, except
\* that it may leave an account.
LEMMA WordStands ==
    ASSUME NEW d \in Chats, DecidedOf(d), HeardOf(d),
           settled'[d] = settled[d], d \in crossed' <=> d \in crossed,
           bpc'[d] = bpc[d], bacc'[d] = bacc[d], bchats'[d] = bchats[d],
           auth'[d] = auth[d], apc'[d] = apc[d], aacc'[d] = aacc[d],
           \A a \in Accounts : d \in chatIDs'[a] => d \in chatIDs[a]
    PROVE  DecidedOf(d)' /\ HeardOf(d)'
BY DEF DecidedOf, HeardOf, Away

\* A PATCH changes the list of one account by the chat itself.
LEMMA PatchedAlone ==
    ASSUME ListsInv, NEW c \in Chats, Patch(c) \/ Unpatch(c)
    PROVE  /\ bacc[c] \in Accounts
           /\ Patch(c) => chatIDs' = [chatIDs EXCEPT ![bacc[c]] = @ \cup {c}]
           /\ Unpatch(c) => chatIDs' = [chatIDs EXCEPT ![bacc[c]] = @ \ {c}]
<1> USE DEF ListsInv, TypeInv, TypeOK
<1>1. bacc[c] \in Accounts /\ bacc[c] \in live /\ bchats[c] = chatIDs[bacc[c]]
  BY DEF Patch, Unpatch, PatchChatIDs, Located, ReadHolds
<1> QED
  BY <1>1 DEF Patch, Unpatch, PatchChatIDs

\* The call of one chat leaves what is said of the others.
LEMMA OthersStand ==
    ASSUME WordInv, NEW c \in Chats, BindingStep(c), NEW d \in Chats \ {c}
    PROVE  DecidedOf(d)' /\ HeardOf(d)'
<1> USE DEF WordInv, ListsInv, TypeInv, TypeOK
<1>1. UNCHANGED asking
  BY DEF BindingStep, StartBind, CheckCache, CheckZoho, Patch, BindCache, StartRevoke,
         Unpatch, Forget, BindingFails
<1>2. \A a \in Accounts : d \in chatIDs'[a] => d \in chatIDs[a]
  <2>1. CASE Patch(c) \/ Unpatch(c)
    BY <2>1, PatchedAlone
  <2>2. CASE ~(Patch(c) \/ Unpatch(c))
    BY <2>2 DEF BindingStep, StartBind, CheckCache, CheckZoho, BindCache, StartRevoke,
                Forget, BindingFails, world, zoho
  <2> QED
    BY <2>1, <2>2
<1>3. bpc'[d] = bpc[d] /\ bacc'[d] = bacc[d] /\ bchats'[d] = bchats[d]
  BY DEF BindingStep, StartBind, EnterBind, CheckCache, CheckZoho, Patch, BindCache,
         StartRevoke, Unpatch, Forget, BindingFails, Goto, Return, binding
<1>4. settled'[d] = settled[d] /\ (d \in crossed' <=> d \in crossed)
  BY DEF BindingStep, StartBind, CheckCache, CheckZoho, Patch, BindCache, StartRevoke,
         Unpatch, Forget, BindingFails, Open, Settle, history
<1>5. auth'[d] = auth[d]
  BY DEF BindingStep, StartBind, CheckCache, CheckZoho, Patch, BindCache, StartRevoke,
         Unpatch, Forget, BindingFails, Cache, Written, redis
<1> QED
  BY <1>1, <1>2, <1>3, <1>4, <1>5, WordStands DEF asking

\* ... and keeps what is said of its own.
LEMMA BindingWord ==
    ASSUME WordInv, "skip" \notin Env, NEW c \in Chats, BindingStep(c)
    PROVE  DecidedOf(c)' /\ HeardOf(c)'
<1> USE DEF WordInv, ListsInv, TypeInv, TypeOK
<1>0. DecidedOf(c) /\ HeardOf(c)
  OBVIOUS
\* A step between the start and the end of a call finds the word open.
<1>a. ASSUME settled'[c] = "open",
             bpc'[c] = "forget" => Away(c)',
             bpc'[c] = "bind_cache" \/ (bpc'[c] = "check_cache" /\ c \in bchats'[c]) =>
                 \A a \in Accounts : c \in chatIDs'[a] => a = bacc'[c]
      PROVE  DecidedOf(c)' /\ HeardOf(c)'
  BY <1>a DEF DecidedOf, HeardOf, Away
<1>1. ASSUME NEW a \in Accounts, StartBind(c, a) PROVE DecidedOf(c)' /\ HeardOf(c)'
  <2>1. settled'[c] = "open" /\ UNCHANGED zoho /\ bpc[c] = "free"
    BY <1>1 DEF StartBind, Open, world
  <2>2. CASE EnterBind(c, a)
    <3>1. bpc'[c] = "check_cache" /\ bacc'[c] = a /\ bchats'[c] = chatIDs[a]
      BY <2>2 DEF EnterBind, Goto
    <3>2. c \in chatIDs[a] => \A b \in Accounts : c \in chatIDs[b] => b = a
      BY DEF Single
    <3> QED
      BY <1>a, <2>1, <3>1, <3>2 DEF zoho
  <2>3. CASE UNCHANGED binding
    BY <1>a, <2>1, <2>3 DEF binding
  <2> QED
    BY <1>1, <2>2, <2>3 DEF StartBind
<1>2. CASE CheckCache(c)
  <2>1. bpc[c] = "check_cache" /\ UNCHANGED <<zoho, settled>>
    BY <1>2 DEF CheckCache, world, history
  <2>2. settled[c] = "open"
    BY <1>0, <2>1 DEF DecidedOf
  <2>3. \/ bpc'[c] = "free"
        \/ c \in bchats[c] /\ bpc'[c] = "bind_cache" /\ bacc'[c] = bacc[c]
        \/ bpc'[c] = "check_zoho"
    BY <1>2 DEF CheckCache, Return, Goto
  <2>4. c \in bchats[c] => \A a \in Accounts : c \in chatIDs[a] => a = bacc[c]
    BY <1>0, <2>1 DEF DecidedOf
  <2> QED
    BY <1>a, <2>1, <2>2, <2>3, <2>4 DEF zoho
<1>3. CASE CheckZoho(c)
  <2>1. bpc[c] = "check_zoho" /\ UNCHANGED settled /\ bpc'[c] \in {"free", "patch"}
    BY <1>3 DEF CheckZoho, history, Return, Goto
  <2> QED
    BY <1>0, <1>a, <2>1 DEF DecidedOf
<1>4. CASE Patch(c)
  <2>1. /\ bpc[c] = "patch" /\ UNCHANGED settled
        /\ bpc'[c] = "free" \/ (bpc'[c] = "bind_cache" /\ bacc'[c] = bacc[c])
    BY <1>4 DEF Patch, Return, Goto
  <2>2. \A a \in Accounts : c \in chatIDs'[a] => a = bacc[c]
    BY <1>4, <2>1, PatchedAlone DEF Placed
  <2> QED
    BY <1>0, <1>a, <2>1, <2>2 DEF DecidedOf
<1>5. CASE BindCache(c)
  <2>1. /\ bpc[c] = "bind_cache" /\ bpc'[c] = "free" /\ UNCHANGED <<zoho, asking>>
        /\ bacc[c] \in Accounts
    BY <1>5 DEF BindCache, Return, Goto, world, Located
  <2>2. \A a \in Accounts : c \in chatIDs[a] => a = bacc[c]
    BY <1>0, <2>1 DEF DecidedOf
  <2>3. CASE UNCHANGED <<settled, crossed>>
    <3>1. settled[c] = "open"
      BY <1>0, <2>1 DEF DecidedOf
    <3> QED
      BY <1>a, <2>1, <2>3, <3>1
  <2>4. CASE auth'[c] = bacc[c] /\ Settle(c, "bound")
    <3>1. settled'[c] = "bound" /\ (c \notin crossed' => apc[c] = "free")
      BY <2>4 DEF Settle
    <3> QED
      BY <2>1, <2>2, <2>4, <3>1 DEF DecidedOf, HeardOf, zoho, asking
  <2> QED
    BY <1>5, <2>3, <2>4 DEF BindCache
<1>6. CASE StartRevoke(c)
  <2>1. settled'[c] = "open" /\ UNCHANGED zoho
    BY <1>6 DEF StartRevoke, Open, world
  <2>2. PICK a \in ResolveByChatID(c) :
           IF a = NoAccount THEN bpc' = [bpc EXCEPT ![c] = "forget"]
                            ELSE bpc' = [bpc EXCEPT ![c] = "unpatch"]
    BY <1>6 DEF StartRevoke, Goto
  <2>3. bpc'[c] = "unpatch" \/ (bpc'[c] = "forget" /\ Away(c))
    BY <2>2, ResolveFinds DEF Away
  <2>4. Away(c) => Away(c)'
    BY <2>1 DEF Away, zoho
  <2> QED
    BY <1>a, <2>1, <2>3, <2>4
<1>7. CASE Unpatch(c)
  <2>1. bpc[c] = "unpatch" /\ UNCHANGED settled /\ bpc'[c] \in {"free", "forget"}
    BY <1>7 DEF Unpatch, Return, Goto, history
  <2>2. bacc[c] \in live /\ bacc[c] \in Accounts
    BY <1>7, PatchedAlone DEF Unpatch, PatchChatIDs
  <2>3. c \in chatIDs[bacc[c]]
    BY <2>1, <2>2 DEF ReadHolds, Placed
  <2>4. \A a \in Accounts : c \in chatIDs[a] => a = bacc[c]
    BY <2>2, <2>3 DEF Single
  <2>5. Away(c)'
    BY <1>7, <2>2, <2>4, PatchedAlone DEF Away
  <2> QED
    BY <1>0, <1>a, <2>1, <2>5 DEF DecidedOf
<1>8. CASE Forget(c)
  <2>1. bpc[c] = "forget" /\ bpc'[c] = "free" /\ UNCHANGED <<zoho, asking>> /\ Away(c)
    BY <1>0, <1>8 DEF Forget, Return, Goto, world, DecidedOf
  <2>2. CASE UNCHANGED <<settled, crossed>>
    <3>1. settled[c] = "open"
      BY <1>0, <2>1 DEF DecidedOf
    <3> QED
      BY <1>a, <2>1, <2>2, <3>1
  <2>3. CASE redisUp /\ Settle(c, "revoked")
    <3>1. /\ settled'[c] = "revoked" /\ (c \notin crossed' => apc[c] = "free")
          /\ auth'[c] = NoAccount
      BY <1>8, <2>3 DEF Settle, Forget, Written
    <3> QED
      BY <2>1, <3>1, NullAssumption DEF DecidedOf, HeardOf, Away, zoho, asking
  <2> QED
    BY <1>8, <2>2, <2>3 DEF Forget
<1>9. CASE BindingFails(c)
  <2>1. bpc[c] # "free" /\ UNCHANGED settled /\ bpc'[c] = "free"
    BY <1>9 DEF BindingFails, Return, Goto, history
  <2> QED
    BY <1>0, <1>a, <2>1 DEF DecidedOf
<1> QED
  BY <1>1, <1>2, <1>3, <1>4, <1>5, <1>6, <1>7, <1>8, <1>9 DEF BindingStep

\* An Authorize of the chat keeps it: a revoked chat is found nowhere, a bound
\* one in the cache, and its account exists.
LEMMA AuthorizeWord ==
    ASSUME WordInv, "skip" \notin Env, NEW c \in Talking, AuthorizeStep(c)
    PROVE  DecidedOf(c)' /\ HeardOf(c)'
<1> c \in Chats
  BY TalkingAssumption
<1> USE DEF WordInv, ListsInv, TypeInv, TypeOK
<1>0. DecidedOf(c) /\ HeardOf(c) /\ UNCHANGED <<zoho, binding, history>>
  BY DEF AuthorizeStep, Authorize, AuthorizeFails, LookUpIndex, ScanAccounts, Refuse,
         CacheAuth, ReadProfile, FetchProfile, ScanForProfile, DropAuth, world
<1>1. DecidedOf(c)'
  BY <1>0 DEF DecidedOf, Away, zoho, binding, history
<1>2. ASSUME c \notin crossed, settled[c] = "revoked"
      PROVE  auth'[c] \notin Accounts /\ apc'[c] # "cache"
  <2>1. auth[c] \notin Accounts /\ apc[c] # "cache" /\ Away(c)
    BY <1>0, <1>2 DEF DecidedOf, HeardOf
  <2>2. Indexed(c) = NoAccount /\ Scan(c) = {NoAccount}
    BY <2>1, HolderFound DEF Away, Scan
  <2>3. CASE LookUpIndex(c)
    BY <2>1, <2>2, <2>3 DEF LookUpIndex, Asked
  <2>4. CASE ScanAccounts(c)
    BY <2>1, <2>2, <2>4 DEF ScanAccounts, Asked
  <2>5. CASE Refuse(c) \/ DropAuth(c)
    BY <2>1, <2>5, NullAssumption DEF Refuse, DropAuth, Asked, Written
  <2>6. CASE Authorize(c) \/ AuthorizeFails(c) \/ ReadProfile(c) \/ FetchProfile(c) \/ ScanForProfile(c)
    <3>1. UNCHANGED auth
      BY <2>6 DEF Authorize, AuthorizeFails, ReadProfile, FetchProfile, ScanForProfile, redis
    <3>2. apc'[c] # "cache"
      BY <2>6 DEF Authorize, AuthorizeFails, ReadProfile, FetchProfile, ScanForProfile, Asked
    <3> QED
      BY <2>1, <3>1, <3>2
  <2> QED
    BY <2>1, <2>3, <2>4, <2>5, <2>6 DEF AuthorizeStep, CacheAuth
<1>3. ASSUME c \notin crossed, settled[c] = "bound", NEW a \in Accounts, c \in chatIDs[a]
      PROVE  /\ auth'[c] = a
             /\ apc'[c] = "free" \/ (apc'[c] = "profile" /\ aacc'[c] = a)
  <2>1. /\ auth[c] = a /\ a \in live
        /\ apc[c] = "free" \/ (apc[c] = "profile" /\ aacc[c] = a)
    BY <1>0, <1>3 DEF HeardOf, Emptied
  <2>2. ScanByBot(a) = {a}
    BY <2>1 DEF ScanByBot
  <2>3. CASE Authorize(c)
    BY <2>1, <2>3, NullAssumption DEF Authorize, Asked, redis
  <2>4. CASE AuthorizeFails(c) \/ ReadProfile(c) \/ FetchProfile(c)
    BY <2>1, <2>4 DEF AuthorizeFails, ReadProfile, FetchProfile, Asked, redis
  <2>5. CASE ScanForProfile(c)
    BY <2>1, <2>2, <2>5, NullAssumption DEF ScanForProfile, Asked
  <2> QED
    BY <2>1, <2>3, <2>4, <2>5
       DEF AuthorizeStep, LookUpIndex, ScanAccounts, Refuse, CacheAuth, DropAuth
<1>4. HeardOf(c)'
  BY <1>0, <1>2, <1>3 DEF HeardOf, history, zoho
<1> QED
  BY <1>1, <1>4

\* ... and of the other chats.
LEMMA AuthorizeOthers ==
    ASSUME WordInv, NEW c \in Talking, AuthorizeStep(c), NEW d \in Chats \ {c}
    PROVE  DecidedOf(d)' /\ HeardOf(d)'
<1> USE DEF WordInv, ListsInv, TypeInv, TypeOK
<1>1. UNCHANGED <<zoho, binding, history>>
  BY DEF AuthorizeStep, Authorize, AuthorizeFails, LookUpIndex, ScanAccounts, Refuse,
         CacheAuth, ReadProfile, FetchProfile, ScanForProfile, DropAuth, world
<1>2. apc'[d] = apc[d] /\ aacc'[d] = aacc[d]
  BY ZenonT(40) DEF AuthorizeStep, Authorize, AuthorizeFails, LookUpIndex, ScanAccounts, Refuse,
         CacheAuth, ReadProfile, FetchProfile, ScanForProfile, DropAuth, Asked
<1>3. auth'[d] = auth[d]
  BY DEF AuthorizeStep, Authorize, AuthorizeFails, LookUpIndex, ScanAccounts, Refuse, Cache,
         CacheAuth, ReadProfile, FetchProfile, ScanForProfile, DropAuth, Written, redis
<1> QED
  BY <1>1, <1>2, <1>3, WordStands DEF zoho, binding, history

LEMMA StepWord == "skip" \notin Env /\ WordInv /\ [Next]_vars => WordInv'
<1> SUFFICES ASSUME "skip" \notin Env, WordInv, [Next]_vars
             PROVE  \A d \in Chats : DecidedOf(d)' /\ HeardOf(d)'
  BY StepLists, SingleKept DEF WordInv, ListsInv, TypeInv
<1> USE DEF WordInv, ListsInv, TypeInv, TypeOK
<1>1. ASSUME NEW c \in Talking, AuthorizeStep(c) PROVE \A d \in Chats : DecidedOf(d)' /\ HeardOf(d)'
  BY <1>1, AuthorizeWord, AuthorizeOthers
<1>2. ASSUME NEW c \in Chats, BindingStep(c) PROVE \A d \in Chats : DecidedOf(d)' /\ HeardOf(d)'
  BY <1>2, BindingWord, OthersStand
<1>3. ASSUME NEW c \in Chats, ExpireChatKeys(c), NEW d \in Chats PROVE DecidedOf(d)' /\ HeardOf(d)'
  <2>1. UNCHANGED <<zoho, asking, binding, crossed>>
    BY <1>3 DEF ExpireChatKeys
  <2>2. /\ settled'[d] = settled[d] \/ (d = c /\ settled[d] = "bound" /\ settled'[d] = "open")
        /\ auth'[d] = auth[d] \/ (d = c /\ auth'[d] = NoAccount)
        /\ d = c => settled'[d] # "bound"
    BY <1>3 DEF ExpireChatKeys
  <2> QED
    BY <2>1, <2>2, NullAssumption DEF DecidedOf, HeardOf, Away, zoho, asking, binding
<1>4. ASSUME NEW a \in Accounts, DissolveAccount(a), NEW d \in Chats PROVE DecidedOf(d)' /\ HeardOf(d)'
  <2>1. UNCHANGED <<redis, asking, binding, history>>
    BY <1>4 DEF DissolveAccount
  <2>2. \A b \in Accounts : d \in chatIDs'[b] => d \in chatIDs[b]
    BY <1>4 DEF DissolveAccount
  <2> QED
    BY <2>1, <2>2, WordStands DEF redis, asking, binding, history
<1>5. ASSUME Crash, NEW d \in Chats PROVE DecidedOf(d)' /\ HeardOf(d)'
  BY <1>5 DEF Crash, DecidedOf, HeardOf, Away, zoho, redis, history
<1>6. CASE \/ \E a \in Accounts : ExpireAccountKeys(a)
           \/ ScanInterval \/ RedisOutage \/ RedisBack
           \/ UNCHANGED vars
  <2>1. UNCHANGED <<zoho, auth, asking, binding, history>>
    BY <1>6 DEF ExpireAccountKeys, ScanInterval, RedisOutage, RedisBack, vars, world, redis
  <2> QED
    BY <2>1, WordStands DEF zoho, asking, binding, history
<1> QED
  BY <1>1, <1>2, <1>3, <1>4, <1>5, <1>6 DEF Next

\* After a Revoke that returned nil the cache names no account for the chat,
\* after a Bind it does not turn the chat away, until the next call, whatever
\* Authorize does meanwhile, however often Redis and Zoho fail and whatever
\* expires; as long as no scan leaves an account out, and but for a chat with
\* an Authorize under way at that moment.
THEOREM WordHolds ==
    ASSUME "skip" \notin Env
    PROVE  Spec => []LastWordHolds
<1>1. WordInv /\ [Next]_vars => WordInv'
  BY StepWord
<1>2. WordInv => LastWordHolds
  BY NullAssumption DEF WordInv, HeardOf, LastWordHolds
<1> QED
  BY <1>1, <1>2, InitWord, PTL DEF Spec
=============================================================================
