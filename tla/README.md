# A verification project for the Telegram support bot

The bot (Go, `src/`) takes a client through a short questionnaire in Telegram,
opens a ticket in Zoho Desk for the confirmed request and then relays messages
in both directions until an operator closes the ticket. This directory holds
TLA+ models of it, the TLC runs that check them and TLAPS proofs about them.

## 1. The system

### Parts, state and operations

| Part | Code | State | Operations |
| --- | --- | --- | --- |
| Update handlers | `bot/handlers.go` | a `Conversation` while a handler holds the chat lock | `handleUpdate` (dedup, authorize, lock, load), the dialog, `finalizeTicket`, `forwardToTicket`, `flushPendingComments`, `handleBinding`, `unbindChat`, `/status` |
| Conversation | `bot/fsm.go` | `fsm:{chat}`: state, answers, attachments | load, save, `freshConversation`, question scripts, `detectPriority` |
| Front end | `bot/bot.go` | 1024 mutex shards | webhook, long polling, `POST /admin/unbind`; 30 s per update |
| Retry worker | `queue/retry.go` | `queue:tickets` | `Enqueue`, `drain` every 30 s, `process` (5 min per item) |
| Poller | `poller/poller.go` | `active_tickets`, markers `ticket_modseen`, `ticket_cmtseen`, `ticket_checked` | `poll`, `reconcile`, `forwardNewComments`, `checkVanished`, `handleClosure` |
| Redis store | `redis/client.go` | all keys above, `ticket:{chat}` (30 d), `pending_comments:{chat}`, `auth:*`, `acc_by_*`, `client:*`, `binding_token:*`, `bind_attempts:*`, `tg_update:*`, `zoho:access_token` | typed commands; several are more than one Redis command (`SetTicket`, `DelTicket`, `PopAllPendingComments`, `IncrBindAttempts`) |
| Zoho Desk | `zoho/desk.go` | (in Zoho) tickets, comments, accounts | `CreateTicket`, `ListRecentTickets`, `GetTicketByID`, `ListComments`, `AddComment`, account scans |
| Zoho client | `zoho/client.go` | none | `do`: up to 4 attempts, back-off, one 401 refresh |
| Token manager | `zoho/auth.go` | token in memory and in Redis | `AccessToken`, `Invalidate`, `refresh` |
| Registry | `registry/registry.go` | caches in Redis; the binding itself is a custom field of a Zoho account | `Authorize`, `Bind`, `Revoke`, reverse indexes, scan limiter |
| Binding tokens | `auth/token.go`, `cmd/tokengen` | none (one-time use is a Redis key) | `Generate`, `Verify` |
| The rest | `internal/tgtext`, `internal/tgfile`, `bot/keyboards.go`, `config`, `main.go`, `nginx`, `systemd` | – | splitting long messages, best-effort uploads, keyboards, configuration, start and stop, deployment |

### Who touches what, concurrently

* **Handlers**: one goroutine per webhook request. `handleUpdate` calls
  `Authorize` *before* it takes the chat lock; everything after is serial per
  chat. The admin's unbind takes the same lock.
* **Worker** and **poller**: one goroutine each, and neither takes the chat
  lock. Both write `ticket:{chat}` and `active_tickets`; the poller also deletes
  `fsm:{chat}`.
* **Operators** change tickets in Zoho at any time.
* The process may stop at any point; Redis and Zoho keep what they have. Updates
  are marked as processed before they are processed, so they are not redelivered.

### Hard behaviours, and what makes each part correct

The full list, with lines, is `hazards` in `PROJECT.json`. In short:

* *Lifecycle of a request* (handlers, worker, poller): never two requests of a
  chat at once, whichever of the four places (handler, queue, worker, watch set)
  each is in; the watch set and the mapping agree through every interleaving of
  the multi-command `SetTicket` and `DelTicket`; no ticket is forgotten before it
  is closed; nobody stays in silent mode with nothing on its way; nothing queued
  is lost; one ticket per request.
* *Client messages*: each reaches the ticket once, in order, also those sent
  before the ticket exists.
* *Dialog*: every answer is recorded once and for the question it answers,
  although updates are redelivered and old buttons stay on the screen; a request
  is complete when it is confirmed; nobody gets stuck half way.
* *Operator replies*: each public comment reaches the client once and in order,
  before the closure notice.
* *Registry*: a chat belongs to one account, a revoked chat stays revoked, at
  most 10 chats per account, under caches with TTLs.
* *Binding*: a token is redeemed once; a failure of the infrastructure costs
  neither the token nor the attempt.
* *Zoho client and token manager*: a call is bounded and returns, whatever
  becomes of its token; a token Zoho refused goes out of use.

## 2. Plan

| Order | Module | Models | Abstract specification / main properties | Status |
| --- | --- | --- | --- | --- |
| 1 | `TicketLifecycle` | confirmation → queue or creation → mapping → watch → closure | one request per chat, one ticket per request, nobody stranded | done |
| 2 | `ReplyForwarding` | `SetTicket`'s baselines, `reconcile`, `forwardNewComments`, markers, closure | implements `ReplyChannel`: replies in order, at most once | done |
| 3 | `CommentRelay` | `forwardToTicket`, the pending buffer, both flushes, closure | posted once, order, early messages arrive | done |
| 4 | `Registry` | `Authorize`, `Bind`, `Revoke` with caches and indexes | implements `AccountMembers`: a chat on one account | done |
| 5 | `Binding` | attempts, claim, release, refund, on top of `AccountMembers` | one redemption per key; outages cost nothing | done |
| 6 | `ZohoCalls` | `AccessToken`, `Invalidate`, `refresh`, `do` | bounded calls, dead tokens replaced | done |
| 7 | `Dialog` | updates, deduplication, question scripts, answers, confirmation | an answer per question, for its question, once | done |
| 8 | `SplitMessage` | `tgtext.SplitMessage` | the text of the parts is the text of the input, each within the limit | not modelled |

How they compose: `TicketLifecycle` treats the dialog, the relay and the
forwarding as steps that change none of its variables; `Dialog` ends where it
begins (the confirmation), `CommentRelay` and `ReplyForwarding` fill the time
between "confirmed" and "closed" in the two directions. `Binding` instantiates
`AccountMembers` for the one step that `registry.Bind` is to it, and `Registry`
is shown to implement `AccountMembers`; that composition is the reason for the
abstract module.

Modules are written to be proved about: constants with named assumptions, one
action per operation, no RECURSIVE operator.

## 3. `TicketLifecycle`

Every Redis command and every Zoho call that matters is one step.

| Variables | Code |
| --- | --- |
| `fsm`, `ticket`, `active`, `queue`, `modseen` | the keys `fsm:{chat}`, `ticket:{chat}`, `active_tickets`, `queue:tickets`, `ticket_modseen:{id}` (0 is "absent", as in `getMillis`) |
| `status`, `keyOf`, `modified` | tickets in Zoho, the request (idempotency key) each was created for, its `modifiedTime` |
| `bound` | whether the registry says the chat is bound |
| `author` | `CreateTicketRequest.ChatID` of each request |
| `authorized` | chats with an update past `Authorize`, waiting for the lock |
| `hpc`, `conv`, `hkey`, `htkt`, `expired` | the lock holder of each chat: its place, its `Conversation`, the request and ticket in its hands, whether its context is dead |
| `wpc`, `wkey`, `wtkt` | the worker |
| `ppc`, `remaining`, `listed`, `lmod`, `ptkt`, `pref` | the poller: the watch set of this cycle, the status and `modifiedTime` in the list, the closure at hand |

| Actions | Code |
| --- | --- |
| `Authorize`, `LoadConversation`, `Reply`, `Dialog` | `handleUpdate` up to the dialog; a step of the dialog saves the next state |
| `FinalizeTicket`, `CreateTicket*`, `Enqueue*`, `RevertToConfirming`, `SetTicket`, `WatchTicket`, `BaselineTicket` | `finalizeTicket`, in its order, with every error path |
| `Bind`, `StartFlow`, `Revoke`, `Unbind*` | a successful `handleBinding`; `unbindChat` |
| `Dequeue*`, `WorkerCreate*`, `Requeue`, `WorkerSetTicket`, `WorkerWatchTicket`, `WorkerBaseline` | `drain` and `process` |
| `PollStart`, `ListRecentTickets`, `ListFails`, `Reconcile`, `ProbeFindsEnd`, `ProbeSkips`, `Closure*`, `PollEnd` | `poll`, `reconcile`, `checkVanished`, `handleClosure`/`DelTicket`/`DelFSM` |
| `CloseTicket`, `DeleteTicket`, `ModifyTicket`, `ExpireFSM`, `ExpireTicket`, `ExpireMarker`, `Deadline`, `Crash` | operators, TTLs, the 30 s context, the process |

What the environment may do is the constant `Env`; each run names its faults.
The pairs of an operator and its mutant (for example `Requeue` and
`DroppedOnFailure`) stand side by side; the mutant is used by no behaviour.

### Abstractions

* One update per chat waits past `Authorize` (the set `authorized`); another may
  come as soon as it has the lock.
* A conversation that cannot be read, or an `Authorize` that fails, changes
  nothing: `Reply`, or no step.
* The pages of the list are one read; a failing later page leaves tickets
  unlisted and skips the probe, which `ProbeSkips` covers.
* A `modifiedTime` is the number of modifications so far. `SetTicket`'s `now`
  (`Now`) falls after the last of them or, with `"skew"`, after the one to come;
  it is read with the `SETNX`, since a modification between the two is as good
  as one right after. Changes other than the closure are bounded by
  `MaxModified`; the closure always counts.
* With `MaxModified = 0` every `modifiedTime` is 0, as one that
  `parseZohoMillis` cannot parse: the gate of `reconcile` is open and a closed
  ticket can always be taken. The two safety runs use it: it has every closure
  that real times have, and that a cycle passes over a closed ticket they have
  from the overflow or the failing Redis in their `Env`. `lifecycle_recovery`,
  which asks whether closures arrive, has real times.
* A ticket that is not listed, or deleted, has no `modifiedTime`; what the list
  said of a ticket is forgotten once the poller is done with it.
* The marker of replies (`ticket_cmtseen`) belongs to `ReplyForwarding`, the
  throttle of the probe (`ticket_checked`) is in `ProbeSkips`.
* Uploads, flushes and messages to Telegram change none of these variables, so a
  handler or the worker is done with a request after `SetTicket`.
* `pending_comments` is left to `CommentRelay`. Zoho's reopening of a closed
  ticket is not modelled: the bot has let go of it.
* A chat has a lock of its own. In the code chats share 1024 shards, which only
  removes interleavings.
* Timers only say when a loop may start; the worker and the poller may start
  whenever they are idle.
* Queue entries are well formed; only `Enqueue` writes them.

## 4. `ReplyForwarding` and `ReplyChannel`

One ticket from its registration to the closure notice. The poller is one
goroutine and every marker belongs to one ticket, so tickets do not meet here;
which chat a ticket belongs to is `TicketLifecycle`'s subject.

| Variables | Code |
| --- | --- |
| `clock`, `comments`, `modified`, `closed`, `ending` | the ticket in Zoho: a comment's kind and `commentedTime`, `modifiedTime`, the status; `ending` remembers how many comments came before the closure |
| `watched`, `modseen`, `cmtseen` | the entry of `active_tickets`, the keys `ticket_modseen` and `ticket_cmtseen`; 0 is "absent" in the model as in `getMillis` |
| `spc`, `base`, `before` | the caller of `SetTicket` (handler or worker) and its `now`; `before` remembers the comments there were then |
| `ppc`, `lmod`, `lclosed`, `seen`, `newest`, `fresh` | the poller: what the list said of the ticket, the marker read (`seen`), `maxSeen`, the replies still to send |
| `delivered`, `noticed` | what Telegram accepted |

| Actions | Code |
| --- | --- |
| `Register`, `BaselineModSeen`, `BaselineCommentSeen` | `SetTicket` from the `HSET` on; each `SETNX` may fail and ends it |
| `ListRecentTickets`, `Reconcile`, `ProbeFindsClosed` | `poll`, the gate of `reconcile`, `checkVanished` finding a closed ticket |
| `ReadMarker`, `ListComments`, `SendReply`, `AdvanceMarker` | `forwardNewComments` |
| `AdvanceModSeen`, `FindsClosed` | the end of `reconcile` |
| `Unwatch`, `DropMarkers`, `Notify` | `handleClosure` with `DelTicket` |
| `Post`, `CloseTicket`, `ExpireMarker`, `Crash` | operators (and the bot's own private relays), TTLs, the process |

`ReplyChannel` is what a client may rely on: a channel that may leave replies out
but never repeats or reorders one, carries nothing but the operator's public
replies and ends with the closure notice. The property `InOrder` is its
specification under the identity mapping.

Abstractions:

* The parts of a long reply are sent in one step, which succeeds or fails as a
  whole (a failure after some parts counts as a failure, as in the code).
* A time is a number that only the ticket's own events advance, so no two of
  them share a millisecond. In the code two replies that do are sent newest
  first, and one is lost if it was not readable when the other was. All
  timestamps parse (`parseZohoMillis` is not 0).
* `now` in `SetTicket` is read with the `HSET`. The handler's earlier `HSET` and a
  later `SetTicket` for the same ticket are the case of a marker already present.
* A ticket that replies are waiting on is not pushed off the page of 25 unless
  `Env` holds `"burst"` (`Fits`).
* Not in this module: the throttle of the probe (`ticket_checked`), deleted
  tickets, reopening, and the `DelTicket` of an unbind.

## 5. `CommentRelay`

The client's messages on their way to the tickets of one chat. Two goroutines
flush the same buffer (the handler under the chat lock, the worker without it),
the poller deletes it, and `PopAllPendingComments` is two commands.

| Variables | Code |
| --- | --- |
| `open`, `ticket`, `watched`, `queue`, `buffer` | `fsm:{chat}` in `ticket_open`, `ticket:{chat}`, `active_tickets`, `queue:tickets`, `pending_comments:{chat}` |
| `status`, `comments`, `down` | the tickets in Zoho, the client's comments on each, whether Zoho answers |
| `requests`, `sent`, `hpc`, `href`, `hitems` | the chat's handler: requests and messages so far, its place, the ticket it read, the items its flush holds |
| `wpc`, `wreq`, `witems` | the worker |
| `ppc` | the poller in `handleClosure` |
| `buffered`, `refused`, `unsure` | messages ever pushed, failed in a flush, added although the answer was lost |

| Actions | Code |
| --- | --- |
| `Confirm`, `HandlerCreates`, `Enqueue`, `HandlerStores` | `finalizeTicket` |
| `Handler`/`WorkerReads`, `Clears`, `Posts`, `FlushFails` | `flushPendingComments` over `PopAllPendingComments`, in both places |
| `Message`, `Forward`, `ForwardFails`, `Push` | `forwardToTicket` |
| `Dequeue`, `WorkerCreates`, `WorkerStores` | `drain`, `process` |
| `SeeClosed`, `DropTicket`, `DropFSM`, `DropBuffer` | `handleClosure` |

Abstractions: a request and its ticket have one number, and their creation,
mapping and closure never fail half way (that is `TicketLifecycle`'s subject).
An outage (`down`) makes every call of Zoho fail until it ends. Uploads are part
of the step before them. A message without text, which is not relayed, is left
out, and so are the 30 days of the buffer.

## 6. `Registry` and `AccountMembers`

Which client is behind a chat. The truth is a custom field of a Zoho account;
Redis holds four kinds of keys about it.

| Variables | Code |
| --- | --- |
| `chatIDs`, `live` | `cf_telegram_chat_id` of each account; the accounts not deleted |
| `auth`, `byChat`, `byBot`, `profiles` | `auth:{chat}`, `acc_by_chat:{chat}`, `acc_by_botid:{id}`, `client:{id}` |
| `redisUp`, `mayScan` | whether commands succeed; whether `scanLimiter.allow` would |
| `apc`, `aacc` | `Authorize` of each chat: its place, the account it found |
| `bpc`, `bacc`, `bchats` | `Bind` or `Revoke` of each chat: its place, the account, the list it read |
| `joined`, `settled`, `crossed` | where a chat has been bound; how its last `Bind` or `Revoke` ended; whether an `Authorize` was under way then |

| Actions | Code |
| --- | --- |
| `Authorize`, `LookUpIndex`, `ScanAccounts`, `Refuse`, `CacheAuth`, `ReadProfile`, `FetchProfile`, `ScanForProfile`, `DropAuth`, `AuthorizeFails` | `Authorize` over `resolveByChatID`, `profileByID`, `resolveByBotID` and `cache` |
| `StartBind`, `CheckCache`, `CheckZoho`, `Patch`, `BindCache` | `Bind` under `bindMu` |
| `StartRevoke`, `Unpatch`, `Forget` | `Revoke` under `bindMu` |
| `BindingFails`, `RedisOutage`, `Expire*`, `DissolveAccount`, `ScanInterval`, `Crash` | failures, TTLs, operators, the limiter's clock, the process |

`AccountMembers` is the promise: chats join and leave one at a time, an
account's list stays within the limit, a chat is on one account. The property
`Exclusive` is its specification under `members <- chatIDs`: it excludes a lost
update of the list, which `PATCH` overwrites as a whole.

Abstractions: the writes of `cache` and of `indexAccount` are one step; a scan is
one read of Zoho; an account and its `cf_bot_client_id` are one thing, and
operators edit neither it nor the list by hand. Clients of the bootstrap file are
authorized from memory and do not appear. Corrupt cache values are left out.

## 7. `Binding`

The redemption of a key, one attempt at a time per chat (chat lock).

| Variables | Code |
| --- | --- |
| `minted`, `stale` | the account of each key that was made; the keys past their validity |
| `claims`, `attempts`, `timed` | `binding_token:{jti}`, `bind_attempts:{chat}`, whether that counter has its TTL |
| `members` | the bindings, an `AccountMembers` |
| `pc`, `token` | each chat's `handleBinding`: its place and its key |
| `wins`, `unsure`, `rejected`, `verdicts` | Binds per key, Binds applied though they seemed to fail, keys rejected for good, answers per chat in this window |

`Incr` and `Expire` are the two commands of `IncrBindAttempts`; `Reject` and
`Claim` are `Verify` and `ClaimToken`; `BindSucceeds`, `BindRejects`,
`BindLimited` and `BindFails` the outcomes of `registry.Bind`; `Release` and
`Refund` what follows. A claim lives longer than its key (`bindingClaimTTL`:
`ClaimExpires` needs a stale key that no attempt holds). A text that is not
shaped like a key does not reach any of this. `DECR` may take the counter below
zero, as in Redis.

## 8. `ZohoCalls`

Callers run the loop of `do` over the shared token manager. A token is `"good"`
until Zoho revokes it (`Revoke` turns every copy `"dead"`, in memory, in Redis
and in a request already built).

| Variables | Code |
| --- | --- |
| `memory`, `cached`, `holder`, `tries` | `t.token`, `zoho:access_token`, who holds `t.mu`, the attempts of `refresh` |
| `pc`, `attempt`, `refreshed`, `token`, `ended` | each call: place, loop variable, `refreshedOn401`, its token, whether its context has ended |
| `requests` | requests sent by the call |

`Lock` and `Look` are `AccessToken`, the `Refresh*` actions and `Store` are
`refresh`, `Answered`, `Fails` and `Unauthorized` the `switch` of `do`, `Clear` and
`Evict` the two halves of `Invalidate`. `doMultipart` has the same loop. A 401
gives its attempt back, so the loop starts over with the same number and, at
attempt 0, without a back-off. Age is left to the margins: a token leaves the
memory and the cache (`MemoryExpires`, `CacheExpires`) before it dies of it.

## 9. `Dialog`

One chat, from the updates Telegram delivers to the confirmed request.

| Variables | Code |
| --- | --- |
| `saved`, `marked` | `fsm:{chat}`, `tg_update:{id}` |
| `inbox` | the updates Telegram has no 200 for, oldest first |
| `pc`, `update`, `conv`, `lock` | each goroutine of the webhook, its update, its `Conversation`; the chat lock |
| `open` | the chat has a request or ticket on its way (`TicketLifecycle`) |
| `shown`, `buttons` | the client's screen: the last prompt; every prompt with a keyboard so far |
| `used`, `request` | answers per update; the last confirmed request |

| Actions | Code |
| --- | --- |
| `Type`, `Press`, `Stray`, `Hurry` | the client: answers, old buttons, `/start` |
| `Deliver`, `Mark`, `Load`, `LoadFails`, `Return` | `WebhookHandler`, `handleUpdate` |
| `StartFlow`, `SelectService`, `AnswerText`, `AnswerOption`, `Confirm`, `Reprompt`, `Ignore` | `handleMessage`, `handleCallback` and what they call |
| `SaveLast`, `Save`, `Send`, `Create`, `CreateFails` | the saves and the prompt that end each of them; `finalizeTicket` as one outcome |

A text carries the prompt its author was reading (`on`), so that a model can ask
what no log shows: whether the answer was filed under the question it answered.
An option carries its index only, as `optionsKeyboard` encodes it. Scripts are the
constant `Script`: per service, the number of options of each question (0 for
text); `MCDialog` has one with a text and two option questions of different
length and one with a single text question, as the code's own
scripts mix them. Left out: services the client does not have, empty texts,
`/status` (it changes nothing), and Telegram giving up on an update.

## 10. Runs

| Run | Faults | Bounds | Properties |
| --- | --- | --- | --- |
| `lifecycle_faults` | crash, lost answers, dead contexts, list overflow | 2 chats, 2 requests, 2 tickets | `TypeOK`, `OneRequestPerChat`, `WatchedIsMapped`, `TrackedUntilClosed` |
| `lifecycle_recovery` | list overflow, the bot's clock ahead, expiry of markers; Zoho refuses at will, and one request for good | 2 chats, 2 requests, 1 ticket, 2 modifications and the closure, fair | `NobodyStranded`, `QueuedUntilCreated`, `PoisonDoesNotBlock`, `ClosureReachesChat` |
| `lifecycle_chaos` | crash, Redis, expiry of conversation and mapping, unbind, rebind | 1 chat, 2 requests, 2 tickets | `AtMostOneTicketPerRequest` |
| `replies_in_order` | Telegram, Zoho, burst, skew, list overflow | 3 comments, 3 messages | `InOrder` |
| `replies_marked` | crash, Zoho, Redis, expiry of markers, list overflow | 3 comments, 4 messages | `TypeOK`, `MarkerSkipsNothing` |
| `replies_arrive` | none, fair | 3 comments, 3 messages | `ReplyArrives`, `LastWordFirst` |
| `relay` | 2 outages of Zoho; one of crash, Redis, lost answer | 2 requests, 2 messages, fair | `TypeOK`, `PostedOnce`, `OrderKept`, `EarlyArrives` |
| `registry` | Zoho and deletions at will; one of lost answer, Redis outage, expiry, crash | 2 chats (one of them writing), 2 accounts of 1 chat | `TypeOK`, `OnlyOwnAccount`, `LastWordHolds`, `Exclusive` |
| `binding` | Zoho at will; one of lost answer, Redis, deadline, crash | 2 chats, 2 accounts of 1 chat, 2 keys, 1 attempt allowed, counted to 2 | `TypeOK`, `OneRedemption`, `KeysNotWasted`, `BudgetIntact`, `LockoutEnds` |
| `zoho_calls` | failing calls at will; one of Redis, deadline, crash | 2 callers, 1 retry, 1 revocation, fair | `TypeOK`, `FewRequests`, `CallReturns`, `DeadTokenReplaced` |
| `dialog` | one of redelivery, crash, Redis, Telegram, expiry, hurry | 2 handlers, 2 services, 1 old button, fair | `TypeOK`, `AnswersFit`, `RecordedOnce`, `RequestComplete`, `CanFinish` |
| `found_flush_drop` | none | 1 request, 2 messages, 1 outage | `NotDropped`, violated |

Why the bounds are enough:

* *Lifecycle*: two chats are needed for the queue and the watch set to mix the
  requests of different chats; two requests and tickets for one chat to come back
  after a closure, and for the mapping to be overwritten while the poller is in a
  closure. In `lifecycle_recovery` one of the two requests is rejected for good
  and no answer is lost, so there is never more than one ticket. Two
  modifications of it, and the closure, are enough for one before the baseline,
  one between the list and the end of `reconcile` and one after it. The numbers
  of requests, tickets and modifications also bound the length of a run: nothing
  else grows. `lifecycle_chaos` needs no dead contexts: one only takes from a
  step the outcomes in which its command or call succeeds, and where Redis may
  fail at any command the others are there anyway (`Fails`, `WorkerFails`).
* *Replies*: a call returns 2 comments (`Limit`), so that with three one can be
  outside it; three are enough for one before the baseline, one in the middle of
  a cycle and one after it. `MaxMessages` bounds how often something is sent,
  repeated sends included.
* *Relay*: two requests for a flush, a late push or a closure of the first to meet
  the second; two messages for order; two outages for a message to be buffered
  before its ticket and another to fail after it.
* *Registry*: two chats and two accounts for isolation and for the lost update of
  a list; a limit of one makes every second `Bind` meet it. One chat writes
  (`Talking`); the other is bound and revoked by others only.
* *Binding*: two chats for a race for a key, two keys for a chat to be refused for
  one and accepted with another; one allowed attempt reaches the limit with the
  second. The numbers of Binds and verdicts are bounded by `MaxCount`.
* *Zoho calls*: two callers are needed for one to invalidate what the other has
  just refreshed, or to read back what it clears.
* *Dialog*: two handlers for a duplicate to run beside the original and for an
  update to overtake another; three update ids, used again when forgotten, so
  that the client may answer for ever.

Accounts, chats, keys, requests and tickets that are interchangeable are
symmetric in the runs without liveness properties; the fair runs use none. Deadlock
is not checked where a bound or the end of a ticket stops the system
(`relay`, `binding`, `replies_*`, `found_flush_drop`); it is checked in the others.

Where a property reads "without a fault" (`KeysNotWasted`, `BudgetIntact`,
`LockoutEnds`, `EarlyArrives`), it speaks of outages of Zoho, which its run has at
will, and says nothing once a behaviour has taken one of the counted faults.

`NotDropped` contradicts the comment in `finalizeTicket` that a message arriving
during creation "is buffered as a pending comment rather than dropped": in
`found_flush_drop` the worker's flush reads the buffer, the handler, which has read
"no ticket" before the worker stored it, pushes its message, and the flush's
`DEL` removes it. No fault is needed, only one outage at the confirmation.

The other passing runs leave out the faults under which their properties fail.
These can be seen by adding the fault to `Env` in the cfg:

| Property, cfg | Fault | What happens |
| --- | --- | --- |
| `NobodyStranded`, `LifecycleRecovery` | `"deadline"` | a slow Zoho uses up the context that the enqueue and the revert need: silent mode with nothing on its way, which `handlers.go:460-462` means to exclude |
| `QueuedUntilCreated`, `LifecycleRecovery` | `"crash"` | a request popped from the queue is lost by a restart, which `queue/retry.go:1-3` says the queue survives |
| `OneRequestPerChat`, `LifecycleFaults` | `"fsmttl"` | during an outage longer than a day the conversation expires and the chat starts a second request while its first is queued |
| the same | `"rebind"` | a bound chat that redeems another key leaves `ticket_open` and opens a second ticket |
| `WatchedIsMapped`, `LifecycleFaults` | `"fsmttl"`, `"ticketttl"` | the conversation and then the mapping of an open ticket expire, `active_tickets` does not, and the chat starts a new flow |
| `TrackedUntilClosed`, `LifecycleFaults` | `"unbind"` | an unbind drops an open ticket, as it means to |
| `ClosureReachesChat`, `LifecycleRecovery` | none: without the last two conjuncts of `Noticeable` | a ticket closed before the `now` of `SetTicket`, or while the bot's clock is ahead, is no newer than its marker: `reconcile` skips it each cycle, and while it is listed it is not probed either. The chat is reset only if the ticket is modified again or deleted, leaves the list and is probed, or its marker expires; `poller.go:3-6` promises to reset "a client when their ticket is closed" |
| `MarkerSkipsNothing`, `RepliesMarked` | `"telegram"` | a reply that could not be sent is passed by the marker and lost, against the comment at `poller.go:240-242` |
| the same | `"burst"`, `"skew"` | the page of 25 or the baseline leaves replies out |
| `LastWordFirst`, `RepliesArrive` | `"zoho"` | `ListComments` fails on the cycle of the closure: the notice goes out, the last replies never do, against `poller.go:179-183` |
| the same | `"overflow"` | a closure found by the probe is not preceded by forwarding |
| `InOrder`, `RepliesInOrder` | `"expiry"`, `"crash"` | replies sent before the marker expired, or was written, are sent again |
| `Exclusive`, `Registry` | `"skip"` | an account that cannot be read during the isolation scan is taken for one without the chat: two accounts, one chat |
| `LastWordHolds`, `Registry` | `"skip"` | a revoke that cannot read the chat's account takes the chat for unbound and succeeds; the next `Authorize` lets it in |
| `NobodyStranded`, `LifecycleRecovery` | `"crash"`, `"redis"` | the request dies with the handler, or is lost on the way to the queue, after `ticket_open` was saved |

What the models show beyond that, and no property claims:

* An unbind does not reach the request of the chat that is queued or with the
  worker; the worker then creates the ticket, maps it and has it watched for the
  unbound chat, although `unbindChat` says "the poller stops forwarding to it".
* A message pushed after the flush of its ticket stays in the buffer until the
  ticket is closed (and is deleted) or another request's flush posts it on the
  wrong ticket. A closure that overlaps the next request deletes that request's
  buffer.
* An `Authorize` that was under way when `Bind` or `Revoke` returned overwrites
  the answer: a revoked chat is let in for up to 30 days, or a new client turned
  away for minutes (`crossed` in `LastWordHolds`).
* When the 30 s end inside `registry.Bind`, the release and the refund fail with
  it: the key is burnt for a day, against `handlers.go:218-219`.
* An `INCR` whose `EXPIRE` fails, or a stop in between, leaves a counter without
  TTL: once at the limit the chat is locked out for good.
* A redelivered update gets its 200 from the duplicate check at once, so Telegram
  may send the next update while the first one still waits for the lock, and the
  later can overtake the earlier (`Overtakes`): `bot.go:86-87` claims the order is
  preserved. `AnswersFit` excludes a behaviour in which it happened.
* An option button pressed late answers whatever option question is asked now,
  if it has as many options (`"hurry"`).
* A `SetFSM` that fails is logged and the next question asked all the same; the
  answer to it is then filed under the previous one.
* Waiting for the token's mutex ignores the caller's context: during an outage
  of the token endpoint an update's 30 s can pass there.

### Fairness

`WorkerFairness` and `PollerFairness` (`TicketLifecycle`): both loops are driven by
a ticker and their steps have timeouts (20 s per call, 5 min per item), so an
enabled step of theirs is eventually taken (weak fairness). A call that is made
again and again is eventually answered: the creation of each request that Zoho
does not reject for good, the list, and the probe of each ticket (strong
fairness), which says only that an outage of Zoho ends. Handlers, clients and
operators get no fairness.

`FairSpec` of `ReplyForwarding` is weak fairness of the poller, for the same
reason, and of the caller of `SetTicket`, which runs to its end when nothing
fails. `FairSpec` of `CommentRelay` is weak fairness of the three goroutines and of
the end of an outage; nobody has to confirm, write or close a ticket.

`Fairness` of `ZohoCalls`: calls go on (timeouts and timers, weak fairness), a
`sync.Mutex` is handed to a goroutine that has waited (`Lock`, `Clear`, strong
fairness: the mutex's starvation mode), the poller and the worker keep calling,
and a dead token asked with again and again is answered by a 401 in the end.

`Fairness` of `Dialog`: Telegram delivers, handlers run, and the client keeps
answering by text and by the buttons of the last prompt (strong fairness, because
an old button can always be pressed instead). That client is the premise of
`CanFinish`, not a claim about the code.

## 11. Proofs

Every safety property that a run checks is a theorem: for arbitrary sets of chats,
requests, tickets, accounts, keys, callers, services, scripts and update handlers,
and any number of comments, messages and comments per call. Where a theorem assumes
something of `Env`, the assumption is named, and the table of section 10 gives TLC's
counterexamples outside it. Where it assumes nothing, the property holds under every
fault. TLC checks the inductive invariants on the instances of the runs as well (the
typing of `Dialog` apart, which speaks of sequences of every length).

* `TicketLifecycleProofs`: `TypeCorrect`. `TypeInv` adds to `TypeOK` what each
  process holds in each place (`HoldsOK`): a handler in `finalizeTicket` has a
  request, the worker outside `idle` too, the poller in a closure has a ticket and
  its chat. Without it `keyOf`, `author` or `remaining` would be updated at a null
  value. `AtMostOnce`, assuming only that no answer of Zoho is lost: `OInv` says
  that whoever may still create a request's ticket (its author's handler, the queue,
  the worker) is alone with it and that there is none yet; the lemmas `AfterPush`
  and `AfterPop` say what RPUSH and LPOP do to a queue without duplicates. The
  times (`modseen`, `modified`, `lmod`) are typed (`TouchType`, `SetNXType`) and
  play no part in any safety invariant: the theorems hold for every `MaxModified`,
  with the gate of `reconcile` open or shut.
  `KeptUntilCreated` (`QueuedUntilCreated`), assuming `WorkerLives` (no restart, no
  failing Redis): by `Held` the worker lets a request go only after a POST that made
  its ticket.
* `OneRequestProofs`: `OneRequest`, `WatchedMapped` and `TrackedTillTheEnd`
  (`TrackedUntilClosed`), assuming `Undisturbed` (`Env` holds no Redis failure,
  expiry, unbinding or rebinding; section 10 shows what expiry and rebinding do to
  them). The invariant `IInv` says who owns a chat's request: `Own` (requests in the
  handler, the queue, the worker belong to their author), `Exclusive` (a chat with
  one has no other, nor a watched ticket), `Silent` (while it has one its
  conversation is `ticket_open`), `Mapped`, `Loaded` (a conversation in memory
  agrees with the saved one) and `Closing` (what the poller holds is closed, so the
  chat cannot have moved on before the last step of the closure). For
  `TrackedTillTheEnd`, `Kept` adds that a chat whose mapped ticket is not over has
  nothing else under way that could overwrite the mapping, and `SeenOver` that what
  the poller resets, and the mapping it is about to drop, is over. `EveryoneServed`
  (`NobodyStranded`) assumes `Calm` (no crash, no context that ends, no failing
  Redis) and no `Undisturbed`: a chat may then have several requests, so its
  invariant is another one. `Authored` says that whatever is held, queued, mapped or
  watched for a chat was written by it, so that a closure or an unbind takes away
  the request of no chat but the one it is resetting; `Served` says where a chat in
  `ticket_open` has its request.
* `ReplyForwardingProofs`: `RepliesTyped`, under every fault, and `RepliesInOrder`,
  assuming `Steady` (no crash, Redis failure or expiry of a marker; the table in
  section 10 shows why). `RInv` says where the life of the ticket is (`Stage`) and
  what the comment marker knows (`Marked`): outside the sending loop everything
  delivered is behind the marker; inside it everything still to send is after
  everything sent and up to `maxSeen`. With it every step is a step of
  `ReplyChannel` or leaves the channel alone. `LatestIsLatest` says that the
  `maxSeen` of some comments is the time of one of them. `NothingSkipped`
  (`MarkerSkipsNothing`), assuming `Attentive` (Telegram takes every message, a page
  holds the comments of a cycle, the clocks agree): crashes, Redis, Zoho, expiry and
  overflow are allowed, and `RInv` fails there, so `MInv` says less of the marker
  and more of the cycle: `Clocked` (no marker is ahead of the clock, and what was
  posted since the registration is later than its baseline), `OnPage` (what has not
  been sent is on the page) and `Reading` (every reply up to the marker that the
  cycle will write was sent or is about to be). `NoticeComesLast` (`LastWordFirst`),
  assuming `Undisturbed` (`Env` holds at most crash and expiry): `Ended` says that a
  closure is reached only from a cycle that has sent all there was to send.
* `RegistryProofs`: `TypeCorrect`, under every fault; `BindingsExclusive`, the
  refinement of `AccountMembers`, assuming only that no scan skips an account;
  `TenantsApart`, under every fault; `WordHolds` (`LastWordHolds`), assuming again
  that no scan skips an account (one that does lets a revoke return nil for a chat
  still on its account). `ListsInv` says that whoever is in `Bind` or `Revoke` is
  alone there (`bindMu`), that the list it read is still the list in Zoho unless the
  account is gone, and that from the isolation check to the PATCH the chat is on no
  account. `TenantInv` says that each trace of a binding — the list, the cache, the
  index, an `Authorize` or `Bind` in mid-air — goes back to a PATCH made for a key
  of that account. `WordInv` adds to `ListsInv` that no chat is on two accounts
  (`Single`, from the refinement: a chat joins only when it is on none), that a call
  which has returned stays the chat's last word until the next starts (`DecidedOf`),
  and that no `Authorize` that began after it can reach a write against it
  (`HeardOf`).
* `BindingProofs`: `TypeCorrect`, `SingleUse` (`OneRedemption`), `KeysSpared`
  (`KeysNotWasted`), `BudgetSpared` (`BudgetIntact`) and `LockoutLifted`
  (`LockoutEnds`), under every fault; the last three properties speak of behaviours
  without one. `RedemptionInv` says that a key being redeemed is claimed and has one
  holder, and that a key that was good for a Bind stays claimed until it is past its
  validity, when `Verify` takes over from the claim. `CleanInv` gives every claimed
  key a holder that will release it, every attempt at most one verdict owed, and
  every counter its TTL or an `EXPIRE` that is next.
* `ZohoCallsProofs`: `TypeCorrect` and `CallsBounded` (`FewRequests`), under every
  fault. `Accounted` ties the requests of a call to its loop variable and to
  `refreshedOn401`: a 401 that gives its attempt back can do so once.
* `CommentRelayProofs`: `TypeCorrect`, `PostsOnce` (`PostedOnce`) and `KeepsOrder`
  (`OrderKept`), under every fault. `Owners` says which request each process and the
  queue hold. `Relayed` says where a message may be: `InLine` that the buffer and
  what the flushes have read are ascending, all of it buffered once, and that
  nothing is newer than the message at hand, which is on no ticket unless the answer
  to its POST was lost; `InHands` that what a flush posts, and what is on a ticket,
  has left the buffer (an answer that was lost apart); `InFlush` that a ticket is
  flushed once, in ascending order. Both properties are part of the invariant, since
  a comment posted twice would break the order that the next one rests on.
* `DialogProofs`: `TypeCorrect`, `RequestsComplete` (`RequestComplete`),
  `RecordsOnce` (`RecordedOnce`) and `AnswersFitTheirQuestions` (`AnswersFit`), for
  every set of services and scripts and under every fault (the last two properties
  name the faults they exclude). `Submitted` says that every conversation, saved or
  in a handler, counts its files, and has its whole script answered once it is
  confirming, and `TypeInv` that one asking questions or confirming has a service of
  the configuration: `recordAnswer` relies on both and checks neither.
  `OnceUnlessRedis` says that an update has at most one handler past the duplicate
  check, and its mark. `InOrderUnlessFaults` (`Line`, `First`, `Following`) says
  that the updates in hand are decided on in the order in which they came, so that
  the answer being recorded was written to the question being asked.

Only model-checked: the liveness properties (`EarlyArrives`, `CallReturns`,
`DeadTokenReplaced`, `CanFinish`, `PoisonDoesNotBlock`, `ClosureReachesChat`,
`ReplyArrives`). Liveness under fairness is out of the prover's reach, because it
has no rules for `ENABLED`.

## 12. Not modelled

* `tgtext.SplitMessage`, a pure algorithm. By reading: `MaxRunes` counts runes,
  Telegram's limit is 4096 UTF-16 units, and a text of characters outside the
  basic plane has two units per rune, so "safely under it for any input" does not
  hold for 3500 such runes.
* File uploads (best effort, no state of the bot), configuration (read once),
  `tokengen`'s HTTP service, HMAC and encodings, authentication of the webhook
  and of the admin, nginx and systemd: no state over time, or I/O only.
* Wording and formatting, `detectPriority` and the descriptions of tickets: pure
  functions whose result goes to Zoho and decides nothing in the bot.
* The throttle of the probe (`ticket_checked`), and the deletion of the buffer by
  an unbind.
