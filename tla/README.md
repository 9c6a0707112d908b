# A TLA+ verification of NeoNect-server

NeoNect-server is a relay for end-to-end encrypted messages: HTTP handlers in
front of a SQLite database, WebSocket sessions for devices that are online, and
a scheduler that retries what was not acknowledged. This directory holds TLA+
modules of its core, TLC configurations that check them on small instances and
TLAPS proofs for all instances. `PROJECT.json` maps each definition to the lines
it models and lists the hazards the properties are for.

    tlc -config MCDelivery.cfg MCDelivery       # likewise for every other run in PROJECT.json
    tlapm DeliveryProofs.tla                   # likewise for every *Proofs.tla

## 1. The system

| Component | State | Operations | Code |
|---|---|---|---|
| Delivery scheduler and workers | `delivery_queue` (retry columns), goroutines | `schedulerLoop`, `dispatchDueMessages`, `Process`, maintenance | `internal/service/relay_service.go` |
| Mailboxes | `delivery_queue` (content, sequence, message id) | version 1 and 2 sends, poll, acknowledge, cleanup | `internal/api/relay_handlers.go`, `relay_service.go`, `delivery_queue_manager.go` |
| WebSocket manager | map of sessions, connection semaphore | `HandleConnection`, `DeliverMessage`, `DisconnectDevice`, `Shutdown` | `internal/service/websocket_manager.go` |
| Devices | `devices` | register (with a limit), revoke, ownership checks | `device_manager.go`, `device_handlers.go` |
| Friendships | `friendships`, `friend_requests` | add, accept, decline, cancel, remove | `friendship_manager.go`, `friend_service.go` |
| Prekeys | signed and one-time prekeys, idempotency records | upload, claim, idempotent claim | `prekey_manager.go`, `prekey_service.go`, `prekey_handlers.go` |
| Sessions | `user_blocks`, a cache (`sync.Map`) | log in, look up, log out, evict | `session_manager.go`, `auth_service.go` |
| Users | `users`, `user_blocks` | register | `user_manager.go` |
| Rate limiters | ring buffers of times, key tables, a gauge | `Allow`, `Record`, `Prune`, `Release` | `internal/api/rate_limiter.go` |
| Start-up and shutdown | order of closing | `Run`, `handleGracefulShutdown`, `Close` | `internal/app/` |
| Vault, cryptography, routing, logging, configuration | none that changes | - | `security/`, `internal/app/app_routes.go`, ... |

The components meet in the database and in the map of WebSocket sessions. Every
HTTP request runs in a goroutine of its own. Outside a few transactions
(registration, prekeys, accepting a friend) a handler is a chain of single SQL
statements, each atomic, with anything possible between two of them. The
scheduler starts a goroutine per due row every second and waits for none.

What is hard in this code, and what should hold:

* **Delivery.** Goroutines work on copies of rows and write back by id. Only a
  lease in time (`ClaimItem` moves `next_retry` by `DeliveryLockDuration`) keeps
  two from working on one row. Wanted: one holder per row, a bounded number of
  attempts, no update that undoes another, no push before the deadline of the
  last, no starvation in the batch; all this across crashes and failed statements.
* **Mailboxes.** Checks precede the INSERT by several statements, the sequence
  number is read apart from its use, and the reason for an INSERT without effect
  is found out afterwards. Wanted: quotas and unique ids under concurrency, an
  order that respects what a sender could know, truthful answers, nothing stored
  on behalf of revoked devices or strangers.
* **WebSocket manager.** Old connections clean up while new ones register,
  revocation and shutdown race with handshakes, a semaphore is released on three
  paths.
* **Sessions and users.** A cache is filled after the row was read; a logout may come
  between. Cache and table expire by different comparisons. Wanted: what is logged
  out stays out, what is not stays in until its time is over, and a name is never
  given out twice or without a password.
* **Prekeys.** One-time keys under concurrency, rollback and retries. Wanted: each
  key goes to one claim, failed claims give back what they took, a retried claim
  gets the first answer, the limit on stored keys holds.
* **Friendships.** A call finds out in several statements what there is between two
  users, while the other user, or another client of the same one, changes it. Wanted: no
  friend request between friends, no friendship one of the two did not agree to,
  answers that were true at some time.
* **Rate limiters.** Times recorded out of order, growth of a ring buffer, full
  tables, a counter that is released on every path. **Shutdown.** Workers and
  handlers at work while things are closed.

The full list, each at its line, is under `hazards` in `PROJECT.json`.

## 2. Modules

| Module | Contents |
|---|---|
| `Delivery` | scheduler, workers and retry columns: specification and properties |
| `DeliveryInvariant` | the inductive invariant `IInv` |
| `DeliveryProofs` | theorems, checked by tlapm |
| `Attempts` | what the retry protocol promises: every row as if it had a lock |
| `AttemptsProofs` | `Delivery` implements `Attempts` |
| `MCDelivery` | instances for TLC |
| `MCDeliveryLive` | `Delivery` under a clock that never stops, in finitely many states |
| `Mailbox` | sends of both versions, devices and friendships around them |
| `MailboxInvariant` | the inductive invariant `IInv` |
| `MailboxProofs` | theorems, checked by tlapm |
| `MCMailbox` | instances for TLC |
| `Sockets` | the WebSocket manager, with revocation and shutdown |
| `SocketsInvariant` | the inductive invariant `IInv` |
| `SocketsProofs` | theorems, checked by tlapm |
| `MCSockets` | instances for TLC |
| `Dispenser` | what the prekey store promises: atomic uploads and claims |
| `Prekeys` | uploads, claims and idempotent claims, statement by statement |
| `PrekeysProofs`, `MCPrekeys` | inductive invariant and theorems; instances |
| `Consent` | what friendships promise: nothing but by the users' own calls |
| `Friends` | add, accept, decline, cancel, remove, statement by statement |
| `FriendsProofs`, `MCFriends` | inductive invariant and theorems; instances |
| `Accounts` | registration, log-in, lookup of tokens, log-out, eviction |
| `AccountsProofs`, `MCAccounts` | inductive invariant and theorems; instances |
| `RateLimiter` | ring buffers, bounded tables and the gauge of `RateLimitMiddleware` |
| `RateLimiterProofs`, `MCRateLimiter` | inductive invariant and theorems; instances |

Definitions named *plausible bug* in a comment are not part of the
specification. Each is a mistake one could make in the code; substituted for the
definition below it, it makes TLC refute a property, so no property is vacuous.

### Delivery

`queue[i]` is a row: whether it is stored, its expiry and the three columns of
the retry protocol. The payload matters to none of the steps and is left out.
`worker[i][s]` is a call of `Process` for row `i`: the statement it is about to
run, the copy of the row it was given, the time it has read. `Dispatch` is
`dispatchDueMessages` with `GetDueItems`: any batch of rows due the longest, at
most `DeliveryBatchSize` (ties are free, as in the SQL). Then, in the order of the code,
`ReadClock`, `ClaimItem`, `DeliverMessage`, and one of `AwaitAck`, `BackOff`
(then perhaps `SendNotification`) and `Park`; `StatementFails` is an error of any
of the SQL statements. The other handlers appear as far as they change these
rows (`Enqueue`, `Acknowledge`, `Cleanup`) or the sessions (`Connect`,
`Disconnect`). `Crash` ends all goroutines and sessions and keeps the table.
`DeliverMessage` may fail although a session is there, which is a failed write;
what happens inside the WebSocket manager is abstracted to the set `online`.

Three history variables, read by no action, record writes to sockets, notifications and
`overran`: rows a goroutine kept longer than its lease. **Nothing in the code
ends a goroutine whose lease is over.** If it is still writing to a slow
socket then (writes have a deadline of 15 s, the lease is 120 s, but the process may be
suspended), a second goroutine claims the row, both push, and the slower one's
`UpdateState` may undo the count of the other. The properties therefore speak of
rows outside `overran`, and `LeaseExclusion` is false without that exemption. Only
`RetryCountBounded` holds of all rows: a count may be undone, but does not run away.

`Attempts` is the abstract specification: a row is taken by one holder at a time, who makes
one attempt if there are attempts left, and books it on top of what was booked when he took
the row; only a fault loses an outcome. Of the clock, the lease, `next_retry` and the copies
it knows nothing. `RowOf` maps a row to it: the holder's place in `Process` is the phase, a
pending `ack_deadline` the unanswered attempt. `AttemptsAreBooked` says that `Delivery`
implements it for each row outside `overran`. A claim that compares `next_retry` with the
clock instead of the copy keeps goroutines apart just as well, but breaks this: a copy from
before an attempt then claims the row after it and undoes its count.

### Mailbox

`queue` is the table as a set of rows, `nextId` its AUTOINCREMENT, `status` the
devices, `friends` the friendships. `req[r]` is one call of `SendRelayMessage`:
`Begin`, then a step per SQL statement. Version 2: `CheckSender`, `FindOwner`,
`CheckFriendship`, `CheckActive`, `ReadSequence`, `InsertEnvelope` and, if
nothing was inserted, `LookUp`. Version 1: `CheckSender`, `CheckFriendship`,
`ListDevices`, `FanOut`. A statement may fail; in `ReadSequence` that is not
noticed (the code drops the error and goes on with 0). Around them run
`RegisterDevice`, `RevokeDevice`, `Befriend`, `RemoveFriend`,
`AcknowledgeMessage` and `Cleanup`.
The lookup of a version 1 recipient's name is not a step: users are never
deleted. Polling changes nothing and is not an action.

The limit in bytes is a sum over the rows of a mailbox; `Bytes` is a set with one element
per byte, so that `Used` is its cardinality, about which the provers have lemmas.

`inserted` (rows ever stored) and `seen` (what was the case when a request began)
are history.

### Sockets

A call `h` of `HandleWebSocket` is one handler, one connection and one
`websocketSession`, so the model has one name for the three. A handler walks through
`Validate`, `Admit` (the semaphore `connSem`), `Upgrade`, `Register`,
`StopReading`, `Unregister`, `Release` and does not come back: a reconnecting
client is another handler, of the same or of another device. Beside it run its
heartbeat (`Tick`, `LockForPing`, `Ping`, `GiveUp`, `Stop`), the calls of
`DeliverMessage` (`LookUp`, `LockSession`, `Write`, `DropSession`), revocations
(`RevokeDevice`, `DisconnectDevice`) and the shutdown (`Sweep`, then for each session
`SayGoodbye`, `SaidGoodbye`, `Hangup`, then `Drained` and `StopServer`).

`session` is the map `activeSessions`. Nothing waits while `sessionMutex` is held, so
each of its critical sections is one step, and the mutex itself is no variable. The
mutex of a session, `mu`, is one: it is held during writes, which take time,
fail, and in `DeliverMessage` are followed by a critical section of `sessionMutex`.
`Close` may be called on a connection any number of times. A client's departure is
`StopReading`, which is possible at any time. `DeliverMessage` for a device without
a session returns at once and changes nothing, so `LookUp` has no such case. A
request may be refused for reasons outside the model (no session cookie, rate
limit, a failed query), all in the second case of `Validate`.

`missed` is history: the handlers that were between validation and registration
when `DisconnectDevice` looked at the map. **Nothing disconnects these later**;
`RevokedIsCutOff` says that they are the only ones. In the same way a handshake can
register after `Sweep`, and is then only ended by the end of the process; such a
session is in the map, so `LiveIsReachable` has no exemption for it. It has one for the
sessions `Sweep` has taken out of the map and `Hangup` has not closed yet.

### Prekeys

`db` is the committed tables: one-time prekeys (a key is a device, a kind and an
id), which of them are consumed, per device and kind the upload its signed prekey
came from, the state of devices, `idempotency_records`. Each upload and each claim
is one transaction, several statements long, on SQLite in WAL mode, and the model
keeps what that means: `writer` holds the one write lock and `work` is the
tables as it has changed them; `fresh` is the set of transactions that have begun with a
SELECT and whose snapshot is still the latest. A transaction that begins with a
write waits for the lock (`Write` without one-time keys, `Consume` without an
idempotency key). One that has read before may write only while its snapshot is the
latest and the lock is free; otherwise SQLite refuses at once (`WriteRefused`,
`InsertRefused`). Whoever commits anything anywhere in the database, also
`OtherCommit`, makes all snapshots old. The two failures that are not SQLite's are
`Fault` (a statement, the commit or the client) and `Crash`.

`UploadPrekeys` walks through `CheckOwned`, `Count`, `Write`, `Commit`; a claim through
`CheckOwner`, `CheckFriend`, then with an idempotency key `Lookup` and `Insert`, then
`Consume`, `Identity`, `Signed`, with a key `StoreAnswer`, and `Commit`. Adjacent
statements of the holder of the lock are joined where nobody can tell: nobody else
writes, and nobody reads what is not committed. Key material, signatures, and the
encryption of stored answers are left out; a bundle is the set of keys it contains. The
fingerprint of a request is what it hashes, the name and the device.

`issued` and `strangers` are history. `Dispenser` is the abstract specification: an upload
and a claim are one step each. The mapping hides everything but the committed
tables; `ClaimsAreAtomic` says that `Prekeys` implements it.

### Friends

`asked` is `friend_requests`, as pairs of sender and recipient, `friends` is
`friendships`, as sets of two. `call[c]` is one call: `Resolve` the name, then for
`AddFriend` up to three attempts of `InsertRequest` (INSERT ... WHERE NOT EXISTS),
`FindSender` and `FindFriendship`; for accept, decline and cancel
`LookForRequest` and then `DeleteRequest`, or `BeginAccept` and `CommitAccept`, which
are the two ends of a transaction and hold `lock` between them; `RemoveFriendship`.
`Fault` is a failing statement, `Busy` one that waited for the lock too long.
`saw` and `changes` remember what was the case between the two users while a call
ran, `actor` whose call changed the tables last.

`Consent` is the abstract specification: users want each other; only one's own call adds a
wish, and either of two can part. A friend request is a wish of one, a friendship
the wish of both, and `FriendsByConsent` says that `Friends` implements it.

### Accounts

`users` and `keys` are the two inserts of `CreateUser`, which show together at
`CommitUser`; `writer` holds the write lock between them. `sessions` is the SESSION
blocks, `cache` the map in memory, `cleaner` the eviction loop. A request is a
registration (`CheckTaken`, `InsertUser`, `InsertBlock`, `CommitUser`), a
log-in (`CheckPassword`, `CreateSession`), a lookup (`LoadCache`, then `CheckCached`, or
`ReadRow`, `CheckRow`, `StoreCache`) or a log-out (`Logout`, `DropCached`, `DeleteRow`).
A lookup that finds an expired row deletes it by the same `DropCached` and `DeleteRow`. A
crash empties the cache and ends what is under way. Passwords, hashes, and the
random token are abstract: a token is fresh, and nobody guesses one.

`issued`, `leaving`, `ended`, `owners` and the field `alone` of a log-out are
history. `ended` holds the tokens whose log-out no lookup fell into. **A lookup that
reads the row before `DeleteRow` and stores its entry after `DropCached` puts the token
back into the cache**, where it is good until it expires or the process ends;
`LogoutHolds` says that this is the only way.

### RateLimiter

`entries[k]` is the `RateWindow` of a key, its array with leftovers, head and count, as
in the code; `gauge` the connections under way. `go[g]` is a request in
`RateLimitMiddleware`: `Connect`, `ReadClock`, `Allow`, `Served`, `Release`. The limit
and the clock are read under one lock and used under another, so times enter a ring
in any order. `Allow` is one step, since it holds the lock of its shard.
`kept` is the reference: the sequence of times the ring stands for. `admitted` are the
times of those requests that came to the lock in the order of their times. The limits
for messages, discovery and log-ins are other instances of the same type.

## 3. What TLC checks

| Run | Instance | Properties |
|---|---|---|
| `delivery` | 1 row, 2 goroutines, clock from 1 to 6, 1 fault | `TypeOK`, `LeaseExclusion`, `RetryCountBounded`, `SentBounded`, `PushedOnce`, `NoResendBeforeDeadline`, `AttemptsAreBooked` |
| `delivery_live` | 2 rows, batch of 1, 1 goroutine each, no retry before a row is parked, 1 fault, a clock without end, fairness | `DueRowsAttended` |
| `mailbox` | 2 requests of either version, a sender and a recipient with 2 devices, 2 ids, 2 sizes, quota of 2 messages and 3 bytes, 1 fault | `TypeOK`, `QuotaRespected`, `RepliesAreTrue`, `CausalOrder`, `RevokedStaysClosed`, `NoStranger`, `FanOutReachesAll` |
| `mailbox_sequence` | smaller | one refuted statement, see section 5 |
| `mailbox_fanout` | 4 requests of either version to 1 device, quota of 4 messages | one refuted statement, see section 5 |
| `sockets` | 3 handlers of 1 device, 1 delivery at a time, 2 tokens | `TypeOK`, `LiveIsReachable`, `TokensExact`, `RevokedIsCutOff` |
| `sockets_live` | 1 handler, 2 deliveries, fairness | `OneWriter`, `CallsReturn`, `ClosedEnds` |
| `sockets_revoked` | 2 handlers | one refuted statement, see section 5 |
| `prekeys` | 3 requests out of 5 calls, 2 devices, 2 kinds, 3 ids, 1 idempotency key, limit of 2 keys, 1 fault | `TypeOK`, `RetriesAgree`, `ClaimsEntitled`, `ClaimsAreAtomic` |
| `friends` | 2 users, 2 calls under way at a time out of 9, 3 attempts, 1 fault, fairness | `TypeOK`, `NeverBoth`, `AnswersWereTrue`, `FriendsByConsent`, `CallsReturn` |
| `accounts` | 1 name, 2 passwords, 1 token, 3 requests, sessions of 1, clock to 3, 1 fault, 1 crash | `TypeOK`, `LogoutHolds`, `SessionsLast`, `NamesKept`, `AcceptedInTime` |
| `limiter` | 2 addresses in 1 shard of 1 entry, 3 requests, limits of 3 and 2, window of 2, rings from 1, clock to 4 | `TypeOK`, `RingHoldsLog`, `WindowRespected`, `GaugeIsExact` |

**Bounds.** Rows do not interact but through the batch, so one row with two
goroutines shows the races on a row and two rows with a batch of one show the
competition. Five seconds with a lease of 2, a deadline of 1 and at most one
retry let a row be pushed, time out, be retried, be parked and come up again,
and let a goroutine outlive its lease. One fault is enough to lose an outcome
or to crash; that the count of attempts grows by at most one per fault is the
theorem, for any number. In `mailbox` two requests suffice for every race of two
senders, while the table's own changes (revocations, acknowledgements, ...) are
bounded by nothing but the finite state: a device is revoked once, the
quota bounds the table. A quota of three bytes with payloads of one and two bytes lets two
messages compete for the room of one, and lets a fan-out find one mailbox full and the other
not. That the limit on their number holds too, which two requests cannot exceed, is left to the
theorems `QuotaHolds` and `FanOutReachesAllHolds`. `Slots`, `Requests`, `MaxTime`
and `MaxFaults` are the bounds the code does not have; the theorems hold for
every value of them. Goroutines of a row, and requests, are interchangeable:
hence the symmetry sets, which are not used in the liveness run.

In `delivery_live` no bound ends the clock, so a row that nobody acknowledges is pushed, parked
and comes up again every `TerminalRetryBackoff`, for ever, and takes the batch of one each time
it may. The states are finite since `NextSecond`, which takes the place of `Tick`, renames
the times whenever a second passes. This loses nothing. Of a time that has come the
code knows only whether it is before another (`next_retry <= ?`, `ORDER BY next_retry`, the
comparison of `ClaimItem`), and it adds durations only to the present and to what a goroutine
has read from the clock and will still use. So the times before all of the latter are
replaced by 1, 2, 3, ... in their order, and all later ones are moved down without
changing the distances between them; 0, the default of `next_retry`, stays before them all. An
`ack_deadline` is compared with 0 only, and an expiry with the clock only. Which rows are due
is the same before and after, and so is every step from there on. A row is parked after its first
unsuccessful attempt here, which is soonest.

In `sockets` three handlers of one device let a second replace the first while a third
is under way, and let the limit of two tokens refuse one. Entries of different devices
do not interact but through the tokens; the theorems are for any number of devices. In
`sockets_live` all that can write to a session at once, two deliveries, the heartbeat and the
shutdown, compete for one mutex.

In `prekeys` three requests are two that race and one that repeats; the calls are chosen so that two
batches fit the limit of two keys per kind one at a time but not together, and so that a claim is
made with the same idempotency key for the same and for another device. Requests end and do not
come back, so the number of requests is the bound; the tables around them change without one.
In `friends` calls do come back: two clients call again and again, so a call may meet any number of
changes by the other one; `MaxChanges` only ends the counting of them, and `FriendsAssumption`
keeps it no lower than the five that let `AddFriend` give up. The nine calls are all one user can ask of the other, less those that are
symmetrical, and two that end at once. In `accounts` requests come back too; one
name, one token and a session of one unit of time are enough to register twice, log
out, expire by either comparison and come back from a crash. In `limiter` a ring starts
with one element (the code starts with four) and grows to two and then to the limit of three, so
growth with the head at any place and both caps on it occur; with one entry per shard the
other address is refused, sweeps, or takes the place.

Deadlock is checked where requests come back (`friends`, `accounts`, `limiter`). Elsewhere the model
stops: with the clock at `MaxTime`, all rows gone and all
requests answered, or all handlers done and the server stopped, nothing is left to do.

**Fairness.** `DueRowsAttended` assumes that the scheduler's ticker keeps
firing (`WF(Dispatch)`), that the Go runtime runs every goroutine
(`WF(Process)`), and that time passes (`WF(NextSecond)`), which waits for goroutines whose
lease is about to end: they are taken to be done by then. A write has a deadline of 15 s and the
lease is 120 s, so this takes a suspended process to go wrong; a row whose every goroutine is
suspended that long would stay due for ever. Nothing is assumed about clients,
acknowledgements, connections, cleanup or faults. The batch's `ORDER BY` is needed: with
`AnyDueBatch`, a `LIMIT` without it, one row keeps the other out for ever.

The liveness properties of `Sockets` assume that goroutines run (`WF` on their steps),
that a write ends, which its deadline (`WriteTimeout`) sees to, that a read of a closed
connection fails, and that whoever waits for the mutex of a session gets it when it is
free again and again (`SF` on `LockSession`, `Heartbeat` and `SayGoodbye`): Go's
`sync.Mutex` hands itself to a waiter that has starved for a millisecond. Nothing is assumed
about clients, and no delivery, revocation or shutdown has to begin. `ClosedEnds` does not
need the heartbeat to prefer `Stop` to `Tick`, between which its `select` chooses
at random: on a closed connection the next ping fails.

`CallsReturn` of `Friends` assumes that a handler goes on (`WF` on its steps). No fairness
is assumed for the lock: a statement that waits for it too long fails by `busy_timeout`,
which is a step of the handler too. What the property says is that the three attempts
of `AddFriend` end, whatever the others do between its statements.

## 4. What is proved

`DeliveryProofs` proves, for all constants that satisfy `DeliveryAssumption`,
any number of rows, goroutines per row and faults and an unbounded clock:

* `InvariantHolds`: `Spec => []IInv`, and from it `TypeCorrect`,
  `LeaseIsExclusive`, `RetryCountIsBounded`, `SentIsBounded`, `PushIsOnce` (invariants) and
  `RetryCountIsMonotone`, `NoEarlyResend`, `ParkedIsSilent` (action properties);
* `DeliveryBooksAttempts`, in `AttemptsProofs`: `Delivery` implements `Attempts`.

The argument. A copy of a row is harmless as long as `ClaimItem`'s compare-and-set
fails on it, which it does when the row's `next_retry` has moved on. `IInv` says
when it has. Its part `Lease(i)`, for each row outside `overran`:

* the lease of a goroutine that has read the clock is not over (past that
  point the row is in `overran`);
* the copy of a holder differs from the row by the lease alone: the row's
  `next_retry` is the holder's clock reading plus `DeliveryLockDuration`, count and
  deadline are the same, so the holder's write by id undoes nothing;
* a copy not yet claimed has a `next_retry` no later than the row's, and where the
  two are equal, the other columns agree too: if the claim succeeds, the copy is fresh;
* a copy not yet claimed while another goroutine holds the row has a `next_retry` no
  later than the holder's clock reading, so nothing the holder will store, which is
  later, lets it match;
* there is one holder at most.

`LimitInv` bounds the counts in rows and copies, `UnsentInv` says that nothing
works on rows that were never stored, `ClockInv` that copies were due when taken
and no clock reading lies in the future, and `SentInv` that the pushes so far are
covered by the count of the row, or of the goroutine about to write it,
plus the faults. `LeaseExclusion` alone is not inductive, because it says
nothing of the copies that have not been claimed; `SentBounded` needs the leases
too, since an attempt is counted on a copy. `PushInv` keeps the same kind of account of
notifications: those sent and those a goroutine is about to send are at most one more than
the faults, and at most the faults while a first failure is still ahead, that is, while the
row's count is 0 and it is in the table or held. A first failure pays for its notification
by ending that: its update raises the count, or the row is gone, or a fault lost the update.

For the refinement, the lease makes the phase of a row well defined, since there is one
holder at most. A claim that succeeds comes from a copy equal to the row (`ClaimIsExclusive`)
and is a `Take`; the write to the socket is an `Attempt`; each of the three updates finds the
row as the holder copied it and is a `Settle`; a holder that ends in any other way has had a
fault, which is a `Lose`. Claims that fail, clock readings, notifications and dispatches
change nothing that `Attempts` speaks of.

`ShiftAssumption` states that `2 ^ n` is a positive natural number for the
exponents that occur, a fact of arithmetic the provers do not know; TLC
evaluates it.

`MailboxProofs` proves, for all constants that satisfy `MailboxAssumption` and any
number of requests, devices, users and faults:

* `MailboxInvariantHolds`: `Spec => []IInv` (with the `IInv` of
  `MailboxInvariant`), and from it `TypesHold`, `MessageIdsAreUnique`,
  `RepliesHold` (invariants) and `CausalOrderHolds`, `RevokedStaysClosedHolds`,
  `NoStrangerHolds` (action properties);
* `QuotaHolds` (invariant) and `FanOutReachesAllHolds` (action property), from `QInv`, which
  adds to `IInv` what they need.

The argument. Each property relates the INSERT of a request to what was the case
when it began, several statements earlier. `SeenAt` keeps the memory usable: row
ids only grow, a revoked device stays revoked, and a request that began among
strangers and has seen no friendship since would still fail the check. So a check
that succeeds rules something out for the time the request began (`ChecksAt`),
and a number that was the greatest of the mailbox when it was read lies above
every row older than the request (`SequenceAt`), whatever was inserted or deleted
since. `ReplyAt` follows from rows staying in `inserted`. The lemma `Bystander`
shows once that nothing another request or handler does disturbs any of this.

The quota counts, so its proof has to know that the sets counted are finite (`FiniteInv`). A
row brings exactly as many elements of `Bytes` as its payload has bytes, disjoint from those
of every other row, since ids are unique; a fan-out brings one row per device, so what
`HasRoom` was asked about one mailbox stays true of it whatever the same statement adds to
the others. `ListedAt` remembers, for `FanOutReachesAll`, that a device active when the
request began is in the list of targets unless it was revoked since.

`SocketsProofs` proves, for all constants that satisfy `SocketsAssumption`, any number of
handlers, devices and deliveries and any limit:

* `SocketsInvariantHolds`: `Spec => []IInv` (with the `IInv` of `SocketsInvariant`), and
  from it `SocketsTypesHold`, `LiveStaysReachable`, `MapStaysLive`, `TokensStayExact`,
  `OneWriterAtATime` and `RevokedStaysCutOff`.

The argument. `ReferencesInv`: whoever has got hold of a session, be it the map, a delivery
or the shutdown, has it from a handler that has registered, so a handler's `Register`
finds no trace of itself. `ConnInv`: a connection that has been closed stays closed, and a
failed delivery has closed its own, so `RemoveOwn` takes away entries of closed
connections only; that is why `LiveIsReachable` survives it. `MutexInv` ties each
writer to the mutex, which gives `OneWriter`: a second one cannot take it. `TokensExact` needs
the set of handlers past `Admit` to change by exactly the one that moves.
`HandshakeInv` says of handshakes what `RevokedIsCutOff` says of connections, without
which `Register` could not be shown to preserve the latter.

`PrekeysProofs` proves, for all constants that satisfy `PrekeysAssumption` and
`NoneAssumption` (`None` is no bundle and no record), any number of users, devices, keys,
requests and faults:

* `Spec => []IInv`, and from it `TypesHold`, `RetriesHold`, `ClaimsHaveTitle`, two
  more about the tables, `KeysAreAccounted` and `StoreIsBounded`, and `StoreDispenses`:
  `Prekeys` implements `Dispenser`.

The argument. Only a commit changes what is committed, so everything depends on what a
transaction has made of the tables by then. `UploadWork` and `ClaimWork` say it for each
statement of the holder of the lock, as a function of the committed tables, which cannot
change under it. `SnapshotsTell` carries what was read before the lock was taken: a count
that was within the limit, and the absence of a record, are still right when the first write
succeeds, because that needs a snapshot nothing was committed after. A commit then is
`Supply` or `Issue` of `Dispenser`, every other step changes nothing it speaks of, except
that devices enter and leave service. `RecordWork`, `RecordsTrue` and `AnswersTrue` tie a
record to the claim that committed it and each answer to its record, which gives
`RetriesAgree`. `PassedAreNone` remembers that whoever has passed the check was the
owner or a friend; it holds since `strangers` only loses members after `Begin`.

`FriendsProofs` proves, for any number of users and clients, `Spec => []IInv` and from it
`TypesHold`, `FriendsHaveNoRequest`, `FriendsImplementConsent` and `AnswersAreTrue`. `NeverBoth` needs
`LockOfAccept`: between the two writes of `AcceptFriendRequest` nobody else writes, so
the request it found is the one it replaces; and `Decent`: two users never ask each other
at the same time, since the INSERT looks for a request in either direction.
`AnswersWereTrue` needs two facts about history (`HistoryInv`). `SawNow`: what is between two
users now is among what a call under way has seen, so a statement that finds something proves
its answer. `Counted`: every attempt of `AddFriend` that comes to nothing has been crossed by
two changes or more, but the last by one, since its refused INSERT met something and each look-up
after it did not find what it looked for; `Owed` is how many changes there must have been by
each statement of each attempt, given what is between the two users now, and it adds up to the
five after which the call gives up.

`AccountsProofs` proves, for any number of names, tokens, requests, faults and crashes and an
unbounded clock, `Spec => []IInv` and from it `TypesHold`, `LogoutIsFinal`,
`SessionsLive`, `NamesLast` and `AcceptsInTime`. Its parts: every copy of a session, in the
cache or in a request, is that of the session issued (`RowsAreTrue`, `CacheIsTrue`,
`RequestsAreTrue`); whoever is about to delete a row may (`DeletesAreDue`); while
a log-out that no lookup fell into is between its deletions, no copy of its token
is about to be stored (`AloneIsAlone`); and a registration that has the lock
registers a free name (`NameIsFree`).

`RateLimiterProofs` proves, for any number of addresses, shards and requests, any capacities and
an unbounded clock, and from `LimiterAssumption` and `NoneAssumption` (`None` is no ring):
`TypeCorrect`, `RingIsLog`, `WindowIsRespected`, `GaugeCounts` and `ShardsStayBounded`. A gauge counts because a
request is counted when it leaves `idle` and uncounted when it returns there; a shard is
bounded because an entry is added only below the limit or where there is one. The rings
need more. `Holds` says that a ring is well formed and its elements, from its head and around the
end of the array, are a given sequence of times; each operation of the ring has a lemma
that says what it makes of that sequence: `append` adds one time, also when it has to move to a
larger array, and pruning drops the longest prefix of old times. That there is a longest one
is the least-number principle, which follows from the library's theorem about minimal
elements without the induction rule that the provers cannot use. `WindowInv` says of requests
that came in the order of their times (`InOrder`) that the log still has all of them within the
window (`Keeps`): pruning stops at the first young time, so with times in any order old ones
may stay, but no young one goes.

Only model-checked are the liveness properties: `DueRowsAttended` of `Delivery`, `CallsReturn`
and `ClosedEnds` of `Sockets` and `CallsReturn` of `Friends`. They rest on fairness, that is,
on `ENABLED`, which is beyond the prover. Every other property of the passing runs is a theorem.

## 5. Where code and documentation disagree

Three are runs that TLC refutes:

* `mailbox_sequence`: version 2 is documented as strictly sequence-bound
  (`docs/PROTOCOL.md:13`), but two concurrent sends to a device can store the same
  sequence number. What does hold is `CausalOrder`: an envelope whose sending
  began when a message was in the mailbox is numbered above it.
* `mailbox_fanout`: of version 1 a test says that it "reads MAX(sequence) and increments it"
  (`test/relay/sequence_test.go:88`) and expects different, growing numbers. The fan-out
  increments the number of the newest row instead (`delivery_queue_manager.go:173`). The two are
  the same until a version 2 send reads its number, fan-outs store copies, and
  only then the version 2 row is stored: it is the newest now, without the greatest number, and the
  next copy repeats a number. The test sends version 1 only and cannot see this.
* `sockets_revoked`: the tests expect a revoked device to be disconnected and unable to
  connect (`test/websocket/ws_test.go:145`, `test/api/device_revocation_test.go:69`), but a
  handshake validated before the revocation and registered after the disconnect
  stays connected. What does hold is `RevokedIsCutOff`. (Sending, polling and
  acknowledging check the device again; the pushes of the scheduler do not.)

The models show more that is no run of its own. `Mailbox.tla` ends with the statements
under "Refuted"; two more of them, put into `MCMailboxSequence.cfg` (with `MessageIds <- OneId`
for the second) in place of `SequenceUnique`, are refuted too:

* `QuotaReplyIsTrue`: the quota answer of version 2 is documented as deterministic
  (`docs/PROTOCOL.md:16`), but a resend whose first copy is acknowledged at the
  wrong moment is answered with it while there is room.
* `StoredOnce`: message ids prevent duplicates (`docs/PROTOCOL.md:15`) only as long
  as the first copy is in the mailbox.

And of the other components:

* `ConflictIsTrue` (`Prekeys`) is false: a claim with a fresh idempotency key is
  answered 409, the answer for a key in use, whenever anything at all was committed between its look-up and
  its INSERT, because every error of that INSERT is taken for a key in use
  (`prekey_manager.go:222`).
* Of two registrations of one name that overlap, the loser fails at the UNIQUE index and is
  answered 400; `docs/ERRORS.md` promises 409, which is given only when the check before
  finds the name (`auth_handlers.go`). `NamesKept` holds all the same.
* A log-out answers success although its DELETE failed, and a lookup between the
  two deletions caches the token again (`Accounts`).
* `SetLimits` and `SetIPLimits` of the rate limiter, and `SetTTL`, are called nowhere.

## 6. Plan

Done: `Delivery` with `Attempts`, `Mailbox`, `Sockets`, `Prekeys` with `Dispenser`, `Friends` with `Consent`,
`Accounts`, `RateLimiter`, each with its run, and with proofs as section 4 says.

To follow: the rest of the order of shutdown, that is, `Close` of the relay service, the
session cache and the database against running workers, the scheduler and handlers that
outlive their deadline. Two hazards wait for it: a handshake that registers
after the sweep is closed by nobody but the end of the process, and
the scheduler may add a worker after `Wait` was called.

## 7. Not modelled, and why

Cryptography, the vault and the HTTP plumbing have no state that changes; the
models treat payloads and names as abstract values. Migrations run once before
the server listens. Configuration is read once at the start; its values are the constants
of the modules. The push adapter only logs. SQLite is taken at its word: statements are
atomic and serialised, transactions isolated, and a snapshot that is not the latest
cannot be written from. Operations that only read (lists of friends, polling, counts of
prekeys, presence) change nothing and are no actions.
