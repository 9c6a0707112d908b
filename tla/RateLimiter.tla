----------------------------- MODULE RateLimiter -----------------------------
(***************************************************************************)
(* The rate limiter in front of every handler: RateLimitMiddleware counts   *)
(* the requests of an address that are under way (GaugeLimiter) and keeps   *)
(* the times of its recent ones in a ring buffer (TimeWindowLimiter,        *)
(* RateWindow); the limits on messages, discovery and log-ins are further   *)
(* instances of the second.                                                 *)
(*                                                                         *)
(* A goroutine reads the limit and the clock first and takes the lock of    *)
(* the key's shard later, so requests may enter a ring in another order     *)
(* than that of their times.                                                *)
(***************************************************************************)
EXTENDS Integers, Sequences, FiniteSets

CONSTANTS
    Keys,           \* addresses or users
    Shards,
    ShardOf,        \* the hash of a key
    MaxKeys,        \* per shard
    Limit,          \* maxReqPerSecIP: admissions per window
    ConnLimit,      \* maxConnPerIP: requests of an address at a time
    Window,         \* rateWindow
    FirstCapacity,  \* of a ring: 4
    Goroutines,     \* bound: the requests under way
    MaxTime,        \* bound on the clock
    None

ASSUME LimiterAssumption ==
    /\ ShardOf \in [Keys -> Shards]
    /\ IsFiniteSet(Keys) /\ IsFiniteSet(Goroutines)
    /\ Limit \in Nat \ {0}
    /\ MaxKeys \in Nat /\ ConnLimit \in Nat
    /\ Window \in Nat \ {0}
    /\ FirstCapacity \in Nat \ {0}
    /\ MaxTime \in Nat

Time == 0 .. MaxTime

\* slots: the array, whose unused elements are leftovers.
RateWindow == [slots: Seq(Time), head: Nat, count: Nat]

\* The absence of an entry is told from every entry.
ASSUME NoneAssumption == None \notin RateWindow

VARIABLES
    now,        \* the clock
    entries,    \* per key, its RateWindow, None where there is no entry
    gauge,      \* per key, the GaugeLimiter's count, 0 where there is no entry
    go,         \* the goroutines' local state
    \* History, read by no action:
    kept,       \* per key, the times its ring should hold, oldest first
    latest,     \* per shard, the latest time its entries were pruned for
    admitted    \* per key, the times of the requests admitted in order

vars == <<now, entries, gauge, go, kept, latest, admitted>>

-----------------------------------------------------------------------------

NewWindow == [slots |-> <<>>, head |-> 0, count |-> 0]

Goroutine == [pc: {"idle", "conn", "window", "serve", "release"},
              key: Keys \cup {None}, time: Time]

TypeOK ==
    /\ now \in Time
    /\ entries \in [Keys -> RateWindow \cup {None}]
    /\ \A k \in Keys :
           entries[k] # None =>
               /\ entries[k].count <= Len(entries[k].slots)
               /\ Len(entries[k].slots) <= Limit
               /\ entries[k].head < Len(entries[k].slots) \/ entries[k].slots = <<>>
    /\ gauge \in [Keys -> Nat]
    /\ go \in [Goroutines -> Goroutine]
    /\ kept \in [Keys -> Seq(Time)]
    /\ latest \in [Shards -> Time]
    /\ admitted \in [Keys -> Seq(Time)]

Idle == [pc |-> "idle", key |-> None, time |-> 0]

Init ==
    /\ now = 0
    /\ entries = [k \in Keys |-> None]
    /\ gauge = [k \in Keys |-> 0]
    /\ go = [g \in Goroutines |-> Idle]
    /\ kept = [k \in Keys |-> <<>>]
    /\ latest = [s \in Shards |-> 0]
    /\ admitted = [k \in Keys |-> <<>>]

-----------------------------------------------------------------------------
(* RateWindow.  Its array is indexed from 0.                               *)

Cap(rw) == Len(rw.slots)

At(rw, i) == rw.slots[1 + ((rw.head + i) % Cap(rw))]

\* What the ring holds, oldest first.
Contents(rw) == [i \in 1 .. rw.count |-> At(rw, i - 1)]

IsYoung(time, t) == t - time < Window

YoungAt(rw, i, t) == IsYoung(At(rw, i), t)

\* Prune stops at the first time that is young enough.
Pruned(rw, t) ==
    LET old == CHOOSE n \in 0 .. rw.count :
                   /\ \A i \in 0 .. n - 1 : ~ YoungAt(rw, i, t)
                   /\ n = rw.count \/ YoungAt(rw, n, t)
    IN  IF rw.count = 0 THEN rw
        ELSE [rw EXCEPT !.head = (@ + old) % Cap(rw), !.count = @ - old]

AtMost(n, most) == IF n > most THEN most ELSE n

\* Plausible bugs: the ring is copied from the start of the array, or is not
\* started anew after it was copied.
CopiedFromStart(rw, capacity) ==
    [rw EXCEPT !.slots = [i \in 1 .. capacity |-> IF i <= Cap(rw) THEN @[i] ELSE 0],
               !.head = 0]

Grown(rw, capacity) ==
    [rw EXCEPT !.slots = [i \in 1 .. capacity |->
                             IF i <= rw.count THEN At(rw, i - 1) ELSE 0],
               !.head = 0]

\* A plausible bug: the ring doubles without regard to the limit.
Doubled(rw) ==
    IF rw.slots = <<>> THEN Grown(rw, FirstCapacity)
    ELSE IF rw.count = Cap(rw) /\ Cap(rw) < Limit
    THEN Grown(rw, 2 * Cap(rw))
    ELSE rw

WithRoom(rw) ==
    IF rw.slots = <<>> THEN Grown(rw, AtMost(FirstCapacity, Limit))
    ELSE IF rw.count = Cap(rw) /\ Cap(rw) < Limit
    THEN Grown(rw, AtMost(2 * Cap(rw), Limit))
    ELSE rw

Admits(rw) == rw.count < Limit

\* Record, of which the caller knows whether it admits the request.
Recorded(rw, t) ==
    LET room == WithRoom(rw)
    IN  [room EXCEPT
           !.slots[1 + ((room.head + room.count) % Cap(room))] = t,
           !.count = @ + 1]

-----------------------------------------------------------------------------
(* TimeWindowLimiter.Allow, under the lock of the shard.                    *)

InShard(table, s) == {k \in Keys : ShardOf[k] = s /\ table[k] # None}

\* A plausible bug: whatever is in the way is evicted.
SweptAll(s, t) ==
    [k \in Keys |-> IF k \in InShard(entries, s) THEN None ELSE entries[k]]

\* Entries are pruned, and deleted if nothing is left of them.
Swept(s, t) ==
    [k \in Keys |->
       IF k \notin InShard(entries, s) THEN entries[k]
       ELSE IF Pruned(entries[k], t).count = 0 THEN None
       ELSE Pruned(entries[k], t)]

IsFull(table, s) == Cardinality(InShard(table, s)) >= MaxKeys

\* The table as Allow finds it for a key, after its pruning or its sweep.
Prepared(k, t) ==
    IF entries[k] # None
    THEN [entries EXCEPT ![k] = Pruned(@, t)]
    ELSE IF IsFull(entries, ShardOf[k]) THEN Swept(ShardOf[k], t) ELSE entries

-----------------------------------------------------------------------------
(* RateLimitMiddleware.                                                    *)

\* AllowConnection reads the limit of connections, which the model leaves as it
\* is, and counts the request.
Connect(g, k) ==
    /\ go[g].pc = "idle"
    /\ IF gauge[k] >= ConnLimit
       THEN UNCHANGED <<gauge, go>>
       ELSE /\ gauge' = [gauge EXCEPT ![k] = @ + 1]
            /\ go' = [go EXCEPT ![g].pc = "conn", ![g].key = k]
    /\ UNCHANGED <<now, entries, kept, latest, admitted>>

\* AllowIPRequest: the limit and the clock, under rl.mu.
ReadClock(g) ==
    /\ go[g].pc = "conn"
    /\ go' = [go EXCEPT ![g].pc = "window", ![g].time = now]
    /\ UNCHANGED <<now, entries, gauge, kept, latest, admitted>>

Surviving(times, t) ==
    LET old == {i \in 0 .. Len(times) :
                  \A j \in 1 .. i : ~ IsYoung(times[j], t)}
    IN  SubSeq(times, 1 + (CHOOSE i \in old : \A j \in old : j <= i), Len(times))

Allow(g) ==
    LET k == go[g].key
        t == go[g].time
        table == Prepared(k, t)
        isNew == table[k] = None
        refused == isNew /\ IsFull(table, ShardOf[k])
        rw == IF isNew THEN NewWindow ELSE table[k]
        swept == IF entries[k] = None THEN InShard(entries, ShardOf[k]) ELSE {k}
        pruned == [j \in Keys |-> IF j \in swept /\ (j = k \/ IsFull(entries, ShardOf[k]))
                                  THEN Surviving(kept[j], t) ELSE kept[j]]
    IN  /\ go[g].pc = "window"
        /\ latest' = [latest EXCEPT ![ShardOf[k]] = IF t > @ THEN t ELSE @]
        /\ IF refused \/ ~ Admits(rw)
           THEN /\ entries' = IF refused THEN table ELSE [table EXCEPT ![k] = rw]
                /\ go' = [go EXCEPT ![g].pc = "release", ![g].time = 0]
                /\ kept' = pruned
                /\ UNCHANGED admitted
           ELSE /\ entries' = [table EXCEPT ![k] = Recorded(rw, t)]
                /\ go' = [go EXCEPT ![g].pc = "serve"]
                /\ kept' = [pruned EXCEPT ![k] = Append(@, t)]
                /\ admitted' = IF t < latest[ShardOf[k]] THEN admitted
                               ELSE [admitted EXCEPT ![k] = Append(@, t)]
        /\ UNCHANGED <<now, gauge>>

\* The handler returns or panics; ReleaseConnection is deferred.
Served(g) ==
    /\ go[g].pc = "serve"
    /\ go' = [go EXCEPT ![g].pc = "release", ![g].time = 0]
    /\ UNCHANGED <<now, entries, gauge, kept, latest, admitted>>

\* A plausible bug: an entry is deleted as soon as one request has ended.
DeletedEntry(count) == 0

Released(count) == IF count > 0 THEN count - 1 ELSE 0

Release(g) ==
    /\ go[g].pc = "release"
    /\ gauge' = [gauge EXCEPT ![go[g].key] = Released(@)]
    /\ go' = [go EXCEPT ![g] = Idle]
    /\ UNCHANGED <<now, entries, kept, latest, admitted>>

Tick ==
    /\ now < MaxTime
    /\ now' = now + 1
    /\ UNCHANGED <<entries, gauge, go, kept, latest, admitted>>

Next ==
    \/ \E g \in Goroutines :
           \/ \E k \in Keys : Connect(g, k)
           \/ ReadClock(g) \/ Allow(g) \/ Served(g) \/ Release(g)
    \/ Tick

Spec == Init /\ [][Next]_vars

-----------------------------------------------------------------------------
(* Properties.                                                             *)

\* The ring holds the times of the admitted requests in their order, except
\* those that were pruned, however it has grown and wherever its head was; an
\* entry that is deleted had none left.
RingHoldsLog ==
    \A k \in Keys :
        kept[k] = IF entries[k] = None THEN <<>> ELSE Contents(entries[k])

\* Of the requests that take the lock in the order of their times no window has
\* more than the limit, whatever comes out of order or is swept meanwhile: any
\* limit + 1 of them are at least a window apart.
WindowRespected ==
    \A k \in Keys : \A i \in DOMAIN admitted[k] :
        i + Limit \in DOMAIN admitted[k] =>
            admitted[k][i + Limit] - admitted[k][i] >= Window

\* The gauge counts exactly the requests under way, on every path, and so never
\* more than the limit.
GaugeIsExact ==
    \A k \in Keys :
        /\ gauge[k] = Cardinality({g \in Goroutines : go[g].pc # "idle" /\ go[g].key = k})
        /\ gauge[k] <= ConnLimit

\* "strictly bounds map growth per shard": no addresses, however many and in
\* whatever order they come, make a shard hold more than its entries.
ShardsBounded ==
    \A s \in Shards : Cardinality(InShard(entries, s)) <= MaxKeys

=============================================================================
