------------------------- MODULE RateLimiterProofs --------------------------
(***************************************************************************)
(* Proofs about RateLimiter, for any number of addresses, shards and         *)
(* goroutines and any limits: the gauge counts the requests under way, no     *)
(* shard has more entries than it may, a ring holds what it should wherever   *)
(* its head is and however it has grown, and no window has more requests in   *)
(* order than the limit.                                                    *)
(***************************************************************************)
EXTENDS RateLimiter, FunctionTheorems, FiniteSetTheorems, SequenceTheorems,
        WellFoundedInduction, TLAPS

UnderWay(k) == {g \in Goroutines : go[g].pc # "idle" /\ go[g].key = k}

\* The table is a function of the keys, whatever its values are.
IsFunction(f) == f = [k \in Keys |-> f[k]]

GaugeTyped ==
    /\ now \in Time
    /\ gauge \in [Keys -> Nat]
    /\ go \in [Goroutines -> Goroutine]
    /\ \A g \in Goroutines : go[g].pc # "idle" => go[g].key \in Keys

\* A well-formed ring, and what it holds.
RingOK(rw) ==
    /\ rw \in RateWindow
    /\ rw.count <= Cap(rw) /\ Cap(rw) <= Limit
    /\ rw.head < Cap(rw) \/ rw.slots = <<>>

Holds(rw, times) ==
    /\ times \in Seq(Time) /\ Len(times) = rw.count
    /\ \A i \in 1 .. rw.count : times[i] = At(rw, i - 1)

EntryHolds(entry, times) ==
    IF entry = None THEN times = <<>> ELSE RingOK(entry) /\ Holds(entry, times)

RingsHold == \A k \in Keys : EntryHolds(entries[k], kept[k])

LogsTyped ==
    /\ kept \in [Keys -> Seq(Time)]
    /\ latest \in [Shards -> Time]
    /\ admitted \in [Keys -> Seq(Time)]

\* The admissions of a key, of times, that are within a window of a time.
Recent(times, t) == {i \in DOMAIN times : IsYoung(times[i], t)}

\* Every one of them is still in the key's log, at a place of its own: pruning
\* stops short of it, whatever times it is done for.
Keeps(log, times, t) ==
    \E place \in Injection(Recent(times, t), DOMAIN log) :
        \A i \in Recent(times, t) : log[place[i]] = times[i]

InOrder(times, t) ==
    /\ \A i \in DOMAIN times : times[i] <= t
    /\ \A i, j \in DOMAIN times : i <= j => times[i] <= times[j]

WindowInv ==
    /\ WindowRespected
    /\ \A k \in Keys : /\ InOrder(admitted[k], latest[ShardOf[k]])
                       /\ Keeps(kept[k], admitted[k], latest[ShardOf[k]])

IInv ==
    /\ GaugeTyped /\ GaugeIsExact
    /\ IsFunction(entries) /\ ShardsBounded
    /\ LogsTyped /\ RingsHold /\ WindowInv

-----------------------------------------------------------------------------
(* The gauge.                                                              *)

LEMMA FiniteUnderWay ==
    ASSUME NEW k
    PROVE  IsFiniteSet(UnderWay(k))
<1>1. UnderWay(k) \subseteq Goroutines
  BY DEF UnderWay
<1> QED
  BY <1>1, LimiterAssumption, FS_Subset

\* A step that moves goroutines on leaves what they count alone.
LEMMA GaugeStays ==
    ASSUME GaugeTyped, GaugeIsExact, gauge' = gauge, now' = now, NEW g \in Goroutines,
           go[g].pc # "idle", NEW state \in Goroutine,
           state.pc # "idle", state.key = go[g].key,
           go' = [go EXCEPT ![g] = state]
    PROVE  GaugeTyped' /\ GaugeIsExact'
<1>1. /\ go'[g] = state
      /\ \A q \in Goroutines \ {g} : go'[q] = go[q]
      /\ go' \in [Goroutines -> Goroutine]
  BY DEF GaugeTyped
<1>2. GaugeTyped'
  BY <1>1 DEF GaugeTyped
<1>3. ASSUME NEW k \in Keys
      PROVE  {q \in Goroutines : go'[q].pc # "idle" /\ go'[q].key = k}
                 = {q \in Goroutines : go[q].pc # "idle" /\ go[q].key = k}
  BY <1>1
<1> QED
  BY <1>2, <1>3 DEF GaugeIsExact

LEMMA ConnectCounts ==
    ASSUME GaugeTyped, GaugeIsExact, NEW g \in Goroutines, NEW k \in Keys, Connect(g, k)
    PROVE  GaugeTyped' /\ GaugeIsExact'
<1>1. CASE gauge[k] >= ConnLimit
  BY <1>1 DEF Connect, GaugeTyped, GaugeIsExact
<1>2. CASE ~ gauge[k] >= ConnLimit
  <2> DEFINE state == [[go[g] EXCEPT !.pc = "conn"] EXCEPT !.key = k]
  <2>1. /\ go[g].pc = "idle" /\ gauge' = [gauge EXCEPT ![k] = @ + 1]
        /\ go[g] \in Goroutine /\ now' = now
    BY <1>2 DEF Connect, GaugeTyped
  <2>2. go' = [go EXCEPT ![g].pc = "conn", ![g].key = k]
    BY <1>2 DEF Connect
  <2>3. state \in Goroutine /\ state.pc = "conn" /\ state.key = k
    BY <2>1 DEF Goroutine
  <2>4. go'[g] = state /\ go' \in [Goroutines -> Goroutine]
        /\ \A q \in Goroutines \ {g} : go'[q] = go[q]
    BY <2>2, <2>3 DEF GaugeTyped
  <2> HIDE DEF state
  <2>5. GaugeTyped'
    BY <2>1, <2>3, <2>4 DEF GaugeTyped
  <2>6. UnderWay(k)' = UnderWay(k) \cup {g} /\ g \notin UnderWay(k)
    BY <2>1, <2>3, <2>4 DEF UnderWay
  <2>7. Cardinality(UnderWay(k)') = Cardinality(UnderWay(k)) + 1
    BY <2>6, FiniteUnderWay, FS_AddElement
  <2>8. gauge[k] = Cardinality(UnderWay(k)) /\ gauge[k] \in Nat /\ ConnLimit \in Nat
    BY LimiterAssumption DEF GaugeIsExact, UnderWay, GaugeTyped
  <2>9. gauge'[k] = Cardinality(UnderWay(k)') /\ gauge'[k] <= ConnLimit
    BY <1>2, <2>1, <2>7, <2>8 DEF GaugeTyped
  <2>10. ASSUME NEW j \in Keys, j # k
         PROVE  gauge'[j] = Cardinality(UnderWay(j)') /\ gauge'[j] <= ConnLimit
    <3>1. UnderWay(j)' = UnderWay(j)
      BY <2>1, <2>3, <2>4, <2>10 DEF UnderWay
    <3>2. gauge'[j] = gauge[j]
      BY <2>1, <2>10 DEF GaugeTyped
    <3> QED
      BY <3>1, <3>2 DEF GaugeIsExact, UnderWay
  <2> QED
    BY <2>5, <2>9, <2>10 DEF GaugeIsExact, UnderWay
<1> QED
  BY <1>1, <1>2

LEMMA ReleaseCounts ==
    ASSUME GaugeTyped, GaugeIsExact, NEW g \in Goroutines, Release(g)
    PROVE  GaugeTyped' /\ GaugeIsExact'
<1>1. PICK k \in Keys : k = go[g].key
  BY DEF Release, GaugeTyped
<1>2. /\ go[g].pc = "release"
      /\ go' = [go EXCEPT ![g] = Idle]
      /\ gauge' = [gauge EXCEPT ![k] = Released(@)]
  BY <1>1 DEF Release
<1>3. Idle \in Goroutine /\ Idle.pc = "idle"
  BY LimiterAssumption DEF Idle, Goroutine, Time
<1>4. go'[g] = Idle /\ go' \in [Goroutines -> Goroutine]
      /\ \A q \in Goroutines \ {g} : go'[q] = go[q]
  BY <1>2, <1>3 DEF GaugeTyped
<1>5. GaugeTyped'
  BY <1>2, <1>3, <1>4 DEF GaugeTyped, Released, Release
<1>6. UnderWay(k)' = UnderWay(k) \ {g} /\ g \in UnderWay(k)
  BY <1>1, <1>2, <1>3, <1>4 DEF UnderWay
<1>7. /\ Cardinality(UnderWay(k)') = Cardinality(UnderWay(k)) - 1
  BY <1>6, FiniteUnderWay, FS_RemoveElement
<1>8. Cardinality(UnderWay(k)) # 0
  BY <1>6, FiniteUnderWay, FS_EmptySet
<1>9. gauge[k] = Cardinality(UnderWay(k)) /\ gauge[k] \in Nat /\ gauge[k] <= ConnLimit
      /\ ConnLimit \in Nat
  BY LimiterAssumption DEF GaugeIsExact, UnderWay, GaugeTyped
<1>10. gauge'[k] = Cardinality(UnderWay(k)') /\ gauge'[k] <= ConnLimit
  BY <1>2, <1>7, <1>8, <1>9 DEF GaugeTyped, Released
<1>11. ASSUME NEW j \in Keys, j # k
       PROVE  gauge'[j] = Cardinality(UnderWay(j)') /\ gauge'[j] <= ConnLimit
  <2>1. UnderWay(j)' = UnderWay(j)
    BY <1>1, <1>2, <1>3, <1>4, <1>11 DEF UnderWay
  <2>2. gauge'[j] = gauge[j]
    BY <1>2, <1>11 DEF GaugeTyped
  <2> QED
    BY <2>1, <2>2 DEF GaugeIsExact, UnderWay
<1> QED
  BY <1>5, <1>10, <1>11 DEF GaugeIsExact, UnderWay

\* Every path of a request, refused by the window or not, ends in one release.
LEMMA GaugeNext ==
    ASSUME GaugeTyped, GaugeIsExact, Next
    PROVE  GaugeTyped' /\ GaugeIsExact'
<1> USE LimiterAssumption
<1>1. ASSUME NEW g \in Goroutines, ReadClock(g)
      PROVE  GaugeTyped' /\ GaugeIsExact'
  <2> DEFINE state == [[go[g] EXCEPT !.pc = "window"] EXCEPT !.time = now]
  <2>1. go[g] \in Goroutine /\ go[g].pc = "conn" /\ now' = now /\ gauge' = gauge
    BY <1>1 DEF ReadClock, GaugeTyped
  <2>2. go' = [go EXCEPT ![g] = state]
    BY <1>1 DEF ReadClock, GaugeTyped
  <2>3. state \in Goroutine /\ state.pc # "idle" /\ state.key = go[g].key
    BY <2>1 DEF Goroutine, GaugeTyped
  <2> HIDE DEF state
  <2> QED
    BY <2>1, <2>2, <2>3, GaugeStays
<1>2. ASSUME NEW g \in Goroutines, Allow(g) \/ Served(g)
      PROVE  GaugeTyped' /\ GaugeIsExact'
  <2> DEFINE served == [go[g] EXCEPT !.pc = "serve"]
             over == [[go[g] EXCEPT !.pc = "release"] EXCEPT !.time = 0]
  <2>1. go[g] \in Goroutine /\ go[g].pc # "idle" /\ now' = now /\ gauge' = gauge
    BY <1>2 DEF Allow, Served, GaugeTyped
  <2>2. go' = [go EXCEPT ![g] = served] \/ go' = [go EXCEPT ![g] = over]
    BY <1>2 DEF Allow, Served, GaugeTyped
  <2>3. served \in Goroutine /\ served.pc # "idle" /\ served.key = go[g].key
    BY <2>1 DEF Goroutine
  <2>4. 0 \in Time
    BY DEF Time
  <2>5. over \in Goroutine /\ over.pc # "idle" /\ over.key = go[g].key
    BY <2>1, <2>4 DEF Goroutine
  <2> HIDE DEF served, over
  <2> QED
    BY <2>1, <2>2, <2>3, <2>5, GaugeStays
<1>3. CASE Tick
  BY <1>3 DEF Tick, GaugeTyped, GaugeIsExact, Time
<1> QED
  BY <1>1, <1>2, <1>3, ConnectCounts, ReleaseCounts DEF Next

-----------------------------------------------------------------------------
(* The shards.                                                             *)

LEMMA FiniteShard ==
    ASSUME NEW table, NEW s
    PROVE  IsFiniteSet(InShard(table, s))
<1>1. InShard(table, s) \subseteq Keys
  BY DEF InShard
<1> QED
  BY <1>1, LimiterAssumption, FS_Subset

\* The preparation of a shard for a key adds nothing to any shard.
LEMMA PreparedIsLess ==
    ASSUME IsFunction(entries), NEW k \in Keys, NEW t
    PROVE  /\ IsFunction(Prepared(k, t))
           /\ \A s \in Shards : InShard(Prepared(k, t), s) \subseteq InShard(entries, s)
<1>1. CASE entries[k] # None
  <2>1. Prepared(k, t) = [entries EXCEPT ![k] = Pruned(@, t)]
    BY <1>1 DEF Prepared
  <2> QED
    BY <1>1, <2>1 DEF InShard, IsFunction
<1>2. CASE entries[k] = None /\ IsFull(entries, ShardOf[k])
  <2>1. Prepared(k, t) = Swept(ShardOf[k], t)
    BY <1>2 DEF Prepared
  <2> QED
    BY <2>1 DEF Swept, InShard, IsFunction
<1>3. CASE entries[k] = None /\ ~ IsFull(entries, ShardOf[k])
  BY <1>3 DEF Prepared
<1> QED
  BY <1>1, <1>2, <1>3

\* An entry is added where there is room, or where the key has one.
LEMMA AllowIsBounded ==
    ASSUME IsFunction(entries), ShardsBounded, NEW g \in Goroutines, go[g].key \in Keys, Allow(g)
    PROVE  IsFunction(entries') /\ ShardsBounded'
<1>1. PICK k \in Keys : k = go[g].key
  OBVIOUS
<1> DEFINE t == go[g].time
           table == Prepared(k, t)
<1>2. /\ IsFunction(table)
      /\ \A s \in Shards : InShard(table, s) \subseteq InShard(entries, s)
  BY PreparedIsLess
<1>3. \/ entries' = table
      \/ \E rw : /\ entries' = [table EXCEPT ![k] = rw]
                 /\ table[k] = None => ~ IsFull(table, ShardOf[k])
  BY <1>1 DEF Allow
<1> HIDE DEF table
<1>4. ASSUME NEW s \in Shards
      PROVE  Cardinality(InShard(table, s)) \in Nat /\ Cardinality(InShard(table, s)) <= MaxKeys
  <2>1. Cardinality(InShard(table, s)) <= Cardinality(InShard(entries, s))
    BY <1>2, FiniteShard, FS_Subset
  <2>2. Cardinality(InShard(table, s)) \in Nat /\ Cardinality(InShard(entries, s)) \in Nat
    BY FiniteShard, FS_CardinalityType
  <2>3. Cardinality(InShard(entries, s)) <= MaxKeys /\ MaxKeys \in Nat
    BY LimiterAssumption DEF ShardsBounded
  <2> QED
    BY <2>1, <2>2, <2>3
<1>5. CASE entries' = table
  BY <1>2, <1>4, <1>5 DEF ShardsBounded, InShard
<1>6. ASSUME NEW rw, entries' = [table EXCEPT ![k] = rw],
             table[k] = None => ~ IsFull(table, ShardOf[k])
      PROVE  IsFunction(entries') /\ ShardsBounded'
  <2>1. IsFunction(entries')
    BY <1>2, <1>6 DEF IsFunction
  <2>2. ASSUME NEW s \in Shards
        PROVE  Cardinality(InShard(entries', s)) <= MaxKeys
    <3>1. InShard(entries', s) \subseteq InShard(table, s) \cup {k}
      BY <1>2, <1>6 DEF InShard, IsFunction
    <3>2. CASE k \in InShard(table, s) \/ ShardOf[k] # s
      <4>1. InShard(entries', s) \subseteq InShard(table, s)
        BY <1>2, <1>6, <3>1, <3>2 DEF InShard, IsFunction
      <4>2. Cardinality(InShard(entries', s)) <= Cardinality(InShard(table, s))
        BY <4>1, FiniteShard, FS_Subset
      <4>3. Cardinality(InShard(entries', s)) \in Nat
        BY FiniteShard, FS_CardinalityType
      <4> QED
        BY <1>4, <4>2, <4>3, LimiterAssumption
    <3>3. CASE k \notin InShard(table, s) /\ ShardOf[k] = s
      <4>1. Cardinality(InShard(table, s)) < MaxKeys
        <5>1. table[k] = None
          BY <3>3 DEF InShard
        <5>2. ~ Cardinality(InShard(table, s)) >= MaxKeys
          BY <1>6, <3>3, <5>1 DEF IsFull
        <5> QED
          BY <1>4, <5>2, LimiterAssumption
      <4>2. /\ IsFiniteSet(InShard(table, s) \cup {k})
            /\ Cardinality(InShard(table, s) \cup {k}) = Cardinality(InShard(table, s)) + 1
        BY <3>3, FiniteShard, FS_AddElement
      <4>3. Cardinality(InShard(entries', s)) <= Cardinality(InShard(table, s) \cup {k})
        BY <3>1, <4>2, FS_Subset
      <4>4. Cardinality(InShard(entries', s)) \in Nat
        BY FiniteShard, FS_CardinalityType
      <4> QED
        BY <1>4, <4>1, <4>2, <4>3, <4>4, LimiterAssumption
    <3> QED
      BY <3>2, <3>3
  <2> QED
    BY <2>1, <2>2 DEF ShardsBounded, InShard
<1> QED
  BY <1>3, <1>5, <1>6

-----------------------------------------------------------------------------
(* Arithmetic.                                                             *)

\* Every set of numbers that is not empty has a least one.  The ordering of
\* their initial segments, which are finite, is well-founded.
LEMMA LeastExists ==
    ASSUME NEW T \in SUBSET Nat, T # {}
    PROVE  \E n \in T : \A m \in T : n <= m
<1> DEFINE below == {1 .. n : n \in T}
<1>1. below \in SUBSET FiniteSubsetsOf(Nat) /\ below # {}
  <2>1. ASSUME NEW n \in T
        PROVE  1 .. n \in FiniteSubsetsOf(Nat)
    <3>1. IsFiniteSet(1 .. n)
      BY FS_Interval
    <3> QED
      BY <3>1 DEF FiniteSubsetsOf
  <2> QED
    BY <2>1
<1>2. PICK x \in below : \A y \in below : ~ (<<y, x>> \in StrictSubsetOrdering(Nat))
  BY <1>1, WFMin, FS_StrictSubsetOrderingWellFounded
<1>3. PICK n \in T : x = 1 .. n
  OBVIOUS
<1>4. ASSUME NEW m \in T, m < n
      PROVE  FALSE
  <2>1. 1 .. m \in below
    OBVIOUS
  <2>2. /\ 1 .. m \subseteq 1 .. n /\ 1 .. m \subseteq Nat /\ 1 .. n \subseteq Nat
        /\ n \in 1 .. n /\ n \notin 1 .. m
    BY <1>4
  <2>3. <<1 .. m, 1 .. n>> \in StrictSubsetOrdering(Nat)
    BY <2>2 DEF StrictSubsetOrdering
  <2> QED
    BY <1>2, <1>3, <2>1, <2>3
<1> QED
  BY <1>3, <1>4

\* An index into a ring wraps around at most once.
LEMMA Wrap ==
    ASSUME NEW a \in Nat, NEW c \in Nat \ {0}, a < c + c
    PROVE  a % c = IF a < c THEN a ELSE a - c
OBVIOUS

\* The same index from a head that was moved on.
LEMMA WrapTwice ==
    ASSUME NEW h \in Nat, NEW n \in Nat, NEW i \in Nat, NEW c \in Nat \ {0},
           h < c, n + i < c
    PROVE  /\ (h + n) % c \in Nat /\ (h + n) % c < c
           /\ (((h + n) % c) + i) % c = (h + (n + i)) % c
<1>1. PICK a \in Nat : a = h + n /\ a < c + c
  OBVIOUS
<1>2. PICK b \in Nat : b = h + (n + i) /\ b < c + c
  OBVIOUS
<1>3. /\ a % c = (IF a < c THEN a ELSE a - c)
      /\ b % c = (IF b < c THEN b ELSE b - c)
  BY <1>1, <1>2, Wrap
<1>4. PICK d \in Nat : d = (IF a < c THEN a ELSE a - c) + i /\ d < c + c
  BY <1>1
<1>5. d % c = (IF d < c THEN d ELSE d - c)
  BY <1>4, Wrap
<1>6. /\ a % c \in Nat /\ a % c < c /\ (a % c) + i = d
  BY <1>1, <1>3, <1>4
<1>7. d % c = b % c
  BY <1>1, <1>2, <1>3, <1>4, <1>5
<1> QED
  BY <1>1, <1>2, <1>6, <1>7

-----------------------------------------------------------------------------
(* The rings.                                                              *)

\* n is the number of a log's times that Prune drops at t.
IsOldPrefix(times, t, n) ==
    /\ n \in 0 .. Len(times)
    /\ \A i \in 1 .. n : ~ IsYoung(times[i], t)
    /\ n = Len(times) \/ IsYoung(times[n + 1], t)

LEMMA OldPrefixExists ==
    ASSUME NEW times \in Seq(Time), NEW t
    PROVE  \E n : IsOldPrefix(times, t, n)
<1> DEFINE young == {i \in 1 .. Len(times) : IsYoung(times[i], t)}
<1>1. Len(times) \in Nat
  BY LenProperties
<1>2. CASE young = {}
  BY <1>1, <1>2 DEF IsOldPrefix
<1>3. CASE young # {}
  <2>0. young \in SUBSET Nat
    BY <1>1
  <2>1. PICK m \in young : \A i \in young : m <= i
    <3> HIDE DEF young
    <3> QED
      BY <1>3, <2>0, LeastExists
  <2>2. m - 1 \in 0 .. Len(times) /\ m - 1 + 1 = m /\ m \in 1 .. Len(times)
    BY <1>1, <2>1
  <2>3. \A i \in 1 .. m - 1 : i \in 1 .. Len(times) /\ ~ (m <= i)
    BY <1>1, <2>2
  <2>4. \A i \in 1 .. m - 1 : ~ IsYoung(times[i], t)
    BY <2>1, <2>3
  <2>5. IsYoung(times[m - 1 + 1], t)
    BY <2>1, <2>2
  <2> QED
    BY <2>2, <2>4, <2>5 DEF IsOldPrefix
<1> QED
  BY <1>2, <1>3

\* Surviving drops that prefix, and keeps the rest in its order.
LEMMA SurvivingDrops ==
    ASSUME NEW times \in Seq(Time), NEW t, NEW n, IsOldPrefix(times, t, n)
    PROVE  /\ Surviving(times, t) \in Seq(Time)
           /\ Len(Surviving(times, t)) = Len(times) - n
           /\ \A i \in 1 .. Len(times) - n : Surviving(times, t)[i] = times[n + i]
<1> DEFINE old == {i \in 0 .. Len(times) : \A j \in 1 .. i : ~ IsYoung(times[j], t)}
<1>1. Len(times) \in Nat /\ n \in 0 .. Len(times)
  BY LenProperties DEF IsOldPrefix
<1>2. n \in old
  BY DEF IsOldPrefix
<1>3. ASSUME NEW j \in old
      PROVE  j <= n
  <2>1. CASE n = Len(times)
    BY <1>1, <2>1
  <2>2. CASE n # Len(times)
    <3>1. IsYoung(times[n + 1], t)
      BY <2>2 DEF IsOldPrefix
    <3>2. n + 1 \notin 1 .. j
      BY <1>3, <3>1
    <3> QED
      BY <1>1, <3>2
  <2> QED
    BY <2>1, <2>2
<1>4. \A i \in old : (\A j \in old : j <= i) => i = n
  <2>1. \A i \in old : i \in Nat
    BY <1>1
  <2> QED
    BY <1>1, <1>2, <1>3, <2>1
<1>5. (CHOOSE i \in old : \A j \in old : j <= i) = n
  BY <1>2, <1>3, <1>4
<1>6. Surviving(times, t) = SubSeq(times, 1 + n, Len(times))
  BY <1>5 DEF Surviving
<1>7. \A i \in 1 + n .. Len(times) : times[i] \in Time
  <2>1. \A i \in 1 + n .. Len(times) : i \in 1 .. Len(times)
    BY <1>1
  <2> QED
    BY <2>1, ElementOfSeq
<1>8. 1 + n \in Int /\ Len(times) \in Int
  BY <1>1
<1>9. /\ SubSeq(times, 1 + n, Len(times)) \in Seq(Time)
      /\ Len(SubSeq(times, 1 + n, Len(times))) =
             IF 1 + n <= Len(times) THEN Len(times) - (1 + n) + 1 ELSE 0
      /\ \A i \in 1 .. Len(times) - (1 + n) + 1 :
             SubSeq(times, 1 + n, Len(times))[i] = times[1 + n + i - 1]
  BY <1>7, <1>8, SubSeqProperties
<1>10. Len(times) - (1 + n) + 1 = Len(times) - n
  BY <1>1
<1>11. \A i \in 1 .. Len(times) - n : 1 + n + i - 1 = n + i
  BY <1>1
<1>12. (IF 1 + n <= Len(times) THEN Len(times) - (1 + n) + 1 ELSE 0) = Len(times) - n
  BY <1>1
<1> QED
  BY <1>6, <1>9, <1>10, <1>11, <1>12

\* Prune moves the head of a ring past the same prefix of what it holds.
LEMMA PrunedDrops ==
    ASSUME NEW rw, RingOK(rw), NEW times, Holds(rw, times), NEW t, NEW n,
           IsOldPrefix(times, t, n)
    PROVE  /\ rw.count = 0 => Pruned(rw, t) = rw
           /\ rw.count # 0 =>
                 Pruned(rw, t) = [rw EXCEPT !.head = (@ + n) % Cap(rw), !.count = @ - n]
<1>1. CASE rw.count = 0
  BY <1>1 DEF Pruned
<1>2. CASE rw.count # 0
  <2> DEFINE IsOld(m) == /\ \A i \in 0 .. m - 1 : ~ YoungAt(rw, i, t)
                         /\ m = rw.count \/ YoungAt(rw, m, t)
  <2>1. /\ rw.count \in Nat /\ Len(times) = rw.count /\ n \in 0 .. rw.count
        /\ \A i \in 1 .. rw.count : times[i] = At(rw, i - 1)
    BY DEF RingOK, RateWindow, Holds, IsOldPrefix
  <2>2. \A i \in 0 .. rw.count - 1 : YoungAt(rw, i, t) <=> IsYoung(times[i + 1], t)
    <3>1. \A i \in 0 .. rw.count - 1 : i + 1 \in 1 .. rw.count /\ i + 1 - 1 = i
      BY <2>1
    <3> QED
      BY <2>1, <3>1 DEF YoungAt
  <2>3. IsOld(n)
    <3>1. \A i \in 0 .. n - 1 : i \in 0 .. rw.count - 1 /\ i + 1 \in 1 .. n
      BY <2>1
    <3>2. \A i \in 0 .. n - 1 : ~ YoungAt(rw, i, t)
      BY <2>2, <3>1 DEF IsOldPrefix
    <3>3. n = rw.count \/ YoungAt(rw, n, t)
      <4>1. n # rw.count => n \in 0 .. rw.count - 1
        BY <2>1
      <4> QED
        BY <2>1, <2>2, <4>1 DEF IsOldPrefix
    <3> QED
      BY <3>2, <3>3
  <2>4. ASSUME NEW m \in 0 .. rw.count, IsOld(m)
        PROVE  m = n
    <3>1. CASE m < n
      <4>1. m # rw.count /\ m \in 0 .. n - 1
        BY <2>1, <3>1
      <4> QED
        BY <2>3, <2>4, <4>1
    <3>2. CASE n < m
      <4>1. n # rw.count /\ n \in 0 .. m - 1
        BY <2>1, <3>2
      <4> QED
        BY <2>3, <2>4, <4>1
    <3> QED
      BY <2>1, <3>1, <3>2
  <2>5. (CHOOSE m \in 0 .. rw.count : IsOld(m)) = n
    <3> HIDE DEF IsOld
    <3> QED
      BY <2>1, <2>3, <2>4
  <2> QED
    BY <1>2, <2>5 DEF Pruned
<1> QED
  BY <1>1, <1>2

\* A pruned ring is well-formed and holds what survives of its log.
LEMMA PrunedHolds ==
    ASSUME NEW rw, RingOK(rw), NEW times, Holds(rw, times), NEW t
    PROVE  RingOK(Pruned(rw, t)) /\ Holds(Pruned(rw, t), Surviving(times, t))
<1> USE LimiterAssumption
<1>1. times \in Seq(Time) /\ Len(times) = rw.count
  BY DEF Holds
<1>2. PICK n : IsOldPrefix(times, t, n)
  BY <1>1, OldPrefixExists
<1>3. /\ rw \in RateWindow /\ rw.count \in Nat /\ rw.head \in Nat /\ Cap(rw) \in Nat
      /\ rw.slots \in Seq(Time) /\ rw.count <= Cap(rw) /\ n \in 0 .. rw.count
  BY <1>1, <1>2, LenProperties DEF RingOK, RateWindow, Cap, IsOldPrefix
<1>4. /\ Surviving(times, t) \in Seq(Time)
      /\ Len(Surviving(times, t)) = rw.count - n
      /\ \A i \in 1 .. rw.count - n : Surviving(times, t)[i] = times[n + i]
  BY <1>1, <1>2, SurvivingDrops
<1>5. CASE rw.count = 0
  <2>1. Pruned(rw, t) = rw
    BY <1>2, <1>5, PrunedDrops
  <2>2. n = 0 /\ rw.count - n = 0
    <3>1. n \in 0 .. 0
      BY <1>3, <1>5
    <3>2. n = 0
      BY <3>1
    <3>3. 0 - 0 = 0
      OBVIOUS
    <3> QED
      BY <1>5, <3>2, <3>3
  <2> QED
    BY <1>4, <1>5, <2>1, <2>2 DEF Holds
<1>6. CASE rw.count # 0
  <2>1. Pruned(rw, t) = [rw EXCEPT !.head = (@ + n) % Cap(rw), !.count = @ - n]
    BY <1>2, <1>6, PrunedDrops
  <2>2. Cap(rw) \in Nat \ {0} /\ rw.head < Cap(rw)
    <3>1. Cap(rw) # 0
      BY <1>3, <1>6
    <3>2. rw.slots # <<>>
      BY <3>1, EmptySeq DEF Cap
    <3> QED
      BY <1>3, <3>1, <3>2 DEF RingOK
  <2>3. (rw.head + n) % Cap(rw) \in Nat /\ (rw.head + n) % Cap(rw) < Cap(rw)
    <3>1. rw.head + n \in Nat
      BY <1>3
    <3> QED
      BY <2>2, <3>1
  <2>4. PICK pruned : pruned = Pruned(rw, t)
    OBVIOUS
  <2>5. /\ pruned.slots = rw.slots /\ pruned.head = (rw.head + n) % Cap(rw)
        /\ pruned.count = rw.count - n /\ pruned \in RateWindow
        /\ Cap(pruned) = Cap(rw)
    <3>1. rw.count - n \in Nat
      BY <1>3
    <3> QED
      BY <1>3, <2>1, <2>3, <2>4, <3>1 DEF RateWindow, Cap
  <2>6. RingOK(pruned)
    BY <1>3, <2>3, <2>5 DEF RingOK
  <2>7. ASSUME NEW i \in 1 .. rw.count - n
        PROVE  Surviving(times, t)[i] = At(pruned, i - 1)
    <3>1. /\ n + i \in 1 .. rw.count /\ n \in Nat /\ i - 1 \in Nat
          /\ n + (i - 1) < Cap(rw) /\ n + (i - 1) = n + i - 1
      BY <1>3
    <3>2. (((rw.head + n) % Cap(rw)) + (i - 1)) % Cap(rw) = (rw.head + (n + (i - 1))) % Cap(rw)
      <4>1. PICK h \in Nat, c \in Nat \ {0}, j \in Nat :
              h = rw.head /\ c = Cap(rw) /\ j = i - 1 /\ h < c /\ n + j < c
        BY <1>3, <2>2, <3>1
      <4>2. (((h + n) % c) + j) % c = (h + (n + j)) % c
        BY <3>1, <4>1, WrapTwice
      <4> QED
        BY <4>1, <4>2
    <3>3. At(pruned, i - 1) = At(rw, n + (i - 1))
      BY <2>5, <3>2 DEF At
    <3>4. times[n + i] = At(rw, n + i - 1)
      BY <3>1 DEF Holds
    <3> QED
      BY <1>4, <3>1, <3>3, <3>4
  <2>8. Holds(pruned, Surviving(times, t))
    BY <1>4, <2>5, <2>7 DEF Holds
  <2> QED
    BY <2>4, <2>6, <2>8
<1> QED
  BY <1>5, <1>6

\* Doubling a ring, up to the limit, keeps what it holds, in the same order.
LEMMA GrownHolds ==
    ASSUME NEW rw, RingOK(rw), NEW times, Holds(rw, times), NEW capacity \in Nat \ {0},
           rw.count < capacity, capacity <= Limit
    PROVE  /\ RingOK(Grown(rw, capacity)) /\ Holds(Grown(rw, capacity), times)
           /\ Grown(rw, capacity).count = rw.count /\ Cap(Grown(rw, capacity)) = capacity
<1> USE LimiterAssumption
<1> DEFINE slots == [i \in 1 .. capacity |-> IF i <= rw.count THEN At(rw, i - 1) ELSE 0]
<1>1. /\ rw \in RateWindow /\ rw.count \in Nat
      /\ times \in Seq(Time) /\ Len(times) = rw.count
      /\ \A i \in 1 .. rw.count : times[i] = At(rw, i - 1)
  BY DEF RingOK, RateWindow, Holds
<1>2. \A i \in 1 .. rw.count : At(rw, i - 1) \in Time
  BY <1>1, ElementOfSeq
<1>3. 0 \in Time
  BY DEF Time
<1>4. slots \in [1 .. capacity -> Time]
  <2>1. ASSUME NEW i \in 1 .. capacity
        PROVE  (IF i <= rw.count THEN At(rw, i - 1) ELSE 0) \in Time
    <3>1. i <= rw.count => i \in 1 .. rw.count
      BY <1>1
    <3> QED
      BY <1>2, <1>3, <3>1
  <2> QED
    BY <2>1
<1>5. \A i \in 1 .. rw.count : slots[i] = At(rw, i - 1)
  BY <1>1
<1>6. Grown(rw, capacity) = [slots |-> slots, head |-> 0, count |-> rw.count]
  <2>1. Grown(rw, capacity) = [[rw EXCEPT !.slots = slots] EXCEPT !.head = 0]
    BY <1>1 DEF Grown, RateWindow
  <2> HIDE DEF slots
  <2> QED
    BY <1>1, <2>1 DEF RateWindow
<1> HIDE DEF slots
<1>7. slots \in Seq(Time) /\ Len(slots) = capacity
  BY <1>4
<1>8. PICK grown : grown = Grown(rw, capacity)
  OBVIOUS
<1>9. /\ grown.slots = slots /\ grown.head = 0 /\ grown.count = rw.count
  BY <1>6, <1>8
<1>9a. grown \in RateWindow
  <2>1. grown \in [slots: Seq(Time), head: Nat, count: Nat]
    BY <1>1, <1>6, <1>7, <1>8
  <2> QED
    BY <2>1 DEF RateWindow
<1>10. Cap(grown) = capacity
  BY <1>7, <1>9 DEF Cap
<1>11. RingOK(grown)
  BY <1>1, <1>9, <1>9a, <1>10 DEF RingOK
<1>12. ASSUME NEW i \in 1 .. rw.count
       PROVE  times[i] = At(grown, i - 1)
  <2>1. PICK a \in Nat : a = i - 1 /\ a < capacity /\ 0 + a = a /\ 1 + a = i
    BY <1>1
  <2>2. a % capacity = a
    BY <2>1, Wrap
  <2>3. At(grown, a) = slots[i]
    BY <1>9, <1>10, <2>1, <2>2 DEF At
  <2> QED
    BY <1>1, <1>5, <2>1, <2>3
<1>13. Holds(grown, times)
  BY <1>1, <1>9, <1>12 DEF Holds
<1> QED
  BY <1>8, <1>9, <1>10, <1>11, <1>13

\* A ring that admits a request has room for it once WithRoom is done.
LEMMA WithRoomHolds ==
    ASSUME NEW rw, RingOK(rw), NEW times, Holds(rw, times), Admits(rw)
    PROVE  /\ RingOK(WithRoom(rw)) /\ Holds(WithRoom(rw), times)
           /\ WithRoom(rw).count = rw.count /\ rw.count < Cap(WithRoom(rw))
<1> USE LimiterAssumption
<1>1. /\ rw.count \in Nat /\ Cap(rw) \in Nat /\ rw.count <= Cap(rw) /\ Cap(rw) <= Limit
      /\ rw.count < Limit
  BY LenProperties DEF RingOK, RateWindow, Cap, Admits
<1>2. CASE rw.slots = <<>>
  <2>1. rw.count = 0
    BY <1>1, <1>2, EmptySeq DEF Cap
  <2>2. PICK capacity : capacity = AtMost(FirstCapacity, Limit)
    OBVIOUS
  <2>3. capacity \in Nat \ {0} /\ rw.count < capacity /\ capacity <= Limit
    BY <2>1, <2>2 DEF AtMost
  <2>4. WithRoom(rw) = Grown(rw, capacity)
    BY <1>2, <2>2 DEF WithRoom
  <2> QED
    BY <2>3, <2>4, GrownHolds
<1>3. CASE rw.slots # <<>> /\ rw.count = Cap(rw)
  <2>1. Cap(rw) \in Nat \ {0} /\ Cap(rw) < Limit
    BY <1>1, <1>3, EmptySeq DEF Cap, RingOK, RateWindow
  <2>2. PICK capacity : capacity = AtMost(2 * Cap(rw), Limit)
    OBVIOUS
  <2>3. capacity \in Nat \ {0} /\ rw.count < capacity /\ capacity <= Limit
    BY <1>1, <1>3, <2>1, <2>2 DEF AtMost
  <2>4. WithRoom(rw) = Grown(rw, capacity)
    BY <1>3, <2>1, <2>2 DEF WithRoom
  <2> QED
    BY <2>3, <2>4, GrownHolds
<1>4. CASE rw.slots # <<>> /\ rw.count # Cap(rw)
  <2>1. WithRoom(rw) = rw
    BY <1>4 DEF WithRoom
  <2> QED
    BY <1>1, <1>4, <2>1
<1> QED
  BY <1>2, <1>3, <1>4

\* Record puts the time behind the others.
LEMMA RecordedHolds ==
    ASSUME NEW rw, RingOK(rw), NEW times, Holds(rw, times), Admits(rw), NEW t \in Time
    PROVE  RingOK(Recorded(rw, t)) /\ Holds(Recorded(rw, t), Append(times, t))
<1> USE LimiterAssumption
<1>1. PICK room : room = WithRoom(rw)
  OBVIOUS
<1>2. /\ RingOK(room) /\ Holds(room, times)
      /\ room.count = rw.count /\ rw.count < Cap(room)
  BY <1>1, WithRoomHolds
<1>3. /\ room \in RateWindow /\ room.slots \in Seq(Time) /\ room.head \in Nat
      /\ room.count \in Nat /\ Cap(room) \in Nat /\ Cap(room) = Len(room.slots)
      /\ Cap(room) <= Limit
      /\ times \in Seq(Time) /\ Len(times) = room.count
      /\ \A i \in 1 .. room.count : times[i] = At(room, i - 1)
  BY <1>2, LenProperties DEF RingOK, RateWindow, Cap, Holds
<1>4. PICK c \in Nat \ {0}, h \in Nat, n \in Nat :
        c = Cap(room) /\ h = room.head /\ n = room.count /\ h < c /\ n < c
  <2>1. room.slots # <<>>
    BY <1>2, <1>3, EmptySeq
  <2> QED
    BY <1>2, <1>3, <2>1 DEF RingOK
<1>5. PICK a \in Nat : a = h + n /\ a < c + c
  BY <1>4
<1>6. a % c = (IF a < c THEN a ELSE a - c)
  BY <1>4, <1>5, Wrap
<1>7. PICK p \in 1 .. c : p = 1 + (a % c)
  BY <1>4, <1>5, <1>6
<1>8. PICK slots : slots = [room.slots EXCEPT ![p] = t]
  OBVIOUS
<1>9. /\ slots \in Seq(Time) /\ Len(slots) = c
      /\ \A q \in 1 .. c : slots[q] = IF q = p THEN t ELSE room.slots[q]
  <2>1. PICK array \in Seq(Time) : array = room.slots /\ Len(array) = c
    BY <1>3, <1>4
  <2>2. p \in 1 .. Len(array)
    BY <1>7, <2>1
  <2>3. slots = [array EXCEPT ![p] = t]
    BY <1>8, <2>1
  <2>4. /\ slots \in Seq(Time) /\ Len(slots) = Len(array)
        /\ \A q \in 1 .. Len(array) : slots[q] = IF q = p THEN t ELSE array[q]
    BY <2>2, <2>3, ExceptSeq
  <2> QED
    BY <2>1, <2>4
<1>10. PICK recorded : recorded = Recorded(rw, t)
  OBVIOUS
<1>11. recorded = [slots |-> slots, head |-> h, count |-> n + 1]
  BY <1>1, <1>3, <1>4, <1>5, <1>7, <1>8, <1>10 DEF Recorded, RateWindow
<1>12. /\ recorded.slots = slots /\ recorded.head = h /\ recorded.count = n + 1
       /\ recorded \in RateWindow
  <2>1. n + 1 \in Nat
    BY <1>4
  <2>2. recorded \in [slots: Seq(Time), head: Nat, count: Nat]
    BY <1>9, <1>11, <2>1
  <2> QED
    BY <1>11, <2>2 DEF RateWindow
<1>13. Cap(recorded) = c
  BY <1>9, <1>12 DEF Cap
<1>14. RingOK(recorded)
  BY <1>3, <1>4, <1>12, <1>13 DEF RingOK
<1>15. At(recorded, n) = t
  <2>1. At(recorded, n) = slots[1 + ((h + n) % c)]
    BY <1>12, <1>13 DEF At
  <2> QED
    BY <1>5, <1>7, <1>9, <2>1
<1>16. ASSUME NEW i \in 1 .. n
       PROVE  times[i] = At(recorded, i - 1)
  <2>0. h + (i - 1) \in Nat /\ i - 1 < n
    BY <1>4
  <2>1. PICK b \in Nat : b = h + (i - 1) /\ b < c + c /\ b < a /\ a - b < c
    BY <1>4, <1>5, <2>0
  <2>2. b % c = (IF b < c THEN b ELSE b - c)
    BY <1>4, <2>1, Wrap
  <2>3. PICK q \in 1 .. c : q = 1 + (b % c) /\ q # p
    BY <1>4, <1>5, <1>6, <1>7, <2>1, <2>2
  <2>4. At(recorded, i - 1) = slots[q] /\ At(room, i - 1) = room.slots[q]
    BY <1>4, <1>12, <1>13, <2>1, <2>3 DEF At
  <2>5. times[i] = At(room, i - 1)
    BY <1>3, <1>4
  <2> QED
    BY <1>9, <2>3, <2>4, <2>5
<1>17. Holds(recorded, Append(times, t))
  <2>1. /\ Append(times, t) \in Seq(Time) /\ Len(Append(times, t)) = n + 1
        /\ \A i \in 1 .. n : Append(times, t)[i] = times[i]
        /\ Append(times, t)[n + 1] = t
    BY <1>3, <1>4, AppendProperties
  <2>2. ASSUME NEW i \in 1 .. n + 1
        PROVE  Append(times, t)[i] = At(recorded, i - 1)
    <3>1. CASE i = n + 1
      <4>1. i - 1 = n
        BY <1>4, <3>1
      <4> QED
        BY <1>15, <2>1, <3>1, <4>1
    <3>2. CASE i # n + 1
      <4>1. i \in 1 .. n
        BY <1>4, <3>2
      <4> QED
        BY <1>16, <2>1, <4>1
    <3> QED
      BY <3>1, <3>2
  <2> QED
    BY <1>12, <2>1, <2>2 DEF Holds
<1> QED
  BY <1>10, <1>14, <1>17

\* A ring that is made for a first request holds nothing.
LEMMA NewWindowHolds == RingOK(NewWindow) /\ Holds(NewWindow, <<>>)
<1> USE LimiterAssumption
<1>1. /\ NewWindow.slots = <<>> /\ NewWindow.head = 0 /\ NewWindow.count = 0
      /\ <<>> \in Seq(Time) /\ Len(<<>>) = 0
  BY EmptySeq DEF NewWindow
<1>2. NewWindow \in RateWindow
  BY <1>1 DEF NewWindow, RateWindow
<1> QED
  BY <1>1, <1>2 DEF RingOK, Holds, Cap

-----------------------------------------------------------------------------
(* The table and the logs.                                                 *)

\* The logs as Allow leaves them for a key and a time, before the request itself.
PrunedLogs(k, t) ==
    LET swept == IF entries[k] = None THEN InShard(entries, ShardOf[k]) ELSE {k}
    IN  [j \in Keys |-> IF j \in swept /\ (j = k \/ IsFull(entries, ShardOf[k]))
                        THEN Surviving(kept[j], t) ELSE kept[j]]

\* An entry that Prune leaves, or that is deleted because nothing is left.
LEMMA PrunedEntryHolds ==
    ASSUME NEW entry, NEW times, entry # None, EntryHolds(entry, times), NEW t
    PROVE  /\ EntryHolds(Pruned(entry, t), Surviving(times, t))
           /\ Pruned(entry, t).count = 0 => EntryHolds(None, Surviving(times, t))
<1>1. RingOK(entry) /\ Holds(entry, times)
  BY DEF EntryHolds
<1>2. RingOK(Pruned(entry, t)) /\ Holds(Pruned(entry, t), Surviving(times, t))
  BY <1>1, PrunedHolds
<1>3. Pruned(entry, t) # None
  BY <1>2, NoneAssumption DEF RingOK
<1>4. Pruned(entry, t).count = 0 => Surviving(times, t) = <<>>
  BY <1>2, EmptySeq DEF Holds
<1> QED
  BY <1>2, <1>3, <1>4 DEF EntryHolds

\* Whichever way the table is prepared, each entry holds its pruned log.
LEMMA PreparedHolds ==
    ASSUME IsFunction(entries), RingsHold, NEW k \in Keys, NEW t, NEW j \in Keys
    PROVE  EntryHolds(Prepared(k, t)[j], PrunedLogs(k, t)[j])
<1>1. EntryHolds(entries[j], kept[j])
  BY DEF RingsHold
<1>2. CASE entries[k] # None
  <2>1. Prepared(k, t) = [entries EXCEPT ![k] = Pruned(@, t)]
    BY <1>2 DEF Prepared
  <2>2. PrunedLogs(k, t)[j] = IF j = k THEN Surviving(kept[j], t) ELSE kept[j]
    BY <1>2 DEF PrunedLogs
  <2>3. CASE j = k
    <3>1. Prepared(k, t)[j] = Pruned(entries[j], t)
      BY <2>1, <2>3 DEF IsFunction
    <3> QED
      BY <1>1, <1>2, <2>2, <2>3, <3>1, PrunedEntryHolds
  <2>4. CASE j # k
    <3>1. Prepared(k, t)[j] = entries[j]
      BY <2>1, <2>4 DEF IsFunction
    <3> QED
      BY <1>1, <2>2, <2>4, <3>1
  <2> QED
    BY <2>3, <2>4
<1>3. CASE entries[k] = None /\ IsFull(entries, ShardOf[k])
  <2>1. Prepared(k, t) = Swept(ShardOf[k], t)
    BY <1>3 DEF Prepared
  <2>2. PrunedLogs(k, t)[j] = IF j \in InShard(entries, ShardOf[k])
                              THEN Surviving(kept[j], t) ELSE kept[j]
    BY <1>3 DEF PrunedLogs
  <2>3. CASE j \notin InShard(entries, ShardOf[k])
    <3>1. Prepared(k, t)[j] = entries[j]
      BY <2>1, <2>3 DEF Swept
    <3> QED
      BY <1>1, <2>2, <2>3, <3>1
  <2>4. CASE j \in InShard(entries, ShardOf[k])
    <3>1. entries[j] # None
      BY <2>4 DEF InShard
    <3>2. Prepared(k, t)[j] = IF Pruned(entries[j], t).count = 0 THEN None
                              ELSE Pruned(entries[j], t)
      BY <2>1, <2>4 DEF Swept
    <3> QED
      BY <1>1, <2>2, <2>4, <3>1, <3>2, PrunedEntryHolds
  <2> QED
    BY <2>3, <2>4
<1>4. CASE entries[k] = None /\ ~ IsFull(entries, ShardOf[k])
  <2>1. Prepared(k, t) = entries
    BY <1>4 DEF Prepared
  <2>2. PrunedLogs(k, t)[j] = kept[j]
    BY <1>4 DEF PrunedLogs, InShard
  <2> QED
    BY <1>1, <2>1, <2>2
<1> QED
  BY <1>2, <1>3, <1>4

\* What Allow does to the logs, and that the rings follow.
LEMMA AllowHolds ==
    ASSUME IsFunction(entries), RingsHold, LogsTyped, GaugeTyped, NEW g \in Goroutines, Allow(g),
           NEW k \in Keys, k = go[g].key, NEW t \in Time, t = go[g].time
    PROVE  /\ RingsHold'
           /\ latest' = [latest EXCEPT ![ShardOf[k]] = IF t > @ THEN t ELSE @]
           /\ \/ kept' = PrunedLogs(k, t) /\ admitted' = admitted
              \/ /\ Len(PrunedLogs(k, t)[k]) < Limit
                 /\ kept' = [PrunedLogs(k, t) EXCEPT ![k] = Append(@, t)]
                 /\ admitted' = IF t < latest[ShardOf[k]] THEN admitted
                                ELSE [admitted EXCEPT ![k] = Append(@, t)]
<1> DEFINE table == Prepared(k, t)
           logs == PrunedLogs(k, t)
<1>1. PICK rw : rw = IF table[k] = None THEN NewWindow ELSE table[k]
  OBVIOUS
<1>2. IsFunction(table)
  BY PreparedIsLess
<1>3. \A j \in Keys : EntryHolds(table[j], logs[j])
  BY PreparedHolds
<1>4. RingOK(rw) /\ Holds(rw, logs[k])
  BY <1>1, <1>3, NewWindowHolds DEF EntryHolds
<1>5. latest' = [latest EXCEPT ![ShardOf[k]] = IF t > @ THEN t ELSE @]
  BY DEF Allow
<1>6. \/ /\ entries' = table \/ (entries' = [table EXCEPT ![k] = rw] /\ table[k] # None)
         /\ kept' = logs /\ admitted' = admitted
      \/ /\ Admits(rw)
         /\ entries' = [table EXCEPT ![k] = Recorded(rw, t)]
         /\ kept' = [logs EXCEPT ![k] = Append(@, t)]
         /\ admitted' = IF t < latest[ShardOf[k]] THEN admitted
                        ELSE [admitted EXCEPT ![k] = Append(@, t)]
  <2>1. Admits(NewWindow)
    BY LimiterAssumption DEF Admits, NewWindow
  <2> QED
    BY <1>1, <2>1 DEF Allow, PrunedLogs
<1>7. logs = [j \in Keys |-> logs[j]]
  BY DEF PrunedLogs
<1> HIDE DEF table, logs
<1>8. CASE /\ entries' = table \/ (entries' = [table EXCEPT ![k] = rw] /\ table[k] # None)
           /\ kept' = logs /\ admitted' = admitted
  <2>1. \A j \in Keys : entries'[j] = table[j]
    BY <1>1, <1>2, <1>8 DEF IsFunction
  <2>2. RingsHold'
    BY <1>3, <1>8, <2>1 DEF RingsHold
  <2> QED
    BY <1>5, <1>8, <2>2 DEF logs
<1>9. CASE /\ Admits(rw)
           /\ entries' = [table EXCEPT ![k] = Recorded(rw, t)]
           /\ kept' = [logs EXCEPT ![k] = Append(@, t)]
           /\ admitted' = IF t < latest[ShardOf[k]] THEN admitted
                          ELSE [admitted EXCEPT ![k] = Append(@, t)]
  <2>1. RingOK(Recorded(rw, t)) /\ Holds(Recorded(rw, t), Append(logs[k], t))
    BY <1>4, <1>9, RecordedHolds
  <2>2. Recorded(rw, t) # None
    BY <2>1, NoneAssumption DEF RingOK
  <2>3. entries'[k] = Recorded(rw, t) /\ kept'[k] = Append(logs[k], t)
    BY <1>2, <1>7, <1>9 DEF IsFunction
  <2>4. ASSUME NEW j \in Keys, j # k
        PROVE  entries'[j] = table[j] /\ kept'[j] = logs[j]
    BY <1>2, <1>7, <1>9, <2>4 DEF IsFunction
  <2>5. ASSUME NEW j \in Keys
        PROVE  EntryHolds(entries'[j], kept'[j])
    BY <1>3, <2>1, <2>2, <2>3, <2>4 DEF EntryHolds
  <2>6. RingsHold'
    BY <2>5 DEF RingsHold
  <2>7. Len(logs[k]) < Limit
    BY <1>4, <1>9 DEF Holds, Admits
  <2> QED
    BY <1>5, <1>9, <2>6, <2>7 DEF logs
<1> QED
  BY <1>6, <1>8, <1>9

\* A log is pruned of times older than the window, in front only.
LEMMA PrunedLogsDrop ==
    ASSUME LogsTyped, NEW k \in Keys, NEW t, NEW j \in Keys
    PROVE  /\ PrunedLogs(k, t)[j] \in Seq(Time)
           /\ PrunedLogs(k, t)[j] # kept[j] => ShardOf[j] = ShardOf[k]
           /\ \E n \in 0 .. Len(kept[j]) :
                 /\ Len(PrunedLogs(k, t)[j]) = Len(kept[j]) - n
                 /\ n > 0 => ShardOf[j] = ShardOf[k]
                 /\ \A i \in 1 .. n : ~ IsYoung(kept[j][i], t)
                 /\ \A i \in 1 .. Len(kept[j]) - n : PrunedLogs(k, t)[j][i] = kept[j][n + i]
<1>1. kept[j] \in Seq(Time) /\ Len(kept[j]) \in Nat
  BY LenProperties DEF LogsTyped
<1>2. \/ PrunedLogs(k, t)[j] = kept[j]
      \/ PrunedLogs(k, t)[j] = Surviving(kept[j], t) /\ ShardOf[j] = ShardOf[k]
  BY DEF PrunedLogs, InShard
<1>3. CASE PrunedLogs(k, t)[j] = kept[j]
  <2>1. 0 \in 0 .. Len(kept[j]) /\ Len(kept[j]) - 0 = Len(kept[j])
        /\ (\A i \in 1 .. Len(kept[j]) : 0 + i = i) /\ 1 .. 0 = {}
    BY <1>1
  <2> QED
    BY <1>1, <1>3, <2>1
<1>4. CASE PrunedLogs(k, t)[j] = Surviving(kept[j], t) /\ ShardOf[j] = ShardOf[k]
  <2>1. PICK n : IsOldPrefix(kept[j], t, n)
    BY <1>1, OldPrefixExists
  <2>2. /\ Surviving(kept[j], t) \in Seq(Time)
        /\ Len(Surviving(kept[j], t)) = Len(kept[j]) - n
        /\ \A i \in 1 .. Len(kept[j]) - n : Surviving(kept[j], t)[i] = kept[j][n + i]
    BY <1>1, <2>1, SurvivingDrops
  <2>3. n \in 0 .. Len(kept[j]) /\ \A i \in 1 .. n : ~ IsYoung(kept[j][i], t)
    BY <2>1 DEF IsOldPrefix
  <2> QED
    BY <1>4, <2>2, <2>3
<1> QED
  BY <1>2, <1>3, <1>4

-----------------------------------------------------------------------------
(* The window.                                                             *)

\* What Keeps says, with the place as a function that tells the times apart.
LEMMA KeepsIntro ==
    ASSUME NEW log, NEW times, NEW t, NEW place \in [Recent(times, t) -> DOMAIN log],
           \A i, j \in Recent(times, t) : place[i] = place[j] => i = j,
           \A i \in Recent(times, t) : log[place[i]] = times[i]
    PROVE  Keeps(log, times, t)
<1>1. place \in Injection(Recent(times, t), DOMAIN log)
  BY Fun_IsInj
<1> QED
  BY <1>1 DEF Keeps

LEMMA KeepsElim ==
    ASSUME NEW log, NEW times, NEW t, Keeps(log, times, t)
    PROVE  \E place \in [Recent(times, t) -> DOMAIN log] :
              /\ \A i, j \in Recent(times, t) : place[i] = place[j] => i = j
              /\ \A i \in Recent(times, t) : log[place[i]] = times[i]
<1>1. PICK place \in Injection(Recent(times, t), DOMAIN log) :
        \A i \in Recent(times, t) : log[place[i]] = times[i]
  BY DEF Keeps
<1>2. /\ place \in [Recent(times, t) -> DOMAIN log]
      /\ \A i, j \in Recent(times, t) : place[i] = place[j] => i = j
  BY <1>1, Fun_InjectionProperties
<1> QED
  BY <1>1, <1>2

\* As time goes on there is less to keep.
LEMMA KeepsLater ==
    ASSUME NEW log, NEW times \in Seq(Time), NEW t \in Time, NEW u \in Time, t <= u,
           Keeps(log, times, t)
    PROVE  Keeps(log, times, u)
<1>1. PICK place \in [Recent(times, t) -> DOMAIN log] :
        /\ \A i, j \in Recent(times, t) : place[i] = place[j] => i = j
        /\ \A i \in Recent(times, t) : log[place[i]] = times[i]
  BY KeepsElim
<1>2. Recent(times, u) \subseteq Recent(times, t)
  <2>1. ASSUME NEW i \in DOMAIN times, IsYoung(times[i], u)
        PROVE  IsYoung(times[i], t)
    <3>1. times[i] \in Time
      BY ElementOfSeq, LenProperties
    <3> QED
      BY <2>1, <3>1, LimiterAssumption DEF IsYoung, Time
  <2> QED
    BY <2>1 DEF Recent
<1>3. PICK later : later = [i \in Recent(times, u) |-> place[i]]
  OBVIOUS
<1>4. later \in [Recent(times, u) -> DOMAIN log]
  BY <1>2, <1>3
<1>5. \A i, j \in Recent(times, u) : later[i] = later[j] => i = j
  BY <1>1, <1>2, <1>3
<1>6. \A i \in Recent(times, u) : log[later[i]] = times[i]
  BY <1>1, <1>2, <1>3
<1> QED
  BY <1>4, <1>5, <1>6, KeepsIntro

\* Pruning takes nothing from what is to be kept.
LEMMA KeepsPruned ==
    ASSUME NEW log \in Seq(Time), NEW times \in Seq(Time), NEW t \in Time, NEW u \in Time,
           u <= t, Keeps(log, times, t), NEW rest \in Seq(Time), NEW n \in 0 .. Len(log),
           Len(rest) = Len(log) - n, \A i \in 1 .. n : ~ IsYoung(log[i], u),
           \A i \in 1 .. Len(log) - n : rest[i] = log[n + i]
    PROVE  Keeps(rest, times, t)
<1>1. PICK place \in [Recent(times, t) -> DOMAIN log] :
        /\ \A i, j \in Recent(times, t) : place[i] = place[j] => i = j
        /\ \A i \in Recent(times, t) : log[place[i]] = times[i]
  BY ONLY Keeps(log, times, t), KeepsElim
<1>2. Len(log) \in Nat /\ DOMAIN log = 1 .. Len(log) /\ DOMAIN rest = 1 .. Len(log) - n
      /\ n \in Nat
  BY LenProperties
<1>3. ASSUME NEW i \in Recent(times, t)
      PROVE  place[i] - n \in 1 .. Len(log) - n /\ place[i] \in 1 .. Len(log)
  <2>1. place[i] \in 1 .. Len(log) /\ log[place[i]] = times[i] /\ IsYoung(times[i], t)
    BY <1>1, <1>2 DEF Recent
  <2>2. log[place[i]] \in Time
    BY <2>1, ElementOfSeq
  <2>3. IsYoung(log[place[i]], u)
    BY <2>1, <2>2, LimiterAssumption DEF IsYoung, Time
  <2>4. place[i] \notin 1 .. n
    BY <2>3
  <2> QED
    BY <1>2, <2>1, <2>4
<1>4. PICK moved : moved = [i \in Recent(times, t) |-> place[i] - n]
  OBVIOUS
<1>5. moved \in [Recent(times, t) -> DOMAIN rest]
  BY <1>2, <1>3, <1>4
<1>6. ASSUME NEW i \in Recent(times, t), NEW j \in Recent(times, t), moved[i] = moved[j]
      PROVE  i = j
  <2>1. place[i] - n = place[j] - n
    BY <1>4, <1>6
  <2>2. place[i] = place[j]
    BY <1>2, <1>3, <2>1
  <2> QED
    BY <1>1, <2>2
<1>7. ASSUME NEW i \in Recent(times, t)
      PROVE  rest[moved[i]] = times[i]
  <2>1. moved[i] \in 1 .. Len(log) - n /\ n + moved[i] = place[i]
    BY <1>2, <1>3, <1>4
  <2>2. rest[moved[i]] = log[place[i]]
    BY <2>1
  <2> QED
    BY <1>1, <2>2
<1> QED
  BY <1>5, <1>6, <1>7, KeepsIntro

\* A request that is admitted out of order is in the log alone.
LEMMA KeepsMore ==
    ASSUME NEW log \in Seq(Time), NEW times, NEW t, NEW u \in Time, Keeps(log, times, t)
    PROVE  Keeps(Append(log, u), times, t)
<1>1. PICK place \in [Recent(times, t) -> DOMAIN log] :
        /\ \A i, j \in Recent(times, t) : place[i] = place[j] => i = j
        /\ \A i \in Recent(times, t) : log[place[i]] = times[i]
  BY KeepsElim
<1>2. /\ Len(log) \in Nat /\ DOMAIN log = 1 .. Len(log)
      /\ DOMAIN Append(log, u) = 1 .. Len(log) + 1
      /\ \A i \in 1 .. Len(log) : Append(log, u)[i] = log[i]
  BY LenProperties, AppendProperties
<1>3. DOMAIN log \subseteq DOMAIN Append(log, u)
  BY <1>2
<1>4. place \in [Recent(times, t) -> DOMAIN Append(log, u)]
  BY <1>1, <1>3
<1>5. \A i \in Recent(times, t) : Append(log, u)[place[i]] = times[i]
  BY <1>1, <1>2
<1> QED
  BY <1>1, <1>4, <1>5, KeepsIntro

\* One that is admitted in order is in both.
LEMMA KeepsBoth ==
    ASSUME NEW log \in Seq(Time), NEW times \in Seq(Time), NEW t, NEW u \in Time,
           Keeps(log, times, t)
    PROVE  Keeps(Append(log, u), Append(times, u), t)
<1>1. PICK place \in [Recent(times, t) -> DOMAIN log] :
        /\ \A i, j \in Recent(times, t) : place[i] = place[j] => i = j
        /\ \A i \in Recent(times, t) : log[place[i]] = times[i]
  BY KeepsElim
<1>2. PICK n \in Nat : n = Len(log)
  BY LenProperties
<1>3. PICK m \in Nat : m = Len(times)
  BY LenProperties
<1>4. PICK longer : longer = Append(log, u)
  OBVIOUS
<1>5. PICK after : after = Append(times, u)
  OBVIOUS
<1>6. /\ DOMAIN log = 1 .. n /\ DOMAIN longer = 1 .. n + 1
      /\ (\A i \in 1 .. n : longer[i] = log[i]) /\ longer[n + 1] = u
  BY <1>2, <1>4, LenProperties, AppendProperties
<1>7. /\ DOMAIN times = 1 .. m /\ DOMAIN after = 1 .. m + 1
      /\ (\A i \in 1 .. m : after[i] = times[i]) /\ after[m + 1] = u
  BY <1>3, <1>5, LenProperties, AppendProperties
<1>8. ASSUME NEW i \in Recent(after, t), i # m + 1
      PROVE  i \in Recent(times, t) /\ place[i] \in 1 .. n /\ after[i] = times[i]
  <2>1. i \in 1 .. m
    BY <1>7, <1>8 DEF Recent
  <2>2. i \in Recent(times, t)
    BY <1>7, <1>8, <2>1 DEF Recent
  <2> QED
    BY <1>1, <1>6, <1>7, <2>1, <2>2
<1>9. PICK both : both = [i \in Recent(after, t) |-> IF i = m + 1 THEN n + 1 ELSE place[i]]
  OBVIOUS
<1>10. both \in [Recent(after, t) -> DOMAIN longer]
  <2>1. \A i \in Recent(after, t) : both[i] \in 1 .. n + 1
    BY <1>8, <1>9
  <2> QED
    BY <1>6, <1>9, <2>1
<1>11. ASSUME NEW i \in Recent(after, t), NEW j \in Recent(after, t), both[i] = both[j]
       PROVE  i = j
  <2>1. n + 1 \notin 1 .. n
    OBVIOUS
  <2> QED
    BY <1>1, <1>8, <1>9, <1>11, <2>1
<1>12. ASSUME NEW i \in Recent(after, t)
       PROVE  longer[both[i]] = after[i]
  BY <1>1, <1>6, <1>7, <1>8, <1>9
<1>13. Keeps(longer, after, t)
  BY <1>10, <1>11, <1>12, KeepsIntro
<1> QED
  BY <1>4, <1>5, <1>13

\* If the Limit latest admissions are all recent the log is full.
LEMMA KeepsFull ==
    ASSUME NEW log \in Seq(Time), NEW times \in Seq(Time), NEW t \in Time,
           Keeps(log, times, t), InOrder(times, t),
           NEW i \in DOMAIN times, i + Limit = Len(times) + 1, IsYoung(times[i], t)
    PROVE  Len(log) >= Limit
<1> USE LimiterAssumption
<1>1. PICK n \in Nat : n = Len(times) /\ DOMAIN times = 1 .. n
  BY LenProperties
<1>2. i .. n \subseteq Recent(times, t)
  <2>1. ASSUME NEW j \in i .. n
        PROVE  j \in Recent(times, t)
    <3>1. j \in DOMAIN times /\ i <= j
      BY <1>1, <2>1
    <3>2. times[i] <= times[j]
      BY <3>1 DEF InOrder
    <3>3. times[i] \in Time /\ times[j] \in Time
      BY <1>1, <3>1, ElementOfSeq
    <3>4. IsYoung(times[j], t)
      BY <3>2, <3>3 DEF IsYoung, Time
    <3> QED
      BY <3>1, <3>4 DEF Recent
  <2> QED
    BY <2>1
<1>3. IsFiniteSet(i .. n) /\ Cardinality(i .. n) = Limit
  <2>1. i \in Int /\ n \in Int /\ ~ (i > n) /\ n - i + 1 = Limit
    BY <1>1
  <2>2. /\ IsFiniteSet(i .. n)
        /\ Cardinality(i .. n) = IF i > n THEN 0 ELSE n - i + 1
    BY <2>1, FS_Interval
  <2> QED
    BY <2>1, <2>2
<1>4. PICK c \in Nat : c = Len(log) /\ DOMAIN log = 1 .. c
  BY LenProperties
<1>5. IsFiniteSet(1 .. c) /\ Cardinality(1 .. c) = c
  <2>1. 1 \in Int /\ c \in Int
    OBVIOUS
  <2>2. /\ IsFiniteSet(1 .. c)
        /\ Cardinality(1 .. c) = IF 1 > c THEN 0 ELSE c - 1 + 1
    BY <2>1, FS_Interval
  <2>3. c = IF 1 > c THEN 0 ELSE c - 1 + 1
    OBVIOUS
  <2> QED
    BY <2>2, <2>3
<1>6. PICK place \in Injection(Recent(times, t), DOMAIN log) : TRUE
  BY DEF Keeps
<1>7. IsFiniteSet(Recent(times, t)) /\ Cardinality(Recent(times, t)) <= c
  BY <1>4, <1>5, <1>6, FS_Injection
<1>8. Cardinality(i .. n) <= Cardinality(Recent(times, t))
  BY <1>2, <1>7, FS_Subset
<1>9. Cardinality(Recent(times, t)) \in Nat
  BY <1>7, FS_CardinalityType
<1> QED
  BY <1>3, <1>4, <1>7, <1>8, <1>9

\* Pruning for a time that is not later than t keeps what is recent at t.
LEMMA PrunedLogsKeep ==
    ASSUME LogsTyped, NEW k \in Keys, NEW u \in Time, NEW j \in Keys, NEW times \in Seq(Time),
           NEW t \in Time, ShardOf[j] = ShardOf[k] => u <= t, Keeps(kept[j], times, t)
    PROVE  Keeps(PrunedLogs(k, u)[j], times, t)
<1>1. PICK rest : rest = PrunedLogs(k, u)[j]
  OBVIOUS
<1>2. PICK log \in Seq(Time) : log = kept[j]
  BY DEF LogsTyped
<1>3. rest \in Seq(Time)
  BY <1>1, PrunedLogsDrop
<1>4. PICK n \in 0 .. Len(log) :
        /\ Len(rest) = Len(log) - n
        /\ n > 0 => ShardOf[j] = ShardOf[k]
        /\ \A i \in 1 .. n : ~ IsYoung(log[i], u)
        /\ \A i \in 1 .. Len(log) - n : rest[i] = log[n + i]
  BY <1>1, <1>2, PrunedLogsDrop
<1>5. Keeps(log, times, t)
  BY <1>2
<1>6. CASE ShardOf[j] = ShardOf[k]
  <2>1. u <= t
    BY <1>6
  <2>2. Keeps(rest, times, t)
    BY <1>3, <1>4, <1>5, <2>1, KeepsPruned
  <2> QED
    BY <1>1, <2>2
<1>7. CASE ShardOf[j] # ShardOf[k]
  <2>1. Len(log) \in Nat /\ n = 0
    BY <1>4, <1>7, LenProperties
  <2>2. \A i \in 1 .. Len(log) : rest[i] = log[i]
    BY <1>4, <2>1
  <2>3. Len(rest) = Len(log)
    BY <1>4, <2>1
  <2>4. rest = log
    BY <1>3, <2>2, <2>3, SeqEqual
  <2> QED
    BY <1>1, <1>5, <2>4
<1> QED
  BY <1>6, <1>7

\* An admission in order is a window later than the one Limit before it.
LEMMA AppendRespectsWindow ==
    ASSUME NEW log \in Seq(Time), NEW times \in Seq(Time), NEW t \in Time,
           Keeps(log, times, t), InOrder(times, t), Len(log) < Limit,
           \A i \in DOMAIN times : i + Limit \in DOMAIN times =>
               times[i + Limit] - times[i] >= Window,
           NEW i \in DOMAIN Append(times, t), i + Limit \in DOMAIN Append(times, t)
    PROVE  Append(times, t)[i + Limit] - Append(times, t)[i] >= Window
<1> USE LimiterAssumption
<1>1. PICK n \in Nat : n = Len(times) /\ DOMAIN times = 1 .. n
  BY LenProperties
<1>2. PICK after : after = Append(times, t)
  OBVIOUS
<1>3. /\ DOMAIN after = 1 .. n + 1 /\ after[n + 1] = t
      /\ \A j \in 1 .. n : after[j] = times[j]
  BY <1>1, <1>2, LenProperties, AppendProperties
<1>4. i \in 1 .. n + 1 /\ i + Limit \in 1 .. n + 1
  BY <1>2, <1>3
<1>5. i \in 1 .. n /\ after[i] = times[i]
  BY <1>3, <1>4
<1>6. CASE i + Limit \in 1 .. n
  <2>1. times[i + Limit] - times[i] >= Window /\ after[i + Limit] = times[i + Limit]
    BY <1>1, <1>3, <1>5, <1>6
  <2> QED
    BY <1>2, <1>5, <2>1
<1>7. CASE i + Limit \notin 1 .. n
  <2>1. i + Limit = n + 1
    BY <1>4, <1>7
  <2>2. after[i + Limit] = t
    BY <1>3, <2>1
  <2>3. times[i] \in Time
    BY <1>1, <1>5, ElementOfSeq
  <2>4. ~ IsYoung(times[i], t)
    <3>1. ASSUME IsYoung(times[i], t)
          PROVE  FALSE
      <4>1. i \in DOMAIN times /\ i + Limit = Len(times) + 1
        BY <1>1, <1>5, <2>1
      <4>2. Len(log) >= Limit
        BY <3>1, <4>1, KeepsFull
      <4> QED
        BY <4>2, LenProperties
    <3> QED
      BY <3>1
  <2>5. t - times[i] >= Window
    BY <2>3, <2>4 DEF IsYoung, Time
  <2> QED
    BY <1>2, <1>5, <2>2, <2>5
<1> QED
  BY <1>6, <1>7

LEMMA AppendInOrder ==
    ASSUME NEW times \in Seq(Time), NEW t \in Time, InOrder(times, t)
    PROVE  InOrder(Append(times, t), t)
<1>1. PICK n \in Nat : n = Len(times) /\ DOMAIN times = 1 .. n
  BY LenProperties
<1>2. PICK after : after = Append(times, t)
  OBVIOUS
<1>3. /\ DOMAIN after = 1 .. n + 1 /\ after[n + 1] = t
      /\ \A j \in 1 .. n : after[j] = times[j]
  BY <1>1, <1>2, LenProperties, AppendProperties
<1>4. ASSUME NEW i \in 1 .. n + 1
      PROVE  after[i] <= t
  BY <1>1, <1>3, LimiterAssumption DEF InOrder, Time
<1>5. ASSUME NEW i \in 1 .. n + 1, NEW j \in 1 .. n + 1, i <= j
      PROVE  after[i] <= after[j]
  <2>1. CASE j = n + 1
    BY <1>3, <1>4, <2>1
  <2>2. CASE j # n + 1
    <3>1. i \in 1 .. n /\ j \in 1 .. n
      BY <1>5, <2>2
    <3> QED
      BY <1>1, <1>3, <1>5, <3>1 DEF InOrder
  <2> QED
    BY <2>1, <2>2
<1> QED
  BY <1>2, <1>3, <1>4, <1>5 DEF InOrder

LEMMA InOrderLater ==
    ASSUME NEW times \in Seq(Time), NEW t \in Time, NEW u \in Time, t <= u, InOrder(times, t)
    PROVE  InOrder(times, u)
<1>1. ASSUME NEW i \in DOMAIN times
      PROVE  times[i] <= u
  <2>1. times[i] \in Time /\ times[i] <= t
    BY ElementOfSeq, LenProperties DEF InOrder
  <2> QED
    BY <2>1, LimiterAssumption DEF Time
<1> QED
  BY <1>1 DEF InOrder

\* Allow admits no request in order that would be one too many in its window.
LEMMA AllowKeepsWindow ==
    ASSUME IsFunction(entries), RingsHold, LogsTyped, GaugeTyped, WindowInv,
           NEW g \in Goroutines, Allow(g), go[g].key \in Keys
    PROVE  LogsTyped' /\ RingsHold' /\ WindowInv'
<1> USE LimiterAssumption
<1>1. PICK k \in Keys : k = go[g].key
  OBVIOUS
<1>2. PICK t \in Time : t = go[g].time
  BY DEF GaugeTyped, Goroutine
<1>3. PICK logs : logs = PrunedLogs(k, t)
  OBVIOUS
<1>4. PICK s \in Shards : s = ShardOf[k]
  OBVIOUS
<1>5. /\ RingsHold'
      /\ latest' = [latest EXCEPT ![s] = IF t > @ THEN t ELSE @]
      /\ \/ kept' = logs /\ admitted' = admitted
         \/ /\ Len(logs[k]) < Limit
            /\ kept' = [logs EXCEPT ![k] = Append(@, t)]
            /\ admitted' = IF t < latest[s] THEN admitted
                           ELSE [admitted EXCEPT ![k] = Append(@, t)]
  BY <1>1, <1>2, <1>3, <1>4, AllowHolds
<1>6. logs \in [Keys -> Seq(Time)]
  <2>1. \A j \in Keys : logs[j] \in Seq(Time)
    BY <1>3, PrunedLogsDrop
  <2>2. logs = [j \in Keys |-> logs[j]]
    BY <1>3 DEF PrunedLogs
  <2> QED
    BY <2>1, <2>2
<1>7. /\ latest \in [Shards -> Time] /\ latest' \in [Shards -> Time]
      /\ \A r \in Shards : latest[r] <= latest'[r]
      /\ t <= latest'[s]
      /\ t >= latest[s] => latest'[s] = t
      /\ \A r \in Shards \ {s} : latest'[r] = latest[r]
  BY <1>5 DEF LogsTyped, Time
<1>8. Append(logs[k], t) \in Seq(Time) /\ Append(admitted[k], t) \in Seq(Time)
  BY <1>6, AppendProperties DEF LogsTyped
<1>9. LogsTyped'
  <2>1. kept' \in [Keys -> Seq(Time)]
    BY <1>5, <1>6, <1>8
  <2>2. admitted' \in [Keys -> Seq(Time)]
    BY <1>5, <1>8 DEF LogsTyped
  <2> QED
    BY <1>7, <2>1, <2>2 DEF LogsTyped
<1>10. ASSUME NEW j \in Keys
       PROVE  /\ InOrder(admitted[j], latest'[ShardOf[j]])
              /\ Keeps(logs[j], admitted[j], latest'[ShardOf[j]])
  <2>1. PICK before \in Time, after \in Time :
          /\ before = latest[ShardOf[j]] /\ after = latest'[ShardOf[j]] /\ before <= after
          /\ ShardOf[j] = ShardOf[k] => t <= after
    BY <1>4, <1>7
  <2>2. PICK times \in Seq(Time) : times = admitted[j]
    BY DEF LogsTyped
  <2>3. InOrder(times, before) /\ Keeps(kept[j], times, before)
    BY <2>1, <2>2 DEF WindowInv
  <2>4. InOrder(times, after)
    BY <2>1, <2>3, InOrderLater
  <2>5. Keeps(kept[j], times, after)
    BY <2>1, <2>3, KeepsLater
  <2>6. Keeps(PrunedLogs(k, t)[j], times, after)
    BY <2>1, <2>5, PrunedLogsKeep
  <2> QED
    BY <1>3, <2>1, <2>2, <2>4, <2>6
<1>11. ASSUME NEW j \in Keys
       PROVE  /\ InOrder(admitted'[j], latest'[ShardOf[j]])
              /\ Keeps(kept'[j], admitted'[j], latest'[ShardOf[j]])
              /\ \A i \in DOMAIN admitted'[j] : i + Limit \in DOMAIN admitted'[j] =>
                     admitted'[j][i + Limit] - admitted'[j][i] >= Window
  <2>1. PICK times \in Seq(Time), log \in Seq(Time), last \in Time :
          times = admitted[j] /\ log = logs[j] /\ last = latest'[ShardOf[j]]
    BY <1>6, <1>7 DEF LogsTyped
  <2>2. InOrder(times, last) /\ Keeps(log, times, last)
    BY <1>10, <2>1
  <2>3. \A i \in DOMAIN times : i + Limit \in DOMAIN times =>
            times[i + Limit] - times[i] >= Window
    BY <2>1 DEF WindowInv, WindowRespected
  <2>4. CASE kept'[j] = log /\ admitted'[j] = times
    BY <2>1, <2>2, <2>3, <2>4
  <2>5. CASE kept'[j] = Append(log, t) /\ admitted'[j] = times
    <3>1. Keeps(Append(log, t), times, last)
      BY <2>2, KeepsMore
    <3> QED
      BY <2>1, <2>2, <2>3, <2>5, <3>1
  <2>6. CASE /\ kept'[j] = Append(log, t) /\ admitted'[j] = Append(times, t)
             /\ Len(log) < Limit /\ last = t
    <3>1. Keeps(Append(log, t), Append(times, t), t)
      BY <2>2, <2>6, KeepsBoth
    <3>2. InOrder(Append(times, t), t)
      BY <2>2, <2>6, AppendInOrder
    <3>3. \A i \in DOMAIN Append(times, t) : i + Limit \in DOMAIN Append(times, t) =>
              Append(times, t)[i + Limit] - Append(times, t)[i] >= Window
      BY <2>2, <2>3, <2>6, AppendRespectsWindow
    <3> QED
      BY <2>1, <2>6, <3>1, <3>2, <3>3
  <2>7. \/ kept'[j] = log /\ admitted'[j] = times
        \/ kept'[j] = Append(log, t) /\ admitted'[j] = times
        \/ /\ kept'[j] = Append(log, t) /\ admitted'[j] = Append(times, t)
           /\ Len(log) < Limit /\ last = t
    <3>1. CASE j # k
      BY <1>5, <1>6, <2>1, <3>1 DEF LogsTyped
    <3>2. CASE j = k
      <4>1. CASE kept' = logs /\ admitted' = admitted
        BY <2>1, <4>1
      <4>2. CASE /\ Len(logs[k]) < Limit
                 /\ kept' = [logs EXCEPT ![k] = Append(@, t)]
                 /\ admitted' = IF t < latest[s] THEN admitted
                                ELSE [admitted EXCEPT ![k] = Append(@, t)]
        <5>1. kept'[j] = Append(log, t) /\ Len(log) < Limit
          BY <1>6, <2>1, <3>2, <4>2
        <5>2. CASE t < latest[s]
          BY <2>1, <4>2, <5>1, <5>2
        <5>3. CASE ~ (t < latest[s])
          <6>1. admitted'[j] = Append(times, t)
            BY <2>1, <3>2, <4>2, <5>3 DEF LogsTyped
          <6>2. latest[s] \in Time /\ last = latest'[s]
            BY <1>4, <1>7, <2>1, <3>2
          <6>3. t >= latest[s]
            BY <5>3, <6>2 DEF Time
          <6> QED
            BY <1>7, <5>1, <6>1, <6>2, <6>3
        <5> QED
          BY <5>2, <5>3
      <4> QED
        BY <1>5, <4>1, <4>2
    <3> QED
      BY <3>1, <3>2
  <2> QED
    BY <2>4, <2>5, <2>6, <2>7
<1>12. WindowInv'
  BY <1>11 DEF WindowInv, WindowRespected
<1> QED
  BY <1>5, <1>9, <1>12

-----------------------------------------------------------------------------
(* The theorems.                                                           *)

LEMMA InvInit == Init => IInv
<1> SUFFICES ASSUME Init PROVE IInv
  OBVIOUS
<1> USE LimiterAssumption
<1>1. GaugeTyped
  BY DEF Init, GaugeTyped, Idle, Goroutine, Time
<1>2. GaugeIsExact
  <2> SUFFICES ASSUME NEW k \in Keys
               PROVE  /\ gauge[k] = Cardinality(UnderWay(k)) /\ gauge[k] <= ConnLimit
    BY DEF GaugeIsExact, UnderWay
  <2>1. UnderWay(k) = {}
    BY DEF Init, Idle, UnderWay
  <2> QED
    BY <2>1, FS_EmptySet DEF Init
<1>3. IsFunction(entries)
  BY DEF Init, IsFunction
<1>4. ShardsBounded
  <2> SUFFICES ASSUME NEW s \in Shards
               PROVE  Cardinality(InShard(entries, s)) <= MaxKeys
    BY DEF ShardsBounded
  <2>1. InShard(entries, s) = {}
    BY DEF Init, InShard
  <2> QED
    BY <2>1, FS_EmptySet
<1>5. LogsTyped
  <2>1. 0 \in Time /\ <<>> \in Seq(Time)
    BY EmptySeq DEF Time
  <2> QED
    BY <2>1 DEF Init, LogsTyped
<1>6. RingsHold
  BY DEF Init, RingsHold, EntryHolds
<1>7. WindowInv
  <2>1. ASSUME NEW k \in Keys
        PROVE  /\ InOrder(admitted[k], latest[ShardOf[k]])
               /\ Keeps(kept[k], admitted[k], latest[ShardOf[k]])
               /\ DOMAIN admitted[k] = {}
    <3>1. admitted[k] = <<>> /\ DOMAIN admitted[k] = {}
      BY DEF Init
    <3>2. Recent(admitted[k], latest[ShardOf[k]]) = {}
      BY <3>1 DEF Recent
    <3>3. PICK place : place = [i \in {} |-> 0]
      OBVIOUS
    <3>4. place \in [Recent(admitted[k], latest[ShardOf[k]]) -> DOMAIN kept[k]]
      BY <3>2, <3>3
    <3>5. Keeps(kept[k], admitted[k], latest[ShardOf[k]])
      BY <3>2, <3>4, KeepsIntro
    <3> QED
      BY <3>1, <3>5 DEF InOrder
  <2> QED
    BY <2>1 DEF WindowInv, WindowRespected
<1> QED
  BY <1>1, <1>2, <1>3, <1>4, <1>5, <1>6, <1>7 DEF IInv

LEMMA InvNext == IInv /\ [Next]_vars => IInv'
<1> SUFFICES ASSUME IInv, [Next]_vars PROVE IInv'
  OBVIOUS
<1>1. CASE Next
  <2>1. GaugeTyped' /\ GaugeIsExact'
    BY <1>1, GaugeNext DEF IInv
  <2>2. IsFunction(entries') /\ ShardsBounded'
    <3>1. CASE entries' = entries
      BY <3>1 DEF IInv, ShardsBounded, InShard
    <3>2. ASSUME NEW g \in Goroutines, Allow(g)
          PROVE  IsFunction(entries') /\ ShardsBounded'
      <4>1. go[g].key \in Keys
        BY <3>2 DEF IInv, GaugeTyped, Allow
      <4> QED
        BY <3>2, <4>1, AllowIsBounded DEF IInv
    <3> QED
      BY <1>1, <3>1, <3>2 DEF Next, Connect, ReadClock, Served, Release, Tick
  <2>3. LogsTyped' /\ RingsHold' /\ WindowInv'
    <3>1. CASE UNCHANGED <<entries, kept, latest, admitted>>
      BY <3>1 DEF IInv, LogsTyped, RingsHold, WindowInv, WindowRespected
    <3>2. ASSUME NEW g \in Goroutines, Allow(g)
          PROVE  LogsTyped' /\ RingsHold' /\ WindowInv'
      <4>1. go[g].key \in Keys
        BY <3>2 DEF IInv, GaugeTyped, Allow
      <4> QED
        BY <3>2, <4>1, AllowKeepsWindow DEF IInv
    <3> QED
      BY <1>1, <3>1, <3>2 DEF Next, Connect, ReadClock, Served, Release, Tick
  <2> QED
    BY <2>1, <2>2, <2>3 DEF IInv, IsFunction
<1>2. CASE UNCHANGED vars
  BY <1>2 DEF vars, IInv, GaugeTyped, GaugeIsExact, IsFunction, ShardsBounded, InShard,
              LogsTyped, RingsHold, WindowInv, WindowRespected
<1> QED
  BY <1>1, <1>2

LEMMA InvHolds == Spec => []IInv
  BY InvInit, InvNext, PTL DEF Spec

\* The state stays in its type: no ring gets larger than the limit, and no head
\* outside its ring, however often it is pruned, grown and deleted.
THEOREM TypeCorrect == Spec => []TypeOK
<1>1. IInv => TypeOK
  <2> SUFFICES ASSUME IInv PROVE TypeOK
    OBVIOUS
  <2>1. \A k \in Keys : entries[k] # None => RingOK(entries[k])
    BY DEF IInv, RingsHold, EntryHolds
  <2>2. entries \in [Keys -> RateWindow \cup {None}]
    BY <2>1 DEF IInv, IsFunction, RingOK
  <2>3. \A k \in Keys :
           entries[k] # None =>
               /\ entries[k].count <= Len(entries[k].slots)
               /\ Len(entries[k].slots) <= Limit
               /\ entries[k].head < Len(entries[k].slots) \/ entries[k].slots = <<>>
    BY <2>1 DEF RingOK, Cap
  <2> QED
    BY <2>2, <2>3 DEF IInv, GaugeTyped, LogsTyped, TypeOK
<1> QED
  BY InvHolds, <1>1, PTL

\* A ring holds exactly the times of the requests its key was admitted for and
\* that were not pruned since, oldest first.
THEOREM RingIsLog == Spec => []RingHoldsLog
<1>1. IInv => RingHoldsLog
  <2> SUFFICES ASSUME IInv, NEW k \in Keys, entries[k] # None
               PROVE  kept[k] = Contents(entries[k])
    BY DEF IInv, RingsHold, EntryHolds, RingHoldsLog
  <2>1. PICK rw, times : rw = entries[k] /\ times = kept[k]
    OBVIOUS
  <2>2. Holds(rw, times)
    BY <2>1 DEF IInv, RingsHold, EntryHolds
  <2>3. DOMAIN times = 1 .. rw.count /\ times = [i \in 1 .. rw.count |-> times[i]]
    BY <2>2, LenProperties DEF Holds
  <2>4. times = Contents(rw)
    BY <2>2, <2>3 DEF Holds, Contents
  <2> QED
    BY <2>1, <2>4
<1> QED
  BY InvHolds, <1>1, PTL

\* Of the requests that take the lock in the order of their times no window has
\* more than the limit, for any limit and window.
THEOREM WindowIsRespected == Spec => []WindowRespected
<1>1. IInv => WindowRespected
  BY DEF IInv, WindowInv
<1> QED
  BY InvHolds, <1>1, PTL

\* The gauge of an address counts exactly its requests under way, on every path
\* through the middleware, and never more than the limit: nothing leaks a
\* connection and nothing gives one back twice.
THEOREM GaugeCounts == Spec => []GaugeIsExact
<1>1. IInv => GaugeIsExact
  BY DEF IInv
<1> QED
  BY InvHolds, <1>1, PTL

\* No shard has more entries than it may, whatever addresses come.
THEOREM ShardsStayBounded == Spec => []ShardsBounded
<1>1. IInv => ShardsBounded
  BY DEF IInv
<1> QED
  BY InvHolds, <1>1, PTL

=============================================================================
