------------------------------ MODULE Delivery ------------------------------
(***************************************************************************)
(* The retry protocol between the scheduler of RelayManager, the goroutines *)
(* it starts (DeliveryWorker.Process) and the delivery_queue table.         *)
(*                                                                         *)
(* Every second the scheduler reads a batch of due rows and starts one      *)
(* goroutine per row.  A goroutine works on the copy of the row it was      *)
(* given: it claims the row by pushing next_retry DeliveryLockDuration into *)
(* the future (a compare-and-set against the copy), writes the envelope to  *)
(* the recipient's WebSocket, and stores the outcome with an unconditional  *)
(* UPDATE by id.  Nothing stops two goroutines from holding copies of one   *)
(* row; only the lease, a time, keeps them apart.  Rows are acknowledged,   *)
(* cleaned up and inserted by other handlers between any two of the steps.  *)
(*                                                                         *)
(* Each SQL statement is one step: SQLite runs single statements atomically.*)
(***************************************************************************)
EXTENDS Integers, FiniteSets

CONSTANTS
    Items,                  \* rows of delivery_queue, one envelope each
    Devices,                \* recipient devices
    Recipient,              \* the device a row is addressed to
    Slots,                  \* bound: goroutines at work on one row at a time
    DeliveryLockDuration,
    AcknowledgmentTimeout,
    InitialBackoffDuration,
    MaximumBackoffDuration,
    TerminalRetryBackoff,
    MaximumRetryAttempts,
    MessageTTL,
    DeliveryBatchSize,
    MaxTime,                \* bound on the clock
    MaxFaults               \* bound on crashes and failed statements

ASSUME DeliveryAssumption ==
    /\ Recipient \in [Items -> Devices]
    /\ DeliveryLockDuration \in Nat \ {0}
    /\ AcknowledgmentTimeout \in Nat \ {0}
    /\ InitialBackoffDuration \in Nat \ {0}
    /\ MaximumBackoffDuration \in Nat \ {0}
    /\ TerminalRetryBackoff \in Nat \ {0}
    /\ MaximumRetryAttempts \in Nat
    /\ MessageTTL \in Nat
    /\ DeliveryBatchSize \in Nat \ {0}
    /\ MaxTime \in Nat
    /\ MaxFaults \in Nat

\* A fact of arithmetic the backoff rests on (the shift 1 << n), stated for the
\* exponents that occur because the provers do not know it.
ASSUME ShiftAssumption ==
    \A n \in 0 .. MaximumRetryAttempts + 1 : 2 ^ n \in Nat \ {0}

VARIABLES
    now,        \* the wall clock, in seconds
    queue,      \* delivery_queue: Items -> row
    worker,     \* the goroutines: Items -> Slots -> Process call
    online,     \* devices with a session in the WebSocket manager
    faults,     \* crashes and failed statements so far
    \* History, read by no action:
    sent,       \* envelopes written to a socket so far, per row
    pushed,     \* push notifications so far, per row
    overran     \* rows some goroutine kept for longer than its lease

vars == <<now, queue, worker, online, faults, sent, pushed, overran>>

-----------------------------------------------------------------------------

\* The columns a goroutine gets a copy of (DeliveryQueueItem).
Retry == [retry_count: Nat, next_retry: Nat, ack_deadline: Nat]

Row == [stored: {"unsent", "queued", "gone"}, expiry: Nat,
        retry_count: Nat, next_retry: Nat, ack_deadline: Nat]

\* Where a call of Process is: about to read the clock, to claim, to write to
\* the socket, to store one of the three outcomes, or to send a notification.
PC == {"idle", "spawned", "claim", "deliver",
       "delivered", "failed", "terminal", "push"}

\* A goroutine holds a row from its claim to the update that ends it.
Holding == {"deliver", "delivered", "failed", "terminal"}

Worker == [pc: PC, item: Retry, now: Nat]

IdleWorker ==
    [pc |-> "idle", now |-> 0,
     item |-> [retry_count |-> 0, next_retry |-> 0, ack_deadline |-> 0]]

NoRow == [stored |-> "unsent", expiry |-> 0,
          retry_count |-> 0, next_retry |-> 0, ack_deadline |-> 0]

TypeOK ==
    /\ now \in Nat
    /\ queue \in [Items -> Row]
    /\ worker \in [Items -> [Slots -> Worker]]
    /\ online \subseteq Devices
    /\ faults \in Nat
    /\ sent \in [Items -> Nat]
    /\ pushed \in [Items -> Nat]
    /\ overran \subseteq Items

\* The clock is past 0, the next_retry of rows that were given none.
Init ==
    /\ now = 1
    /\ queue = [i \in Items |-> NoRow]
    /\ worker = [i \in Items |-> [s \in Slots |-> IdleWorker]]
    /\ online = {}
    /\ faults = 0
    /\ sent = [i \in Items |-> 0]
    /\ pushed = [i \in Items |-> 0]
    /\ overran = {}

history == <<sent, pushed, overran>>

-----------------------------------------------------------------------------
(* The table.                                                              *)

Queued(i) == queue[i].stored = "queued"

\* A plausible bug: the row's own retry time is not looked at.
DueAlways(i) == Queued(i)

Due(i) == Queued(i) /\ queue[i].next_retry <= now

\* A plausible bug: LIMIT without ORDER BY.
AnyDueBatch(batch) ==
    LET due == {i \in Items : Due(i)}
    IN  /\ batch \subseteq due
        /\ IF Cardinality(due) <= DeliveryBatchSize
           THEN batch = due
           ELSE Cardinality(batch) = DeliveryBatchSize

\* What GetDueItems may return: the DeliveryBatchSize rows due the longest.
\* Neither the expiry of a row nor the status of its device is looked at.
DueBatch(batch) ==
    LET due == {i \in Items : Due(i)}
    IN  /\ batch \subseteq due
        /\ \A i \in batch, j \in due \ batch :
              queue[i].next_retry <= queue[j].next_retry
        /\ IF Cardinality(due) <= DeliveryBatchSize
           THEN batch = due
           ELSE Cardinality(batch) = DeliveryBatchSize

\* UPDATE ... WHERE id = i: unconditional, and without effect on a deleted row.
UpdateState(i, retryCount, nextRetry, ackDeadline) ==
    queue' = IF Queued(i)
             THEN [queue EXCEPT ![i].retry_count = retryCount,
                                ![i].next_retry = nextRetry,
                                ![i].ack_deadline = ackDeadline]
             ELSE queue

-----------------------------------------------------------------------------
(* The scheduler.                                                          *)

\* dispatchDueMessages, run by schedulerLoop on every tick: read the due rows,
\* start a goroutine on a copy of each.  It waits for none of them, so a row
\* may be handed out again before an earlier goroutine has claimed it.
Dispatch ==
    \E batch \in SUBSET Items :
        /\ batch # {}
        /\ DueBatch(batch)
        /\ \E slot \in [batch -> Slots] :
              /\ \A i \in batch : worker[i][slot[i]].pc = "idle"
              /\ worker' =
                   [i \in Items |->
                      IF i \in batch
                      THEN [worker[i] EXCEPT ![slot[i]] =
                              [pc |-> "spawned", now |-> 0,
                               item |-> [retry_count  |-> queue[i].retry_count,
                                         next_retry   |-> queue[i].next_retry,
                                         ack_deadline |-> queue[i].ack_deadline]]]
                      ELSE worker[i]]
        /\ UNCHANGED <<now, queue, online, faults, history>>

-----------------------------------------------------------------------------
(* DeliveryWorker.Process(item), statement by statement.                   *)

\* A plausible bug: an unanswered push is not counted.
UncountedRetry(item) == item.retry_count

\* An unanswered push (ack_deadline > 0) counts as an attempt when the row
\* comes up again.
RetryCount(item) ==
    IF item.ack_deadline > 0 THEN item.retry_count + 1 ELSE item.retry_count

\* A failed push counts at once, unless the line above has counted already.
FailedRetryCount(item) ==
    IF item.ack_deadline = 0 THEN RetryCount(item) + 1 ELSE RetryCount(item)

\* A plausible bug: the shift overflows a (here two-bit) signed integer.
BackoffWraps(retryCount) ==
    ((2 ^ retryCount * InitialBackoffDuration + 2) % 4) - 2

Backoff(retryCount) ==
    LET backoff == 2 ^ retryCount * InitialBackoffDuration
    IN  IF backoff > MaximumBackoffDuration
        THEN MaximumBackoffDuration
        ELSE backoff

\* A plausible bug: one attempt too many before a row is parked.
ExhaustedLate(item) == RetryCount(item) > MaximumRetryAttempts + 1

Exhausted(item) == RetryCount(item) > MaximumRetryAttempts

\* Plausible bugs: the claim ignores the retry time, or compares it with the
\* clock instead of the copy.
ClaimableAlways(i, w) == Queued(i)
ClaimableByClock(i, w) == Queued(i) /\ queue[i].next_retry <= w.now

\* The WHERE clause of ClaimItem: the row is there, and its next_retry has not
\* moved past the value in the copy.
Claimable(i, w) ==
    Queued(i) /\ queue[i].next_retry <= w.item.next_retry

Goto(i, s, pc) == worker' = [worker EXCEPT ![i][s].pc = pc]

ReadClock(i, s) ==
    /\ worker[i][s].pc = "spawned"
    /\ worker' = [worker EXCEPT ![i][s].pc = "claim", ![i][s].now = now]
    /\ UNCHANGED <<now, queue, online, faults, history>>

\* Past MaximumRetryAttempts a claimed row is parked, not delivered.
ClaimItem(i, s) ==
    LET w == worker[i][s]
    IN  /\ w.pc = "claim"
        /\ \/ /\ Claimable(i, w)
              /\ queue' = [queue EXCEPT ![i].next_retry =
                                            w.now + DeliveryLockDuration]
              /\ Goto(i, s, IF Exhausted(w.item) THEN "terminal" ELSE "deliver")
           \/ /\ ~Claimable(i, w)
              /\ worker' = [worker EXCEPT ![i][s] = IdleWorker]
              /\ UNCHANGED queue
        /\ UNCHANGED <<now, online, faults, history>>

\* DeliverMessage: write to the session of the recipient, if it has one.  A
\* failed write closes the session and removes it.  The row may be gone by now.
DeliverMessage(i, s) ==
    /\ worker[i][s].pc = "deliver"
    /\ \/ /\ Recipient[i] \in online
          /\ sent' = [sent EXCEPT ![i] = @ + 1]
          /\ Goto(i, s, "delivered")
          /\ UNCHANGED online
       \/ /\ online' = online \ {Recipient[i]}
          /\ Goto(i, s, "failed")
          /\ UNCHANGED sent
    /\ UNCHANGED <<now, queue, faults, pushed, overran>>

AwaitAck(i, s) ==
    LET w == worker[i][s]
        deadline == w.now + AcknowledgmentTimeout
    IN  /\ w.pc = "delivered"
        /\ UpdateState(i, RetryCount(w.item), deadline, deadline)
        /\ worker' = [worker EXCEPT ![i][s] = IdleWorker]
        /\ UNCHANGED <<now, online, faults, history>>

\* A plausible bug: every failure notifies.
AfterEveryFailure(w) == [IdleWorker EXCEPT !.pc = "push"]

\* The first failure of a row is followed by a push notification.
AfterFailure(w) ==
    IF w.item.retry_count = 0
    THEN [IdleWorker EXCEPT !.pc = "push"]
    ELSE IdleWorker

BackOff(i, s) ==
    LET w == worker[i][s]
        retryCount == FailedRetryCount(w.item)
    IN  /\ w.pc = "failed"
        /\ UpdateState(i, retryCount, w.now + Backoff(retryCount), 0)
        /\ worker' = [worker EXCEPT ![i][s] = AfterFailure(w)]
        /\ UNCHANGED <<now, online, faults, history>>

SendNotification(i, s) ==
    /\ worker[i][s].pc = "push"
    /\ pushed' = [pushed EXCEPT ![i] = @ + 1]
    /\ worker' = [worker EXCEPT ![i][s] = IdleWorker]
    /\ UNCHANGED <<now, queue, online, faults, sent, overran>>

Park(i, s) ==
    LET w == worker[i][s]
    IN  /\ w.pc = "terminal"
        /\ UpdateState(i, RetryCount(w.item), w.now + TerminalRetryBackoff, 0)
        /\ worker' = [worker EXCEPT ![i][s] = IdleWorker]
        /\ UNCHANGED <<now, online, faults, history>>

\* A statement fails (busy timeout, I/O error).  A failed claim ends the call;
\* a failed update is logged and the call goes on as if it had succeeded.
StatementFails(i, s) ==
    LET w == worker[i][s]
    IN  /\ faults < MaxFaults
        /\ w.pc \in {"claim", "delivered", "failed", "terminal"}
        /\ worker' = [worker EXCEPT ![i][s] =
                          IF w.pc = "failed" THEN AfterFailure(w)
                                             ELSE IdleWorker]
        /\ faults' = faults + 1
        /\ UNCHANGED <<now, queue, online, history>>

Process(i, s) ==
    \/ ReadClock(i, s)
    \/ ClaimItem(i, s)
    \/ DeliverMessage(i, s)
    \/ AwaitAck(i, s)
    \/ BackOff(i, s)
    \/ SendNotification(i, s)
    \/ Park(i, s)

-----------------------------------------------------------------------------
(* The handlers around it, as far as this table goes.                      *)

\* FanOutMessage leaves next_retry at its default 0, EnqueueEnvelope sets it to
\* the current time; both set the expiry, and the other two columns to 0.
Enqueue(i) ==
    /\ queue[i].stored = "unsent"
    /\ \E nextRetry \in {0, now} :
          queue' = [queue EXCEPT ![i] =
                      [stored |-> "queued", expiry |-> now + MessageTTL,
                       retry_count |-> 0, next_retry |-> nextRetry,
                       ack_deadline |-> 0]]
    /\ UNCHANGED <<now, worker, online, faults, history>>

Acknowledge(i) ==
    /\ Queued(i)
    /\ queue' = [queue EXCEPT ![i].stored = "gone"]
    /\ UNCHANGED <<now, worker, online, faults, history>>

\* performMaintenance, hourly, and CleanupNow.
Cleanup ==
    /\ \E i \in Items : Queued(i) /\ queue[i].expiry <= now
    /\ queue' = [i \in Items |->
                    IF Queued(i) /\ queue[i].expiry <= now
                    THEN [queue[i] EXCEPT !.stored = "gone"]
                    ELSE queue[i]]
    /\ UNCHANGED <<now, worker, online, faults, history>>

\* A device opens or loses its WebSocket session.
Connect(d) ==
    /\ d \notin online
    /\ online' = online \cup {d}
    /\ UNCHANGED <<now, queue, worker, faults, history>>

Disconnect(d) ==
    /\ d \in online
    /\ online' = online \ {d}
    /\ UNCHANGED <<now, queue, worker, faults, history>>

\* The process dies and is started again: goroutines and sessions are lost,
\* the table is not.
Crash ==
    /\ faults < MaxFaults
    /\ faults' = faults + 1
    /\ worker' = [i \in Items |-> [s \in Slots |-> IdleWorker]]
    /\ online' = {}
    /\ UNCHANGED <<now, queue, history>>

\* A goroutine of row i that has read the clock and will still be at work when
\* its lease is over.
OutlivesLease(i, s) ==
    /\ worker[i][s].pc \in {"claim"} \cup Holding
    /\ worker[i][s].now + DeliveryLockDuration <= now + 1

Tick ==
    /\ now < MaxTime
    /\ now' = now + 1
    /\ overran' = overran \cup
                    {i \in Items : \E s \in Slots : OutlivesLease(i, s)}
    /\ UNCHANGED <<queue, worker, online, faults, sent, pushed>>

Next ==
    \/ Dispatch
    \/ \E i \in Items, s \in Slots : Process(i, s) \/ StatementFails(i, s)
    \/ \E i \in Items : Enqueue(i) \/ Acknowledge(i)
    \/ Cleanup
    \/ \E d \in Devices : Connect(d) \/ Disconnect(d)
    \/ Crash
    \/ Tick

Spec == Init /\ [][Next]_vars

\* The runtime schedules every goroutine, the ticker keeps firing.
Fairness ==
    /\ WF_vars(Dispatch)
    /\ \A i \in Items, s \in Slots : WF_vars(Process(i, s))

-----------------------------------------------------------------------------
(* Properties.                                                             *)

\* Two goroutines never hold the same row (between the claim and the update
\* that ends it), unless some goroutine of that row has outlived its lease.
\* The claim's compare-and-set has to defeat every stale copy for this.
LeaseExclusion ==
    \A i \in Items \ overran : \A s1, s2 \in Slots :
        worker[i][s1].pc \in Holding /\ worker[i][s2].pc \in Holding => s1 = s2

\* retry_count never gets more than one above MaximumRetryAttempts, for which no
\* row is exempt: goroutines that outlive their lease may undo a count, but not
\* drive it up, so that it cannot overflow the shift in the backoff.
RetryCountBounded ==
    \A i \in Items : queue[i].retry_count <= MaximumRetryAttempts + 1

\* An envelope is written to a socket at most MaximumRetryAttempts + 1 times,
\* plus once for every crash or failed statement that lost an outcome.
SentBounded ==
    \A i \in Items \ overran : sent[i] <= MaximumRetryAttempts + 1 + faults

\* A row causes at most one push notification, plus one per lost outcome.
PushedOnce ==
    \A i \in Items \ overran : pushed[i] <= 1 + faults

\* No lost update: an update by id never undoes a later one's count.
RetryCountMonotone ==
    [][\A i \in Items \ overran' :
          queue[i].stored = "queued" =>
              queue'[i].retry_count >= queue[i].retry_count]_vars

\* A pushed envelope is not pushed again before its ack_deadline.
NoResendBeforeDeadline ==
    [][\A i \in Items \ overran' :
          sent'[i] > sent[i] => queue[i].ack_deadline <= now]_vars

\* A parked row (retry_count above the maximum) is never pushed again: only a
\* poll of the mailbox can fetch it.
ParkedRowsSilent ==
    [][\A i \in Items \ overran' :
          queue[i].retry_count > MaximumRetryAttempts => sent'[i] = sent[i]]_vars

\* Where the one of these goroutines is that holds their row, "free" if none.
Phase(goroutines) ==
    LET held == {goroutines[s].pc : s \in Slots} \cap Holding
    IN  IF held = {} THEN "free" ELSE CHOOSE pc \in held : TRUE

RowOf(i) ==
    [stored |-> queue[i].stored, phase |-> Phase(worker[i]),
     tries |-> queue[i].retry_count, unanswered |-> queue[i].ack_deadline > 0,
     sent |-> sent[i]]

\* The compare-and-set of the claim and the updates by id, which no lock ties
\* together, treat a row as if it had one.
RowsAreLocked ==
    INSTANCE Attempts WITH
        MaxRetries <- MaximumRetryAttempts,
        rows <- [i \in Items |-> RowOf(i)],
        losses <- faults,
        loose <- overran

AttemptsAreBooked == RowsAreLocked!Spec

\* A due row does not starve behind others in the batch, although these come up
\* again for ever: in the end a goroutine claims it, which moves its next_retry
\* into the future, or it is acknowledged or cleaned up.
DueRowsAttended ==
    \A i \in Items : Due(i) ~> ~Due(i)

=============================================================================
