--------------------------- MODULE DeliveryProofs ---------------------------
(***************************************************************************)
(* Delivery satisfies its safety properties for every choice of rows,       *)
(* devices, numbers of goroutines, durations and limits.                    *)
(***************************************************************************)
EXTENDS DeliveryInvariant, FiniteSetTheorems, TLAPS

USE DeliveryAssumption

-----------------------------------------------------------------------------
(* Lemmas about the operators.                                             *)

\* The delay of a retry is a positive number of seconds.
LEMMA BackoffPositive ==
    ASSUME NEW n \in 0 .. MaximumRetryAttempts + 1
    PROVE  Backoff(n) \in Nat \ {0}
<1>1. 2 ^ n \in Nat \ {0}
  BY ShiftAssumption
<1>2. \A x \in Nat \ {0} : x * InitialBackoffDuration \in Nat \ {0}
  OBVIOUS
<1>3. 2 ^ n * InitialBackoffDuration \in Nat \ {0}
  BY <1>1, <1>2
<1>. QED  BY <1>3 DEF Backoff

\* Types of the two counts computed from a copy, within the limit.
LEMMA CountType ==
    ASSUME NEW r \in Retry
    PROVE  /\ RetryCount(r) \in Nat
           /\ FailedRetryCount(r) \in Nat
           /\ r.retry_count <= RetryCount(r)
           /\ RetryCount(r) <= FailedRetryCount(r)
           /\ RetryCount(r) <= r.retry_count + 1
BY DEF Retry, RetryCount, FailedRetryCount

\* A row within the limit counts at most one attempt more than the maximum.
LEMMA CountBounded ==
    ASSUME NEW r \in Retry, WithinLimit(r)
    PROVE  /\ RetryCount(r) <= MaximumRetryAttempts + 1
           /\ ~Exhausted(r) =>
                 /\ RetryCount(r) <= MaximumRetryAttempts
                 /\ FailedRetryCount(r) <= MaximumRetryAttempts + 1
BY CountType DEF Retry, RetryCount, FailedRetryCount, WithinLimit, Exhausted

\* A count up to one above the maximum is within the limit when no answer is
\* outstanding.
LEMMA LastAttempt ==
    ASSUME NEW r, r.retry_count \in Nat,
           r.retry_count <= MaximumRetryAttempts + 1, r.ack_deadline = 0
    PROVE  WithinLimit(r)
<1>1. \A n, m \in Nat : n <= m + 1 => n <= m \/ n = m + 1
  OBVIOUS
<1>. QED  BY <1>1 DEF WithinLimit

\* What changing one goroutine does to the table of goroutines.
LEMMA OneWorker ==
    ASSUME NEW W \in [Items -> [Slots -> Worker]],
           NEW i \in Items, NEW s \in Slots, NEW w \in Worker
    PROVE  /\ [W EXCEPT ![i][s] = w] \in [Items -> [Slots -> Worker]]
           /\ \A j \in Items, r \in Slots :
                 [W EXCEPT ![i][s] = w][j][r] =
                     IF j = i /\ r = s THEN w ELSE W[j][r]
OBVIOUS

\* What UpdateState does to the table.
LEMMA UpdateStateEffect ==
    ASSUME TypeOK, NEW i \in Items, NEW c \in Nat, NEW n \in Nat, NEW a \in Nat,
           UpdateState(i, c, n, a)
    PROVE  /\ queue' \in [Items -> Row]
           /\ \A j \in Items :
                 /\ queue'[j].stored = queue[j].stored
                 /\ queue'[j].expiry = queue[j].expiry
                 /\ j # i \/ ~Queued(j) => queue'[j] = queue[j]
           /\ Queued(i) => /\ queue'[i].retry_count = c
                           /\ queue'[i].next_retry = n
                           /\ queue'[i].ack_deadline = a
BY DEF TypeOK, Row, UpdateState, Queued

-----------------------------------------------------------------------------
(* Type correctness.                                                       *)

LEMMA IdleWorkerType == IdleWorker \in Worker
BY DEF IdleWorker, Worker, PC, Retry

\* The copies in a typed table of goroutines.
LEMMA WorkerType ==
    ASSUME TypeOK, NEW i \in Items, NEW s \in Slots
    PROVE  /\ worker[i][s] \in Worker
           /\ worker[i][s].item \in Retry
           /\ worker[i][s].now \in Nat
           /\ queue[i] \in Row
           /\ worker \in [Items -> [Slots -> Worker]]
BY DEF TypeOK, Worker

LEMMA GotoType ==
    ASSUME TypeOK, NEW i \in Items, NEW s \in Slots, NEW pc \in PC, Goto(i, s, pc)
    PROVE  /\ worker' \in [Items -> [Slots -> Worker]]
           /\ worker'[i][s] = [worker[i][s] EXCEPT !.pc = pc]
           /\ \A j \in Items, r \in Slots :
                 j # i \/ r # s => worker'[j][r] = worker[j][r]
<1>1. [worker[i][s] EXCEPT !.pc = pc] \in Worker
  BY WorkerType DEF Worker
<1>2. worker' = [worker EXCEPT ![i][s] = [worker[i][s] EXCEPT !.pc = pc]]
  BY DEF Goto
<1>3. worker \in [Items -> [Slots -> Worker]]
  BY WorkerType
<1>4. PICK w \in Worker : w = [worker[i][s] EXCEPT !.pc = pc]
  BY <1>1
<1>5. worker' = [worker EXCEPT ![i][s] = w]
  BY <1>2, <1>4
<1>6. /\ worker' \in [Items -> [Slots -> Worker]]
      /\ \A j \in Items, r \in Slots :
            worker'[j][r] = IF j = i /\ r = s THEN w ELSE worker[j][r]
  BY <1>3, <1>5, OneWorker
<1>. QED  BY <1>4, <1>6

LEMMA DispatchType ==
    ASSUME TypeOK, Dispatch
    PROVE  TypeOK'
<1>0. PICK batch \in SUBSET Items :
        \E slot \in [batch -> Slots] :
          worker' =
            [i \in Items |->
             IF i \in batch
             THEN [worker[i] EXCEPT ![slot[i]] =
                     [pc |-> "spawned", now |-> 0,
                      item |-> [retry_count  |-> queue[i].retry_count,
                                next_retry   |-> queue[i].next_retry,
                                ack_deadline |-> queue[i].ack_deadline]]]
             ELSE worker[i]]
  BY DEF Dispatch
<1>1. PICK slot \in [batch -> Slots] :
        worker' =
          [i \in Items |->
             IF i \in batch
             THEN [worker[i] EXCEPT ![slot[i]] =
                     [pc |-> "spawned", now |-> 0,
                      item |-> [retry_count  |-> queue[i].retry_count,
                                next_retry   |-> queue[i].next_retry,
                                ack_deadline |-> queue[i].ack_deadline]]]
             ELSE worker[i]]
  BY <1>0
<1>2. \A i \in Items :
        [pc |-> "spawned", now |-> 0,
         item |-> [retry_count  |-> queue[i].retry_count,
                   next_retry   |-> queue[i].next_retry,
                   ack_deadline |-> queue[i].ack_deadline]] \in Worker
  BY DEF TypeOK, Worker, Row, Retry, PC
<1>3. worker' \in [Items -> [Slots -> Worker]]
  BY <1>1, <1>2 DEF TypeOK
<1>. QED  BY <1>3 DEF Dispatch, TypeOK, history

LEMMA ProcessType ==
    ASSUME TypeOK, LimitInv, NEW i \in Items, NEW s \in Slots,
           Process(i, s) \/ StatementFails(i, s)
    PROVE  TypeOK'
<1>. DEFINE w == worker[i][s]
<1>. /\ w \in Worker /\ w.item \in Retry /\ w.now \in Nat /\ WithinLimit(w.item)
     /\ worker \in [Items -> [Slots -> Worker]]
  BY WorkerType DEF LimitInv
<1>a. RetryCount(w.item) \in Nat /\ FailedRetryCount(w.item) \in Nat
  BY CountType
<1>b. AfterFailure(w) \in Worker
  BY IdleWorkerType DEF AfterFailure, Worker, PC
<1>1. CASE ReadClock(i, s)
  <2>1. [[worker[i][s] EXCEPT !.pc = "claim"] EXCEPT !.now = now] \in Worker
    BY DEF TypeOK, Worker, PC
  <2>2. worker' = [worker EXCEPT ![i][s] =
                     [[worker[i][s] EXCEPT !.pc = "claim"] EXCEPT !.now = now]]
    BY <1>1 DEF ReadClock
  <2>3. worker' \in [Items -> [Slots -> Worker]]
    BY <2>1, <2>2, OneWorker
  <2>. QED  BY <1>1, <2>3 DEF ReadClock, TypeOK, history
<1>2. CASE ClaimItem(i, s)
  <2>1. queue' \in [Items -> Row]
    <3>1. w.now + DeliveryLockDuration \in Nat
      OBVIOUS
    <3>2. [queue EXCEPT ![i].next_retry = w.now + DeliveryLockDuration]
            \in [Items -> Row]
      BY <3>1 DEF TypeOK, Row
    <3>. QED  BY <1>2, <3>2 DEF ClaimItem, TypeOK
  <2>2. worker' \in [Items -> [Slots -> Worker]]
    <3>1. ASSUME NEW pc \in PC, Goto(i, s, pc)
          PROVE  worker' \in [Items -> [Slots -> Worker]]
      BY <3>1, GotoType
    <3>2. [worker EXCEPT ![i][s] = IdleWorker] \in [Items -> [Slots -> Worker]]
      BY OneWorker, IdleWorkerType
    <3>. QED  BY <1>2, <3>1, <3>2 DEF ClaimItem, PC
  <2>. QED  BY <1>2, <2>1, <2>2 DEF ClaimItem, TypeOK, history
<1>3. CASE DeliverMessage(i, s)
  <2>1. worker' \in [Items -> [Slots -> Worker]]
    BY <1>3, GotoType DEF DeliverMessage, PC
  <2>2. sent' \in [Items -> Nat]
    BY <1>3 DEF DeliverMessage, TypeOK
  <2>3. online' \subseteq Devices
    BY <1>3 DEF DeliverMessage, TypeOK
  <2>. QED  BY <1>3, <2>1, <2>2, <2>3 DEF DeliverMessage, TypeOK
<1>4. CASE AwaitAck(i, s)
  <2>1. queue' \in [Items -> Row]
    BY <1>4, <1>a, UpdateStateEffect DEF AwaitAck
  <2>2. worker' \in [Items -> [Slots -> Worker]]
    BY <1>4, OneWorker, IdleWorkerType DEF AwaitAck
  <2>. QED  BY <1>4, <2>1, <2>2 DEF AwaitAck, TypeOK, history
<1>5. CASE BackOff(i, s)
  <2>1. FailedRetryCount(w.item) \in 0 .. MaximumRetryAttempts + 1
    BY <1>5, <1>a, CountBounded DEF BackOff, LimitInv
  <2>2. w.now + Backoff(FailedRetryCount(w.item)) \in Nat
    BY <2>1, BackoffPositive
  <2>3. queue' \in [Items -> Row]
    BY <1>5, <1>a, <2>2, UpdateStateEffect DEF BackOff
  <2>4. worker' \in [Items -> [Slots -> Worker]]
    BY <1>5, <1>b, OneWorker DEF BackOff
  <2>. QED  BY <1>5, <2>3, <2>4 DEF BackOff, TypeOK, history
<1>6. CASE SendNotification(i, s)
  <2>1. worker' \in [Items -> [Slots -> Worker]]
    BY <1>6, OneWorker, IdleWorkerType DEF SendNotification
  <2>. QED  BY <1>6, <2>1 DEF SendNotification, TypeOK
<1>7. CASE Park(i, s)
  <2>1. queue' \in [Items -> Row]
    BY <1>7, <1>a, UpdateStateEffect DEF Park
  <2>2. worker' \in [Items -> [Slots -> Worker]]
    BY <1>7, OneWorker, IdleWorkerType DEF Park
  <2>. QED  BY <1>7, <2>1, <2>2 DEF Park, TypeOK, history
<1>8. CASE StatementFails(i, s)
  <2>1. worker' \in [Items -> [Slots -> Worker]]
    BY <1>8, <1>b, OneWorker, IdleWorkerType DEF StatementFails
  <2>. QED  BY <1>8, <2>1 DEF StatementFails, TypeOK, history
<1>. QED
  BY <1>1, <1>2, <1>3, <1>4, <1>5, <1>6, <1>7, <1>8 DEF Process

LEMMA OtherType ==
    ASSUME TypeOK,
           \/ \E i \in Items : Enqueue(i) \/ Acknowledge(i)
           \/ Cleanup
           \/ \E d \in Devices : Connect(d) \/ Disconnect(d)
           \/ Crash
           \/ Tick
    PROVE  TypeOK'
<1>1. ASSUME NEW i \in Items, Enqueue(i)
      PROVE  TypeOK'
  BY <1>1 DEF Enqueue, TypeOK, Row, history
<1>2. ASSUME NEW i \in Items, Acknowledge(i)
      PROVE  TypeOK'
  BY <1>2 DEF Acknowledge, TypeOK, Row, history
<1>3. CASE Cleanup
  BY <1>3 DEF Cleanup, TypeOK, Row, history
<1>4. ASSUME NEW d \in Devices, Connect(d) \/ Disconnect(d)
      PROVE  TypeOK'
  BY <1>4 DEF Connect, Disconnect, TypeOK, history
<1>5. CASE Crash
  BY <1>5, IdleWorkerType DEF Crash, TypeOK, history
<1>6. CASE Tick
  BY <1>6 DEF Tick, TypeOK
<1>. QED  BY <1>1, <1>2, <1>3, <1>4, <1>5, <1>6

-----------------------------------------------------------------------------
(* What the steps do, field by field.                                      *)

\* Every goroutine but <<i, s>> is left alone.
OthersKept(i, s) ==
    \A j \in Items, r \in Slots :
        j # i \/ r # s => worker'[j][r] = worker[j][r]

\* Goroutine <<i, s>> has let go of its row, and of its copy.
Released(i, s) ==
    /\ worker'[i][s].pc \in {"idle", "push"}
    /\ worker'[i][s].item = IdleWorker.item

LEMMA ReleaseEffect ==
    ASSUME TypeOK, NEW i \in Items, NEW s \in Slots,
           \/ worker' = [worker EXCEPT ![i][s] = IdleWorker]
           \/ worker' = [worker EXCEPT ![i][s] = AfterFailure(worker[i][s])]
    PROVE  OthersKept(i, s) /\ Released(i, s)
<1>1. PICK w \in Worker : /\ worker' = [worker EXCEPT ![i][s] = w]
                          /\ w.pc \in {"idle", "push"}
                          /\ w.item = IdleWorker.item
  BY IdleWorkerType DEF AfterFailure, IdleWorker, Worker, PC
<1>2. \A j \in Items, r \in Slots :
        worker'[j][r] = IF j = i /\ r = s THEN w ELSE worker[j][r]
  BY <1>1, OneWorker, WorkerType
<1>. QED  BY <1>1, <1>2 DEF OthersKept, Released

LEMMA GotoEffect ==
    ASSUME TypeOK, NEW i \in Items, NEW s \in Slots, NEW pc \in PC, Goto(i, s, pc)
    PROVE  /\ OthersKept(i, s)
           /\ worker'[i][s].pc = pc
           /\ worker'[i][s].item = worker[i][s].item
           /\ worker'[i][s].now = worker[i][s].now
<1>1. PICK w \in Worker : w = [worker[i][s] EXCEPT !.pc = pc]
  BY WorkerType DEF Worker
<1>2. w.pc = pc /\ w.item = worker[i][s].item /\ w.now = worker[i][s].now
  BY <1>1, WorkerType DEF Worker
<1>. QED  BY <1>1, <1>2, GotoType DEF OthersKept

LEMMA ReadClockEffect ==
    ASSUME TypeOK, NEW i \in Items, NEW s \in Slots, ReadClock(i, s)
    PROVE  /\ OthersKept(i, s)
           /\ worker'[i][s].pc = "claim"
           /\ worker'[i][s].item = worker[i][s].item
           /\ worker'[i][s].now = now
<1>1. PICK w \in Worker :
        w = [[worker[i][s] EXCEPT !.pc = "claim"] EXCEPT !.now = now]
  BY WorkerType DEF TypeOK, Worker, PC
<1>2. worker' = [worker EXCEPT ![i][s] = w]
  BY <1>1 DEF ReadClock
<1>3. \A j \in Items, r \in Slots :
        worker'[j][r] = IF j = i /\ r = s THEN w ELSE worker[j][r]
  BY <1>2, OneWorker, WorkerType
<1>4. w.pc = "claim" /\ w.item = worker[i][s].item /\ w.now = now
  BY <1>1, WorkerType DEF Worker
<1>. QED  BY <1>3, <1>4 DEF OthersKept

\* A goroutine is as it was, or it is new and has a copy of a due row.
LEMMA DispatchEffect ==
    ASSUME TypeOK, Dispatch
    PROVE  \A j \in Items, r \in Slots :
             \/ worker'[j][r] = worker[j][r]
             \/ /\ Due(j)
                /\ worker[j][r].pc = "idle"
                /\ worker'[j][r].pc = "spawned"
                /\ worker'[j][r].item.retry_count = queue[j].retry_count
                /\ worker'[j][r].item.next_retry = queue[j].next_retry
                /\ worker'[j][r].item.ack_deadline = queue[j].ack_deadline
<1>. DEFINE copy(i) == [pc |-> "spawned", now |-> 0,
                      item |-> [retry_count  |-> queue[i].retry_count,
                                next_retry   |-> queue[i].next_retry,
                                ack_deadline |-> queue[i].ack_deadline]]
<1>1. PICK batch \in SUBSET Items :
        /\ DueBatch(batch)
        /\ \E slot \in [batch -> Slots] :
              /\ \A i \in batch : worker[i][slot[i]].pc = "idle"
              /\ worker' = [i \in Items |->
                     IF i \in batch THEN [worker[i] EXCEPT ![slot[i]] = copy(i)]
                                   ELSE worker[i]]
  BY DEF Dispatch
<1>2. PICK slot \in [batch -> Slots] :
              /\ \A i \in batch : worker[i][slot[i]].pc = "idle"
              /\ worker' = [i \in Items |->
                     IF i \in batch THEN [worker[i] EXCEPT ![slot[i]] = copy(i)]
                                   ELSE worker[i]]
  BY <1>1
<1>3. \A i \in batch : Due(i)
  BY <1>1 DEF DueBatch
<1>4. ASSUME NEW j \in Items, NEW r \in Slots
      PROVE  \/ worker'[j][r] = worker[j][r]
             \/ j \in batch /\ slot[j] = r /\ worker'[j][r] = copy(j)
  BY <1>2, WorkerType
<1>. QED  BY <1>2, <1>3, <1>4

LEMMA ClaimEffect ==
    ASSUME TypeOK, NEW i \in Items, NEW s \in Slots,
           Claimable(i, worker[i][s]), ClaimItem(i, s)
    PROVE  /\ OthersKept(i, s)
           /\ worker[i][s].pc = "claim"
           /\ worker'[i][s].pc = IF Exhausted(worker[i][s].item)
                                 THEN "terminal" ELSE "deliver"
           /\ worker'[i][s].item = worker[i][s].item
           /\ worker'[i][s].now = worker[i][s].now
           /\ \A j \in Items :
                 /\ queue'[j].stored = queue[j].stored
                 /\ queue'[j].retry_count = queue[j].retry_count
                 /\ queue'[j].ack_deadline = queue[j].ack_deadline
                 /\ j # i => queue'[j] = queue[j]
           /\ queue'[i].next_retry = worker[i][s].now + DeliveryLockDuration
<1>1. /\ worker[i][s].pc = "claim"
      /\ Goto(i, s, IF Exhausted(worker[i][s].item) THEN "terminal" ELSE "deliver")
      /\ queue' = [queue EXCEPT ![i].next_retry =
                                  worker[i][s].now + DeliveryLockDuration]
  BY DEF ClaimItem
<1>2. (IF Exhausted(worker[i][s].item) THEN "terminal" ELSE "deliver") \in PC
  BY DEF PC
<1>3. \A j \in Items :
        /\ queue'[j].stored = queue[j].stored
        /\ queue'[j].retry_count = queue[j].retry_count
        /\ queue'[j].ack_deadline = queue[j].ack_deadline
        /\ j # i => queue'[j] = queue[j]
  BY <1>1 DEF TypeOK, Row
<1>4. queue'[i].next_retry = worker[i][s].now + DeliveryLockDuration
  BY <1>1 DEF TypeOK, Row
<1>. QED  BY <1>1, <1>2, <1>3, <1>4, GotoEffect

\* The three updates that end a claim.
LEMMA OutcomeEffect ==
    ASSUME TypeOK, LimitInv, NEW i \in Items, NEW s \in Slots,
           AwaitAck(i, s) \/ BackOff(i, s) \/ Park(i, s)
    PROVE  /\ OthersKept(i, s)
           /\ Released(i, s)
           /\ worker[i][s].pc \in {"delivered", "failed", "terminal"}
           /\ \A j \in Items :
                 /\ queue'[j].stored = queue[j].stored
                 /\ j # i \/ ~Queued(j) => queue'[j] = queue[j]
           /\ Queued(i) =>
                 /\ queue'[i].next_retry > worker[i][s].now
                 /\ queue'[i].retry_count >= RetryCount(worker[i][s].item)
                 /\ \/ /\ worker[i][s].pc = "delivered"
                       /\ queue'[i].retry_count = RetryCount(worker[i][s].item)
                       /\ queue'[i].ack_deadline = queue'[i].next_retry
                    \/ /\ worker[i][s].pc # "delivered"
                       /\ queue'[i].retry_count <= MaximumRetryAttempts + 1
                       /\ queue'[i].ack_deadline = 0
<1>. DEFINE w == worker[i][s]
<1>. /\ w.item \in Retry /\ w.now \in Nat /\ WithinLimit(w.item)
     /\ w.pc \in {"deliver", "delivered", "failed"} => ~Exhausted(w.item)
  BY WorkerType DEF LimitInv
<1>. RetryCount(w.item) \in Nat /\ FailedRetryCount(w.item) \in Nat
  BY CountType
<1>1. CASE AwaitAck(i, s)
  <2>1. /\ w.pc = "delivered"
        /\ UpdateState(i, RetryCount(w.item), w.now + AcknowledgmentTimeout,
                          w.now + AcknowledgmentTimeout)
        /\ worker' = [worker EXCEPT ![i][s] = IdleWorker]
    BY <1>1 DEF AwaitAck
  <2>. DEFINE n == w.now + AcknowledgmentTimeout
  <2>2. n \in Nat /\ n > w.now
    OBVIOUS
  <2>3. /\ \A j \in Items : /\ queue'[j].stored = queue[j].stored
                            /\ j # i \/ ~Queued(j) => queue'[j] = queue[j]
        /\ Queued(i) => /\ queue'[i].retry_count = RetryCount(w.item)
                        /\ queue'[i].next_retry = n
                        /\ queue'[i].ack_deadline = n
    BY <2>1, <2>2, UpdateStateEffect
  <2>. HIDE DEF n
  <2>4. OthersKept(i, s) /\ Released(i, s)
    BY <2>1, ReleaseEffect
  <2>. QED  BY <2>1, <2>2, <2>3, <2>4
<1>2. CASE BackOff(i, s)
  <2>. DEFINE n == FailedRetryCount(w.item)
  <2>1. /\ w.pc = "failed"
        /\ UpdateState(i, n, w.now + Backoff(n), 0)
        /\ worker' = [worker EXCEPT ![i][s] = AfterFailure(w)]
    BY <1>2 DEF BackOff
  <2>2. n \in 0 .. MaximumRetryAttempts + 1 /\ RetryCount(w.item) <= n
    BY <2>1, CountBounded, CountType
  <2>3. w.now + Backoff(n) \in Nat /\ w.now + Backoff(n) > w.now
    BY <2>2, BackoffPositive
  <2>4. /\ \A j \in Items : /\ queue'[j].stored = queue[j].stored
                            /\ j # i \/ ~Queued(j) => queue'[j] = queue[j]
        /\ Queued(i) => /\ queue'[i].retry_count = n
                        /\ queue'[i].next_retry = w.now + Backoff(n)
                        /\ queue'[i].ack_deadline = 0
    BY <2>1, <2>3, UpdateStateEffect
  <2>5. OthersKept(i, s) /\ Released(i, s)
    BY <2>1, ReleaseEffect
  <2>. HIDE DEF n
  <2>. QED  BY <2>1, <2>2, <2>3, <2>4, <2>5
<1>3. CASE Park(i, s)
  <2>1. /\ w.pc = "terminal"
        /\ UpdateState(i, RetryCount(w.item), w.now + TerminalRetryBackoff, 0)
        /\ worker' = [worker EXCEPT ![i][s] = IdleWorker]
    BY <1>3 DEF Park
  <2>2. RetryCount(w.item) <= MaximumRetryAttempts + 1
    BY CountBounded
  <2>. DEFINE n == w.now + TerminalRetryBackoff
  <2>3. n \in Nat /\ n > w.now
    OBVIOUS
  <2>4. /\ \A j \in Items : /\ queue'[j].stored = queue[j].stored
                            /\ j # i \/ ~Queued(j) => queue'[j] = queue[j]
        /\ Queued(i) => /\ queue'[i].retry_count = RetryCount(w.item)
                        /\ queue'[i].next_retry = n
                        /\ queue'[i].ack_deadline = 0
    BY <2>1, <2>3, UpdateStateEffect
  <2>5. OthersKept(i, s) /\ Released(i, s)
    BY <2>1, ReleaseEffect
  <2>. HIDE DEF n
  <2>. QED  BY <2>1, <2>2, <2>3, <2>4, <2>5
<1>. QED  BY <1>1, <1>2, <1>3

-----------------------------------------------------------------------------
(* The steps, grouped by what they do to rows and goroutines.              *)

\* A goroutine ends, or goes on to its notification, and stores nothing; an
\* outcome that is lost this way is a fault.
LetGo(i, s) ==
    /\ OthersKept(i, s) /\ Released(i, s)
    /\ UNCHANGED <<queue, now, sent, overran>>
    /\ faults' \in {faults, faults + 1}
    /\ worker[i][s].pc \notin {"idle", "deliver"}
    /\ worker[i][s].pc \in {"delivered", "failed", "terminal"} =>
          faults' = faults + 1

\* Rows leave the table; nothing else of them changes.
Removal ==
    /\ \A i \in Items :
          /\ queue'[i].retry_count = queue[i].retry_count
          /\ queue'[i].next_retry = queue[i].next_retry
          /\ queue'[i].ack_deadline = queue[i].ack_deadline
          /\ \/ queue'[i].stored = queue[i].stored
             \/ Queued(i) /\ queue'[i].stored = "gone"
    /\ UNCHANGED <<now, worker, faults, sent, overran>>

\* Steps that concern sessions only, and stuttering.
Quiet == UNCHANGED <<now, queue, worker, faults, sent, overran>>

Shape ==
    \/ Dispatch
    \/ \E i \in Items, s \in Slots :
          \/ ReadClock(i, s)
          \/ Claimable(i, worker[i][s]) /\ ClaimItem(i, s)
          \/ DeliverMessage(i, s)
          \/ AwaitAck(i, s) \/ BackOff(i, s) \/ Park(i, s)
          \/ LetGo(i, s)
    \/ \E i \in Items : Enqueue(i)
    \/ Removal
    \/ Crash
    \/ Tick
    \/ Quiet

LEMMA StepShape ==
    ASSUME TypeOK, [Next]_vars
    PROVE  Shape
<1>1. ASSUME NEW i \in Items, NEW s \in Slots, Process(i, s)
      PROVE  Shape
  <2>1. CASE ClaimItem(i, s) /\ ~Claimable(i, worker[i][s])
    <3>1. worker' = [worker EXCEPT ![i][s] = IdleWorker] /\ UNCHANGED queue
      BY <2>1 DEF ClaimItem
    <3>2. LetGo(i, s)
      BY <2>1, <3>1, ReleaseEffect DEF ClaimItem, LetGo, history
    <3>. QED  BY <3>2 DEF Shape
  <2>2. CASE SendNotification(i, s)
    <3>1. LetGo(i, s)
      BY <2>2, ReleaseEffect DEF SendNotification, LetGo
    <3>. QED  BY <3>1 DEF Shape
  <2>. QED  BY <1>1, <2>1, <2>2 DEF Process, Shape
<1>2. ASSUME NEW i \in Items, NEW s \in Slots, StatementFails(i, s)
      PROVE  Shape
  <2>1. LetGo(i, s)
    BY <1>2, ReleaseEffect DEF StatementFails, LetGo, history
  <2>. QED  BY <2>1 DEF Shape
<1>3. ASSUME NEW i \in Items, Acknowledge(i)
      PROVE  Shape
  <2>1. Removal
    BY <1>3 DEF Acknowledge, Removal, TypeOK, Row, history, Queued
  <2>. QED  BY <2>1 DEF Shape
<1>4. CASE Cleanup
  <2>1. Removal
    BY <1>4 DEF Cleanup, Removal, TypeOK, Row, history, Queued
  <2>. QED  BY <2>1 DEF Shape
<1>5. ASSUME NEW d \in Devices, Connect(d) \/ Disconnect(d)
      PROVE  Shape
  BY <1>5 DEF Connect, Disconnect, Shape, Quiet, history
<1>6. CASE UNCHANGED vars
  BY <1>6 DEF vars, Shape, Quiet
<1>. QED  BY <1>1, <1>2, <1>3, <1>4, <1>5, <1>6 DEF Next, Shape

\* A claim only succeeds on a row nobody holds, and from a copy that equals it:
\* the lease of a holder ends in the future, a copy was due in the past.
LEMMA ClaimIsExclusive ==
    ASSUME TypeOK, ClockInv, NEW i \in Items, Lease(i), NEW s \in Slots,
           worker[i][s].pc = "claim", Claimable(i, worker[i][s])
    PROVE  /\ \A r \in Slots : worker[i][r].pc \notin Holding
           /\ queue[i].next_retry = worker[i][s].item.next_retry
           /\ queue[i].retry_count = worker[i][s].item.retry_count
           /\ queue[i].ack_deadline = worker[i][s].item.ack_deadline
<1>. /\ worker[i][s].item \in Retry /\ now \in Nat /\ queue[i] \in Row
     /\ \A r \in Slots : worker[i][r].now \in Nat
  BY WorkerType DEF TypeOK
<1>1. worker[i][s].item.next_retry <= now
  BY DEF ClockInv, Hopeful
<1>2. worker[i][s].item.next_retry <= queue[i].next_retry
  BY DEF Lease, Hopeful
<1>3. queue[i].next_retry = worker[i][s].item.next_retry
  BY <1>2 DEF Claimable, Retry, Row
<1>4. ASSUME NEW r \in Slots, worker[i][r].pc \in Holding
      PROVE  FALSE
  <2>1. queue[i].next_retry = worker[i][r].now + DeliveryLockDuration
    BY <1>4 DEF Lease
  <2>2. now < worker[i][r].now + DeliveryLockDuration
    BY <1>4 DEF Lease
  <2>. QED  BY <1>1, <1>3, <2>1, <2>2 DEF Retry
<1>. QED  BY <1>3, <1>4 DEF Lease, Hopeful

\* Nor is a row that is due held by anybody.
LEMMA DueIsFree ==
    ASSUME TypeOK, NEW i \in Items, Lease(i), Due(i)
    PROVE  \A r \in Slots : worker[i][r].pc \notin Holding
<1>1. SUFFICES ASSUME NEW r \in Slots, worker[i][r].pc \in Holding
               PROVE  FALSE
  OBVIOUS
<1>2. /\ queue[i].next_retry = worker[i][r].now + DeliveryLockDuration
      /\ now < worker[i][r].now + DeliveryLockDuration
  BY <1>1 DEF Lease
<1>3. queue[i].next_retry <= now /\ now \in Nat /\ worker[i][r].now \in Nat
  BY WorkerType DEF Due, TypeOK
<1>. QED  BY <1>2, <1>3

-----------------------------------------------------------------------------
(* Each part of the invariant is kept by every step.                       *)

LEMMA TypeNext ==
    ASSUME TypeOK, LimitInv, [Next]_vars
    PROVE  TypeOK'
<1>1. CASE UNCHANGED vars
  BY <1>1 DEF vars, TypeOK
<1>2. CASE Dispatch
  BY <1>2, DispatchType
<1>3. ASSUME NEW i \in Items, NEW s \in Slots,
             Process(i, s) \/ StatementFails(i, s)
      PROVE  TypeOK'
  BY <1>3, ProcessType
<1>. QED  BY <1>1, <1>2, <1>3, OtherType DEF Next

LEMMA LimitNext ==
    ASSUME TypeOK, LimitInv, [Next]_vars
    PROVE  LimitInv'
<1>. USE DEF LimitInv, WithinLimit
<1>. TypeOK'
  BY TypeNext
<1>0. /\ \A i \in Items : queue[i] \in Row
      /\ \A i \in Items, s \in Slots : worker[i][s].item \in Retry
      /\ IdleWorker.item = [retry_count |-> 0, next_retry |-> 0, ack_deadline |-> 0]
  BY WorkerType DEF TypeOK, IdleWorker
<1>1. CASE Dispatch
  BY <1>1, DispatchEffect DEF Dispatch
<1>2. ASSUME NEW i \in Items, NEW s \in Slots, ReadClock(i, s)
      PROVE  LimitInv'
  <2>1. /\ OthersKept(i, s)
        /\ worker'[i][s].pc = "claim"
        /\ worker'[i][s].item = worker[i][s].item
        /\ worker'[i][s].now = now
    BY <1>2, ReadClockEffect
  <2>2. worker[i][s].pc = "spawned" /\ UNCHANGED <<now, queue, sent>>
    BY <1>2 DEF ReadClock, history
  <2>. QED  BY <2>1, <2>2 DEF OthersKept
<1>3. ASSUME NEW i \in Items, NEW s \in Slots,
             Claimable(i, worker[i][s]), ClaimItem(i, s)
      PROVE  LimitInv'
  BY <1>3, ClaimEffect DEF OthersKept
<1>4. ASSUME NEW i \in Items, NEW s \in Slots, DeliverMessage(i, s)
      PROVE  LimitInv'
  BY <1>4, GotoEffect DEF DeliverMessage, OthersKept, PC
<1>5. ASSUME NEW i \in Items, NEW s \in Slots,
             AwaitAck(i, s) \/ BackOff(i, s) \/ Park(i, s)
      PROVE  LimitInv'
  <2>. DEFINE w == worker[i][s]
  <2>1. w.pc = "delivered" => RetryCount(w.item) <= MaximumRetryAttempts
    BY CountBounded, WorkerType
  <2>2. WithinLimit(queue'[i])
    <3>1. CASE Queued(i)
      <4>1. \/ w.pc = "delivered" /\ queue'[i].retry_count = RetryCount(w.item)
            \/ /\ queue'[i].retry_count <= MaximumRetryAttempts + 1
               /\ queue'[i].ack_deadline = 0
        BY <1>5, <3>1, OutcomeEffect
      <4>2. queue'[i].retry_count \in Nat
        BY TypeNext DEF TypeOK, Row
      <4>3. CASE w.pc = "delivered" /\ queue'[i].retry_count = RetryCount(w.item)
        BY <2>1, <4>3
      <4>4. CASE /\ queue'[i].retry_count <= MaximumRetryAttempts + 1
                 /\ queue'[i].ack_deadline = 0
        BY <4>2, <4>4, LastAttempt
      <4>. QED  BY <4>1, <4>3, <4>4
    <3>2. CASE ~Queued(i)
      BY <1>5, <3>2, OutcomeEffect
    <3>. QED  BY <3>1, <3>2
  <2>3. \A j \in Items : j # i => queue'[j] = queue[j]
    BY <1>5, OutcomeEffect
  <2>4. OthersKept(i, s) /\ Released(i, s)
    BY <1>5, OutcomeEffect
  <2>. QED  BY <1>0, <2>2, <2>3, <2>4 DEF OthersKept, Released
<1>6. ASSUME NEW i \in Items, NEW s \in Slots, LetGo(i, s)
      PROVE  LimitInv'
  BY <1>0, <1>6 DEF LetGo, OthersKept, Released
<1>7. ASSUME NEW i \in Items, Enqueue(i)
      PROVE  LimitInv'
  BY <1>7 DEF Enqueue, TypeOK
<1>8. CASE Removal
  BY <1>8 DEF Removal
<1>9. CASE Crash
  BY <1>9 DEF Crash, IdleWorker
<1>10. CASE Tick \/ Quiet
  BY <1>10 DEF Tick, Quiet
<1>. QED
  BY <1>1, <1>2, <1>3, <1>4, <1>5, <1>6, <1>7, <1>8, <1>9, <1>10, StepShape
  DEF Shape

LEMMA UnsentNext ==
    ASSUME TypeOK, LimitInv, UnsentInv, [Next]_vars
    PROVE  UnsentInv'
<1>. USE DEF UnsentInv
<1>1. CASE Dispatch
  <2>1. UNCHANGED <<now, queue, sent>>
    BY <1>1 DEF Dispatch, history
  <2>. QED  BY <1>1, <2>1, DispatchEffect DEF Due, Queued
<1>2. ASSUME NEW i \in Items, NEW s \in Slots, ReadClock(i, s)
      PROVE  UnsentInv'
  <2>1. /\ OthersKept(i, s)
        /\ worker'[i][s].pc = "claim"
        /\ worker'[i][s].item = worker[i][s].item
        /\ worker'[i][s].now = now
    BY <1>2, ReadClockEffect
  <2>2. worker[i][s].pc = "spawned" /\ UNCHANGED <<now, queue, sent>>
    BY <1>2 DEF ReadClock, history
  <2>. QED  BY <2>1, <2>2 DEF OthersKept
<1>3. ASSUME NEW i \in Items, NEW s \in Slots,
             Claimable(i, worker[i][s]), ClaimItem(i, s)
      PROVE  UnsentInv'
  BY <1>3, ClaimEffect DEF OthersKept, ClaimItem, history
<1>4. ASSUME NEW i \in Items, NEW s \in Slots, DeliverMessage(i, s)
      PROVE  UnsentInv'
  <2>1. OthersKept(i, s) /\ worker[i][s].pc = "deliver"
    BY <1>4, GotoEffect DEF DeliverMessage, PC
  <2>2. UNCHANGED queue /\ \A j \in Items : j # i => sent'[j] = sent[j]
    BY <1>4 DEF DeliverMessage, TypeOK
  <2>. QED  BY <2>1, <2>2 DEF OthersKept
<1>5. ASSUME NEW i \in Items, NEW s \in Slots,
             AwaitAck(i, s) \/ BackOff(i, s) \/ Park(i, s)
      PROVE  UnsentInv'
  BY <1>5, OutcomeEffect DEF AwaitAck, BackOff, Park, OthersKept, history
<1>6. ASSUME NEW i \in Items, NEW s \in Slots, LetGo(i, s)
      PROVE  UnsentInv'
  BY <1>6 DEF LetGo, OthersKept, Released
<1>7. ASSUME NEW i \in Items, Enqueue(i)
      PROVE  UnsentInv'
  BY <1>7 DEF Enqueue, TypeOK, history
<1>8. CASE Removal
  BY <1>8 DEF Removal
<1>9. CASE Crash
  BY <1>9 DEF Crash, IdleWorker, history
<1>10. CASE Tick \/ Quiet
  BY <1>10 DEF Tick, Quiet
<1>. QED
  BY <1>1, <1>2, <1>3, <1>4, <1>5, <1>6, <1>7, <1>8, <1>9, <1>10, StepShape
  DEF Shape

LEMMA ClockNext ==
    ASSUME TypeOK, LimitInv, ClockInv, [Next]_vars
    PROVE  ClockInv'
<1>. USE DEF ClockInv, Hopeful, Holding
<1>0. /\ \A i \in Items : queue[i] \in Row
      /\ \A i \in Items, s \in Slots :
            worker[i][s].item \in Retry /\ worker[i][s].now \in Nat
      /\ now \in Nat
      /\ IdleWorker.item = [retry_count |-> 0, next_retry |-> 0, ack_deadline |-> 0]
  BY WorkerType DEF TypeOK, IdleWorker
<1>1. CASE Dispatch
  <2>1. UNCHANGED <<now, queue, sent>>
    BY <1>1 DEF Dispatch, history
  <2>. QED  BY <1>0, <1>1, <2>1, DispatchEffect DEF Due
<1>2. ASSUME NEW i \in Items, NEW s \in Slots, ReadClock(i, s)
      PROVE  ClockInv'
  <2>1. /\ OthersKept(i, s)
        /\ worker'[i][s].pc = "claim"
        /\ worker'[i][s].item = worker[i][s].item
        /\ worker'[i][s].now = now
    BY <1>2, ReadClockEffect
  <2>2. worker[i][s].pc = "spawned" /\ UNCHANGED <<now, queue, sent>>
    BY <1>2 DEF ReadClock, history
  <2>. QED  BY <1>0, <2>1, <2>2 DEF OthersKept
<1>3. ASSUME NEW i \in Items, NEW s \in Slots,
             Claimable(i, worker[i][s]), ClaimItem(i, s)
      PROVE  ClockInv'
  <2>1. queue'[i].ack_deadline <= queue'[i].next_retry
    BY <1>0, <1>3, ClaimEffect DEF Claimable, Retry, Row
  <2>2. UNCHANGED now
    BY <1>3 DEF ClaimItem
  <2>. QED  BY <1>0, <1>3, <2>1, <2>2, ClaimEffect DEF OthersKept
<1>4. ASSUME NEW i \in Items, NEW s \in Slots, DeliverMessage(i, s)
      PROVE  ClockInv'
  BY <1>0, <1>4, GotoEffect DEF DeliverMessage, OthersKept, PC
<1>5. ASSUME NEW i \in Items, NEW s \in Slots,
             AwaitAck(i, s) \/ BackOff(i, s) \/ Park(i, s)
      PROVE  ClockInv'
  <2>1. queue'[i].ack_deadline <= queue'[i].next_retry
    <3>1. queue'[i] \in Row
      BY TypeNext DEF TypeOK
    <3>. QED  BY <1>5, <3>1, OutcomeEffect DEF Row
  <2>2. UNCHANGED now
    BY <1>5 DEF AwaitAck, BackOff, Park
  <2>. QED  BY <1>0, <1>5, <2>1, <2>2, OutcomeEffect DEF OthersKept, Released
<1>6. ASSUME NEW i \in Items, NEW s \in Slots, LetGo(i, s)
      PROVE  ClockInv'
  BY <1>0, <1>6 DEF LetGo, OthersKept, Released
<1>7. ASSUME NEW i \in Items, Enqueue(i)
      PROVE  ClockInv'
  BY <1>0, <1>7 DEF Enqueue, TypeOK
<1>8. CASE Removal
  BY <1>8 DEF Removal
<1>9. CASE Crash
  BY <1>9 DEF Crash, IdleWorker
<1>10. CASE Tick
  BY <1>0, <1>10 DEF Tick, Retry
<1>11. CASE Quiet
  BY <1>11 DEF Quiet
<1>. QED
  BY <1>1, <1>2, <1>3, <1>4, <1>5, <1>6, <1>7, <1>8, <1>9, <1>10, <1>11,
     StepShape
  DEF Shape

\* A row that has overrun a lease is marked for good.
LEMMA OverranGrows ==
    ASSUME TypeOK, [Next]_vars
    PROVE  overran \subseteq overran'
BY StepShape
DEF Shape, Dispatch, ReadClock, ClaimItem, DeliverMessage, AwaitAck, BackOff, Park,
    LetGo, Enqueue, Removal, Crash, Tick, Quiet, history

\* The lease of a row survives steps that leave the row alone and at most end
\* goroutines.
LEMMA LeaseKept ==
    ASSUME NEW i \in Items, Lease(i), UNCHANGED now,
           queue'[i].next_retry = queue[i].next_retry,
           queue'[i].retry_count = queue[i].retry_count,
           queue'[i].ack_deadline = queue[i].ack_deadline,
           \A r \in Slots : \/ worker'[i][r] = worker[i][r]
                            \/ worker'[i][r].pc \in {"idle", "push"}
    PROVE  Lease(i)'
BY DEF Lease, Holding, Hopeful

LEMMA LeaseClaim ==
    ASSUME TypeOK, ClockInv, NEW i \in Items, Lease(i), NEW s \in Slots,
           Claimable(i, worker[i][s]), ClaimItem(i, s)
    PROVE  Lease(i)'
<1>. DEFINE w == worker[i][s]
<1>1. /\ \A r \in Slots : /\ worker[i][r].item.next_retry \in Nat
                          /\ worker[i][r].now \in Nat
      /\ queue[i].next_retry \in Nat
      /\ now \in Nat
  BY WorkerType DEF TypeOK, Retry, Row
<1>2. /\ \A r \in Slots : r # s => worker'[i][r] = worker[i][r]
      /\ w.pc = "claim"
      /\ worker'[i][s].pc \in {"deliver", "terminal"}
      /\ worker'[i][s].item = w.item
      /\ worker'[i][s].now = w.now
      /\ queue'[i].retry_count = queue[i].retry_count
      /\ queue'[i].ack_deadline = queue[i].ack_deadline
      /\ queue'[i].next_retry = w.now + DeliveryLockDuration
  BY ClaimEffect DEF OthersKept
<1>3. /\ \A r \in Slots : worker[i][r].pc \notin Holding
      /\ queue[i].next_retry = w.item.next_retry
      /\ queue[i].retry_count = w.item.retry_count
      /\ queue[i].ack_deadline = w.item.ack_deadline
  BY <1>2, ClaimIsExclusive
<1>4. UNCHANGED now
  BY DEF ClaimItem
<1>5. w.item.next_retry <= w.now /\ now < w.now + DeliveryLockDuration
  BY <1>2 DEF ClockInv, Lease
<1>6. \A r \in Slots : worker[i][r].pc \in Hopeful =>
        /\ worker[i][r].item.next_retry <= w.now
        /\ worker[i][r].item.next_retry < w.now + DeliveryLockDuration
  <2>1. \A r \in Slots : worker[i][r].pc \in Hopeful =>
            worker[i][r].item.next_retry <= queue[i].next_retry
    BY DEF Lease
  <2>2. queue[i].next_retry <= w.now
    BY <1>3, <1>5
  <2>. QED  BY <1>1, <2>1, <2>2
<1>7. \A r \in Slots : worker[i][r].pc = "claim" =>
        now < worker[i][r].now + DeliveryLockDuration
  BY DEF Lease
<1>8. \A r \in Slots : worker'[i][r].pc \in Hopeful =>
        worker[i][r].pc \in Hopeful /\ worker'[i][r] = worker[i][r]
  BY <1>2 DEF Hopeful
<1>9. \A r \in Slots : worker'[i][r].pc \in Holding => r = s
  BY <1>2, <1>3
<1>. SUFFICES ASSUME NEW r \in Slots
     PROVE  LET v == worker[i][r]' IN
        /\ v.pc \in {"claim"} \cup Holding => now' < v.now + DeliveryLockDuration
        /\ v.pc \in Holding =>
              /\ queue'[i].next_retry = v.now + DeliveryLockDuration
              /\ queue'[i].retry_count = v.item.retry_count
              /\ queue'[i].ack_deadline = v.item.ack_deadline
        /\ v.pc \in Hopeful =>
              /\ v.item.next_retry <= queue'[i].next_retry
              /\ v.item.next_retry # queue'[i].next_retry
        /\ \A r2 \in Slots :
              v.pc \in Holding /\ worker'[i][r2].pc \in Hopeful =>
                  worker'[i][r2].item.next_retry <= v.now
        /\ \A r2 \in Slots :
              v.pc \in Holding /\ worker'[i][r2].pc \in Holding => r = r2
  BY DEF Lease
<1>a. CASE r = s
  BY <1>1, <1>2, <1>3, <1>4, <1>5, <1>6, <1>8, <1>9, <1>a DEF Hopeful
<1>b. CASE r # s
  <2>1. worker'[i][r] = worker[i][r] /\ worker'[i][r].pc \notin Holding
    BY <1>2, <1>3, <1>b
  <2>2. worker'[i][r].pc \in Hopeful =>
          /\ worker'[i][r].item.next_retry <= queue'[i].next_retry
          /\ worker'[i][r].item.next_retry # queue'[i].next_retry
    BY <1>1, <1>2, <1>6, <2>1
  <2>. QED  BY <1>4, <1>7, <2>1, <2>2
<1>. QED  BY <1>a, <1>b

LEMMA LeaseOutcome ==
    ASSUME TypeOK, LimitInv, NEW i \in Items, Lease(i), NEW s \in Slots,
           AwaitAck(i, s) \/ BackOff(i, s) \/ Park(i, s)
    PROVE  Lease(i)'
<1>. DEFINE w == worker[i][s]
<1>1. /\ \A r \in Slots : r # s => worker'[i][r] = worker[i][r]
      /\ worker'[i][s].pc \in {"idle", "push"}
      /\ w.pc \in Holding
      /\ ~Queued(i) => queue'[i] = queue[i]
      /\ Queued(i) => queue'[i].next_retry > w.now
  BY OutcomeEffect DEF OthersKept, Released, Holding
<1>2. UNCHANGED now
  BY DEF AwaitAck, BackOff, Park
<1>3. CASE ~Queued(i)
  BY <1>1, <1>2, <1>3, LeaseKept
<1>4. CASE Queued(i)
  <2>1. \A r \in Slots : worker'[i][r].pc \notin Holding
    BY <1>1 DEF Lease, Holding
  <2>2. \A r \in Slots : worker'[i][r].pc \in Hopeful =>
          /\ worker'[i][r].item.next_retry <= queue'[i].next_retry
          /\ worker'[i][r].item.next_retry # queue'[i].next_retry
    <3>1. SUFFICES ASSUME NEW r \in Slots, worker'[i][r].pc \in Hopeful
                   PROVE  worker'[i][r].item.next_retry < queue'[i].next_retry
      <4>1. queue'[i].next_retry \in Nat
        BY TypeNext DEF Next, Process, TypeOK, Row
      <4>2. \A r \in Slots : worker'[i][r].item.next_retry \in Nat
        BY TypeNext DEF Next, Process, TypeOK, Worker, Retry
      <4>. QED  BY <4>1, <4>2
    <3>2. worker'[i][r] = worker[i][r]
      BY <1>1, <3>1 DEF Hopeful
    <3>3. worker[i][r].item.next_retry <= w.now
      BY <1>1, <3>1, <3>2 DEF Lease
    <3>4. /\ worker[i][r].item.next_retry \in Nat /\ w.now \in Nat
          /\ queue'[i].next_retry \in Nat
      BY WorkerType, TypeNext DEF Next, Process, TypeOK, Row, Retry
    <3>. QED  BY <1>1, <1>4, <3>2, <3>3, <3>4
  <2>3. \A r \in Slots : worker'[i][r].pc = "claim" =>
          now' < worker'[i][r].now + DeliveryLockDuration
    BY <1>1, <1>2 DEF Lease
  <2>. QED  BY <2>1, <2>2, <2>3 DEF Lease
<1>. QED  BY <1>3, <1>4

LEMMA LeaseNext ==
    ASSUME TypeOK, LimitInv, UnsentInv, ClockInv, LeaseInv, [Next]_vars
    PROVE  LeaseInv'
<1>. SUFFICES ASSUME NEW i \in Items, i \notin overran'
              PROVE  Lease(i)'
  BY DEF LeaseInv
<1>. Lease(i)
  BY OverranGrows DEF LeaseInv
<1>0. now \in Nat /\ \A s \in Slots : worker[i][s].now \in Nat
  BY WorkerType DEF TypeOK
<1>1. CASE Dispatch
  <2>1. UNCHANGED <<now, queue>>
    BY <1>1 DEF Dispatch, history
  <2>2. CASE Due(i)
    <3>1. \A r \in Slots : worker[i][r].pc \notin Holding
      BY <2>2, DueIsFree
    <3>2. \A r \in Slots :
            \/ worker'[i][r] = worker[i][r]
            \/ /\ worker'[i][r].pc = "spawned"
               /\ worker'[i][r].item.retry_count = queue[i].retry_count
               /\ worker'[i][r].item.next_retry = queue[i].next_retry
               /\ worker'[i][r].item.ack_deadline = queue[i].ack_deadline
      BY <1>1, DispatchEffect
    <3>3. queue[i].next_retry \in Nat
      BY DEF TypeOK, Row
    <3>. QED  BY <2>1, <3>1, <3>2, <3>3 DEF Lease, Holding, Hopeful
  <2>3. CASE ~Due(i)
    <3>1. \A r \in Slots : worker'[i][r] = worker[i][r]
      BY <1>1, <2>3, DispatchEffect
    <3>. QED  BY <2>1, <3>1, LeaseKept
  <2>. QED  BY <2>2, <2>3
<1>2. ASSUME NEW j \in Items, NEW s \in Slots, ReadClock(j, s)
      PROVE  Lease(i)'
  <2>1. /\ \A r \in Slots : i # j \/ r # s => worker'[i][r] = worker[i][r]
        /\ worker'[j][s].pc = "claim"
        /\ worker'[j][s].item = worker[j][s].item
        /\ worker'[j][s].now = now
    BY <1>2, ReadClockEffect DEF OthersKept
  <2>2. worker[j][s].pc = "spawned" /\ UNCHANGED <<now, queue>>
    BY <1>2 DEF ReadClock, history
  <2>3. CASE i # j
    BY <2>1, <2>2, <2>3, LeaseKept
  <2>4. CASE i = j
    <3>1. now < now + DeliveryLockDuration
      BY <1>0
    <3>. QED  BY <2>1, <2>2, <2>4, <3>1 DEF Lease, Holding, Hopeful
  <2>. QED  BY <2>3, <2>4
<1>3. ASSUME NEW j \in Items, NEW s \in Slots,
             Claimable(j, worker[j][s]), ClaimItem(j, s)
      PROVE  Lease(i)'
  <2>1. CASE i = j
    BY <1>3, <2>1, LeaseClaim
  <2>2. CASE i # j
    <3>1. queue'[i] = queue[i] /\ \A r \in Slots : worker'[i][r] = worker[i][r]
      BY <1>3, <2>2, ClaimEffect DEF OthersKept
    <3>2. UNCHANGED now
      BY <1>3 DEF ClaimItem
    <3>. QED  BY <3>1, <3>2, LeaseKept
  <2>. QED  BY <2>1, <2>2
<1>4. ASSUME NEW j \in Items, NEW s \in Slots, DeliverMessage(j, s)
      PROVE  Lease(i)'
  <2>1. /\ OthersKept(j, s)
        /\ worker[j][s].pc = "deliver"
        /\ worker'[j][s].pc \in {"delivered", "failed"}
        /\ worker'[j][s].item = worker[j][s].item
        /\ worker'[j][s].now = worker[j][s].now
        /\ UNCHANGED <<now, queue>>
    BY <1>4, GotoEffect DEF DeliverMessage, PC
  <2>2. CASE i # j
    <3>1. \A r \in Slots : worker'[i][r] = worker[i][r]
      BY <2>1, <2>2 DEF OthersKept
    <3>. QED  BY <2>1, <3>1, LeaseKept
  <2>3. CASE i = j
    <3>1. \A r \in Slots :
            /\ worker'[i][r].item = worker[i][r].item
            /\ worker'[i][r].now = worker[i][r].now
            /\ worker'[i][r].pc \in Holding <=> worker[i][r].pc \in Holding
            /\ worker'[i][r].pc \in Hopeful <=> worker[i][r].pc \in Hopeful
            /\ worker'[i][r].pc = "claim" <=> worker[i][r].pc = "claim"
      BY <2>1, <2>3 DEF OthersKept, Holding, Hopeful
    <3>. QED  BY <2>1, <3>1 DEF Lease
  <2>. QED  BY <2>2, <2>3
<1>5. ASSUME NEW j \in Items, NEW s \in Slots,
             AwaitAck(j, s) \/ BackOff(j, s) \/ Park(j, s)
      PROVE  Lease(i)'
  <2>1. CASE i = j
    BY <1>5, <2>1, LeaseOutcome
  <2>2. CASE i # j
    <3>1. queue'[i] = queue[i] /\ \A r \in Slots : worker'[i][r] = worker[i][r]
      BY <1>5, <2>2, OutcomeEffect DEF OthersKept
    <3>2. UNCHANGED now
      BY <1>5 DEF AwaitAck, BackOff, Park
    <3>. QED  BY <3>1, <3>2, LeaseKept
  <2>. QED  BY <2>1, <2>2
<1>6. ASSUME NEW j \in Items, NEW s \in Slots, LetGo(j, s)
      PROVE  Lease(i)'
  BY <1>6, LeaseKept DEF LetGo, OthersKept, Released
<1>7. ASSUME NEW j \in Items, Enqueue(j)
      PROVE  Lease(i)'
  <2>1. UNCHANGED <<now, worker>>
    BY <1>7 DEF Enqueue
  <2>2. CASE i # j
    <3>1. queue'[i] = queue[i]
      BY <1>7, <2>2 DEF Enqueue, TypeOK
    <3>. QED  BY <2>1, <3>1, LeaseKept
  <2>3. CASE i = j
    <3>1. \A r \in Slots : worker[i][r].pc = "idle"
      BY <1>7, <2>3 DEF Enqueue, UnsentInv
    <3>. QED  BY <2>1, <3>1 DEF Lease, Holding, Hopeful
  <2>. QED  BY <2>2, <2>3
<1>8. CASE Removal \/ Quiet
  BY <1>8, LeaseKept DEF Removal, Quiet
<1>9. CASE Crash
  <2>1. \A r \in Slots : worker'[i][r].pc = "idle"
    BY <1>9 DEF Crash, IdleWorker
  <2>. QED  BY <1>9, <2>1, LeaseKept DEF Crash
<1>10. CASE Tick
  <2>1. \A s \in Slots : ~OutlivesLease(i, s)
    BY <1>10 DEF Tick
  <2>2. \A s \in Slots : worker[i][s].pc \in {"claim"} \cup Holding =>
          now + 1 < worker[i][s].now + DeliveryLockDuration
    BY <1>0, <2>1 DEF OutlivesLease
  <2>3. now' = now + 1 /\ UNCHANGED <<queue, worker>>
    BY <1>10 DEF Tick
  <2>. QED  BY <2>2, <2>3 DEF Lease
<1>. QED
  BY <1>1, <1>2, <1>3, <1>4, <1>5, <1>6, <1>7, <1>8, <1>9, <1>10, StepShape
  DEF Shape

-----------------------------------------------------------------------------
(* The account of the pushes.                                              *)

\* The numbers the account is kept in.
LEMMA AccountType ==
    ASSUME TypeOK, NEW i \in Items
    PROVE  /\ sent[i] \in Nat /\ faults \in Nat
           /\ RetryCount(queue[i]) \in Nat
           /\ queue[i] \in Row
           /\ \A s \in Slots : RetryCount(worker[i][s].item) \in Nat
BY WorkerType, CountType DEF TypeOK, Row, RetryCount

\* The account of a row is kept by steps that neither push it nor change its
\* counts nor touch a holder.
LEMMA SentKept ==
    ASSUME TypeOK, TypeOK', NEW i \in Items, SentAccounted(i),
           UNCHANGED <<faults, sent>>,
           queue'[i].retry_count = queue[i].retry_count,
           queue'[i].ack_deadline = queue[i].ack_deadline,
           Queued(i)' => Queued(i),
           \A r \in Slots :
              \/ worker'[i][r] = worker[i][r]
              \/ worker[i][r].pc \notin Holding /\ worker'[i][r].pc \notin Holding
    PROVE  SentAccounted(i)'
<1>1. RetryCount(queue[i])' = RetryCount(queue[i])
  BY DEF RetryCount
<1>. QED  BY <1>1 DEF SentAccounted, Holding

\* A queued row's count covers its pushes, but for the one the goroutine that
\* has just delivered is about to book.
LEMMA QueuedAccount ==
    ASSUME TypeOK, NEW i \in Items, Lease(i), SentAccounted(i), Queued(i)
    PROVE  /\ sent[i] <= RetryCount(queue[i]) + 1 + faults
           /\ \/ sent[i] <= RetryCount(queue[i]) + faults
              \/ \E s \in Slots : worker[i][s].pc = "delivered"
<1>. /\ sent[i] \in Nat /\ faults \in Nat /\ RetryCount(queue[i]) \in Nat
  BY AccountType
<1>1. CASE \A s \in Slots : worker[i][s].pc \notin Holding
  <2>1. sent[i] <= RetryCount(queue[i]) + faults
    BY <1>1 DEF SentAccounted
  <2>. QED  BY <2>1
<1>2. ASSUME NEW s \in Slots, worker[i][s].pc \in Holding
      PROVE  /\ sent[i] <= RetryCount(queue[i]) + 1 + faults
             /\ \/ sent[i] <= RetryCount(queue[i]) + faults
                \/ worker[i][s].pc = "delivered"
  <2>1. RetryCount(queue[i]) = RetryCount(worker[i][s].item)
    BY <1>2 DEF Lease, RetryCount
  <2>2. CASE worker[i][s].pc = "delivered"
    BY <2>1, <2>2 DEF SentAccounted
  <2>3. CASE worker[i][s].pc # "delivered"
    <3>1. sent[i] <= RetryCount(queue[i]) + faults
      BY <1>2, <2>1, <2>3 DEF SentAccounted, Holding
    <3>. QED  BY <3>1
  <2>. QED  BY <2>2, <2>3
<1>. QED  BY <1>1, <1>2

LEMMA SentDeliver ==
    ASSUME TypeOK, LimitInv, NEW i \in Items, Lease(i), SentAccounted(i),
           NEW s \in Slots, DeliverMessage(i, s)
    PROVE  SentAccounted(i)'
<1>. DEFINE w == worker[i][s]
<1>. /\ sent[i] \in Nat /\ faults \in Nat /\ RetryCount(w.item) \in Nat
  BY AccountType
<1>1. /\ \A r \in Slots : r # s => worker'[i][r] = worker[i][r]
      /\ w.pc = "deliver"
      /\ worker'[i][s].item = w.item
      /\ \/ worker'[i][s].pc = "delivered" /\ sent'[i] = sent[i] + 1
         \/ worker'[i][s].pc = "failed" /\ sent'[i] = sent[i]
      /\ UNCHANGED <<queue, faults>>
  BY GotoEffect DEF DeliverMessage, OthersKept, PC, TypeOK
<1>2. RetryCount(w.item) <= MaximumRetryAttempts
  BY <1>1, CountBounded, WorkerType DEF LimitInv
<1>3. sent[i] <= RetryCount(w.item) + faults
  BY <1>1 DEF SentAccounted
<1>4. \A r \in Slots : worker'[i][r].pc \in Holding => r = s
  BY <1>1 DEF Lease, Holding
<1>5. RetryCount(worker'[i][s].item) = RetryCount(w.item)
  BY <1>1
<1>6. CASE worker'[i][s].pc = "delivered" /\ sent'[i] = sent[i] + 1
  <2>1. /\ sent'[i] <= MaximumRetryAttempts + 1 + faults
        /\ sent'[i] <= RetryCount(worker'[i][s].item) + 1 + faults
    BY <1>2, <1>3, <1>5, <1>6
  <2>. QED  BY <1>1, <1>4, <1>6, <2>1 DEF SentAccounted, Holding
<1>7. CASE worker'[i][s].pc = "failed" /\ sent'[i] = sent[i]
  <2>1. /\ sent'[i] <= MaximumRetryAttempts + 1 + faults
        /\ sent'[i] <= RetryCount(worker'[i][s].item) + faults
    BY <1>2, <1>3, <1>5, <1>7
  <2>. QED  BY <1>1, <1>4, <1>7, <2>1 DEF SentAccounted, Holding
<1>. QED  BY <1>1, <1>6, <1>7

LEMMA SentOutcome ==
    ASSUME TypeOK, TypeOK', LimitInv, NEW i \in Items, Lease(i), SentAccounted(i),
           NEW s \in Slots, AwaitAck(i, s) \/ BackOff(i, s) \/ Park(i, s)
    PROVE  SentAccounted(i)'
<1>. DEFINE w == worker[i][s]
<1>. /\ sent[i] \in Nat /\ faults \in Nat /\ RetryCount(w.item) \in Nat
     /\ w.now \in Nat
  BY AccountType, WorkerType
<1>1. /\ \A r \in Slots : r # s => worker'[i][r] = worker[i][r]
      /\ worker'[i][s].pc \in {"idle", "push"}
      /\ w.pc \in {"delivered", "failed", "terminal"}
  BY OutcomeEffect DEF OthersKept, Released
<1>2. UNCHANGED <<faults, sent>>
  BY DEF AwaitAck, BackOff, Park, history
<1>3. \A r \in Slots : worker'[i][r].pc \notin Holding
  BY <1>1 DEF Lease, Holding
<1>4. Queued(i)' => Queued(i)
  BY OutcomeEffect DEF Queued
<1>5. ASSUME Queued(i)
      PROVE  sent[i] <= RetryCount(queue'[i]) + faults
  <2>1. /\ queue'[i].retry_count \in Nat
        /\ queue'[i].ack_deadline \in Nat
        /\ queue'[i].next_retry \in Nat
    BY DEF TypeOK, Row
  <2>2. CASE w.pc = "delivered"
    <3>1. /\ queue'[i].retry_count = RetryCount(w.item)
          /\ queue'[i].ack_deadline > w.now
      BY <1>5, <2>2, OutcomeEffect
    <3>2. RetryCount(queue'[i]) = RetryCount(w.item) + 1
      BY <2>1, <3>1 DEF RetryCount
    <3>3. sent[i] <= RetryCount(w.item) + 1 + faults
      BY <2>2 DEF SentAccounted
    <3>. QED  BY <3>2, <3>3
  <2>3. CASE w.pc # "delivered"
    <3>1. queue'[i].retry_count >= RetryCount(w.item)
      BY <1>5, OutcomeEffect
    <3>2. /\ RetryCount(queue'[i]) \in Nat
          /\ RetryCount(queue'[i]) >= queue'[i].retry_count
      BY <2>1 DEF RetryCount
    <3>3. sent[i] <= RetryCount(w.item) + faults
      BY <1>1, <2>3 DEF SentAccounted
    <3>. QED  BY <2>1, <3>1, <3>2, <3>3
  <2>. QED  BY <2>2, <2>3
<1>. QED  BY <1>2, <1>3, <1>4, <1>5 DEF SentAccounted, Holding

LEMMA SentLetGo ==
    ASSUME TypeOK, NEW i \in Items, Lease(i), SentAccounted(i),
           NEW s \in Slots, LetGo(i, s)
    PROVE  SentAccounted(i)'
<1>. /\ sent[i] \in Nat /\ faults \in Nat /\ RetryCount(queue[i]) \in Nat
     /\ \A r \in Slots : RetryCount(worker[i][r].item) \in Nat
  BY AccountType
<1>1. /\ \A r \in Slots : r # s => worker'[i][r] = worker[i][r]
      /\ worker'[i][s].pc \in {"idle", "push"}
      /\ UNCHANGED <<queue, sent>>
      /\ faults' \in {faults, faults + 1}
      /\ worker[i][s].pc = "delivered" => faults' = faults + 1
  BY DEF LetGo, OthersKept, Released
<1>2. sent[i] <= MaximumRetryAttempts + 1 + faults'
  BY <1>1 DEF SentAccounted
<1>3. ASSUME NEW r \in Slots
      PROVE  LET v == worker'[i][r] IN
          /\ v.pc \in {"deliver", "failed", "terminal"} =>
                sent[i] <= RetryCount(v.item) + faults'
          /\ v.pc = "delivered" => sent[i] <= RetryCount(v.item) + 1 + faults'
  <2>1. CASE r = s
    BY <1>1, <2>1
  <2>2. CASE r # s
    <3>1. worker'[i][r] = worker[i][r]
      BY <1>1, <2>2
    <3>2. CASE worker[i][r].pc \in {"deliver", "failed", "terminal"}
      <4>1. sent[i] <= RetryCount(worker[i][r].item) + faults
        BY <3>2 DEF SentAccounted
      <4>. QED  BY <1>1, <3>1, <3>2, <4>1
    <3>3. CASE worker[i][r].pc = "delivered"
      <4>1. sent[i] <= RetryCount(worker[i][r].item) + 1 + faults
        BY <3>3 DEF SentAccounted
      <4>. QED  BY <1>1, <3>1, <3>3, <4>1
    <3>. QED  BY <3>1, <3>2, <3>3
  <2>. QED  BY <2>1, <2>2
<1>4. ASSUME Queued(i), \A r \in Slots : worker'[i][r].pc \notin Holding
      PROVE  sent[i] <= RetryCount(queue[i]) + faults'
  <2>1. CASE worker[i][s].pc = "delivered"
    BY <1>1, <1>4, <2>1, QueuedAccount
  <2>2. CASE worker[i][s].pc # "delivered"
    <3>1. \A r \in Slots : worker[i][r].pc # "delivered"
      BY <1>1, <1>4, <2>2 DEF Holding
    <3>. QED  BY <1>1, <1>4, <3>1, QueuedAccount
  <2>. QED  BY <2>1, <2>2
<1>. QED  BY <1>1, <1>2, <1>3, <1>4 DEF SentAccounted, Queued

LEMMA SentCrash ==
    ASSUME TypeOK, NEW i \in Items, Lease(i), SentAccounted(i), Crash
    PROVE  SentAccounted(i)'
<1>. /\ sent[i] \in Nat /\ faults \in Nat /\ RetryCount(queue[i]) \in Nat
  BY AccountType
<1>1. /\ UNCHANGED <<queue, sent>> /\ faults' = faults + 1
      /\ \A r \in Slots : worker'[i][r].pc = "idle"
  BY DEF Crash, IdleWorker, history
<1>2. sent[i] <= MaximumRetryAttempts + 1 + faults'
  BY <1>1 DEF SentAccounted
<1>3. Queued(i) => sent[i] <= RetryCount(queue[i]) + faults'
  BY <1>1, QueuedAccount
<1>. QED  BY <1>1, <1>2, <1>3 DEF SentAccounted, Queued

LEMMA SentNext ==
    ASSUME TypeOK, LimitInv, UnsentInv, ClockInv, LeaseInv, SentInv, [Next]_vars
    PROVE  SentInv'
<1>. SUFFICES ASSUME NEW i \in Items, i \notin overran'
              PROVE  SentAccounted(i)'
  BY DEF SentInv
<1>. /\ Lease(i) /\ SentAccounted(i) /\ TypeOK'
     /\ sent[i] \in Nat /\ faults \in Nat /\ RetryCount(queue[i]) \in Nat
  BY OverranGrows, TypeNext, AccountType DEF LeaseInv, SentInv
<1>1. CASE Dispatch
  <2>1. UNCHANGED <<queue, faults, sent>>
    BY <1>1 DEF Dispatch, history
  <2>2. \A r \in Slots :
           \/ worker'[i][r] = worker[i][r]
           \/ worker[i][r].pc \notin Holding /\ worker'[i][r].pc \notin Holding
    BY <1>1, DispatchEffect DEF Holding
  <2>. QED  BY <2>1, <2>2, SentKept DEF Queued
<1>2. ASSUME NEW j \in Items, NEW s \in Slots, ReadClock(j, s)
      PROVE  SentAccounted(i)'
  <2>1. UNCHANGED <<queue, faults, sent>> /\ worker[j][s].pc = "spawned"
    BY <1>2 DEF ReadClock, history
  <2>2. \A r \in Slots :
           \/ worker'[i][r] = worker[i][r]
           \/ worker[i][r].pc \notin Holding /\ worker'[i][r].pc \notin Holding
    BY <1>2, <2>1, ReadClockEffect DEF Holding, OthersKept
  <2>. QED  BY <2>1, <2>2, SentKept DEF Queued
<1>3. ASSUME NEW j \in Items, NEW s \in Slots,
             Claimable(j, worker[j][s]), ClaimItem(j, s)
      PROVE  SentAccounted(i)'
  <2>1. UNCHANGED <<faults, sent>>
    BY <1>3 DEF ClaimItem, history
  <2>2. CASE i # j
    <3>1. queue'[i] = queue[i] /\ \A r \in Slots : worker'[i][r] = worker[i][r]
      BY <1>3, <2>2, ClaimEffect DEF OthersKept
    <3>. QED  BY <2>1, <3>1, SentKept DEF Queued
  <2>3. CASE i = j
    <3>1. /\ \A r \in Slots : worker[i][r].pc \notin Holding
          /\ queue[i].retry_count = worker[i][s].item.retry_count
          /\ queue[i].ack_deadline = worker[i][s].item.ack_deadline
      BY <1>3, <2>3, ClaimEffect, ClaimIsExclusive
    <3>2. /\ \A r \in Slots : r # s => worker'[i][r] = worker[i][r]
          /\ worker'[i][s].pc \in {"deliver", "terminal"}
          /\ worker'[i][s].item = worker[i][s].item
      BY <1>3, <2>3, ClaimEffect DEF OthersKept
    <3>3. sent[i] <= RetryCount(queue[i]) + faults
      BY <1>3, <2>3, <3>1 DEF SentAccounted, Claimable
    <3>4. RetryCount(queue[i]) = RetryCount(worker[i][s].item)
      BY <3>1 DEF RetryCount
    <3>. QED  BY <2>1, <3>1, <3>2, <3>3, <3>4 DEF SentAccounted, Holding
  <2>. QED  BY <2>2, <2>3
<1>4. ASSUME NEW j \in Items, NEW s \in Slots, DeliverMessage(j, s)
      PROVE  SentAccounted(i)'
  <2>1. CASE i = j
    BY <1>4, <2>1, SentDeliver
  <2>2. CASE i # j
    <3>1. /\ UNCHANGED <<queue, faults>> /\ sent'[i] = sent[i]
          /\ \A r \in Slots : worker'[i][r] = worker[i][r]
      BY <1>4, <2>2, GotoEffect DEF DeliverMessage, OthersKept, PC, TypeOK
    <3>. QED  BY <3>1 DEF SentAccounted, Queued, Holding
  <2>. QED  BY <2>1, <2>2
<1>5. ASSUME NEW j \in Items, NEW s \in Slots,
             AwaitAck(j, s) \/ BackOff(j, s) \/ Park(j, s)
      PROVE  SentAccounted(i)'
  <2>1. CASE i = j
    BY <1>5, <2>1, SentOutcome
  <2>2. CASE i # j
    <3>1. queue'[i] = queue[i] /\ \A r \in Slots : worker'[i][r] = worker[i][r]
      BY <1>5, <2>2, OutcomeEffect DEF OthersKept
    <3>2. UNCHANGED <<faults, sent>>
      BY <1>5 DEF AwaitAck, BackOff, Park, history
    <3>. QED  BY <3>1, <3>2, SentKept DEF Queued
  <2>. QED  BY <2>1, <2>2
<1>6. ASSUME NEW j \in Items, NEW s \in Slots, LetGo(j, s)
      PROVE  SentAccounted(i)'
  <2>1. CASE i = j
    BY <1>6, <2>1, SentLetGo
  <2>2. CASE i # j
    <3>1. /\ UNCHANGED <<queue, sent>>
          /\ \A r \in Slots : worker'[i][r] = worker[i][r]
          /\ faults' \in {faults, faults + 1}
      BY <1>6, <2>2 DEF LetGo, OthersKept
    <3>2. \A r \in Slots : RetryCount(worker[i][r].item) \in Nat
      BY AccountType
    <3>3. CASE faults' = faults
      BY <3>1, <3>3, SentKept DEF Queued
    <3>4. CASE faults' = faults + 1
      BY <3>1, <3>2, <3>4 DEF SentAccounted, Queued, Holding
    <3>. QED  BY <3>1, <3>3, <3>4
  <2>. QED  BY <2>1, <2>2
<1>7. ASSUME NEW j \in Items, Enqueue(j)
      PROVE  SentAccounted(i)'
  <2>1. UNCHANGED <<worker, faults, sent>>
    BY <1>7 DEF Enqueue, history
  <2>2. CASE i # j
    <3>1. queue'[i] = queue[i]
      BY <1>7, <2>2 DEF Enqueue, TypeOK
    <3>. QED  BY <2>1, <3>1, SentKept DEF Queued
  <2>3. CASE i = j
    <3>1. sent[i] = 0 /\ \A r \in Slots : worker[i][r].pc = "idle"
      BY <1>7, <2>3 DEF Enqueue, UnsentInv
    <3>2. RetryCount(queue'[i]) \in Nat
      BY DEF TypeOK, Row, RetryCount
    <3>. QED  BY <2>1, <3>1, <3>2 DEF SentAccounted, Holding
  <2>. QED  BY <2>2, <2>3
<1>8. CASE Removal \/ Quiet
  BY <1>8, SentKept DEF Removal, Quiet, Queued
<1>9. CASE Crash
  BY <1>9, SentCrash
<1>10. CASE Tick
  <2>1. UNCHANGED <<queue, worker, faults, sent>>
    BY <1>10 DEF Tick
  <2>. QED  BY <2>1, SentKept DEF Queued
<1>. QED
  BY <1>1, <1>2, <1>3, <1>4, <1>5, <1>6, <1>7, <1>8, <1>9, <1>10, StepShape
  DEF Shape

-----------------------------------------------------------------------------
(* Notifications.                                                          *)

\* Goroutine <<i, s>> has failed its row for the first time; the update that
\* says so is stored, or lost to a fault.
FirstFailure(i, s) ==
    /\ worker[i][s].pc = "failed"
    /\ worker[i][s].item.retry_count = 0
    /\ BackOff(i, s) \/ (UNCHANGED queue /\ faults' = faults + 1)

\* How the goroutines about to notify change with one goroutine.
LEMMA NotifyingEffect ==
    ASSUME NEW i \in Items, NEW s \in Slots, OthersKept(i, s),
           NEW j \in Items, IsFiniteSet(Notifying(j))
    PROVE  /\ IsFiniteSet(Notifying(j)')
           /\ Cardinality(Notifying(j)) \in Nat
           /\ Cardinality(Notifying(j)') \in Nat
           /\ j # i \/ (worker[i][s].pc # "push" /\ worker'[i][s].pc # "push") =>
                 Notifying(j)' = Notifying(j)
           /\ j = i /\ worker[i][s].pc = "push" /\ worker'[i][s].pc # "push" =>
                 Cardinality(Notifying(j)') = Cardinality(Notifying(j)) - 1
           /\ j = i /\ worker[i][s].pc # "push" /\ worker'[i][s].pc = "push" =>
                 Cardinality(Notifying(j)') = Cardinality(Notifying(j)) + 1
<1>1. \/ Notifying(j)' = Notifying(j)
      \/ j = i /\ s \in Notifying(j) /\ Notifying(j)' = Notifying(j) \ {s}
      \/ j = i /\ s \notin Notifying(j) /\ Notifying(j)' = Notifying(j) \cup {s}
  BY DEF OthersKept, Notifying
<1>2. s \in Notifying(i) <=> worker[i][s].pc = "push"
  BY DEF Notifying
<1>3. s \in Notifying(i)' <=> worker'[i][s].pc = "push"
  BY DEF Notifying
<1>4. Cardinality(Notifying(j)) \in Nat
  BY FS_CardinalityType
<1>5. /\ IsFiniteSet(Notifying(j) \cup {s}) /\ IsFiniteSet(Notifying(j) \ {s})
      /\ s \in Notifying(j) =>
            Cardinality(Notifying(j) \ {s}) = Cardinality(Notifying(j)) - 1
      /\ s \notin Notifying(j) =>
            Cardinality(Notifying(j) \cup {s}) = Cardinality(Notifying(j)) + 1
  BY FS_AddElement, FS_RemoveElement
<1>6. IsFiniteSet(Notifying(j)')
  BY <1>1, <1>5
<1>7. Cardinality(Notifying(j)') \in Nat
  BY <1>6, FS_CardinalityType
<1>8. j # i => Notifying(j)' = Notifying(j)
  BY <1>1
<1>9. (worker[i][s].pc # "push" /\ worker'[i][s].pc # "push") =>
          Notifying(j)' = Notifying(j)
  BY <1>1, <1>2, <1>3
<1>10. CASE j = i
  BY <1>1, <1>2, <1>3, <1>4, <1>5, <1>6, <1>7, <1>9, <1>10
<1>11. CASE j # i
  BY <1>4, <1>6, <1>7, <1>8, <1>11
<1>. QED  BY <1>10, <1>11

\* The goroutines of a call that do not fail notify of nothing.
LEMMA NotifiedKept ==
    ASSUME TypeOK, LimitInv, NEW i \in Items, IsFiniteSet(Notifying(i)),
           NEW j \in Items, NEW s \in Slots,
           ReadClock(j, s) \/ ClaimItem(j, s) \/ DeliverMessage(j, s)
           \/ AwaitAck(j, s) \/ Park(j, s)
    PROVE  UNCHANGED <<pushed, Notifying(i)>>
<1>1. /\ OthersKept(j, s) /\ UNCHANGED pushed
      /\ worker[j][s].pc # "push" /\ worker'[j][s].pc # "push"
  <2>1. CASE ReadClock(j, s)
    BY <2>1, ReadClockEffect DEF ReadClock, history
  <2>2. CASE ClaimItem(j, s) /\ Claimable(j, worker[j][s])
    BY <2>2, ClaimEffect DEF ClaimItem, history
  <2>3. CASE ClaimItem(j, s) /\ ~Claimable(j, worker[j][s])
    <3>1. /\ worker' = [worker EXCEPT ![j][s] = IdleWorker]
          /\ worker[j][s].pc = "claim" /\ UNCHANGED pushed
      BY <2>3 DEF ClaimItem, history
    <3>2. worker'[j][s] = IdleWorker /\ IdleWorker.pc # "push"
      BY <3>1, WorkerType DEF IdleWorker
    <3>3. OthersKept(j, s)
      BY <3>1, ReleaseEffect
    <3>. QED  BY <3>1, <3>2, <3>3
  <2>4. CASE DeliverMessage(j, s)
    BY <2>4, GotoEffect DEF DeliverMessage, PC
  <2>5. CASE AwaitAck(j, s) \/ Park(j, s)
    <3>1. /\ worker' = [worker EXCEPT ![j][s] = IdleWorker]
          /\ worker[j][s].pc \in {"delivered", "terminal"} /\ UNCHANGED pushed
      BY <2>5 DEF AwaitAck, Park, history
    <3>2. worker'[j][s] = IdleWorker /\ IdleWorker.pc # "push"
      BY <3>1, WorkerType DEF IdleWorker
    <3>3. OthersKept(j, s)
      BY <3>1, ReleaseEffect
    <3>. QED  BY <3>1, <3>2, <3>3
  <2>. QED  BY <2>1, <2>2, <2>3, <2>4, <2>5
<1>. QED  BY <1>1, NotifyingEffect

\* Only the first failure of a row adds to its notifications.
NotifiedOf(i) ==
    /\ IsFiniteSet(Notifying(i)')
    /\ Notified(i) \in Nat /\ Notified(i)' \in Nat
    /\ \/ Notified(i)' <= Notified(i)
       \/ /\ Notified(i)' = Notified(i) + 1
          /\ \E s \in Slots : FirstFailure(i, s)

LEMMA NotifiedStep ==
    ASSUME TypeOK, LimitInv, [Next]_vars, NEW i \in Items, IsFiniteSet(Notifying(i))
    PROVE  NotifiedOf(i)
<1>0. /\ pushed[i] \in Nat /\ Cardinality(Notifying(i)) \in Nat
  BY FS_CardinalityType DEF TypeOK
<1>1. ASSUME UNCHANGED <<pushed, Notifying(i)>>
      PROVE  NotifiedOf(i)
  BY <1>0, <1>1 DEF Notified, NotifiedOf
<1>2. CASE Dispatch
  <2>1. UNCHANGED pushed
    BY <1>2 DEF Dispatch, history
  <2>2. UNCHANGED Notifying(i)
    BY <1>2, DispatchEffect DEF Notifying
  <2>. QED  BY <1>1, <2>1, <2>2
<1>3. ASSUME NEW j \in Items, NEW s \in Slots,
             ReadClock(j, s) \/ ClaimItem(j, s) \/ DeliverMessage(j, s)
             \/ AwaitAck(j, s) \/ Park(j, s)
      PROVE  NotifiedOf(i)
  BY <1>1, <1>3, NotifiedKept
<1>4. ASSUME NEW j \in Items, NEW s \in Slots, SendNotification(j, s)
      PROVE  NotifiedOf(i)
  <2>1. /\ worker[j][s].pc = "push" /\ pushed' = [pushed EXCEPT ![j] = @ + 1]
        /\ worker' = [worker EXCEPT ![j][s] = IdleWorker]
    BY <1>4 DEF SendNotification
  <2>2. worker'[j][s].pc = "idle" /\ OthersKept(j, s)
    BY <2>1, WorkerType, ReleaseEffect DEF IdleWorker
  <2>3. CASE j = i
    <3>1. pushed'[i] = pushed[i] + 1
      BY <2>1, <2>3 DEF TypeOK
    <3>2. /\ IsFiniteSet(Notifying(i)') /\ Cardinality(Notifying(i)') \in Nat
          /\ Cardinality(Notifying(i)') = Cardinality(Notifying(i)) - 1
      BY <2>1, <2>2, <2>3, NotifyingEffect
    <3>. QED  BY <1>0, <3>1, <3>2 DEF Notified, NotifiedOf
  <2>4. CASE j # i
    <3>1. pushed'[i] = pushed[i]
      BY <2>1, <2>4 DEF TypeOK
    <3>2. Notifying(i)' = Notifying(i)
      BY <2>2, <2>4, NotifyingEffect
    <3>. QED  BY <1>0, <3>1, <3>2 DEF Notified, NotifiedOf
  <2>. QED  BY <2>3, <2>4
<1>5. ASSUME NEW j \in Items, NEW s \in Slots, BackOff(j, s) \/ StatementFails(j, s)
      PROVE  NotifiedOf(i)
  <2>1. /\ UNCHANGED pushed
        /\ worker[j][s].pc \in {"claim", "delivered", "failed", "terminal"}
        /\ BackOff(j, s) \/ (UNCHANGED queue /\ faults' = faults + 1)
    <3>1. CASE BackOff(j, s)
      <4>1. UNCHANGED pushed /\ worker[j][s].pc = "failed"
        BY <3>1 DEF BackOff, history
      <4>. QED  BY <3>1, <4>1
    <3>2. CASE StatementFails(j, s)
      BY <3>2 DEF StatementFails, history
    <3>. QED  BY <1>5, <3>1, <3>2
  <2>2. PICK w \in Worker :
           /\ worker' = [worker EXCEPT ![j][s] = w]
           /\ w.pc = "push" => /\ worker[j][s].pc = "failed"
                               /\ worker[j][s].item.retry_count = 0
    BY <1>5, IdleWorkerType
    DEF BackOff, StatementFails, AfterFailure, IdleWorker, Worker, PC
  <2>3. OthersKept(j, s) /\ worker'[j][s] = w
    BY <2>2, OneWorker, WorkerType DEF OthersKept
  <2>4. CASE j = i /\ w.pc = "push"
    <3>1. /\ IsFiniteSet(Notifying(i)') /\ Cardinality(Notifying(i)') \in Nat
          /\ Cardinality(Notifying(i)') = Cardinality(Notifying(i)) + 1
      BY <2>1, <2>3, <2>4, NotifyingEffect
    <3>2. Notified(i)' = Notified(i) + 1 /\ Notified(i) \in Nat
      BY <1>0, <2>1, <3>1 DEF Notified
    <3>3. FirstFailure(i, s)
      BY <2>1, <2>2, <2>4 DEF FirstFailure
    <3>. QED  BY <3>1, <3>2, <3>3 DEF NotifiedOf
  <2>5. CASE ~(j = i /\ w.pc = "push")
    <3>1. Notifying(i)' = Notifying(i)
      BY <2>1, <2>3, <2>5, NotifyingEffect
    <3>. QED  BY <1>1, <2>1, <3>1
  <2>. QED  BY <2>4, <2>5
<1>6. CASE \/ \E j \in Items : Enqueue(j) \/ Acknowledge(j)
           \/ Cleanup \/ Tick \/ UNCHANGED vars
           \/ \E d \in Devices : Connect(d) \/ Disconnect(d)
  <2>1. UNCHANGED <<pushed, worker>>
    BY <1>6 DEF Enqueue, Acknowledge, Cleanup, Tick, vars, Connect, Disconnect, history
  <2>. QED  BY <1>1, <2>1 DEF Notifying
<1>7. CASE Crash
  <2>1. UNCHANGED pushed /\ Notifying(i)' = {}
    BY <1>7 DEF Crash, history, Notifying, IdleWorker
  <2>2. IsFiniteSet({}) /\ Cardinality({}) = 0
    BY FS_EmptySet
  <2>. QED  BY <1>0, <2>1, <2>2 DEF Notified, NotifiedOf
<1>8. ASSUME NEW j \in Items, NEW s \in Slots, Process(j, s)
      PROVE  NotifiedOf(i)
  BY <1>3, <1>4, <1>5, <1>8 DEF Process
<1>9. CASE Next
  BY <1>2, <1>5, <1>6, <1>7, <1>8, <1>9 DEF Next
<1>. QED  BY <1>6, <1>9

\* A first failure lies ahead of a row only where it did before, or where the row
\* has just been inserted; faults are never forgotten.
LEMMA FirstFailureKept ==
    ASSUME TypeOK, LimitInv, [Next]_vars, NEW i \in Items, Lease(i), Lease(i)' ,
           FirstFailureAhead(i)'
    PROVE  FirstFailureAhead(i) \/ Enqueue(i)
<1>. USE DEF FirstFailureAhead
<1>0. /\ queue[i].retry_count \in Nat /\ queue'[i].retry_count \in Nat
      /\ \A s \in Slots : RetryCount(worker[i][s].item) \in Nat
                          /\ worker[i][s].item.retry_count \in Nat
                          /\ worker[i][s].item.retry_count <=
                                RetryCount(worker[i][s].item)
  BY TypeNext, AccountType, WorkerType, CountType DEF TypeOK, Row, Retry
<1>1. CASE Dispatch
  BY <1>1, DispatchEffect DEF Dispatch, Holding, Queued
<1>2. ASSUME NEW j \in Items, NEW s \in Slots, ReadClock(j, s)
      PROVE  FirstFailureAhead(i)
  <2>1. UNCHANGED queue
    BY <1>2 DEF ReadClock
  <2>2. OthersKept(j, s) /\ worker'[j][s].pc = "claim"
    BY <1>2, ReadClockEffect
  <2>. QED  BY <2>1, <2>2 DEF Holding, Queued, OthersKept
<1>3. ASSUME NEW j \in Items, NEW s \in Slots,
             Claimable(j, worker[j][s]), ClaimItem(j, s)
      PROVE  FirstFailureAhead(i)
  BY <1>3, ClaimEffect DEF Claimable, Holding, Queued, OthersKept
<1>4. ASSUME NEW j \in Items, NEW s \in Slots, DeliverMessage(j, s)
      PROVE  FirstFailureAhead(i)
  BY <1>4, GotoEffect DEF DeliverMessage, Holding, Queued, OthersKept, PC
<1>5. ASSUME NEW j \in Items, NEW s \in Slots,
             AwaitAck(j, s) \/ BackOff(j, s) \/ Park(j, s)
      PROVE  FirstFailureAhead(i)
  <2>1. CASE i # j \/ ~Queued(i)
    BY <1>5, <2>1, OutcomeEffect DEF Holding, Queued, OthersKept, Released
  <2>2. CASE i = j /\ Queued(i)
    <3>1. /\ worker[i][s].pc \in Holding
          /\ queue'[i].retry_count >= RetryCount(worker[i][s].item)
      BY <1>5, <2>2, OutcomeEffect DEF Holding
    <3>2. queue[i].retry_count = worker[i][s].item.retry_count
      BY <3>1 DEF Lease
    <3>. QED  BY <1>0, <2>2, <3>1, <3>2
  <2>. QED  BY <2>1, <2>2
<1>6. ASSUME NEW j \in Items, NEW s \in Slots, LetGo(j, s)
      PROVE  FirstFailureAhead(i)
  BY <1>6 DEF LetGo, Holding, Queued, OthersKept, Released
<1>7. ASSUME NEW j \in Items, Enqueue(j), j # i
      PROVE  FirstFailureAhead(i)
  BY <1>7 DEF Enqueue, TypeOK, Queued
<1>8. CASE Removal
  BY <1>8 DEF Removal, Queued
<1>9. CASE Crash
  BY <1>9 DEF Crash, IdleWorker, Holding, Queued
<1>10. CASE Tick \/ Quiet
  BY <1>10 DEF Tick, Quiet, Queued
<1>. QED
  BY <1>1, <1>2, <1>3, <1>4, <1>5, <1>6, <1>7, <1>8, <1>9, <1>10, StepShape
  DEF Shape

\* The update that books a first failure leaves none ahead.
LEMMA FirstFailureBooked ==
    ASSUME TypeOK, TypeOK', LimitInv, NEW i \in Items, Lease(i), NEW s \in Slots,
           BackOff(i, s)
    PROVE  ~FirstFailureAhead(i)'
<1>1. /\ worker[i][s].pc = "failed" /\ worker[i][s].item \in Retry
      /\ worker[i][s].item.retry_count \in Nat
      /\ worker[i][s].item.ack_deadline \in Nat
  BY WorkerType DEF BackOff, Retry
<1>2. \A r \in Slots : worker'[i][r].pc \notin Holding
  BY <1>1, OutcomeEffect DEF Lease, Holding, OthersKept, Released
<1>3. Queued(i)' => Queued(i)
  BY OutcomeEffect DEF Queued
<1>4. Queued(i) => queue'[i].retry_count = FailedRetryCount(worker[i][s].item)
  BY <1>1 DEF BackOff, UpdateState, TypeOK, Row
<1>5. FailedRetryCount(worker[i][s].item) >= 1
  BY <1>1 DEF FailedRetryCount, RetryCount
<1>6. FailedRetryCount(worker[i][s].item) # 0
  BY <1>1, <1>5, CountType
<1>. QED  BY <1>2, <1>3, <1>4, <1>6 DEF FirstFailureAhead

LEMMA PushNext ==
    ASSUME TypeOK, LimitInv, UnsentInv, ClockInv, LeaseInv, PushInv, [Next]_vars
    PROVE  PushInv'
<1>. SUFFICES ASSUME NEW i \in Items, i \notin overran'
              PROVE  PushAccounted(i)'
  BY DEF PushInv
<1>. /\ Lease(i) /\ Lease(i)' /\ PushAccounted(i) /\ TypeOK'
     /\ faults \in Nat /\ faults' \in Nat
  BY OverranGrows, TypeNext, LeaseNext DEF LeaseInv, PushInv, TypeOK
<1>1. /\ IsFiniteSet(Notifying(i)')
      /\ Notified(i) \in Nat /\ Notified(i)' \in Nat
      /\ \/ Notified(i)' <= Notified(i)
         \/ /\ Notified(i)' = Notified(i) + 1
            /\ \E s \in Slots : FirstFailure(i, s)
  BY NotifiedStep DEF PushAccounted, NotifiedOf
<1>2. faults <= faults'
  <2>1. faults' \in {faults, faults + 1}
    BY StepShape
    DEF Shape, Dispatch, ReadClock, ClaimItem, DeliverMessage, AwaitAck, BackOff,
        Park, LetGo, Enqueue, Removal, Crash, Tick, Quiet
  <2>. QED  BY <2>1
<1>3. queue'[i].stored = "unsent" => queue[i].stored = "unsent"
  BY StepShape, ClaimEffect, OutcomeEffect
  DEF Shape, Dispatch, ReadClock, DeliverMessage, LetGo, Enqueue, Removal, Crash,
      Tick, Quiet, TypeOK
<1>4. Enqueue(i) => queue[i].stored = "unsent"
  BY DEF Enqueue
<1>5. CASE Notified(i)' <= Notified(i)
  <2>1. Notified(i)' <= 1 + faults'
    BY <1>1, <1>2, <1>5 DEF PushAccounted
  <2>2. FirstFailureAhead(i)' => Notified(i)' <= faults'
    <3>1. CASE FirstFailureAhead(i)
      BY <1>1, <1>2, <1>5, <3>1 DEF PushAccounted
    <3>2. CASE Enqueue(i)
      BY <1>1, <1>2, <1>4, <1>5, <3>2 DEF PushAccounted
    <3>. QED  BY <3>1, <3>2, FirstFailureKept
  <2>3. queue'[i].stored = "unsent" => Notified(i)' = 0
    BY <1>1, <1>3, <1>5 DEF PushAccounted
  <2>. QED  BY <1>1, <2>1, <2>2, <2>3 DEF PushAccounted
<1>6. ASSUME NEW s \in Slots, FirstFailure(i, s), Notified(i)' = Notified(i) + 1
      PROVE  PushAccounted(i)'
  <2>1. /\ worker[i][s].pc = "failed" /\ worker[i][s].pc \in Holding
        /\ queue[i].retry_count = 0
    BY <1>6 DEF FirstFailure, Holding, Lease
  <2>2. Notified(i) <= faults
    BY <2>1 DEF PushAccounted, FirstFailureAhead
  <2>3. queue[i].stored # "unsent"
    BY <2>1 DEF UnsentInv
  <2>4. Notified(i)' <= 1 + faults'
    BY <1>1, <1>2, <1>6, <2>2
  <2>5. CASE BackOff(i, s)
    BY <1>1, <1>3, <2>3, <2>4, <2>5, FirstFailureBooked DEF PushAccounted
  <2>6. CASE faults' = faults + 1
    <3>1. Notified(i)' <= faults'
      BY <1>1, <1>6, <2>2, <2>6
    <3>. QED  BY <1>1, <1>3, <2>3, <2>4, <3>1 DEF PushAccounted
  <2>. QED  BY <1>6, <2>5, <2>6 DEF FirstFailure
<1>. QED  BY <1>1, <1>5, <1>6

-----------------------------------------------------------------------------
(* The invariant, and what follows from it.                                *)

LEMMA InitInvariant == Init => IInv
<1>. SUFFICES ASSUME Init
              PROVE  IInv
  OBVIOUS
<1>1. \A i \in Items : queue[i] = NoRow
  BY DEF Init
<1>2. \A i \in Items, s \in Slots : worker[i][s] = IdleWorker
  BY DEF Init
<1>3. TypeOK
  BY IdleWorkerType DEF Init, TypeOK, NoRow, Row
<1>4. LimitInv
  BY <1>1, <1>2 DEF LimitInv, WithinLimit, NoRow, IdleWorker
<1>5. UnsentInv
  BY <1>2 DEF Init, UnsentInv, IdleWorker
<1>6. ClockInv
  BY <1>1, <1>2 DEF ClockInv, NoRow, IdleWorker, Hopeful, Holding
<1>7. LeaseInv
  BY <1>2 DEF LeaseInv, Lease, IdleWorker, Hopeful, Holding
<1>8. SentInv
  <2>1. ASSUME NEW i \in Items
        PROVE  SentAccounted(i)
    <3>1. sent[i] = 0 /\ faults = 0 /\ ~Queued(i)
      BY <1>1 DEF Init, Queued, NoRow
    <3>2. 0 <= MaximumRetryAttempts + 1 + 0
      OBVIOUS
    <3>. QED  BY <1>2, <3>1, <3>2 DEF SentAccounted, IdleWorker
  <2>. QED  BY <2>1 DEF SentInv
<1>9. PushInv
  <2>1. ASSUME NEW i \in Items
        PROVE  PushAccounted(i)
    <3>1. /\ pushed[i] = 0 /\ faults = 0 /\ ~Queued(i)
          /\ Notifying(i) = {} /\ \A s \in Slots : worker[i][s].pc \notin Holding
      BY <1>1, <1>2 DEF Init, Queued, NoRow, Notifying, Holding, IdleWorker
    <3>2. Notified(i) = 0 /\ IsFiniteSet(Notifying(i))
      BY <3>1, FS_EmptySet DEF Notified
    <3>. QED  BY <3>1, <3>2 DEF PushAccounted, FirstFailureAhead
  <2>. QED  BY <2>1 DEF PushInv
<1>. QED  BY <1>3, <1>4, <1>5, <1>6, <1>7, <1>8, <1>9 DEF IInv

LEMMA NextInvariant == IInv /\ [Next]_vars => IInv'
BY TypeNext, LimitNext, UnsentNext, ClockNext, LeaseNext, SentNext, PushNext DEF IInv

\* The inductive invariant holds in every reachable state, for any number of
\* rows and goroutines and any durations.
THEOREM InvariantHolds == Spec => []IInv
<1>1. Init => IInv
  BY InitInvariant
<1>2. IInv /\ [Next]_vars => IInv'
  BY NextInvariant
<1>. QED  BY <1>1, <1>2, PTL DEF Spec

\* The state stays in its type: in particular no time, count or backoff the
\* scheduler and its goroutines compute leaves the natural numbers.
THEOREM TypeCorrect == Spec => []TypeOK
<1>1. IInv => TypeOK
  BY DEF IInv
<1>. QED  BY <1>1, InvariantHolds, PTL

\* Process's claim admits one holder of a row at a time, among any number of
\* goroutines with copies of it, as long as none outlives its lease.
THEOREM LeaseIsExclusive == Spec => []LeaseExclusion
<1>1. IInv => LeaseExclusion
  BY DEF IInv, LeaseInv, Lease, LeaseExclusion
<1>. QED  BY <1>1, InvariantHolds, PTL

\* retry_count never gets beyond MaximumRetryAttempts + 1, even where leases
\* are outlived and updates get lost.
THEOREM RetryCountIsBounded == Spec => []RetryCountBounded
<1>1. IInv => RetryCountBounded
  <2>1. ASSUME NEW i \in Items, TypeOK, WithinLimit(queue[i])
        PROVE  queue[i].retry_count <= MaximumRetryAttempts + 1
    BY <2>1 DEF TypeOK, Row, WithinLimit
  <2>. QED  BY <2>1 DEF IInv, LimitInv, RetryCountBounded
<1>. QED  BY <1>1, InvariantHolds, PTL

\* An envelope is pushed at most MaximumRetryAttempts + 1 times, and once more
\* for every outcome lost to a crash or a failed statement.
THEOREM SentIsBounded == Spec => []SentBounded
<1>1. IInv => SentBounded
  BY DEF IInv, SentInv, SentAccounted, SentBounded
<1>. QED  BY <1>1, InvariantHolds, PTL

\* A row causes at most one push notification, and one more for every outcome
\* lost to a crash or a failed statement.
THEOREM PushIsOnce == Spec => []PushedOnce
<1>1. IInv => PushedOnce
  <2>1. ASSUME NEW i \in Items \ overran, TypeOK, PushAccounted(i)
        PROVE  pushed[i] <= 1 + faults
    <3>1. Cardinality(Notifying(i)) \in Nat
      BY <2>1, FS_CardinalityType DEF PushAccounted
    <3>. QED  BY <2>1, <3>1 DEF PushAccounted, Notified, TypeOK
  <2>. QED  BY <2>1 DEF IInv, PushInv, PushedOnce
<1>. QED  BY <1>1, InvariantHolds, PTL

\* A step that pushes row i is DeliverMessage(i, s).
LEMMA PushIsDelivery ==
    ASSUME TypeOK, [Next]_vars, NEW i \in Items, sent'[i] # sent[i]
    PROVE  \E s \in Slots : DeliverMessage(i, s)
<1>1. \/ UNCHANGED sent
      \/ \E j \in Items, s \in Slots : DeliverMessage(j, s)
  BY StepShape
  DEF Shape, Dispatch, ReadClock, ClaimItem, AwaitAck, BackOff, Park, LetGo,
      Enqueue, Removal, Crash, Tick, Quiet, history
<1>2. ASSUME NEW j \in Items, NEW s \in Slots, DeliverMessage(j, s), i # j
      PROVE  sent'[i] = sent[i]
  BY <1>2 DEF DeliverMessage, TypeOK
<1>. QED  BY <1>1, <1>2

\* What a goroutine about to push knows of its row, unless a lease is outlived.
LEMMA DeliveryIsFresh ==
    ASSUME IInv, NEW i \in Items \ overran, NEW s \in Slots, DeliverMessage(i, s)
    PROVE  /\ queue[i].ack_deadline <= now
           /\ queue[i].retry_count <= MaximumRetryAttempts
<1>. DEFINE w == worker[i][s]
<1>. /\ w.item.retry_count \in Nat /\ w.item.ack_deadline \in Nat
     /\ w.item.next_retry \in Nat /\ w.now \in Nat /\ now \in Nat
     /\ w.item \in Retry /\ WithinLimit(w.item)
  BY WorkerType DEF IInv, TypeOK, LimitInv, Retry
<1>1. w.pc = "deliver"
  BY DEF DeliverMessage
<1>2. /\ queue[i].retry_count = w.item.retry_count
      /\ queue[i].ack_deadline = w.item.ack_deadline
  BY <1>1 DEF IInv, LeaseInv, Lease, Holding
<1>3. /\ w.item.ack_deadline <= w.item.next_retry
      /\ w.item.next_retry <= w.now /\ w.now <= now
  BY <1>1 DEF IInv, ClockInv, Holding
<1>4. w.item.retry_count <= RetryCount(w.item)
      /\ RetryCount(w.item) \in Nat
      /\ RetryCount(w.item) <= MaximumRetryAttempts
  BY <1>1, CountType, CountBounded DEF IInv, LimitInv
<1>. QED  BY <1>2, <1>3, <1>4

\* A pushed envelope is left alone until its ack_deadline.
THEOREM NoEarlyResend == Spec => NoResendBeforeDeadline
<1>1. ASSUME IInv, [Next]_vars, NEW i \in Items \ overran', sent'[i] > sent[i]
      PROVE  queue[i].ack_deadline <= now
  <2>1. i \in Items \ overran
    BY <1>1, OverranGrows DEF IInv
  <2>2. sent'[i] # sent[i]
    BY <1>1 DEF IInv, TypeOK
  <2>3. PICK s \in Slots : DeliverMessage(i, s)
    BY <1>1, <2>2, PushIsDelivery DEF IInv
  <2>. QED  BY <1>1, <2>1, <2>3, DeliveryIsFresh
<1>2. IInv /\ [Next]_vars =>
        \A i \in Items \ overran' :
           sent'[i] > sent[i] => queue[i].ack_deadline <= now
  BY <1>1
<1>. QED  BY <1>2, InvariantHolds, PTL DEF NoResendBeforeDeadline, Spec

\* A parked row is never pushed again.
THEOREM ParkedIsSilent == Spec => ParkedRowsSilent
<1>1. ASSUME IInv, [Next]_vars, NEW i \in Items \ overran',
             queue[i].retry_count > MaximumRetryAttempts
      PROVE  sent'[i] = sent[i]
  <2>1. i \in Items \ overran
    BY <1>1, OverranGrows DEF IInv
  <2>2. SUFFICES ASSUME sent'[i] # sent[i]
                 PROVE  FALSE
    OBVIOUS
  <2>3. PICK s \in Slots : DeliverMessage(i, s)
    BY <1>1, <2>2, PushIsDelivery DEF IInv
  <2>4. queue[i].retry_count <= MaximumRetryAttempts
    BY <1>1, <2>1, <2>3, DeliveryIsFresh
  <2>5. queue[i].retry_count \in Nat
    BY <1>1 DEF IInv, TypeOK, Row
  <2>. QED  BY <1>1, <2>4, <2>5
<1>2. IInv /\ [Next]_vars =>
        \A i \in Items \ overran' :
           queue[i].retry_count > MaximumRetryAttempts => sent'[i] = sent[i]
  BY <1>1
<1>. QED  BY <1>2, InvariantHolds, PTL DEF ParkedRowsSilent, Spec

\* No update lowers the count of a queued row, although updates are
\* unconditional and goroutines work on copies.
THEOREM RetryCountIsMonotone == Spec => RetryCountMonotone
<1>1. ASSUME IInv, [Next]_vars, NEW i \in Items \ overran', Queued(i)
      PROVE  queue'[i].retry_count >= queue[i].retry_count
  <2>. /\ TypeOK /\ LimitInv /\ Lease(i)
       /\ queue[i].retry_count \in Nat
    BY <1>1, OverranGrows DEF IInv, LeaseInv, TypeOK, Row
  <2>1. SUFFICES ASSUME queue'[i].retry_count # queue[i].retry_count
                 PROVE  queue'[i].retry_count >= queue[i].retry_count
    OBVIOUS
  <2>2. PICK j \in Items, s \in Slots :
          \/ Claimable(j, worker[j][s]) /\ ClaimItem(j, s)
          \/ AwaitAck(j, s) \/ BackOff(j, s) \/ Park(j, s)
    <3>1. ASSUME NEW j \in Items, Enqueue(j)
          PROVE  queue'[i] = queue[i]
      BY <1>1, <3>1 DEF Enqueue, Queued, TypeOK
    <3>. QED
      BY <1>1, <2>1, <3>1, StepShape
      DEF Shape, Dispatch, ReadClock, DeliverMessage, LetGo, Removal, Crash,
          Tick, Quiet, history
  <2>3. CASE Claimable(j, worker[j][s]) /\ ClaimItem(j, s)
    BY <2>1, <2>3, ClaimEffect
  <2>4. CASE AwaitAck(j, s) \/ BackOff(j, s) \/ Park(j, s)
    <3>1. /\ i = j
          /\ worker[i][s].pc \in Holding
          /\ queue'[i].retry_count >= RetryCount(worker[i][s].item)
      BY <1>1, <2>1, <2>4, OutcomeEffect DEF Holding
    <3>2. queue[i].retry_count = worker[i][s].item.retry_count
      BY <3>1 DEF Lease
    <3>3. worker[i][s].item.retry_count <= RetryCount(worker[i][s].item)
          /\ RetryCount(worker[i][s].item) \in Nat
      BY WorkerType, CountType
    <3>4. queue'[i].retry_count \in Nat
      BY <1>1, TypeNext DEF TypeOK, Row
    <3>. QED  BY <3>1, <3>2, <3>3, <3>4
  <2>. QED  BY <2>2, <2>3, <2>4
<1>2. IInv /\ [Next]_vars =>
        \A i \in Items \ overran' :
           queue[i].stored = "queued" =>
              queue'[i].retry_count >= queue[i].retry_count
  BY <1>1 DEF Queued
<1>. QED  BY <1>2, InvariantHolds, PTL DEF RetryCountMonotone, Spec

=============================================================================
