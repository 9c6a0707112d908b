--------------------------- MODULE AttemptsProofs ---------------------------
(***************************************************************************)
(* Delivery implements Attempts: goroutines that share nothing but a table   *)
(* and a lease treat every row as if it had a lock.                         *)
(***************************************************************************)
EXTENDS DeliveryProofs

-----------------------------------------------------------------------------
(* The phase of a row.                                                     *)

LEMMA PhaseFree ==
    ASSUME NEW f, \A s \in Slots : f[s].pc \notin Holding
    PROVE  Phase(f) = "free"
<1>1. {f[s].pc : s \in Slots} \cap Holding = {}
  OBVIOUS
<1>. QED  BY <1>1 DEF Phase

LEMMA PhaseHeld ==
    ASSUME NEW f, NEW s \in Slots, f[s].pc \in Holding,
           \A r \in Slots : f[r].pc \in Holding => r = s
    PROVE  Phase(f) = f[s].pc
<1>1. {f[r].pc : r \in Slots} \cap Holding = {f[s].pc}
  OBVIOUS
<1>2. (CHOOSE pc \in {f[s].pc} : TRUE) = f[s].pc
  OBVIOUS
<1>. QED  BY <1>1, <1>2 DEF Phase

LEMMA PhaseSame ==
    ASSUME NEW f, NEW g,
           \A s \in Slots : \/ g[s].pc = f[s].pc
                            \/ g[s].pc \notin Holding /\ f[s].pc \notin Holding
    PROVE  Phase(g) = Phase(f)
<1>1. {g[s].pc : s \in Slots} \cap Holding = {f[s].pc : s \in Slots} \cap Holding
  OBVIOUS
<1>. QED  BY <1>1 DEF Phase

LEMMA RowAfter ==
    ASSUME NEW i
    PROVE  RowOf(i)' =
               [stored |-> queue'[i].stored, phase |-> Phase(worker'[i]),
                tries |-> queue'[i].retry_count,
                unanswered |-> queue'[i].ack_deadline > 0, sent |-> sent'[i]]
BY DEF RowOf, Phase, Holding

\* The three steps that change several fields, spelt out.
LEMMA AttemptMade ==
    ASSUME NEW a, NEW n, NEW u, NEW c, NEW r, NEW q,
           r = [stored |-> a, phase |-> "deliver", tries |-> n, unanswered |-> u,
                sent |-> c],
           \/ q = [stored |-> a, phase |-> "delivered", tries |-> n,
                   unanswered |-> u, sent |-> c + 1]
           \/ q = [stored |-> a, phase |-> "failed", tries |-> n,
                   unanswered |-> u, sent |-> c]
    PROVE  RowsAreLocked!Attempt(r, q)
<1>1. r.phase = "deliver" /\ r.sent = c
  OBVIOUS
<1>2. CASE q = [stored |-> a, phase |-> "delivered", tries |-> n,
                unanswered |-> u, sent |-> c + 1]
  <2>1. PICK q1 : q1 = [r EXCEPT !.phase = "delivered"]
    OBVIOUS
  <2>2. q1 = [stored |-> a, phase |-> "delivered", tries |-> n, unanswered |-> u,
              sent |-> c]
    BY <2>1
  <2>3. q = [q1 EXCEPT !.sent = c + 1]
    BY <1>2, <2>2
  <2>4. q = [q1 EXCEPT !.sent = r.sent + 1]
    BY ONLY <1>1, <2>3, Zenon
  <2>5. q = [r EXCEPT !.phase = "delivered", !.sent = r.sent + 1]
    BY ONLY <2>1, <2>4, Zenon
  <2>. QED  BY <1>1, <2>5, Zenon DEF RowsAreLocked!Attempt
<1>3. CASE q = [stored |-> a, phase |-> "failed", tries |-> n,
                unanswered |-> u, sent |-> c]
  <2>1. q = [r EXCEPT !.phase = "failed"]
    BY <1>3
  <2>. QED  BY <1>1, <2>1, Zenon DEF RowsAreLocked!Attempt
<1>. QED  BY <1>2, <1>3

LEMMA SettleMade ==
    ASSUME NEW p \in {"delivered", "failed", "terminal"}, NEW n, NEW u, NEW c,
           NEW n2, NEW u2, NEW r, NEW q,
           r = [stored |-> "queued", phase |-> p, tries |-> n, unanswered |-> u,
                sent |-> c],
           q = [stored |-> "queued", phase |-> "free", tries |-> n2,
                unanswered |-> u2, sent |-> c],
           n2 = IF p = "failed" THEN n + 1 ELSE RowsAreLocked!Counted(r),
           u2 = (p = "delivered")
    PROVE  RowsAreLocked!Settle(r, q)
<1>1. PICK q1 : q1 = [r EXCEPT !.phase = "free"]
  OBVIOUS
<1>2. PICK q2 : q2 = [q1 EXCEPT !.tries = n2]
  OBVIOUS
<1>3. q1 = [stored |-> "queued", phase |-> "free", tries |-> n, unanswered |-> u,
            sent |-> c]
  BY <1>1
<1>4. q2 = [stored |-> "queued", phase |-> "free", tries |-> n2, unanswered |-> u,
            sent |-> c]
  BY <1>2, <1>3
<1>5. q = [q2 EXCEPT !.unanswered = u2]
  BY <1>4
<1>6. /\ r.stored = "queued" /\ r.phase = p /\ r.tries = n
  OBVIOUS
<1>7. q = [r EXCEPT !.phase = "free", !.tries = n2, !.unanswered = u2]
  BY ONLY <1>1, <1>2, <1>5, Zenon
<1>8. /\ n2 = IF r.phase = "failed" THEN r.tries + 1 ELSE RowsAreLocked!Counted(r)
      /\ u2 = (r.phase = "delivered")
  BY <1>6
<1>9. q = [r EXCEPT !.phase = "free",
                    !.tries = IF r.phase = "failed" THEN r.tries + 1
                                                    ELSE RowsAreLocked!Counted(r),
                    !.unanswered = (r.phase = "delivered")]
  BY ONLY <1>7, <1>8, Zenon
<1>. QED  BY <1>6, <1>9, Zenon DEF RowsAreLocked!Settle

LEMMA StoreMade ==
    ASSUME NEW n, NEW u, NEW c, NEW no, NEW r, NEW q,
           no = FALSE,
           r = [stored |-> "unsent", phase |-> "free", tries |-> n,
                unanswered |-> u, sent |-> c],
           q = [stored |-> "queued", phase |-> "free", tries |-> 0,
                unanswered |-> no, sent |-> c]
    PROVE  RowsAreLocked!Store(r, q)
<1>1. PICK q1 : q1 = [r EXCEPT !.stored = "queued"]
  OBVIOUS
<1>2. PICK q2 : q2 = [q1 EXCEPT !.tries = 0]
  OBVIOUS
<1>3. q1 = [stored |-> "queued", phase |-> "free", tries |-> n, unanswered |-> u,
            sent |-> c]
  BY <1>1
<1>4. q2 = [stored |-> "queued", phase |-> "free", tries |-> 0, unanswered |-> u,
            sent |-> c]
  BY <1>2, <1>3
<1>5. q = [q2 EXCEPT !.unanswered = no]
  BY <1>4
<1>6. r.stored = "unsent" /\ r.phase = "free"
  OBVIOUS
<1>7. q = [r EXCEPT !.stored = "queued", !.tries = 0, !.unanswered = FALSE]
  BY ONLY <1>1, <1>2, <1>5, no = FALSE, Zenon
<1>. QED  BY <1>6, <1>7, Zenon DEF RowsAreLocked!Store

LEMMA RowKept ==
    ASSUME NEW i,
           queue'[i].stored = queue[i].stored,
           queue'[i].retry_count = queue[i].retry_count,
           queue'[i].ack_deadline = queue[i].ack_deadline,
           sent'[i] = sent[i],
           \A s \in Slots :
               \/ worker'[i][s].pc = worker[i][s].pc
               \/ worker'[i][s].pc \notin Holding /\ worker[i][s].pc \notin Holding
    PROVE  RowOf(i)' = RowOf(i)
<1>1. Phase(worker'[i]) = Phase(worker[i])
  BY PhaseSame
<1>. QED  BY <1>1, RowAfter DEF RowOf

\* A holder is alone with its row, and its copy says what the row says.
LEMMA Held ==
    ASSUME NEW i \in Items, Lease(i), NEW s \in Slots, worker[i][s].pc \in Holding
    PROVE  /\ Phase(worker[i]) = worker[i][s].pc
           /\ \A r \in Slots : worker[i][r].pc \in Holding => r = s
           /\ queue[i].retry_count = worker[i][s].item.retry_count
           /\ queue[i].ack_deadline = worker[i][s].item.ack_deadline
<1>1. \A r \in Slots : worker[i][r].pc \in Holding => r = s
  BY DEF Lease
<1>2. Phase(worker[i]) = worker[i][s].pc
  BY <1>1, PhaseHeld
<1>. QED  BY <1>1, <1>2 DEF Lease

LEMMA LetsGo ==
    ASSUME NEW i \in Items, Lease(i), NEW s \in Slots, worker[i][s].pc \in Holding,
           OthersKept(i, s), Released(i, s)
    PROVE  Phase(worker'[i]) = "free"
<1>1. \A r \in Slots : worker[i][r].pc \in Holding => r = s
  BY Held
<1>2. \A r \in Slots : worker'[i][r].pc \notin Holding
  BY <1>1 DEF OthersKept, Released, Holding
<1>. QED  BY <1>2, PhaseFree

-----------------------------------------------------------------------------
(* Each step of a row is one of Attempts.                                  *)

\* A claim that succeeds takes the row.
LEMMA ClaimTakes ==
    ASSUME TypeOK, ClockInv, NEW i \in Items, Lease(i), NEW s \in Slots,
           Claimable(i, worker[i][s]), ClaimItem(i, s)
    PROVE  RowsAreLocked!Take(RowOf(i), RowOf(i)')
<1>. DEFINE w == worker[i][s]
            pc == IF Exhausted(w.item) THEN "terminal" ELSE "deliver"
<1>1. /\ OthersKept(i, s)
      /\ w.pc = "claim"
      /\ worker'[i][s].pc = pc
      /\ queue'[i].stored = queue[i].stored
      /\ queue'[i].retry_count = queue[i].retry_count
      /\ queue'[i].ack_deadline = queue[i].ack_deadline
  BY ClaimEffect
<1>2. /\ \A r \in Slots : worker[i][r].pc \notin Holding
      /\ queue[i].retry_count = w.item.retry_count
      /\ queue[i].ack_deadline = w.item.ack_deadline
  BY <1>1, ClaimIsExclusive
<1>3. Phase(worker[i]) = "free"
  BY <1>2, PhaseFree
<1>4. Phase(worker'[i]) = pc
  <2>1. worker'[i][s].pc \in Holding
    BY <1>1 DEF Holding
  <2>2. \A r \in Slots : worker'[i][r].pc \in Holding => r = s
    BY <1>1, <1>2 DEF OthersKept
  <2>. QED  BY <1>1, <2>1, <2>2, PhaseHeld
<1>5. queue[i].stored = "queued" /\ sent'[i] = sent[i]
  BY DEF Claimable, Queued, ClaimItem, history
<1>6. RowsAreLocked!Counted(RowOf(i)) = RetryCount(w.item)
  BY <1>2 DEF RowsAreLocked!Counted, RowOf, RetryCount
<1>7. RowOf(i)' = [RowOf(i) EXCEPT !.phase = pc]
  BY <1>1, <1>4, <1>5, RowAfter DEF RowOf
<1>8. RowOf(i).stored = "queued" /\ RowOf(i).phase = "free"
  BY <1>3, <1>5 DEF RowOf
<1>. QED  BY <1>6, <1>7, <1>8 DEF RowsAreLocked!Take, Exhausted

\* A write to a socket is the attempt, whether it succeeds or not.
LEMMA DeliveryAttempts ==
    ASSUME TypeOK, NEW i \in Items, Lease(i), NEW s \in Slots, DeliverMessage(i, s)
    PROVE  RowsAreLocked!Attempt(RowOf(i), RowOf(i)')
<1>1. /\ worker[i][s].pc = "deliver"
      /\ UNCHANGED queue
      /\ \/ Goto(i, s, "delivered") /\ sent'[i] = sent[i] + 1
         \/ Goto(i, s, "failed") /\ sent'[i] = sent[i]
  BY DEF DeliverMessage, TypeOK
<1>2. /\ Phase(worker[i]) = "deliver"
      /\ \A r \in Slots : worker[i][r].pc \in Holding => r = s
  BY <1>1, Held DEF Holding
<1>3. ASSUME NEW pc \in {"delivered", "failed"}, Goto(i, s, pc)
      PROVE  Phase(worker'[i]) = pc
  <2>1. OthersKept(i, s) /\ worker'[i][s].pc = pc
    BY <1>3, GotoEffect DEF PC
  <2>2. \A r \in Slots : worker'[i][r].pc \in Holding => r = s
    BY <1>2, <2>1 DEF OthersKept
  <2>3. worker'[i][s].pc \in Holding
    BY <2>1 DEF Holding
  <2>. QED  BY <2>1, <2>2, <2>3, PhaseHeld
<1>4. \/ Phase(worker'[i]) = "delivered" /\ sent'[i] = sent[i] + 1
      \/ Phase(worker'[i]) = "failed" /\ sent'[i] = sent[i]
  BY <1>1, <1>3
<1>5. \/ RowOf(i)' = [stored |-> queue[i].stored, phase |-> "delivered",
                      tries |-> queue[i].retry_count,
                      unanswered |-> queue[i].ack_deadline > 0,
                      sent |-> sent[i] + 1]
      \/ RowOf(i)' = [stored |-> queue[i].stored, phase |-> "failed",
                      tries |-> queue[i].retry_count,
                      unanswered |-> queue[i].ack_deadline > 0,
                      sent |-> sent[i]]
  <2>1. CASE Phase(worker'[i]) = "delivered" /\ sent'[i] = sent[i] + 1
    BY <1>1, <2>1, RowAfter
  <2>2. CASE Phase(worker'[i]) = "failed" /\ sent'[i] = sent[i]
    BY <1>1, <2>2, RowAfter
  <2>. QED  BY <1>4, <2>1, <2>2
<1>6. RowOf(i) = [stored |-> queue[i].stored, phase |-> "deliver",
                  tries |-> queue[i].retry_count,
                  unanswered |-> queue[i].ack_deadline > 0,
                  sent |-> sent[i]]
  BY <1>2 DEF RowOf
<1>. QED  BY <1>5, <1>6, AttemptMade, Zenon

\* An update by id settles the row: it books what its holder has done.
LEMMA OutcomeSettles ==
    ASSUME TypeOK, LimitInv, NEW i \in Items, Lease(i), NEW s \in Slots,
           AwaitAck(i, s) \/ BackOff(i, s) \/ Park(i, s)
    PROVE  RowsAreLocked!Settle(RowOf(i), RowOf(i)')
<1>. DEFINE w == worker[i][s]
            tries == IF w.pc = "failed" THEN w.item.retry_count + 1
                                        ELSE RetryCount(w.item)
<1>1. /\ OthersKept(i, s) /\ Released(i, s)
      /\ w.pc \in {"delivered", "failed", "terminal"}
      /\ queue'[i].stored = queue[i].stored
      /\ ~Queued(i) => queue'[i] = queue[i]
  BY OutcomeEffect
<1>2. /\ Phase(worker[i]) = w.pc
      /\ queue[i].retry_count = w.item.retry_count
      /\ queue[i].ack_deadline = w.item.ack_deadline
      /\ Phase(worker'[i]) = "free"
  BY <1>1, Held, LetsGo DEF Holding
<1>3. sent'[i] = sent[i]
  BY DEF AwaitAck, BackOff, Park, history
<1>4. CASE ~Queued(i)
  <2>1. RowOf(i)' = [RowOf(i) EXCEPT !.phase = "free"]
    BY <1>1, <1>2, <1>3, <1>4, RowAfter DEF RowOf
  <2>2. RowOf(i).stored # "queued" /\ RowOf(i).phase = w.pc
    BY <1>2, <1>4 DEF RowOf, Queued
  <2>. QED  BY <1>1, <2>1, <2>2 DEF RowsAreLocked!Settle
<1>5. CASE Queued(i)
  <2>1. queue'[i].retry_count = tries
    <3>1. CASE BackOff(i, s)
      <4>. /\ w.item \in Retry /\ w.now \in Nat /\ WithinLimit(w.item)
           /\ ~Exhausted(w.item)
        BY <3>1, WorkerType DEF LimitInv, BackOff
      <4>. DEFINE n == FailedRetryCount(w.item)
      <4>1. n \in 0 .. MaximumRetryAttempts + 1
        BY CountBounded, CountType
      <4>2. w.now + Backoff(n) \in Nat
        BY <4>1, BackoffPositive
      <4>3. w.pc = "failed" /\ UpdateState(i, n, w.now + Backoff(n), 0)
        BY <3>1 DEF BackOff
      <4>4. queue'[i].retry_count = n
        BY <1>5, <4>1, <4>2, <4>3, UpdateStateEffect
      <4>5. n = w.item.retry_count + 1
        BY DEF FailedRetryCount, RetryCount, Retry
      <4>. QED  BY <4>3, <4>4, <4>5
    <3>2. CASE AwaitAck(i, s)
      <4>1. w.pc = "delivered"
        BY <3>2 DEF AwaitAck
      <4>. QED  BY <1>5, <4>1, OutcomeEffect
    <3>3. CASE Park(i, s)
      <4>1. /\ w.pc = "terminal"
            /\ UpdateState(i, RetryCount(w.item), w.now + TerminalRetryBackoff, 0)
        BY <3>3 DEF Park
      <4>2. RetryCount(w.item) \in Nat /\ w.now + TerminalRetryBackoff \in Nat
        BY WorkerType, CountType, DeliveryAssumption
      <4>3. queue'[i].retry_count = RetryCount(w.item)
        BY <1>5, <4>1, <4>2, UpdateStateEffect
      <4>. QED  BY <4>1, <4>3
    <3>. QED  BY <3>1, <3>2, <3>3
  <2>2. (queue'[i].ack_deadline > 0) = (w.pc = "delivered")
    <3>1. \/ /\ w.pc = "delivered"
             /\ queue'[i].next_retry > w.now
             /\ queue'[i].ack_deadline = queue'[i].next_retry
          \/ w.pc # "delivered" /\ queue'[i].ack_deadline = 0
      BY <1>5, OutcomeEffect
    <3>2. w.now \in Nat /\ queue'[i].next_retry \in Nat
      BY <1>1, WorkerType, ProcessType DEF TypeOK, Row, Process
    <3>. QED  BY <3>1, <3>2
  <2>3. RowsAreLocked!Counted(RowOf(i)) = RetryCount(w.item)
    BY <1>2 DEF RowsAreLocked!Counted, RowOf, RetryCount
  <2>4. RowOf(i) = [stored |-> "queued", phase |-> w.pc,
                    tries |-> w.item.retry_count,
                    unanswered |-> queue[i].ack_deadline > 0, sent |-> sent[i]]
    BY <1>2, <1>5 DEF RowOf, Queued
  <2>5. RowOf(i)' = [stored |-> "queued", phase |-> "free", tries |-> tries,
                     unanswered |-> (w.pc = "delivered"), sent |-> sent[i]]
    BY <1>1, <1>2, <1>3, <1>5, <2>1, <2>2, RowAfter DEF Queued
  <2>6. tries = IF w.pc = "failed" THEN w.item.retry_count + 1
                                   ELSE RowsAreLocked!Counted(RowOf(i))
    BY <2>3
  <2>. HIDE DEF tries
  <2>. QED  BY <1>1, <2>4, <2>5, <2>6, SettleMade, Zenon
<1>. QED  BY <1>4, <1>5

\* A goroutine that ends in any other way has not had the row, or a fault has
\* lost what it would have booked.
LEMMA LetGoLoses ==
    ASSUME TypeOK, NEW i \in Items, Lease(i), NEW s \in Slots, LetGo(i, s)
    PROVE  \/ RowOf(i)' = RowOf(i)
           \/ faults' > faults /\ RowsAreLocked!Lose(RowOf(i), RowOf(i)')
<1>1. /\ OthersKept(i, s) /\ Released(i, s) /\ UNCHANGED <<queue, sent>>
      /\ worker[i][s].pc \in Holding => faults' = faults + 1
  BY DEF LetGo, Holding
<1>2. CASE worker[i][s].pc \in Holding
  <2>1. Phase(worker'[i]) = "free"
    BY <1>1, <1>2, LetsGo
  <2>2. RowOf(i)' = [RowOf(i) EXCEPT !.phase = "free"]
    BY <1>1, <2>1, RowAfter DEF RowOf
  <2>3. faults' > faults
    BY <1>1, <1>2 DEF TypeOK
  <2>. QED  BY <2>2, <2>3 DEF RowsAreLocked!Lose
<1>3. CASE worker[i][s].pc \notin Holding
  BY <1>1, <1>3, RowKept DEF OthersKept, Released, Holding
<1>. QED  BY <1>2, <1>3

\* An insert stores the row, while nobody works on it.
LEMMA EnqueueStores ==
    ASSUME TypeOK, UnsentInv, NEW i \in Items, Enqueue(i)
    PROVE  RowsAreLocked!Store(RowOf(i), RowOf(i)')
<1>1. /\ queue[i].stored = "unsent" /\ queue'[i].stored = "queued"
      /\ queue'[i].retry_count = 0 /\ queue'[i].ack_deadline = 0
      /\ UNCHANGED <<worker, sent>>
  BY DEF Enqueue, TypeOK, history
<1>2. Phase(worker[i]) = "free"
  <2>1. \A s \in Slots : worker[i][s].pc \notin Holding
    BY <1>1 DEF UnsentInv, Holding
  <2>. QED  BY <2>1, PhaseFree
<1>3. RowOf(i)' = [stored |-> "queued", phase |-> "free", tries |-> 0,
                   unanswered |-> FALSE, sent |-> sent[i]]
  <2>1. (queue'[i].ack_deadline > 0) = FALSE
    BY <1>1
  <2>. QED  BY <1>1, <1>2, <2>1, RowAfter, Zenon
<1>4. RowOf(i) = [stored |-> "unsent", phase |-> "free",
                  tries |-> queue[i].retry_count,
                  unanswered |-> queue[i].ack_deadline > 0, sent |-> sent[i]]
  BY <1>1, <1>2 DEF RowOf
<1>. QED  BY <1>3, <1>4, StoreMade, Zenon

LEMMA RemovalRemoves ==
    ASSUME NEW i \in Items, Removal
    PROVE  RowOf(i)' = RowOf(i) \/ RowsAreLocked!Remove(RowOf(i), RowOf(i)')
<1>1. /\ queue'[i].retry_count = queue[i].retry_count
      /\ queue'[i].ack_deadline = queue[i].ack_deadline
      /\ UNCHANGED <<worker, sent>>
  BY DEF Removal
<1>2. CASE queue'[i].stored = queue[i].stored
  BY <1>1, <1>2, RowKept
<1>3. CASE queue[i].stored = "queued" /\ queue'[i].stored = "gone"
  <2>1. RowOf(i)' = [RowOf(i) EXCEPT !.stored = "gone"]
    BY <1>1, <1>3, RowAfter DEF RowOf
  <2>. QED  BY <1>3, <2>1 DEF RowsAreLocked!Remove, RowOf
<1>. QED  BY <1>2, <1>3 DEF Removal, Queued

LEMMA CrashLoses ==
    ASSUME TypeOK, NEW i \in Items, Crash
    PROVE  faults' > faults /\ RowsAreLocked!Lose(RowOf(i), RowOf(i)')
<1>1. /\ UNCHANGED <<queue, sent>> /\ faults' = faults + 1
      /\ \A s \in Slots : worker'[i][s].pc = "idle"
  BY DEF Crash, history, IdleWorker
<1>2. Phase(worker'[i]) = "free"
  <2>1. \A s \in Slots : worker'[i][s].pc \notin Holding
    BY <1>1 DEF Holding
  <2>. QED  BY <2>1, PhaseFree
<1>3. RowOf(i)' = [RowOf(i) EXCEPT !.phase = "free"]
  BY <1>1, <1>2, RowAfter DEF RowOf
<1>. QED  BY <1>1, <1>3 DEF RowsAreLocked!Lose, TypeOK

-----------------------------------------------------------------------------
(* The refinement.                                                         *)

LEMMA RowsStart == Init => RowsAreLocked!Start
<1>1. SUFFICES ASSUME Init
               PROVE  RowsAreLocked!Start
  OBVIOUS
<1>2. ASSUME NEW i \in Items
      PROVE  RowOf(i) = [stored |-> "unsent", phase |-> "free", tries |-> 0,
                         unanswered |-> FALSE, sent |-> 0]
  <2>1. \A s \in Slots : worker[i][s].pc \notin Holding
    BY <1>1 DEF Init, IdleWorker, Holding
  <2>2. Phase(worker[i]) = "free"
    BY <2>1, PhaseFree
  <2>3. /\ queue[i].stored = "unsent" /\ queue[i].retry_count = 0
        /\ queue[i].ack_deadline = 0 /\ sent[i] = 0
    BY <1>1 DEF Init, NoRow
  <2>4. (queue[i].ack_deadline > 0) = FALSE
    BY <2>3
  <2>. QED  BY <2>2, <2>3, <2>4, Zenon DEF RowOf
<1>. QED  BY <1>1, <1>2 DEF RowsAreLocked!Start, Init

\* What Attempts allows row i.
RowMoves(i) ==
    \/ RowOf(i)' = RowOf(i)
    \/ RowsAreLocked!Step(RowOf(i), RowOf(i)')
    \/ faults' > faults /\ RowsAreLocked!Lose(RowOf(i), RowOf(i)')

\* A step of a goroutine of another row leaves row i alone.
LEMMA OtherRows ==
    ASSUME TypeOK, LimitInv, NEW i \in Items, NEW j \in Items \ {i},
           NEW s \in Slots,
           \/ ReadClock(j, s)
           \/ Claimable(j, worker[j][s]) /\ ClaimItem(j, s)
           \/ DeliverMessage(j, s)
           \/ AwaitAck(j, s) \/ BackOff(j, s) \/ Park(j, s)
           \/ LetGo(j, s)
    PROVE  RowOf(i)' = RowOf(i)
<1>1. OthersKept(j, s)
  <2>1. CASE DeliverMessage(j, s)
    BY <2>1, GotoEffect DEF DeliverMessage, PC
  <2>. QED  BY <2>1, ReadClockEffect, ClaimEffect, OutcomeEffect DEF LetGo
<1>2. queue'[i] = queue[i]
  BY ClaimEffect, OutcomeEffect DEF ReadClock, DeliverMessage, LetGo
<1>3. sent'[i] = sent[i]
  BY DEF ReadClock, ClaimItem, DeliverMessage, AwaitAck, BackOff, Park, LetGo,
         history, TypeOK
<1>. QED  BY <1>1, <1>2, <1>3, RowKept DEF OthersKept

\* A row none of whose leases is outlived moves as Attempts has it.
LEMMA RowNext ==
    ASSUME IInv, [Next]_vars, NEW i \in Items \ overran'
    PROVE  RowMoves(i)
<1>. TypeOK /\ LimitInv /\ UnsentInv /\ ClockInv /\ Lease(i)
  BY OverranGrows DEF IInv, LeaseInv
<1>. USE DEF RowMoves, RowsAreLocked!Step
<1>1. CASE Dispatch
  <2>1. /\ UNCHANGED <<queue, sent>>
        /\ \A r \in Slots :
              \/ worker'[i][r].pc = worker[i][r].pc
              \/ worker'[i][r].pc \notin Holding /\ worker[i][r].pc \notin Holding
    BY <1>1, DispatchEffect DEF Dispatch, history, Holding
  <2>. QED  BY <2>1, RowKept
<1>2. ASSUME NEW s \in Slots, ReadClock(i, s)
      PROVE  RowMoves(i)
  <2>1. /\ UNCHANGED <<queue, sent>> /\ worker[i][s].pc = "spawned"
        /\ OthersKept(i, s) /\ worker'[i][s].pc = "claim"
    BY <1>2, ReadClockEffect DEF ReadClock, history
  <2>. QED  BY <2>1, RowKept DEF OthersKept, Holding
<1>3. ASSUME NEW j \in Items, NEW s \in Slots,
             \/ ReadClock(j, s)
             \/ Claimable(j, worker[j][s]) /\ ClaimItem(j, s)
             \/ DeliverMessage(j, s)
             \/ AwaitAck(j, s) \/ BackOff(j, s) \/ Park(j, s)
             \/ LetGo(j, s)
      PROVE  RowMoves(i)
  <2>1. CASE j # i
    BY <1>3, <2>1, OtherRows
  <2>2. CASE j = i
    BY <1>2, <1>3, <2>2, ClaimTakes, DeliveryAttempts, OutcomeSettles, LetGoLoses
  <2>. QED  BY <2>1, <2>2
<1>4. ASSUME NEW j \in Items, Enqueue(j)
      PROVE  RowMoves(i)
  <2>1. CASE j = i
    BY <1>4, <2>1, EnqueueStores
  <2>2. CASE j # i
    <3>1. queue'[i] = queue[i] /\ UNCHANGED <<worker, sent>>
      BY <1>4, <2>2 DEF Enqueue, history, TypeOK
    <3>. QED  BY <3>1, RowKept
  <2>. QED  BY <2>1, <2>2
<1>5. CASE Removal
  BY <1>5, RemovalRemoves
<1>6. CASE Crash
  BY <1>6, CrashLoses
<1>7. CASE Tick \/ Quiet
  <2>1. UNCHANGED <<queue, worker, sent>>
    BY <1>7 DEF Tick, Quiet
  <2>. QED  BY <2>1, RowKept
<1>. QED  BY <1>1, <1>3, <1>4, <1>5, <1>6, <1>7, StepShape DEF Shape

LEMMA FaultsGrow ==
    ASSUME TypeOK, [Next]_vars
    PROVE  faults' >= faults
<1>1. faults' = faults \/ faults' = faults + 1
  BY StepShape
  DEF Shape, Dispatch, ReadClock, ClaimItem, DeliverMessage, AwaitAck, BackOff, Park,
      LetGo, Enqueue, Removal, Crash, Tick, Quiet
<1>. QED  BY <1>1 DEF TypeOK

\* Delivery implements Attempts: as long as no lease is outlived, goroutines with
\* stale copies, a compare-and-set and unconditional updates book every attempt
\* on a row exactly as one holder at a time would.
THEOREM DeliveryBooksAttempts == Spec => AttemptsAreBooked
<1>1. IInv /\ [Next]_vars =>
          [RowsAreLocked!Next]_<<[i \in Items |-> RowOf(i)], faults, overran>>
  <2> SUFFICES ASSUME IInv, [Next]_vars
               PROVE  RowsAreLocked!Next
    OBVIOUS
  <2>1. \A i \in Items \ overran' : RowMoves(i)
    BY RowNext
  <2>2. faults' >= faults /\ overran \subseteq overran'
    BY FaultsGrow, OverranGrows DEF IInv
  <2>3. \A i \in Items : /\ [j \in Items |-> RowOf(j)][i] = RowOf(i)
                         /\ [j \in Items |-> RowOf(j)]'[i] = RowOf(i)'
    OBVIOUS
  <2> QED
    BY <2>1, <2>2, <2>3 DEF RowsAreLocked!Next, RowMoves
<1> QED
  BY <1>1, RowsStart, InvariantHolds, PTL
  DEF Spec, AttemptsAreBooked, RowsAreLocked!Spec

=============================================================================
