------------------------- MODULE DeliveryInvariant -------------------------
(***************************************************************************)
(* The inductive invariant behind the safety properties of Delivery.        *)
(***************************************************************************)
EXTENDS Delivery

\* Goroutines that have a copy of a row but have not claimed it yet.
Hopeful == {"spawned", "claim"}

\* The count reaches MaximumRetryAttempts + 1 only with no answer outstanding,
\* so that the count of the next attempt does not grow any more.
WithinLimit(r) ==
    \/ r.retry_count <= MaximumRetryAttempts
    \/ r.retry_count = MaximumRetryAttempts + 1 /\ r.ack_deadline = 0

LimitInv ==
    \A i \in Items :
        /\ WithinLimit(queue[i])
        /\ \A s \in Slots :
              /\ WithinLimit(worker[i][s].item)
              /\ worker[i][s].pc \in {"deliver", "delivered", "failed"} =>
                    ~Exhausted(worker[i][s].item)

\* Rows that were never inserted have no goroutines and no pushes.
UnsentInv ==
    \A i \in Items : queue[i].stored = "unsent" =>
        sent[i] = 0 /\ \A s \in Slots : worker[i][s].pc = "idle"

\* A copy was due when it was taken; no clock reading is in the future; an
\* ack_deadline is never later than the next_retry beside it.
ClockInv ==
    \A i \in Items :
        /\ queue[i].ack_deadline <= queue[i].next_retry
        /\ \A s \in Slots : LET w == worker[i][s] IN
              /\ w.item.ack_deadline <= w.item.next_retry
              /\ w.pc \in Hopeful => w.item.next_retry <= now
              /\ w.pc \in {"claim"} \cup Holding =>
                    w.item.next_retry <= w.now /\ w.now <= now

\* The lease at work, for a row none of whose goroutines has overrun.
Lease(i) ==
    \A s \in Slots : LET w == worker[i][s] IN
        \* the lease of a goroutine at work is not over
        /\ w.pc \in {"claim"} \cup Holding => now < w.now + DeliveryLockDuration
        \* a holder's copy differs from the row by the lease alone
        /\ w.pc \in Holding =>
              /\ queue[i].next_retry = w.now + DeliveryLockDuration
              /\ queue[i].retry_count = w.item.retry_count
              /\ queue[i].ack_deadline = w.item.ack_deadline
        \* a copy whose compare-and-set may succeed is fresh
        /\ w.pc \in Hopeful =>
              /\ w.item.next_retry <= queue[i].next_retry
              /\ w.item.next_retry = queue[i].next_retry =>
                    /\ queue[i].retry_count = w.item.retry_count
                    /\ queue[i].ack_deadline = w.item.ack_deadline
        \* what the holder will store defeats every copy still around
        /\ \A s2 \in Slots :
              w.pc \in Holding /\ worker[i][s2].pc \in Hopeful =>
                  worker[i][s2].item.next_retry <= w.now
        /\ \A s2 \in Slots :
              w.pc \in Holding /\ worker[i][s2].pc \in Holding => s = s2

LeaseInv == \A i \in Items \ overran : Lease(i)

\* Every push is on the row's account, on that of the goroutine about to book
\* it, or was lost to a fault.
SentAccounted(i) ==
    /\ sent[i] <= MaximumRetryAttempts + 1 + faults
    /\ \A s \in Slots : LET w == worker[i][s] IN
          /\ w.pc \in {"deliver", "failed", "terminal"} =>
                sent[i] <= RetryCount(w.item) + faults
          /\ w.pc = "delivered" => sent[i] <= RetryCount(w.item) + 1 + faults
    /\ Queued(i) /\ (\A s \in Slots : worker[i][s].pc \notin Holding) =>
          sent[i] <= RetryCount(queue[i]) + faults

SentInv == \A i \in Items \ overran : SentAccounted(i)

\* The notifications of a row, those its goroutines are about to send included.
Notifying(i) == {s \in Slots : worker[i][s].pc = "push"}
Notified(i) == pushed[i] + Cardinality(Notifying(i))

\* A failure of the row may still count as its first.
FirstFailureAhead(i) ==
    /\ queue[i].retry_count = 0
    /\ Queued(i) \/ \E s \in Slots : worker[i][s].pc \in Holding

\* Every notification but one is on the account of a fault, and that one as
\* well while a first failure is still ahead.
PushAccounted(i) ==
    /\ IsFiniteSet(Notifying(i))
    /\ Notified(i) <= 1 + faults
    /\ FirstFailureAhead(i) => Notified(i) <= faults
    /\ queue[i].stored = "unsent" => Notified(i) = 0

PushInv == \A i \in Items \ overran : PushAccounted(i)

IInv ==
    /\ TypeOK
    /\ LimitInv
    /\ UnsentInv
    /\ ClockInv
    /\ LeaseInv
    /\ SentInv
    /\ PushInv

=============================================================================
