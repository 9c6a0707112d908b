--------------------------- MODULE MCDeliveryLive ---------------------------
(***************************************************************************)
(* Delivery under a clock that never stops, in finitely many states, for     *)
(* liveness.                                                               *)
(*                                                                         *)
(* No step depends on how large a time is.  A time that has come is compared *)
(* with other times and nothing more; only to the clock, and to the time a   *)
(* goroutine has read, are durations added.  So each second here renames the *)
(* times: those before every time a goroutine has read become 1, 2, ... in   *)
(* their order, and the rest follow with the distances they have.           *)
(*                                                                         *)
(* The clock waits for goroutines whose lease is about to end: what happens  *)
(* when one outlives it is another question, see overran in Delivery.       *)
(***************************************************************************)
EXTENDS Delivery, TLC

CONSTANTS m1, m2, d1, s1

TwoItems == {m1, m2}
OneDevice == {d1}
ToOneDevice == [i \in Items |-> d1]
OneSlot == {s1}

-----------------------------------------------------------------------------

Goroutines == {worker[i][s] : i \in Items, s \in Slots}

\* Those that will still use the time they have read, and those that will still
\* use the next_retry in their copy.
Timed == {w \in Goroutines : w.pc \in {"claim"} \cup Holding}
Unclaimed == {w \in Goroutines : w.pc \in {"spawned", "claim"}}

\* From here on distances matter: durations are added to some of these times.
Base == CHOOSE t \in {now + 1} \cup {w.now : w \in Timed} :
            t <= now + 1 /\ \A w \in Timed : t <= w.now

\* The times that are compared with others.
Times == {queue[i].next_retry : i \in {j \in Items : Queued(j)}}
            \cup {queue[i].expiry : i \in {j \in Items : Queued(j)}}
            \cup {w.item.next_retry : w \in Unclaimed}
            \cup {w.now : w \in Timed}
            \cup {0, now + 1}

\* 0 is the default of next_retry, a time that precedes all others.  An expiry
\* that has come is compared with the clock only, see RenamedRow.
Renaming ==
    LET base == Base
        past == {queue[i].next_retry : i \in {j \in Items : Queued(j)}}
                   \cup {w.item.next_retry : w \in Unclaimed}
        earlier(t) == Cardinality({u \in past : 0 < u /\ u < base /\ u <= t})
    IN  [t \in Times |-> IF t < base THEN earlier(t)
                                    ELSE t - base + earlier(base) + 1]

\* An ack_deadline is compared with 0.  What a deleted row contained, and what a
\* call has read that uses it no more, is forgotten, as is the history.
RenamedRow(row, new) ==
    IF row.stored = "queued"
    THEN [row EXCEPT !.next_retry = new[@],
                     !.expiry = IF @ <= now + 1 THEN 0 ELSE new[@],
                     !.ack_deadline = IF @ > 0 THEN 1 ELSE 0]
    ELSE [NoRow EXCEPT !.stored = row.stored]

RenamedWorker(w, new) ==
    [w EXCEPT !.now = IF w \in Timed THEN new[@] ELSE 0,
              !.item.next_retry = IF w \in Unclaimed THEN new[@] ELSE 0,
              !.item.ack_deadline = IF @ > 0 THEN 1 ELSE 0]

NextSecond ==
    /\ \A i \in Items, s \in Slots : ~OutlivesLease(i, s)
    /\ LET new == Renaming
       IN  /\ now' = new[now + 1]
           /\ queue' = [i \in Items |-> RenamedRow(queue[i], new)]
           /\ worker' = [i \in Items |->
                           [s \in Slots |-> RenamedWorker(worker[i][s], new)]]
    /\ sent' = [i \in Items |-> 0]
    /\ pushed' = [i \in Items |-> 0]
    /\ UNCHANGED <<online, faults, overran>>

\* MaxTime = 0, so that Tick is never enabled: NextSecond is in its place.
LiveSpec ==
    /\ Init
    /\ [][Next \/ NextSecond]_vars
    /\ Fairness
    /\ WF_vars(NextSecond)

=============================================================================
