------------------------------ MODULE Attempts ------------------------------
(***************************************************************************)
(* What the retry protocol promises about the rows of the queue: as if each  *)
(* row had a lock.  Whoever takes a row has it to himself until he settles   *)
(* it; he makes one attempt, and only if there are attempts left; and what   *)
(* he books is counted from what was booked when he took it.  Only a fault   *)
(* loses an outcome.  The rows are independent of each other, and of a row   *)
(* whose lease somebody has outlived nothing is promised any more.           *)
(***************************************************************************)
EXTENDS Integers

CONSTANTS Items, MaxRetries

VARIABLES
    rows,       \* the rows: stored, phase of the attempt, tries, unanswered, sent
    losses,     \* the faults so far
    loose       \* the rows that had their lease outlived

Start ==
    /\ rows = [i \in Items |-> [stored |-> "unsent", phase |-> "free",
                                tries |-> 0, unanswered |-> FALSE, sent |-> 0]]
    /\ losses = 0
    /\ loose = {}

-----------------------------------------------------------------------------
(* The steps of a row, from r to q.                                        *)

Store(r, q) ==
    /\ r.stored = "unsent" /\ r.phase = "free"
    /\ q = [r EXCEPT !.stored = "queued", !.tries = 0, !.unanswered = FALSE]

\* An attempt that was not answered counts when the row is taken again.
Counted(r) == IF r.unanswered THEN r.tries + 1 ELSE r.tries

Take(r, q) ==
    /\ r.stored = "queued" /\ r.phase = "free"
    /\ q = [r EXCEPT !.phase = IF Counted(r) > MaxRetries THEN "terminal"
                                                          ELSE "deliver"]

\* The one attempt; the row may be gone by now.
Attempt(r, q) ==
    /\ r.phase = "deliver"
    /\ \/ q = [r EXCEPT !.phase = "delivered", !.sent = r.sent + 1]
       \/ q = [r EXCEPT !.phase = "failed"]

\* A failure counts at once.
Settle(r, q) ==
    /\ r.phase \in {"delivered", "failed", "terminal"}
    /\ q = IF r.stored = "queued"
           THEN [r EXCEPT !.phase = "free",
                          !.tries = IF r.phase = "failed" THEN r.tries + 1
                                                          ELSE Counted(r),
                          !.unanswered = (r.phase = "delivered")]
           ELSE [r EXCEPT !.phase = "free"]

Remove(r, q) ==
    /\ r.stored = "queued"
    /\ q = [r EXCEPT !.stored = "gone"]

Step(r, q) ==
    Store(r, q) \/ Take(r, q) \/ Attempt(r, q) \/ Settle(r, q) \/ Remove(r, q)

Lose(r, q) == q = [r EXCEPT !.phase = "free"]

-----------------------------------------------------------------------------

Next ==
    /\ losses' >= losses
    /\ loose \subseteq loose'
    /\ \A i \in Items \ loose' :
          \/ rows'[i] = rows[i]
          \/ Step(rows[i], rows'[i])
          \/ losses' > losses /\ Lose(rows[i], rows'[i])

Spec == Start /\ [][Next]_<<rows, losses, loose>>

=============================================================================
