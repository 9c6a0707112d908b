-------------------------- MODULE MailboxInvariant --------------------------
(***************************************************************************)
(* The inductive invariant behind the safety properties of Mailbox.         *)
(***************************************************************************)
EXTENDS Mailbox

\* Rows have been inserted, and numbered below the counter.
RowsInv ==
    /\ queue \subseteq inserted
    /\ \A x \in inserted : x.id < nextId

\* What a request has passed by the time it gets to each of its steps.
Running == PC \ {"idle", "done"}
PastSender == Running \ {"sender"}
PastFriend == PastSender \ {"owner", "friend"}
ToInsert == {"sequence", "insert", "lookup"}
Version2 == {"owner", "active"} \cup ToInsert
Version1 == {"devices", "fanout"}

\* What was the case when a request began bounds what is the case now: ids have
\* grown, revoked devices stay so, strangers have not met.
SeenAt(r) ==
    req[r].pc # "idle" =>
        /\ seen[r].start <= nextId
        /\ \A d \in Devices :
              seen[r].status[d] = "REVOKED" => status[d] = "REVOKED"
        /\ seen[r].strangers => ~MayWrite(req[r].call)

\* The checks a request has passed ruled out what was the case when it began.
ChecksAt(r) ==
    LET call == req[r].call IN
    /\ req[r].pc \in Version2 => call.version = 2
    /\ req[r].pc \in Version1 => call.version = 1
    /\ req[r].pc \in PastSender => seen[r].status[call.from] # "REVOKED"
    /\ req[r].pc \in ToInsert => seen[r].status[call.to] # "REVOKED"
    /\ req[r].pc \in PastFriend => ~seen[r].strangers
    /\ req[r].pc = "fanout" =>
          \A d \in req[r].targets :
             seen[r].status[d] # "REVOKED" /\ Owner[d] = call.to

\* What was in the mailbox when the request began is numbered below the number
\* the request has ready.
SequenceAt(r) ==
    req[r].pc = "insert" =>
        /\ req[r].sequence # 0
        /\ ~seen[r].guessed =>
              \A x \in queue :
                 x.device = req[r].call.to /\ x.id < seen[r].start =>
                    x.sequence < req[r].sequence

ReplyAt(r) ==
    /\ req[r].pc # "done" => req[r].reply = "none"
    /\ req[r].reply = "ok" /\ req[r].call.version = 2 => Stored(req[r].call)
    /\ req[r].reply = "conflict" => OtherStored(req[r].call)
    /\ req[r].reply = "ok" /\ req[r].call.version = 1 =>
          CopyStored(req[r].call, seen[r].start)

RequestInv(r) == SeenAt(r) /\ ChecksAt(r) /\ SequenceAt(r) /\ ReplyAt(r)

\* A device that was active when the request began has a row for good.
\* Once the devices are listed, it is among them unless it was revoked.
ListedAt(r) ==
    /\ req[r].pc # "idle" =>
          \A d \in Devices : seen[r].status[d] = "ACTIVE" => IsKnown(d)
    /\ req[r].pc = "fanout" =>
          \A d \in Devices :
             /\ Owner[d] = req[r].call.to
             /\ seen[r].status[d] = "ACTIVE" /\ IsActive(d)
             => d \in req[r].targets

\* The counts in the WHERE clauses are those of finite sets.
FiniteInv ==
    \A d \in Devices :
        IsFiniteSet(Mailbox(d)) /\ IsFiniteSet(Bytes(Mailbox(d)))

QuotaInv == FiniteInv /\ QuotaRespected

IInv ==
    /\ TypeOK
    /\ RowsInv
    /\ MessageIdUnique
    /\ \A r \in Requests : RequestInv(r)

\* What the quota and the fan-out need on top of it.
QInv ==
    /\ IInv
    /\ QuotaInv
    /\ \A r \in Requests : ListedAt(r)

=============================================================================
