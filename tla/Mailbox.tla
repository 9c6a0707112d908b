------------------------------- MODULE Mailbox -------------------------------
(***************************************************************************)
(* The mailboxes of the devices: who may put a message into one, in which    *)
(* order its messages are numbered, how full it gets and what senders are    *)
(* told.                                                                   *)
(*                                                                         *)
(* A request of SendRelayMessage runs a chain of separate SQL statements:   *)
(* it checks the sending device, the recipient and the friendship, and ends *)
(* with one INSERT.  Version 2 addresses one device, reads the last         *)
(* sequence number in a statement of its own and stores it plus one with a  *)
(* message id; version 1 addresses a user and stores a copy per device,     *)
(* numbered inside the INSERT.  Requests of any number of clients interleave*)
(* between any two statements, and so do registrations and revocations of   *)
(* devices, changes of friendships, acknowledgements and the cleanup.       *)
(***************************************************************************)
EXTENDS Integers, FiniteSets

CONSTANTS
    Users,
    Devices,
    Owner,                  \* the user who registers a device
    MessageIds,
    Payloads,
    Size,                   \* length of a payload
    None,                   \* the NULL of message_id and sender_device_id
    Requests,               \* bound: the calls of SendRelayMessage
    Calls,                  \* what they may ask for
    MaxDevices,             \* per user
    MaxMailboxMessages,
    MaxMailboxBytes,
    MaxEnvelopeBytes,
    MaxFaults               \* bound on failing statements

\* Version 2 names a device and a message id, version 1 a user.
Call2 == [version: {2}, uid: Users, from: Devices, to: Devices,
          mid: MessageIds, payload: Payloads]

Call1 == [version: {1}, uid: Users, from: Devices, to: Users,
          mid: {None}, payload: Payloads]

ASSUME MailboxAssumption ==
    /\ Owner \in [Devices -> Users]
    /\ Size \in [Payloads -> Nat]
    /\ None \notin MessageIds \cup Devices
    /\ Calls \subseteq Call1 \cup Call2
    /\ IsFiniteSet(Devices)
    /\ MaxDevices \in Nat
    /\ MaxMailboxMessages \in Nat
    /\ MaxMailboxBytes \in Nat
    /\ MaxEnvelopeBytes \in Nat
    /\ MaxFaults \in Nat

VARIABLES
    queue,      \* delivery_queue: a set of rows
    nextId,     \* its AUTOINCREMENT counter
    status,     \* devices.status, "ABSENT" where there is no row
    friends,    \* friendships: a set of pairs of users
    req,        \* the handlers' local state
    faults,     \* failed statements so far
    \* History, read by no action:
    inserted,   \* every row that was ever in the queue
    seen        \* per request, what was the case when it began

vars == <<queue, nextId, status, friends, req, faults, inserted, seen>>

-----------------------------------------------------------------------------

Row == [id: Nat, device: Devices, sender: Devices \cup {None},
        mid: MessageIds \cup {None}, payload: Payloads,
        sequence: Nat \ {0}]

\* Where a request is: before a check, before its INSERT, or answered.
PC == {"idle", "sender", "owner", "friend", "active", "devices",
       "sequence", "insert", "lookup", "fanout", "done"}

Reply == {"none", "ok", "error", "unauthorized", "forbidden", "not_found",
          "no_devices", "conflict", "quota"}

Request == [pc: PC, reply: Reply, call: Calls \cup {None},
            sequence: Nat, targets: SUBSET Devices]

Status == {"ABSENT", "ACTIVE", "REVOKED"}

Pairs == {pair \in SUBSET Users : Cardinality(pair) = 2}

\* start: the next row id; status: the devices; strangers: sender and recipient
\* have not been friends since; full: the INSERT found no room; guessed: the
\* last sequence number could not be read.
Seen == [start: Nat, status: [Devices -> Status],
         strangers: BOOLEAN, full: BOOLEAN, guessed: BOOLEAN]

TypeOK ==
    /\ queue \subseteq Row
    /\ nextId \in Nat
    /\ status \in [Devices -> Status]
    /\ friends \subseteq Pairs
    /\ req \in [Requests -> Request]
    /\ \A r \in Requests : req[r].pc # "idle" => req[r].call \in Calls
    /\ faults \in Nat
    /\ inserted \subseteq Row
    /\ seen \in [Requests -> Seen]

IdleRequest == [pc |-> "idle", reply |-> "none", call |-> None,
                sequence |-> 0, targets |-> {}]

Init ==
    /\ queue = {}
    /\ nextId = 1
    /\ status = [d \in Devices |-> "ABSENT"]
    /\ friends = {}
    /\ req = [r \in Requests |-> IdleRequest]
    /\ faults = 0
    /\ inserted = {}
    /\ seen = [r \in Requests |->
                 [start |-> 0, status |-> [d \in Devices |-> "ABSENT"],
                  strangers |-> FALSE, full |-> FALSE, guessed |-> FALSE]]

-----------------------------------------------------------------------------
(* The queries.                                                            *)

Mailbox(d) == {x \in queue : x.device = d}

\* The bytes of these rows, so that SUM(LENGTH(payload)) is their number.
Bytes(rows) == UNION {{x} \X (1 .. Size[x.payload]) : x \in rows}

Used(d) == Cardinality(Bytes(Mailbox(d)))

Recipient(call) == IF call.version = 2 THEN Owner[call.to] ELSE call.to

Friends(u, v) == u = v \/ {u, v} \in friends

IsKnown(d) == status[d] # "ABSENT"

IsActive(d) == status[d] = "ACTIVE"

\* A plausible bug: version 2 senders are not checked.
MayWriteUnchecked(call) ==
    call.version = 2 \/ Friends(call.uid, Recipient(call))

MayWrite(call) == Friends(call.uid, Recipient(call))

\* Plausible bugs: the new row is counted twice, or left out of the sum.
RoomTooTight(d, payload) ==
    /\ Cardinality(Mailbox(d)) + 1 < MaxMailboxMessages
    /\ Used(d) + Size[payload] <= MaxMailboxBytes

RoomIgnoringSize(d, payload) ==
    /\ Cardinality(Mailbox(d)) < MaxMailboxMessages
    /\ Used(d) <= MaxMailboxBytes

\* The two limits in the WHERE clause of the INSERTs.
HasRoom(d, payload) ==
    /\ Cardinality(Mailbox(d)) < MaxMailboxMessages
    /\ Used(d) + Size[payload] <= MaxMailboxBytes

\* A plausible bug: whatever has the message id is taken for this envelope.
SameId(x, call) == x.mid = call.mid

\* EnqueueEnvelope's comparison of the row it lost against.
SameEnvelope(x, call) ==
    x.sender = call.from /\ x.device = call.to /\ x.payload = call.payload

\* The unique index on message_id, for all mailboxes together.
Taken(call) == \E x \in queue : x.mid = call.mid

\* A plausible bug: some sequence number of the mailbox, not the last one.
IsSomeSequence(d, n) == n \in {0} \cup {x.sequence : x \in Mailbox(d)}

\* What GetLastSequence returns: 0 or the greatest number in the mailbox.
IsLastSequence(d, n) ==
    /\ n \in {0} \cup {x.sequence : x \in Mailbox(d)}
    /\ \A x \in Mailbox(d) : x.sequence <= n

\* A plausible bug: a sentinel for "unknown".
MinusOne == -1

\* The last number where GetLastSequence fails: its error is dropped.
UnreadSequence == 0

\* The number of the row inserted last, plus one; 1 for an empty mailbox.
FanOutSequence(d) ==
    IF Mailbox(d) = {}
    THEN 1
    ELSE (CHOOSE x \in Mailbox(d) : \A y \in Mailbox(d) : y.id <= x.id).sequence
            + 1

-----------------------------------------------------------------------------
(* SendRelayMessage, statement by statement.                               *)

Goto(r, pc) == req' = [req EXCEPT ![r].pc = pc]

Answer(r, reply) ==
    req' = [req EXCEPT ![r].pc = "done", ![r].reply = reply]

tables == <<queue, nextId, status, friends, inserted>>

Begin(r, call) ==
    /\ req[r].pc = "idle"
    /\ req' = [req EXCEPT ![r].pc = "sender", ![r].call = call]
    /\ seen' = [seen EXCEPT ![r] =
                  [start |-> nextId, status |-> status,
                   strangers |-> ~Friends(call.uid, Recipient(call)),
                   full |-> FALSE, guessed |-> FALSE]]
    /\ UNCHANGED <<tables, faults>>

\* ValidateActiveDeviceOwnership of the sending device.
CheckSender(r) ==
    LET call == req[r].call
    IN  /\ req[r].pc = "sender"
        /\ IF IsActive(call.from) /\ Owner[call.from] = call.uid
           THEN Goto(r, IF call.version = 2 THEN "owner" ELSE "friend")
           ELSE Answer(r, "unauthorized")
        /\ UNCHANGED <<tables, faults, seen>>

\* GetDeviceOwner of the recipient: the row will do, whatever its status.
FindOwner(r) ==
    /\ req[r].pc = "owner"
    /\ IF IsKnown(req[r].call.to)
       THEN Goto(r, "friend")
       ELSE Answer(r, "not_found")
    /\ UNCHANGED <<tables, faults, seen>>

CheckFriendship(r) ==
    LET call == req[r].call
    IN  /\ req[r].pc = "friend"
        /\ IF MayWrite(call)
           THEN Goto(r, IF call.version = 2 THEN "active" ELSE "devices")
           ELSE Answer(r, "forbidden")
        /\ UNCHANGED <<tables, faults, seen>>

CheckActive(r) ==
    /\ req[r].pc = "active"
    /\ IF IsActive(req[r].call.to)
       THEN Goto(r, "sequence")
       ELSE Answer(r, "not_found")
    /\ UNCHANGED <<tables, faults, seen>>

ReadSequence(r) ==
    /\ req[r].pc = "sequence"
    /\ \/ \E last \in {0} \cup {x.sequence : x \in queue} :
             /\ IsLastSequence(req[r].call.to, last)
             /\ req' = [req EXCEPT ![r].pc = "insert", ![r].sequence = last + 1]
          /\ UNCHANGED <<faults, seen>>
       \/ /\ faults < MaxFaults
          /\ faults' = faults + 1
          /\ req' = [req EXCEPT ![r].pc = "insert",
                                   ![r].sequence = UnreadSequence + 1]
          /\ seen' = [seen EXCEPT ![r].guessed = TRUE]
    /\ UNCHANGED tables

\* EnqueueEnvelope.  No row is inserted when there is no room, nor when the
\* message id is taken; a second statement finds out which.
InsertEnvelope(r) ==
    LET call == req[r].call
    IN  /\ req[r].pc = "insert"
        /\ \/ /\ Size[call.payload] > MaxEnvelopeBytes
              /\ Answer(r, "error")
              /\ UNCHANGED <<queue, inserted, nextId, seen>>
           \/ /\ Size[call.payload] <= MaxEnvelopeBytes
              /\ HasRoom(call.to, call.payload) /\ ~Taken(call)
              /\ LET row == [id |-> nextId, device |-> call.to,
                             sender |-> call.from, mid |-> call.mid,
                             payload |-> call.payload,
                             sequence |-> req[r].sequence]
                 IN  /\ queue' = queue \cup {row}
                     /\ inserted' = inserted \cup {row}
              /\ nextId' = nextId + 1
              /\ Answer(r, "ok")
              /\ UNCHANGED seen
           \/ /\ Size[call.payload] <= MaxEnvelopeBytes
              /\ ~(HasRoom(call.to, call.payload) /\ ~Taken(call))
              /\ Goto(r, "lookup")
              /\ seen' = [seen EXCEPT
                            ![r].full = ~HasRoom(call.to, call.payload)]
              /\ UNCHANGED <<queue, inserted, nextId>>
        /\ UNCHANGED <<status, friends, faults>>

LookUp(r) ==
    LET call == req[r].call
        holders == {x \in queue : x.mid = call.mid}
    IN  /\ req[r].pc = "lookup"
        /\ Answer(r, IF holders = {} THEN "quota"
                     ELSE IF \E x \in holders : SameEnvelope(x, call) THEN "ok"
                     ELSE "conflict")
        /\ UNCHANGED <<tables, faults, seen>>

\* GetDevicesByUser.
ListDevices(r) ==
    LET devices == {d \in Devices :
                      IsActive(d) /\ Owner[d] = req[r].call.to}
    IN  /\ req[r].pc = "devices"
        /\ IF devices = {}
           THEN Answer(r, "no_devices")
           ELSE req' = [req EXCEPT ![r].pc = "fanout", ![r].targets = devices]
        /\ UNCHANGED <<tables, faults, seen>>

\* FanOutMessage: one INSERT for all devices, which skips the full ones.
FanOut(r) ==
    LET call == req[r].call
        open == {d \in req[r].targets : HasRoom(d, call.payload)}
        next == nextId + Cardinality(open)
    IN  /\ req[r].pc = "fanout"
        /\ \E id \in [open -> nextId .. next - 1] :
              /\ \A d, e \in open : id[d] = id[e] => d = e
              /\ LET rows == {[id |-> id[d], device |-> d, sender |-> None,
                               mid |-> None, payload |-> call.payload,
                               sequence |-> FanOutSequence(d)] : d \in open}
                 IN  queue' = queue \cup rows /\ inserted' = inserted \cup rows
        /\ nextId' = next
        /\ Answer(r, IF open = {} THEN "quota" ELSE "ok")
        /\ UNCHANGED <<status, friends, faults, seen>>

\* Any other statement that fails ends the request.
StatementFails(r) ==
    /\ req[r].pc \notin {"idle", "sequence", "done"}
    /\ faults < MaxFaults
    /\ faults' = faults + 1
    /\ Answer(r, "error")
    /\ UNCHANGED <<tables, seen>>

Send(r) ==
    \/ \E call \in Calls : Begin(r, call)
    \/ CheckSender(r)
    \/ FindOwner(r)
    \/ CheckFriendship(r)
    \/ CheckActive(r)
    \/ ReadSequence(r)
    \/ InsertEnvelope(r)
    \/ LookUp(r)
    \/ ListDevices(r)
    \/ FanOut(r)
    \/ StatementFails(r)

-----------------------------------------------------------------------------
(* The handlers around it.                                                 *)

\* The rows of revoked devices count: they are never deleted.
RegisterDevice(d) ==
    /\ status[d] = "ABSENT"
    /\ Cardinality({e \in Devices : Owner[e] = Owner[d] /\ IsKnown(e)})
          < MaxDevices
    /\ status' = [status EXCEPT ![d] = "ACTIVE"]
    /\ UNCHANGED <<queue, nextId, friends, req, faults, inserted, seen>>

RevokeDevice(d) ==
    /\ IsActive(d)
    /\ status' = [status EXCEPT ![d] = "REVOKED"]
    /\ UNCHANGED <<queue, nextId, friends, req, faults, inserted, seen>>

\* A request is accepted; a friend is removed.
Befriend(pair) ==
    /\ pair \notin friends
    /\ friends' = friends \cup {pair}
    /\ seen' = [r \in Requests |->
                  IF /\ req[r].pc # "idle"
                     /\ {req[r].call.uid, Recipient(req[r].call)} = pair
                  THEN [seen[r] EXCEPT !.strangers = FALSE]
                  ELSE seen[r]]
    /\ UNCHANGED <<queue, nextId, status, req, faults, inserted>>

RemoveFriend(pair) ==
    /\ pair \in friends
    /\ friends' = friends \ {pair}
    /\ UNCHANGED <<queue, nextId, status, req, faults, inserted, seen>>

\* The device was active when the handler checked it, maybe no longer when the
\* row is deleted.
AcknowledgeMessage(x) ==
    /\ IsKnown(x.device)
    /\ queue' = queue \ {x}
    /\ UNCHANGED <<nextId, status, friends, req, faults, inserted, seen>>

\* The rows that have expired, which may be any as far as this module goes.
Cleanup(expired) ==
    /\ queue' = queue \ expired
    /\ UNCHANGED <<nextId, status, friends, req, faults, inserted, seen>>

Next ==
    \/ \E r \in Requests : Send(r)
    \/ \E d \in Devices : RegisterDevice(d) \/ RevokeDevice(d)
    \/ \E pair \in Pairs : Befriend(pair) \/ RemoveFriend(pair)
    \/ \E x \in queue : AcknowledgeMessage(x)
    \/ \E expired \in SUBSET queue : expired # {} /\ Cleanup(expired)

Spec == Init /\ [][Next]_vars

-----------------------------------------------------------------------------
(* Properties.                                                             *)

SameContent(x, call) ==
    x.sender = call.from /\ x.device = call.to /\ x.payload = call.payload

Stored(call) ==
    \E x \in inserted : x.mid = call.mid /\ SameContent(x, call)

OtherStored(call) ==
    \E x \in inserted : x.mid = call.mid /\ ~SameContent(x, call)

CopyStored(call, start) ==
    \E x \in inserted : /\ x.id >= start
                        /\ Owner[x.device] = call.to
                        /\ x.payload = call.payload

\* No mailbox holds more messages or bytes than allowed, however many requests
\* passed their checks at the same time.
QuotaRespected ==
    \A d \in Devices :
        /\ Cardinality(Mailbox(d)) <= MaxMailboxMessages
        /\ Used(d) <= MaxMailboxBytes

\* Two queued rows never have the same message id, whoever sent them to whom.
MessageIdUnique ==
    \A x, y \in queue : x.mid = y.mid /\ x.mid # None => x = y

\* A version 2 sender is told "ok" only if its envelope has been in the
\* mailbox, and "conflict" only if another envelope with its id has been stored;
\* a version 1 sender is told "ok" only if this request stored a copy.
RepliesAreTrue ==
    \A r \in Requests :
        /\ req[r].reply = "ok" /\ req[r].call.version = 2 => Stored(req[r].call)
        /\ req[r].reply = "conflict" => OtherStored(req[r].call)
        /\ req[r].reply = "ok" /\ req[r].call.version = 1 =>
              CopyStored(req[r].call, seen[r].start)

\* The rows the step of request r adds.
Added(r) == IF req'[r] # req[r] THEN inserted' \ inserted ELSE {}

\* An envelope whose sending began when another message was in the mailbox
\* already gets a greater sequence number: polls return the two in that order.
CausalOrder ==
    [][\A r \in Requests : req[r].call # None /\ req[r].call.version = 2
                          /\ ~seen[r].guessed =>
          \A y \in Added(r), x \in queue :
             x.device = y.device /\ x.id < seen[r].start =>
                x.sequence < y.sequence]_vars

\* A device that was registered before a version 1 request began, and is not
\* revoked, is skipped only when its mailbox is full.
FanOutReachesAll ==
    [][\A r \in Requests : req[r].pc = "fanout" /\ req'[r].reply = "ok" =>
          \A d \in Devices :
             /\ Owner[d] = req[r].call.to
             /\ seen[r].status[d] = "ACTIVE" /\ status[d] = "ACTIVE"
             /\ \A y \in Added(r) : y.device # d
             => \/ Cardinality(Mailbox(d)) = MaxMailboxMessages
                \/ Used(d) + Size[req[r].call.payload] > MaxMailboxBytes]_vars

\* A request that began after a device was revoked stores nothing for it, and
\* nothing in its name.
RevokedStaysClosed ==
    [][\A r \in Requests, y \in inserted' \ inserted : y \in Added(r) =>
          /\ seen[r].status[y.device] # "REVOKED"
          /\ seen[r].status[req[r].call.from] # "REVOKED"]_vars

\* A message is stored only if sender and recipient were friends at some time
\* while the request ran, or are the same user.
NoStranger ==
    [][\A r \in Requests : Added(r) # {} => ~seen[r].strangers]_vars

\* Refuted: what documentation and tests say, see the README.

\* The messages of a mailbox have different sequence numbers.
SequenceUnique ==
    \A x, y \in queue :
        x.device = y.device /\ x.sequence = y.sequence => x = y

\* The fan-out numbers a copy above everything in the mailbox, MAX(sequence) plus
\* one.  It does while each newer row has the greater number; a version 2 row
\* stored late, with a number read early, ends that.
FanOutExtends ==
    [][\A y \in inserted' \ inserted : y.mid = None =>
          \A x \in queue : x.device = y.device => x.sequence < y.sequence]_vars

\* "quota" is only answered when the mailbox was full.
QuotaReplyIsTrue ==
    \A r \in Requests :
        req[r].reply = "quota" /\ req[r].call.version = 2 => seen[r].full

\* A message id is stored once, however often its envelope is sent.
StoredOnce ==
    \A x, y \in inserted : x.mid = y.mid /\ x.mid # None => x = y

=============================================================================
