---------------------------- MODULE MailboxProofs ----------------------------
(***************************************************************************)
(* Mailbox satisfies its safety properties for every choice of users,       *)
(* devices, messages, limits and any number of concurrent requests.         *)
(***************************************************************************)
EXTENDS MailboxInvariant, TLAPS, FiniteSetTheorems, WellFoundedInduction

USE MailboxAssumption

-----------------------------------------------------------------------------
(* Lemmas about the operators.                                             *)

\* The fields of the two kinds of calls.
LEMMA CallTypes ==
    ASSUME NEW call \in Calls
    PROVE  /\ call.version \in {1, 2}
           /\ call.uid \in Users /\ call.from \in Devices
           /\ call.payload \in Payloads
           /\ call.version = 2 => call.to \in Devices /\ call.mid \in MessageIds
           /\ call.version = 1 => call.to \in Users
           /\ Recipient(call) \in Users
<1>1. call \in Call1 \/ call \in Call2
  OBVIOUS
<1>2. CASE call \in Call1
  BY <1>2 DEF Call1, Recipient
<1>3. CASE call \in Call2
  BY <1>3 DEF Call2, Recipient
<1>. QED  BY <1>1, <1>2, <1>3

\* A nonempty mailbox has a row inserted last.
LEMMA LastRow ==
    ASSUME NEW rows, NEW bound \in Nat, rows # {},
           \A x \in rows : x.id \in Nat /\ x.id < bound
    PROVE  \E x \in rows : \A y \in rows : y.id <= x.id
<1>. DEFINE left == {bound - x.id : x \in rows}
<1>1. left \subseteq Nat /\ left # {}
  OBVIOUS
<1>2. PICK n \in left : \A m \in left : ~(<<m, n>> \in OpToRel(<, Nat))
  BY <1>1, NatLessThanWellFounded, WFMin
<1>3. \A m \in left : ~(m < n)
  BY <1>1, <1>2 DEF OpToRel
<1>4. PICK x \in rows : n = bound - x.id
  BY <1>2
<1>5. ASSUME NEW y \in rows
      PROVE  y.id <= x.id
  <2>1. ~(bound - y.id < bound - x.id)
    BY <1>3, <1>4, <1>5
  <2>. QED  BY <2>1
<1>. QED  BY <1>5

\* The fan-out numbers a copy from 1.
LEMMA FanOutSequenceType ==
    ASSUME TypeOK, RowsInv, NEW d \in Devices
    PROVE  FanOutSequence(d) \in Nat \ {0}
<1>1. CASE Mailbox(d) = {}
  BY <1>1 DEF FanOutSequence
<1>2. CASE Mailbox(d) # {}
  <2>. DEFINE newest(x) == \A y \in Mailbox(d) : y.id <= x.id
  <2>1. \A x \in Mailbox(d) :
           x.id \in Nat /\ x.id < nextId /\ x.sequence \in Nat
    BY DEF Mailbox, TypeOK, RowsInv, Row
  <2>2. \E x \in Mailbox(d) : newest(x)
    BY <1>2, <2>1, LastRow DEF TypeOK
  <2>3. (CHOOSE x \in Mailbox(d) : newest(x)) \in Mailbox(d)
    BY <2>2
  <2>4. (CHOOSE x \in Mailbox(d) : newest(x)).sequence \in Nat
    BY <2>1, <2>3
  <2>. QED  BY <1>2, <2>4 DEF FanOutSequence
<1>. QED  BY <1>1, <1>2

\* The numbers of the rows of a fan-out are natural.
LEMMA OpenCount ==
    ASSUME NEW S \in SUBSET Devices
    PROVE  Cardinality(S) \in Nat
BY FS_Subset, FS_CardinalityType

-----------------------------------------------------------------------------
(* What the steps change.                                                  *)

\* The step is request r's alone.
Alone(r) == \A s \in Requests \ {r} : req'[s] = req[s] /\ seen'[s] = seen[s]

\* The typed fields of a request that has begun.
LEMMA RequestType ==
    ASSUME TypeOK, NEW r \in Requests
    PROVE  /\ req[r] \in Request /\ seen[r] \in Seen
           /\ req[r].pc # "idle" => req[r].call \in Calls
BY DEF TypeOK

LEMMA GotoEffect ==
    ASSUME TypeOK, NEW r \in Requests, NEW pc \in PC, Goto(r, pc)
    PROVE  /\ req' \in [Requests -> Request]
           /\ req'[r].pc = pc
           /\ req'[r].reply = req[r].reply
           /\ req'[r].call = req[r].call
           /\ req'[r].sequence = req[r].sequence
           /\ req'[r].targets = req[r].targets
           /\ \A s \in Requests \ {r} : req'[s] = req[s]
BY DEF TypeOK, Goto, Request

LEMMA AnswerEffect ==
    ASSUME TypeOK, NEW r \in Requests, NEW reply \in Reply, Answer(r, reply)
    PROVE  /\ req' \in [Requests -> Request]
           /\ req'[r].pc = "done"
           /\ req'[r].reply = reply
           /\ req'[r].call = req[r].call
           /\ \A s \in Requests \ {r} : req'[s] = req[s]
<1>. DEFINE q == [[req[r] EXCEPT !.pc = "done"] EXCEPT !.reply = reply]
<1>1. req[r] \in Request /\ "done" \in PC
  BY DEF TypeOK, PC
<1>2. /\ q \in Request
      /\ q.pc = "done" /\ q.reply = reply /\ q.call = req[r].call
  BY <1>1 DEF Request
<1>3. req' = [req EXCEPT ![r] = q]
  BY <1>1 DEF Answer, Request, TypeOK
<1>. HIDE DEF q
<1>. QED  BY <1>2, <1>3 DEF TypeOK

\* The tables have only moved on: ids have grown, revoked devices stay so, no
\* friendship is new, rows stay inserted, queued rows are old or numbered anew.
MovedOn ==
    /\ nextId' \in Nat /\ nextId <= nextId'
    /\ \A d \in Devices : status[d] = "REVOKED" => status'[d] = "REVOKED"
    /\ friends' \subseteq friends
    /\ inserted \subseteq inserted'
    /\ \A x \in queue' \ queue : x.id \in Nat /\ nextId <= x.id

\* What holds of a request whose own state is unchanged goes on to hold.
LEMMA Bystander ==
    ASSUME TypeOK, NEW r \in Requests, RequestInv(r), MovedOn,
           req'[r] = req[r], seen'[r] = seen[r]
    PROVE  RequestInv(r)'
<1>. /\ seen[r] \in Seen /\ nextId \in Nat
     /\ seen[r].start \in Nat
  BY DEF TypeOK, Seen
<1>1. SeenAt(r)'
  <2>. SUFFICES ASSUME req[r].pc # "idle"
                PROVE  SeenAt(r)'
    BY DEF SeenAt
  <2>1. seen[r].start <= nextId'
    BY DEF RequestInv, SeenAt, MovedOn
  <2>2. \A d \in Devices : seen[r].status[d] = "REVOKED" => status'[d] = "REVOKED"
    BY DEF RequestInv, SeenAt, MovedOn
  <2>3. seen[r].strangers => ~MayWrite(req[r].call)'
    BY DEF RequestInv, SeenAt, MovedOn, MayWrite, Friends, Recipient
  <2>. QED  BY <2>1, <2>2, <2>3 DEF SeenAt, MayWrite, Friends, Recipient
<1>2. ChecksAt(r)'
  BY DEF RequestInv, ChecksAt
<1>3. SequenceAt(r)'
  <2>. SUFFICES ASSUME req[r].pc = "insert"
                PROVE  SequenceAt(r)'
    BY DEF SequenceAt
  <2>1. seen[r].start <= nextId
    BY DEF RequestInv, SeenAt
  <2>2. \A x \in queue' : x.id < seen[r].start => x \in queue
    BY <2>1 DEF MovedOn
  <2>. QED  BY <2>2 DEF RequestInv, SequenceAt
<1>4. ReplyAt(r)'
  BY DEF RequestInv, ReplyAt, MovedOn, Stored, OtherStored, CopyStored,
         SameContent
<1>. QED  BY <1>1, <1>2, <1>3, <1>4 DEF RequestInv

\* A step of request r keeps what has to be kept.
Kept(r) ==
    /\ TypeOK' /\ RowsInv' /\ MessageIdUnique'
    /\ Alone(r) /\ MovedOn /\ RequestInv(r)'

\* Steps that leave the tables alone have moved nothing back.
LEMMA TablesUnchanged ==
    ASSUME IInv, UNCHANGED tables
    PROVE  MovedOn /\ RowsInv' /\ MessageIdUnique'
<1>1. nextId \in Nat
  BY DEF IInv, TypeOK
<1>2. MovedOn
  BY <1>1 DEF tables, MovedOn
<1>3. RowsInv' /\ MessageIdUnique'
  BY DEF tables, IInv, RowsInv, MessageIdUnique
<1>. QED  BY <1>2, <1>3

\* What was the case when a request began stays in relation to what is.
LEMMA SeenKept ==
    ASSUME IInv, NEW r \in Requests, MovedOn, req[r].pc # "idle",
           req'[r].call = req[r].call,
           seen'[r].start = seen[r].start,
           seen'[r].status = seen[r].status,
           seen'[r].strangers = seen[r].strangers
    PROVE  SeenAt(r)'
<1>. /\ seen[r].start \in Nat /\ nextId \in Nat
     /\ SeenAt(r)
  BY DEF IInv, RequestInv, TypeOK, Seen
<1>1. seen'[r].start <= nextId'
  BY DEF SeenAt, MovedOn
<1>2. \A d \in Devices : seen'[r].status[d] = "REVOKED" => status'[d] = "REVOKED"
  BY DEF SeenAt, MovedOn
<1>. DEFINE call == req[r].call
<1>3. seen'[r].strangers =>
         ~(call.uid = Recipient(call) \/ {call.uid, Recipient(call)} \in friends')
  BY DEF SeenAt, MovedOn, MayWrite, Friends
<1>. QED  BY <1>1, <1>2, <1>3 DEF SeenAt, MayWrite, Friends, Recipient

\* A request that goes on to its next statement.
LEMMA Advanced ==
    ASSUME IInv, NEW r \in Requests, NEW pc \in Running,
           req[r].pc \in Running, Goto(r, pc), UNCHANGED <<tables, faults>>,
           seen' \in [Requests -> Seen],
           \A s \in Requests \ {r} : seen'[s] = seen[s],
           seen'[r].start = seen[r].start,
           seen'[r].status = seen[r].status,
           seen'[r].strangers = seen[r].strangers,
           ChecksAt(r)', pc # "insert"
    PROVE  Kept(r)
<1>. TypeOK /\ pc \in PC /\ pc # "idle" /\ pc # "done" /\ req[r].pc # "idle"
     /\ req[r].pc # "done"
  BY DEF IInv, Running
<1>1. MovedOn /\ RowsInv' /\ MessageIdUnique'
  BY TablesUnchanged
<1>2. /\ req' \in [Requests -> Request]
      /\ req'[r].pc = pc
      /\ req'[r].reply = req[r].reply
      /\ req'[r].call = req[r].call
      /\ \A s \in Requests \ {r} : req'[s] = req[s]
  BY GotoEffect
<1>3. TypeOK'
  <2>1. \A s \in Requests : req'[s].pc # "idle" => req'[s].call \in Calls
    BY <1>2 DEF TypeOK
  <2>. QED  BY <1>2, <2>1 DEF TypeOK, tables
<1>4. SeenAt(r)'
  BY <1>1, <1>2, SeenKept
<1>5. SequenceAt(r)'
  BY <1>2 DEF SequenceAt
<1>6. ReplyAt(r)'
  <2>1. req'[r].reply = "none"
    BY <1>2 DEF IInv, RequestInv, ReplyAt
  <2>. QED  BY <2>1 DEF ReplyAt
<1>. QED  BY <1>1, <1>2, <1>3, <1>4, <1>5, <1>6 DEF Kept, Alone, RequestInv

\* A request that is answered, neither "ok" nor "conflict".
LEMMA Refused ==
    ASSUME IInv, NEW r \in Requests, NEW reply \in Reply \ {"ok", "conflict"},
           req[r].pc \in Running, Answer(r, reply), UNCHANGED <<tables, seen>>,
           faults' \in Nat
    PROVE  Kept(r)
<1>. TypeOK /\ req[r].pc # "idle"
  BY DEF IInv, Running
<1>1. MovedOn /\ RowsInv' /\ MessageIdUnique'
  BY TablesUnchanged
<1>2. /\ req' \in [Requests -> Request]
      /\ req'[r].pc = "done"
      /\ req'[r].reply = reply
      /\ req'[r].call = req[r].call
      /\ \A s \in Requests \ {r} : req'[s] = req[s]
  BY AnswerEffect
<1>3. TypeOK'
  <2>1. \A s \in Requests : req'[s].pc # "idle" => req'[s].call \in Calls
    BY <1>2 DEF TypeOK
  <2>. QED  BY <1>2, <2>1 DEF TypeOK, tables
<1>4. SeenAt(r)'
  BY <1>1, <1>2, SeenKept
<1>5. ChecksAt(r)' /\ SequenceAt(r)'
  BY <1>2 DEF ChecksAt, SequenceAt, Version1, Version2, ToInsert, PastSender,
              PastFriend, Running
<1>6. ReplyAt(r)'
  BY <1>2 DEF ReplyAt
<1>. QED  BY <1>1, <1>2, <1>3, <1>4, <1>5, <1>6 DEF Kept, Alone, RequestInv

-----------------------------------------------------------------------------
(* The statements of a request.                                            *)

\* The status a request was begun with stays, once the device is revoked.
LEMMA NotRevoked ==
    ASSUME IInv, NEW r \in Requests, req[r].pc \in Running, NEW d \in Devices,
           status[d] # "REVOKED"
    PROVE  seen[r].status[d] # "REVOKED"
BY DEF IInv, RequestInv, SeenAt, Running

LEMMA BeginKept ==
    ASSUME IInv, NEW r \in Requests, NEW call \in Calls, Begin(r, call)
    PROVE  Kept(r)
<1>. TypeOK /\ RequestInv(r)
  BY DEF IInv
<1>. DEFINE q == [[req[r] EXCEPT !.pc = "sender"] EXCEPT !.call = call]
            began == [start |-> nextId, status |-> status,
                      strangers |-> ~Friends(call.uid, Recipient(call)),
                      full |-> FALSE, guessed |-> FALSE]
<1>1. MovedOn /\ RowsInv' /\ MessageIdUnique'
  BY TablesUnchanged DEF Begin
<1>2. req[r] \in Request /\ req[r].pc = "idle" /\ req[r].reply = "none"
  BY DEF TypeOK, Begin, RequestInv, ReplyAt
<1>3. /\ q \in Request
      /\ q.pc = "sender" /\ q.call = call /\ q.reply = "none"
  BY <1>2 DEF Request, PC
<1>4. req' = [req EXCEPT ![r] = q]
  BY <1>2 DEF Begin, Request, TypeOK
<1>5. began \in Seen
  BY DEF TypeOK, Seen
<1>6. seen' = [seen EXCEPT ![r] = began]
  BY DEF Begin
<1>7. began.start = nextId /\ began.status = status
      /\ began.strangers = ~MayWrite(call)
  BY DEF MayWrite
<1>. HIDE DEF q, began
<1>8. req' \in [Requests -> Request] /\ req'[r] = q
      /\ \A s \in Requests \ {r} : req'[s] = req[s]
  BY <1>3, <1>4 DEF TypeOK
<1>9. seen' \in [Requests -> Seen] /\ seen'[r] = began
      /\ \A s \in Requests \ {r} : seen'[s] = seen[s]
  BY <1>5, <1>6 DEF TypeOK
<1>10. TypeOK'
  <2>1. \A s \in Requests : req'[s].pc # "idle" => req'[s].call \in Calls
    BY <1>3, <1>8 DEF TypeOK
  <2>. QED  BY <1>8, <1>9, <2>1 DEF TypeOK, tables, Begin
<1>11. SeenAt(r)'
  <2>1. nextId' = nextId /\ nextId \in Nat /\ status' = status
        /\ friends' = friends
    BY DEF Begin, tables, TypeOK
  <2>2. req'[r].call = call
    BY <1>3, <1>8
  <2>3. seen'[r].start <= nextId' /\ seen'[r].status = status'
    BY <1>7, <1>9, <2>1
  <2>4. seen'[r].strangers =>
           ~(call.uid = Recipient(call)
             \/ {call.uid, Recipient(call)} \in friends')
    BY <1>7, <1>9, <2>1 DEF MayWrite, Friends
  <2>. QED  BY <2>2, <2>3, <2>4 DEF SeenAt, MayWrite, Friends, Recipient
<1>12. ChecksAt(r)' /\ SequenceAt(r)' /\ ReplyAt(r)'
  BY <1>3, <1>8 DEF ChecksAt, SequenceAt, ReplyAt, Version1, Version2, ToInsert,
                    PastSender, PastFriend, Running
<1>. QED  BY <1>1, <1>8, <1>9, <1>10, <1>11, <1>12 DEF Kept, Alone, RequestInv

LEMMA CheckSenderKept ==
    ASSUME IInv, NEW r \in Requests, CheckSender(r)
    PROVE  Kept(r)
<1>. DEFINE call == req[r].call
<1>0. TypeOK /\ RequestInv(r) /\ req[r].pc \in Running /\ req[r].pc = "sender"
      /\ call \in Calls /\ seen' = seen /\ seen \in [Requests -> Seen]
      /\ UNCHANGED <<tables, faults>> /\ faults \in Nat
  BY DEF IInv, TypeOK, CheckSender, Running, PC, tables
<1>1. CASE Answer(r, "unauthorized")
  BY <1>0, <1>1, Refused DEF Reply
<1>2. CASE /\ IsActive(call.from)
           /\ Goto(r, IF call.version = 2 THEN "owner" ELSE "friend")
  <2>. DEFINE pc == IF call.version = 2 THEN "owner" ELSE "friend"
  <2>1. pc \in Running /\ pc \in PC /\ pc # "insert"
    BY DEF Running, PC
  <2>2. req'[r].pc = pc /\ req'[r].call = call
    BY <1>0, <1>2, <2>1, GotoEffect
  <2>3. seen[r].status[call.from] # "REVOKED"
    BY <1>0, <1>2, NotRevoked, CallTypes DEF IsActive
  <2>4. ChecksAt(r)'
    BY <1>0, <2>2, <2>3, CallTypes
       DEF ChecksAt, Version1, Version2, ToInsert, PastSender, PastFriend, Running
  <2>. HIDE DEF pc
  <2>5. Goto(r, pc)
    BY <1>2 DEF pc
  <2>. QED  BY <1>0, <2>1, <2>4, <2>5, Advanced
<1>. QED  BY <1>1, <1>2 DEF CheckSender

LEMMA FindOwnerKept ==
    ASSUME IInv, NEW r \in Requests, FindOwner(r)
    PROVE  Kept(r)
<1>0. TypeOK /\ RequestInv(r) /\ req[r].pc \in Running /\ req[r].pc = "owner"
      /\ seen' = seen /\ seen \in [Requests -> Seen]
      /\ UNCHANGED <<tables, faults>> /\ faults \in Nat
  BY DEF IInv, TypeOK, FindOwner, Running, PC, tables
<1>1. CASE Answer(r, "not_found")
  BY <1>0, <1>1, Refused DEF Reply
<1>2. CASE Goto(r, "friend")
  <2>1. "friend" \in Running /\ "friend" \in PC
    BY DEF Running, PC
  <2>2. req'[r].pc = "friend" /\ req'[r].call = req[r].call
    BY <1>0, <1>2, <2>1, GotoEffect
  <2>3. ChecksAt(r)'
    BY <1>0, <2>2
       DEF RequestInv, ChecksAt, Version1, Version2, ToInsert, PastSender,
           PastFriend, Running, PC
  <2>. QED  BY <1>0, <1>2, <2>1, <2>3, Advanced
<1>. QED  BY <1>1, <1>2 DEF FindOwner

LEMMA CheckFriendshipKept ==
    ASSUME IInv, NEW r \in Requests, CheckFriendship(r)
    PROVE  Kept(r)
<1>. DEFINE call == req[r].call
<1>0. TypeOK /\ RequestInv(r) /\ req[r].pc \in Running /\ req[r].pc = "friend"
      /\ call \in Calls /\ seen' = seen /\ seen \in [Requests -> Seen]
      /\ UNCHANGED <<tables, faults>> /\ faults \in Nat
  BY DEF IInv, TypeOK, CheckFriendship, Running, PC, tables
<1>1. CASE Answer(r, "forbidden")
  BY <1>0, <1>1, Refused DEF Reply
<1>2. CASE /\ MayWrite(call)
           /\ Goto(r, IF call.version = 2 THEN "active" ELSE "devices")
  <2>. DEFINE pc == IF call.version = 2 THEN "active" ELSE "devices"
  <2>1. pc \in Running /\ pc \in PC /\ pc # "insert"
    BY DEF Running, PC
  <2>2. req'[r].pc = pc /\ req'[r].call = call
    BY <1>0, <1>2, <2>1, GotoEffect
  <2>3. ~seen[r].strangers
    BY <1>0, <1>2 DEF RequestInv, SeenAt
  <2>4. seen[r].status[call.from] # "REVOKED"
    BY <1>0 DEF RequestInv, ChecksAt, PastSender, Running
  <2>5. call.version \in {1, 2}
    BY <1>0, CallTypes
  <2>6. ChecksAt(r)'
    BY <1>0, <2>2, <2>3, <2>4, <2>5
       DEF ChecksAt, Version1, Version2, ToInsert, PastSender, PastFriend, Running
  <2>. HIDE DEF pc
  <2>7. Goto(r, pc)
    BY <1>2 DEF pc
  <2>. QED  BY <1>0, <2>1, <2>6, <2>7, Advanced
<1>. QED  BY <1>1, <1>2 DEF CheckFriendship

LEMMA CheckActiveKept ==
    ASSUME IInv, NEW r \in Requests, CheckActive(r)
    PROVE  Kept(r)
<1>. DEFINE call == req[r].call
<1>0. TypeOK /\ RequestInv(r) /\ req[r].pc \in Running /\ req[r].pc = "active"
      /\ call \in Calls /\ seen' = seen /\ seen \in [Requests -> Seen]
      /\ UNCHANGED <<tables, faults>> /\ faults \in Nat
  BY DEF IInv, TypeOK, CheckActive, Running, PC, tables
<1>1. CASE Answer(r, "not_found")
  BY <1>0, <1>1, Refused DEF Reply
<1>2. CASE IsActive(call.to) /\ Goto(r, "sequence")
  <2>1. "sequence" \in Running /\ "sequence" \in PC
    BY DEF Running, PC
  <2>2. req'[r].pc = "sequence" /\ req'[r].call = call
    BY <1>0, <1>2, <2>1, GotoEffect
  <2>3. /\ call.version = 2 /\ ~seen[r].strangers
        /\ seen[r].status[call.from] # "REVOKED"
    BY <1>0 DEF RequestInv, ChecksAt, Version2, PastSender, PastFriend, Running, PC
  <2>4. seen[r].status[call.to] # "REVOKED"
    BY <1>0, <1>2, <2>3, NotRevoked, CallTypes DEF IsActive
  <2>5. ChecksAt(r)'
    BY <1>0, <2>2, <2>3, <2>4
       DEF ChecksAt, Version1, Version2, ToInsert, PastSender, PastFriend, Running
  <2>. QED  BY <1>0, <1>2, <2>1, <2>5, Advanced
<1>. QED  BY <1>1, <1>2 DEF CheckActive

LEMMA ListDevicesKept ==
    ASSUME IInv, NEW r \in Requests, ListDevices(r)
    PROVE  Kept(r)
<1>. DEFINE call == req[r].call
            devices == {d \in Devices : IsActive(d) /\ Owner[d] = call.to}
<1>0. TypeOK /\ RequestInv(r) /\ req[r].pc \in Running /\ req[r].pc = "devices"
      /\ call \in Calls /\ seen' = seen /\ seen \in [Requests -> Seen]
      /\ UNCHANGED <<tables, faults>> /\ faults \in Nat
  BY DEF IInv, TypeOK, ListDevices, Running, PC, tables
<1>1. CASE Answer(r, "no_devices")
  BY <1>0, <1>1, Refused DEF Reply
<1>2. CASE req' = [req EXCEPT ![r].pc = "fanout", ![r].targets = devices]
  <2>. DEFINE q == [[req[r] EXCEPT !.pc = "fanout"] EXCEPT !.targets = devices]
  <2>1. req[r] \in Request /\ "fanout" \in PC /\ devices \in SUBSET Devices
        /\ req[r].reply = "none"
    BY <1>0 DEF TypeOK, PC, RequestInv, ReplyAt
  <2>2. /\ q \in Request /\ q.pc = "fanout" /\ q.targets = devices
        /\ q.call = call /\ q.reply = "none"
    BY <2>1 DEF Request
  <2>3. req' = [req EXCEPT ![r] = q]
    BY <1>0, <1>2, <2>1 DEF Request, TypeOK
  <2>4. /\ call.version = 1 /\ ~seen[r].strangers
        /\ seen[r].status[call.from] # "REVOKED"
    BY <1>0 DEF RequestInv, ChecksAt, Version1, PastSender, PastFriend, Running, PC
  <2>5. \A d \in devices : seen[r].status[d] # "REVOKED" /\ Owner[d] = call.to
    BY <1>0, NotRevoked DEF IsActive
  <2>. HIDE DEF q, devices
  <2>6. req' \in [Requests -> Request] /\ req'[r] = q
        /\ \A s \in Requests \ {r} : req'[s] = req[s]
    BY <1>0, <2>2, <2>3 DEF TypeOK
  <2>7. MovedOn /\ RowsInv' /\ MessageIdUnique'
    BY <1>0, TablesUnchanged
  <2>8. TypeOK'
    <3>1. \A s \in Requests : req'[s].pc # "idle" => req'[s].call \in Calls
      BY <1>0, <2>2, <2>6 DEF TypeOK
    <3>. QED  BY <1>0, <2>6, <3>1 DEF TypeOK, tables
  <2>9. SeenAt(r)'
    BY <1>0, <2>2, <2>6, <2>7, SeenKept
  <2>10. ChecksAt(r)'
    BY <1>0, <2>2, <2>4, <2>5, <2>6
       DEF ChecksAt, Version1, Version2, ToInsert, PastSender, PastFriend, Running
  <2>11. SequenceAt(r)' /\ ReplyAt(r)'
    BY <2>2, <2>6 DEF SequenceAt, ReplyAt
  <2>. QED  BY <1>0, <2>6, <2>7, <2>8, <2>9, <2>10, <2>11
            DEF Kept, Alone, RequestInv
<1>. QED  BY <1>1, <1>2 DEF ListDevices

LEMMA StatementFailsKept ==
    ASSUME IInv, NEW r \in Requests, StatementFails(r)
    PROVE  Kept(r)
<1>1. req[r].pc \in Running
  BY DEF IInv, TypeOK, Request, StatementFails, Running
<1>2. faults' \in Nat
  BY DEF IInv, TypeOK, StatementFails
<1>. QED  BY <1>1, <1>2, Refused DEF StatementFails, Reply

LEMMA ReadSequenceKept ==
    ASSUME IInv, NEW r \in Requests, ReadSequence(r)
    PROVE  Kept(r)
<1>. DEFINE call == req[r].call
<1>0. TypeOK /\ RequestInv(r) /\ req[r].pc \in Running /\ req[r].pc = "sequence"
      /\ call \in Calls /\ seen \in [Requests -> Seen] /\ faults \in Nat
      /\ UNCHANGED tables
  BY DEF IInv, TypeOK, ReadSequence, Running, PC
<1>1. PICK n \in Nat \ {0} :
         /\ req' = [req EXCEPT ![r].pc = "insert", ![r].sequence = n]
         /\ \/ /\ \A x \in Mailbox(call.to) : x.sequence < n
               /\ seen' = seen /\ faults' = faults
            \/ /\ faults' = faults + 1
               /\ seen' = [seen EXCEPT ![r].guessed = TRUE]
  <2>1. CASE \E last \in {0} \cup {x.sequence : x \in queue} :
                /\ IsLastSequence(call.to, last)
                /\ req' = [req EXCEPT ![r].pc = "insert",
                                      ![r].sequence = last + 1]
                /\ seen' = seen /\ faults' = faults
    <3>1. PICK last \in {0} \cup {x.sequence : x \in queue} :
                /\ IsLastSequence(call.to, last)
                /\ req' = [req EXCEPT ![r].pc = "insert",
                                      ![r].sequence = last + 1]
                /\ seen' = seen /\ faults' = faults
      BY <2>1
    <3>2. last \in Nat
      BY <1>0 DEF TypeOK, Row
    <3>3. \A x \in Mailbox(call.to) : x.sequence \in Nat
      BY <1>0 DEF TypeOK, Row, Mailbox
    <3>4. \A x \in Mailbox(call.to) : x.sequence < last + 1
      BY <3>1, <3>2, <3>3 DEF IsLastSequence
    <3>5. last + 1 \in Nat \ {0}
      BY <3>2
    <3>. QED  BY <3>1, <3>4, <3>5
  <2>2. CASE /\ faults' = faults + 1
             /\ req' = [req EXCEPT ![r].pc = "insert",
                                   ![r].sequence = UnreadSequence + 1]
             /\ seen' = [seen EXCEPT ![r].guessed = TRUE]
    <3>1. UnreadSequence + 1 \in Nat \ {0}
      BY DEF UnreadSequence
    <3>. QED  BY <2>2, <3>1
  <2>. QED  BY <2>1, <2>2 DEF ReadSequence
<1>. DEFINE q == [[req[r] EXCEPT !.pc = "insert"] EXCEPT !.sequence = n]
<1>2. req[r] \in Request /\ "insert" \in PC /\ req[r].reply = "none"
      /\ n \in Nat
  BY <1>0 DEF TypeOK, PC, RequestInv, ReplyAt
<1>3. /\ q \in Request /\ q.pc = "insert" /\ q.sequence = n
      /\ q.call = call /\ q.reply = "none"
  BY <1>2 DEF Request
<1>4. req' = [req EXCEPT ![r] = q]
  BY <1>0, <1>1, <1>2 DEF Request, TypeOK
<1>. HIDE DEF q
<1>5. req' \in [Requests -> Request] /\ req'[r] = q
      /\ \A s \in Requests \ {r} : req'[s] = req[s]
  BY <1>0, <1>3, <1>4 DEF TypeOK
<1>6. /\ seen' \in [Requests -> Seen]
      /\ \A s \in Requests \ {r} : seen'[s] = seen[s]
      /\ seen'[r].start = seen[r].start
      /\ seen'[r].status = seen[r].status
      /\ seen'[r].strangers = seen[r].strangers
      /\ seen'[r].guessed \/ \A x \in Mailbox(call.to) : x.sequence < n
  <2>. DEFINE t == [seen[r] EXCEPT !.guessed = TRUE]
  <2>1. seen[r] \in Seen
    BY <1>0
  <2>2. /\ t \in Seen /\ t.start = seen[r].start /\ t.status = seen[r].status
        /\ t.strangers = seen[r].strangers /\ t.guessed
    BY <2>1 DEF Seen
  <2>3. CASE seen' = seen /\ \A x \in Mailbox(call.to) : x.sequence < n
    BY <1>0, <2>3
  <2>4. CASE seen' = [seen EXCEPT ![r].guessed = TRUE]
    <3>1. seen' = [seen EXCEPT ![r] = t]
      BY <2>4, <1>0
    <3>. HIDE DEF t
    <3>. QED  BY <1>0, <2>2, <3>1
  <2>. QED  BY <1>1, <2>3, <2>4
<1>8. MovedOn /\ RowsInv' /\ MessageIdUnique'
  BY <1>0, TablesUnchanged
<1>9. TypeOK'
  <2>1. \A s \in Requests : req'[s].pc # "idle" => req'[s].call \in Calls
    BY <1>0, <1>3, <1>5 DEF TypeOK
  <2>2. faults' \in Nat
    BY <1>0, <1>1
  <2>. QED  BY <1>0, <1>5, <1>6, <2>1, <2>2 DEF TypeOK, tables
<1>10. SeenAt(r)'
  BY <1>0, <1>3, <1>5, <1>6, <1>8, SeenKept
<1>11. ChecksAt(r)'
  <2>1. /\ call.version = 2 /\ ~seen[r].strangers
        /\ seen[r].status[call.from] # "REVOKED"
        /\ seen[r].status[call.to] # "REVOKED"
    BY <1>0 DEF RequestInv, ChecksAt, Version2, ToInsert, PastSender, PastFriend,
                Running, PC
  <2>. QED  BY <1>3, <1>5, <1>6, <2>1
            DEF ChecksAt, Version1, Version2, ToInsert, PastSender, PastFriend,
                Running
<1>12. SequenceAt(r)'
  <2>1. queue' = queue
    BY <1>0 DEF tables
  <2>. QED  BY <1>1, <1>3, <1>5, <1>6, <2>1 DEF SequenceAt, Mailbox
<1>13. ReplyAt(r)'
  BY <1>3, <1>5 DEF ReplyAt
<1>. QED  BY <1>5, <1>6, <1>8, <1>9, <1>10, <1>11, <1>12, <1>13
          DEF Kept, Alone, RequestInv

LEMMA LookUpKept ==
    ASSUME IInv, NEW r \in Requests, LookUp(r)
    PROVE  Kept(r)
<1>. DEFINE call == req[r].call
            holders == {x \in queue : x.mid = call.mid}
            reply == IF holders = {} THEN "quota"
                     ELSE IF \E x \in holders : SameEnvelope(x, call) THEN "ok"
                     ELSE "conflict"
<1>0. TypeOK /\ RequestInv(r) /\ req[r].pc \in Running /\ req[r].pc = "lookup"
      /\ call \in Calls /\ seen' = seen /\ faults' = faults /\ faults \in Nat
      /\ UNCHANGED tables
  BY DEF IInv, TypeOK, LookUp, Running, PC
<1>1. call.version = 2
  BY <1>0 DEF RequestInv, ChecksAt, Version2, ToInsert
<1>2. reply \in Reply /\ Answer(r, reply)
  BY DEF LookUp, Reply
<1>3. queue \subseteq inserted
  BY DEF IInv, RowsInv
<1>4. reply = "ok" => Stored(call)
  BY <1>3 DEF Stored, SameContent, SameEnvelope
<1>5. reply = "conflict" => OtherStored(call)
  BY <1>3 DEF OtherStored, SameContent, SameEnvelope
<1>. HIDE DEF reply
<1>6. /\ req' \in [Requests -> Request]
      /\ req'[r].pc = "done"
      /\ req'[r].reply = reply
      /\ req'[r].call = req[r].call
      /\ \A s \in Requests \ {r} : req'[s] = req[s]
  BY <1>0, <1>2, AnswerEffect
<1>7. MovedOn /\ RowsInv' /\ MessageIdUnique'
  BY <1>0, TablesUnchanged
<1>8. TypeOK'
  <2>1. \A s \in Requests : req'[s].pc # "idle" => req'[s].call \in Calls
    BY <1>0, <1>6 DEF TypeOK
  <2>. QED  BY <1>0, <1>6, <2>1 DEF TypeOK, tables
<1>9. SeenAt(r)'
  BY <1>0, <1>6, <1>7, SeenKept DEF Running
<1>10. ChecksAt(r)' /\ SequenceAt(r)'
  BY <1>6 DEF ChecksAt, SequenceAt, Version1, Version2, ToInsert, PastSender,
              PastFriend, Running
<1>11. ReplyAt(r)'
  <2>1. inserted' = inserted
    BY <1>0 DEF tables
  <2>. QED  BY <1>1, <1>4, <1>5, <1>6, <2>1
            DEF ReplyAt, Stored, OtherStored, SameContent
<1>. QED  BY <1>0, <1>6, <1>7, <1>8, <1>9, <1>10, <1>11 DEF Kept, Alone, RequestInv

\* One more row, numbered with the counter.
LEMMA RowAdded ==
    ASSUME IInv, NEW row \in Row, row.id = nextId,
           \A x \in queue : x.mid = row.mid => row.mid = None,
           queue' = queue \cup {row}, inserted' = inserted \cup {row},
           nextId' = nextId + 1, UNCHANGED <<status, friends>>
    PROVE  MovedOn /\ RowsInv' /\ MessageIdUnique'
           /\ queue' \subseteq Row /\ inserted' \subseteq Row
<1>. TypeOK /\ RowsInv /\ MessageIdUnique /\ nextId \in Nat
  BY DEF IInv, TypeOK
<1>1. MovedOn
  BY DEF MovedOn
<1>2. RowsInv'
  <2>1. \A x \in inserted : x.id \in Nat /\ x.id < nextId
    BY DEF RowsInv, TypeOK, Row
  <2>. QED  BY <2>1 DEF RowsInv
<1>3. MessageIdUnique'
  BY DEF MessageIdUnique
<1>4. queue' \subseteq Row /\ inserted' \subseteq Row
  BY DEF TypeOK
<1>. QED  BY <1>1, <1>2, <1>3, <1>4

LEMMA InsertEnvelopeKept ==
    ASSUME IInv, NEW r \in Requests, InsertEnvelope(r)
    PROVE  Kept(r)
<1>. DEFINE call == req[r].call
<1>0. TypeOK /\ RequestInv(r) /\ req[r].pc \in Running /\ req[r].pc = "insert"
      /\ req[r].pc # "idle"
      /\ call \in Calls /\ seen \in [Requests -> Seen]
      /\ UNCHANGED <<status, friends, faults>> /\ faults \in Nat
  BY DEF IInv, TypeOK, InsertEnvelope, Running, PC
<1>1. /\ call.version = 2 /\ ~seen[r].strangers
      /\ seen[r].status[call.from] # "REVOKED"
      /\ seen[r].status[call.to] # "REVOKED"
      /\ req[r].reply = "none"
      /\ req[r].sequence \in Nat \ {0}
  BY <1>0 DEF RequestInv, ChecksAt, Version2, ToInsert, PastSender, PastFriend,
              Running, PC, ReplyAt, SequenceAt, TypeOK, Request
<1>2. CASE Answer(r, "error") /\ UNCHANGED <<queue, inserted, nextId, seen>>
  BY <1>0, <1>2, Refused DEF Reply, tables
<1>. DEFINE row == [id |-> nextId, device |-> call.to, sender |-> call.from,
                    mid |-> call.mid, payload |-> call.payload,
                    sequence |-> req[r].sequence]
<1>3. CASE /\ ~Taken(call) /\ queue' = queue \cup {row}
           /\ inserted' = inserted \cup {row}
           /\ nextId' = nextId + 1 /\ Answer(r, "ok") /\ seen' = seen
  <2>1. row \in Row
    BY <1>0, <1>1, CallTypes DEF Row, TypeOK
  <2>2. \A x \in queue : x.mid # row.mid
    BY <1>3 DEF Taken
  <2>3. row.id = nextId /\ row.mid = call.mid /\ SameContent(row, call)
    BY DEF SameContent
  <2>4. queue' = queue \cup {row} /\ inserted' = inserted \cup {row}
        /\ nextId' = nextId + 1 /\ seen' = seen
    BY <1>3
  <2>. HIDE DEF row
  <2>5. MovedOn /\ RowsInv' /\ MessageIdUnique'
        /\ queue' \subseteq Row /\ inserted' \subseteq Row
    BY <1>0, <2>1, <2>2, <2>3, <2>4, RowAdded
  <2>6. /\ req' \in [Requests -> Request]
        /\ req'[r].pc = "done"
        /\ req'[r].reply = "ok"
        /\ req'[r].call = req[r].call
        /\ \A s \in Requests \ {r} : req'[s] = req[s]
    BY <1>0, <1>3, AnswerEffect DEF Reply
  <2>7. TypeOK'
    <3>1. \A s \in Requests : req'[s].pc # "idle" => req'[s].call \in Calls
      BY <1>0, <2>6 DEF TypeOK
    <3>2. nextId' \in Nat
      BY <2>5 DEF MovedOn
    <3>. QED  BY <1>0, <2>4, <2>5, <2>6, <3>1, <3>2 DEF TypeOK
  <2>8. SeenAt(r)'
    BY <1>0, <2>4, <2>5, <2>6, SeenKept
  <2>9. ChecksAt(r)' /\ SequenceAt(r)'
    BY <2>6 DEF ChecksAt, SequenceAt, Version1, Version2, ToInsert, PastSender,
                PastFriend, Running
  <2>10. ReplyAt(r)'
    <3>1. row \in inserted'
      BY <2>4
    <3>. QED  BY <1>1, <2>3, <2>6, <3>1 DEF ReplyAt, Stored, SameContent
  <2>. QED  BY <2>4, <2>5, <2>6, <2>7, <2>8, <2>9, <2>10
            DEF Kept, Alone, RequestInv
<1>4. CASE /\ Goto(r, "lookup")
           /\ seen' = [seen EXCEPT ![r].full = ~HasRoom(call.to, call.payload)]
           /\ UNCHANGED <<queue, inserted, nextId>>
  <2>. DEFINE full == ~HasRoom(call.to, call.payload)
              t == [seen[r] EXCEPT !.full = full]
  <2>1. seen[r] \in Seen /\ full \in BOOLEAN
    BY <1>0 DEF HasRoom
  <2>2. /\ t \in Seen /\ t.start = seen[r].start /\ t.status = seen[r].status
        /\ t.strangers = seen[r].strangers
    BY <2>1 DEF Seen
  <2>3. seen' = [seen EXCEPT ![r] = t]
    BY <1>0, <1>4
  <2>. HIDE DEF full, t
  <2>4. /\ seen' \in [Requests -> Seen]
        /\ \A s \in Requests \ {r} : seen'[s] = seen[s]
        /\ seen'[r].start = seen[r].start
        /\ seen'[r].status = seen[r].status
        /\ seen'[r].strangers = seen[r].strangers
    BY <1>0, <2>2, <2>3
  <2>5. "lookup" \in Running /\ "lookup" \in PC
    BY DEF Running, PC
  <2>6. req'[r].pc = "lookup" /\ req'[r].call = call
    BY <1>0, <1>4, <2>5, GotoEffect
  <2>7. ChecksAt(r)'
    BY <1>1, <2>4, <2>6
       DEF ChecksAt, Version1, Version2, ToInsert, PastSender, PastFriend, Running
  <2>8. UNCHANGED <<tables, faults>>
    BY <1>0, <1>4 DEF tables
  <2>. QED  BY <1>0, <1>4, <2>4, <2>5, <2>7, <2>8, Advanced
<1>. QED  BY <1>2, <1>3, <1>4 DEF InsertEnvelope

LEMMA FanOutKept ==
    ASSUME IInv, NEW r \in Requests, FanOut(r)
    PROVE  Kept(r)
<1>. DEFINE call == req[r].call
            open == {d \in req[r].targets : HasRoom(d, call.payload)}
            next == nextId + Cardinality(open)
            copy(id, d) == [id |-> id[d], device |-> d, sender |-> None,
                            mid |-> None, payload |-> call.payload,
                            sequence |-> FanOutSequence(d)]
            reply == IF open = {} THEN "quota" ELSE "ok"
<1>0. TypeOK /\ RequestInv(r) /\ RowsInv /\ MessageIdUnique
      /\ req[r].pc \in Running /\ req[r].pc = "fanout" /\ req[r].pc # "idle"
      /\ call \in Calls /\ seen \in [Requests -> Seen] /\ nextId \in Nat
      /\ UNCHANGED <<status, friends, faults, seen>> /\ faults \in Nat
  BY DEF IInv, TypeOK, FanOut, Running, PC
<1>1. call.version = 1 /\ \A d \in open : Owner[d] = call.to
  BY <1>0 DEF RequestInv, ChecksAt, Version1
<1>2. open \in SUBSET Devices /\ Cardinality(open) \in Nat
  <2>1. req[r].targets \in SUBSET Devices
    BY <1>0 DEF TypeOK, Request
  <2>2. open \in SUBSET Devices
    BY <2>1
  <2>. HIDE DEF open
  <2>. QED  BY <2>2, OpenCount
<1>3. PICK id \in [open -> nextId .. next - 1] :
         /\ queue' = queue \cup {copy(id, d) : d \in open}
         /\ inserted' = inserted \cup {copy(id, d) : d \in open}
  BY DEF FanOut
<1>4. nextId' = next /\ Answer(r, reply)
  BY DEF FanOut
<1>. DEFINE rows == {copy(id, d) : d \in open}
<1>5. \A y \in rows : /\ y \in Row /\ y.id \in nextId .. next - 1
                      /\ y.mid = None /\ y.device \in open
                      /\ y.payload = call.payload
  <2>1. SUFFICES ASSUME NEW d \in open
                 PROVE  /\ copy(id, d) \in Row
                        /\ copy(id, d).id \in nextId .. next - 1
                        /\ copy(id, d).mid = None
                        /\ copy(id, d).device \in open
                        /\ copy(id, d).payload = call.payload
    OBVIOUS
  <2>2. d \in Devices /\ FanOutSequence(d) \in Nat \ {0}
    BY <1>0, <1>2, FanOutSequenceType
  <2>. HIDE DEF open
  <2>3. id[d] \in nextId .. next - 1 /\ id[d] \in Nat
    BY <1>0, <1>2
  <2>4. call.payload \in Payloads
    BY <1>0, CallTypes
  <2>. QED  BY <2>2, <2>3, <2>4 DEF Row
<1>6. \A d \in open : copy(id, d) \in rows
  OBVIOUS
<1>7. reply \in Reply /\ reply # "conflict" /\ (reply = "ok" => open # {})
  BY DEF Reply
<1>8. queue' = queue \cup rows /\ inserted' = inserted \cup rows
      /\ next \in Nat /\ nextId <= next
  BY <1>0, <1>2, <1>3
<1>. HIDE DEF rows, open, reply, next
<1>9. MovedOn
  BY <1>0, <1>4, <1>5, <1>8 DEF MovedOn, Row
<1>10. RowsInv'
  <2>1. \A x \in inserted : x.id \in Nat /\ x.id < nextId
    BY <1>0 DEF RowsInv, TypeOK, Row
  <2>2. \A x \in inserted : x.id < next
    BY <2>1, <1>0, <1>8
  <2>3. \A x \in rows : x.id < next
    BY <1>0, <1>5, <1>8
  <2>. QED  BY <1>0, <1>4, <1>8, <2>2, <2>3 DEF RowsInv
<1>11. MessageIdUnique'
  BY <1>0, <1>5, <1>8 DEF MessageIdUnique
<1>12. /\ req' \in [Requests -> Request]
       /\ req'[r].pc = "done"
       /\ req'[r].reply = reply
       /\ req'[r].call = req[r].call
       /\ \A s \in Requests \ {r} : req'[s] = req[s]
  BY <1>0, <1>4, <1>7, AnswerEffect
<1>13. TypeOK'
  <2>1. \A s \in Requests : req'[s].pc # "idle" => req'[s].call \in Calls
    BY <1>0, <1>12 DEF TypeOK
  <2>2. queue' \subseteq Row /\ inserted' \subseteq Row
    BY <1>0, <1>5, <1>8 DEF TypeOK
  <2>. QED  BY <1>0, <1>4, <1>8, <1>12, <2>1, <2>2 DEF TypeOK
<1>14. SeenAt(r)'
  BY <1>0, <1>9, <1>12, SeenKept
<1>15. ChecksAt(r)' /\ SequenceAt(r)'
  BY <1>12 DEF ChecksAt, SequenceAt, Version1, Version2, ToInsert, PastSender,
               PastFriend, Running
<1>16. ReplyAt(r)'
  <2>1. ASSUME reply = "ok"
        PROVE  \E y \in inserted' : /\ y.id >= seen'[r].start
                                    /\ Owner[y.device] = call.to
                                    /\ y.payload = call.payload
    <3>1. PICK y \in rows : TRUE
      BY <1>6, <1>7, <2>1
    <3>2. seen[r].start \in Nat /\ seen[r].start <= nextId
      BY <1>0 DEF RequestInv, SeenAt, Seen
    <3>3. y.id >= seen'[r].start
      BY <1>0, <1>5, <1>8, <3>2
    <3>. QED  BY <1>1, <1>5, <1>8, <3>3
  <2>. QED  BY <1>1, <1>7, <1>12, <2>1 DEF ReplyAt, CopyStored
<1>. QED  BY <1>0, <1>9, <1>10, <1>11, <1>12, <1>13, <1>14, <1>15, <1>16
          DEF Kept, Alone, RequestInv

\* Whatever a request does, it keeps what has to be kept.
LEMMA SendKept ==
    ASSUME IInv, NEW r \in Requests, Send(r)
    PROVE  Kept(r)
BY BeginKept, CheckSenderKept, FindOwnerKept, CheckFriendshipKept,
   CheckActiveKept, ReadSequenceKept, InsertEnvelopeKept, LookUpKept,
   ListDevicesKept, FanOutKept, StatementFailsKept
   DEF Send

-----------------------------------------------------------------------------
(* The handlers around it.                                                 *)

LEMMA DeviceStep ==
    ASSUME IInv, NEW d \in Devices, RegisterDevice(d) \/ RevokeDevice(d)
    PROVE  IInv'
<1>. TypeOK /\ nextId \in Nat /\ status \in [Devices -> Status]
     /\ UNCHANGED <<queue, nextId, friends, req, faults, inserted, seen>>
  BY DEF IInv, TypeOK, RegisterDevice, RevokeDevice
<1>1. status' \in [Devices -> Status]
      /\ \A e \in Devices : status[e] = "REVOKED" => status'[e] = "REVOKED"
  <2>1. CASE status[d] = "ABSENT" /\ status' = [status EXCEPT ![d] = "ACTIVE"]
    BY <2>1 DEF Status
  <2>2. CASE status[d] = "ACTIVE" /\ status' = [status EXCEPT ![d] = "REVOKED"]
    BY <2>2 DEF Status
  <2>. QED  BY <2>1, <2>2 DEF RegisterDevice, RevokeDevice, IsActive
<1>2. TypeOK'
  BY <1>1 DEF TypeOK
<1>3. MovedOn
  BY <1>1 DEF MovedOn
<1>4. RowsInv' /\ MessageIdUnique'
  BY DEF IInv, RowsInv, MessageIdUnique
<1>5. \A r \in Requests : RequestInv(r)'
  BY <1>3, Bystander DEF IInv
<1>. QED  BY <1>2, <1>4, <1>5 DEF IInv

LEMMA RowsLeave ==
    ASSUME IInv, queue' \subseteq queue,
           UNCHANGED <<nextId, status, friends, req, faults, inserted, seen>>
    PROVE  IInv'
<1>. TypeOK /\ nextId \in Nat
  BY DEF IInv, TypeOK
<1>1. TypeOK'
  BY DEF TypeOK
<1>2. MovedOn
  BY DEF MovedOn
<1>3. RowsInv' /\ MessageIdUnique'
  BY DEF IInv, RowsInv, MessageIdUnique
<1>4. \A r \in Requests : RequestInv(r)'
  BY <1>2, Bystander DEF IInv
<1>. QED  BY <1>1, <1>3, <1>4 DEF IInv

LEMMA RemoveFriendStep ==
    ASSUME IInv, NEW pair \in Pairs, RemoveFriend(pair)
    PROVE  IInv'
<1>. TypeOK /\ nextId \in Nat /\ friends' = friends \ {pair}
     /\ UNCHANGED <<queue, nextId, status, req, faults, inserted, seen>>
  BY DEF IInv, TypeOK, RemoveFriend
<1>1. TypeOK'
  BY DEF TypeOK
<1>2. MovedOn
  BY DEF MovedOn
<1>3. RowsInv' /\ MessageIdUnique'
  BY DEF IInv, RowsInv, MessageIdUnique
<1>4. \A r \in Requests : RequestInv(r)'
  BY <1>2, Bystander DEF IInv
<1>. QED  BY <1>1, <1>3, <1>4 DEF IInv

\* Friends are made: whoever runs a request to the other is no stranger now.
LEMMA BefriendStep ==
    ASSUME IInv, NEW pair \in Pairs, Befriend(pair)
    PROVE  IInv'
<1>. /\ TypeOK /\ nextId \in Nat /\ friends' = friends \cup {pair}
     /\ UNCHANGED <<queue, nextId, status, req, faults, inserted>>
     /\ seen \in [Requests -> Seen]
  BY DEF IInv, TypeOK, Befriend
<1>1. ASSUME NEW r \in Requests
      PROVE  /\ seen'[r] \in Seen
             /\ seen'[r].start = seen[r].start
             /\ seen'[r].status = seen[r].status
             /\ seen'[r].guessed = seen[r].guessed
             /\ seen'[r].strangers =>
                   /\ seen[r].strangers
                   /\ req[r].pc # "idle" =>
                        {req[r].call.uid, Recipient(req[r].call)} # pair
  <2>. DEFINE met == /\ req[r].pc # "idle"
                     /\ {req[r].call.uid, Recipient(req[r].call)} = pair
  <2>1. seen'[r] = IF met THEN [seen[r] EXCEPT !.strangers = FALSE] ELSE seen[r]
    BY DEF Befriend
  <2>2. seen[r] \in Seen
    OBVIOUS
  <2>3. CASE met
    BY <2>1, <2>2, <2>3 DEF Seen
  <2>4. CASE ~met
    BY <2>1, <2>2, <2>4
  <2>. QED  BY <2>3, <2>4
<1>2. TypeOK'
  <2>1. seen' \in [Requests -> Seen]
    BY <1>1 DEF Befriend
  <2>. QED  BY <2>1 DEF TypeOK
<1>3. RowsInv' /\ MessageIdUnique'
  BY DEF IInv, RowsInv, MessageIdUnique
<1>4. ASSUME NEW r \in Requests
      PROVE  RequestInv(r)'
  <2>. RequestInv(r)
    BY DEF IInv
  <2>. DEFINE call == req[r].call
  <2>1. SeenAt(r)'
    <3>1. ASSUME seen'[r].strangers, req[r].pc # "idle"
          PROVE  ~(call.uid = Recipient(call)
                   \/ {call.uid, Recipient(call)} \in friends')
      <4>1. ~MayWrite(call) /\ {call.uid, Recipient(call)} # pair
        BY <1>1, <3>1 DEF RequestInv, SeenAt
      <4>. QED  BY <4>1 DEF MayWrite, Friends
    <3>. QED  BY <1>1, <3>1
              DEF RequestInv, SeenAt, MayWrite, Friends, Recipient
  <2>2. ChecksAt(r)'
    BY <1>1 DEF RequestInv, ChecksAt
  <2>3. SequenceAt(r)'
    BY <1>1 DEF RequestInv, SequenceAt
  <2>4. ReplyAt(r)'
    BY <1>1 DEF RequestInv, ReplyAt, Stored, OtherStored, CopyStored, SameContent
  <2>. QED  BY <2>1, <2>2, <2>3, <2>4 DEF RequestInv
<1>. QED  BY <1>2, <1>3, <1>4 DEF IInv

-----------------------------------------------------------------------------
(* The inductive invariant.                                                *)

LEMMA InitInv == Init => IInv
<1>. SUFFICES ASSUME Init PROVE IInv
  OBVIOUS
<1>1. TypeOK
  <2>1. IdleRequest \in Request
    BY DEF IdleRequest, Request, PC, Reply
  <2>2. req \in [Requests -> Request]
        /\ \A r \in Requests : req[r].pc = "idle"
    BY <2>1 DEF Init, IdleRequest
  <2>3. seen \in [Requests -> Seen]
    BY DEF Init, Seen, Status
  <2>. QED  BY <2>2, <2>3 DEF Init, TypeOK, Status
<1>2. RowsInv /\ MessageIdUnique
  BY DEF Init, RowsInv, MessageIdUnique
<1>3. \A r \in Requests : RequestInv(r)
  BY DEF Init, IdleRequest, RequestInv, SeenAt, ChecksAt, SequenceAt, ReplyAt,
         Version1, Version2, ToInsert, PastSender, PastFriend, Running
<1>. QED  BY <1>1, <1>2, <1>3 DEF IInv

\* A step of one request leaves the others as they are.
LEMMA KeptIInv ==
    ASSUME IInv, NEW r \in Requests, Kept(r)
    PROVE  IInv'
<1>1. ASSUME NEW s \in Requests \ {r}
      PROVE  RequestInv(s)'
  BY <1>1, Bystander DEF IInv, Kept, Alone
<1>. QED  BY <1>1 DEF IInv, Kept

LEMMA NextInv == IInv /\ [Next]_vars => IInv'
<1>. SUFFICES ASSUME IInv, [Next]_vars PROVE IInv'
  OBVIOUS
<1>1. CASE \E r \in Requests : Send(r)
  BY <1>1, SendKept, KeptIInv
<1>2. CASE \E d \in Devices : RegisterDevice(d) \/ RevokeDevice(d)
  BY <1>2, DeviceStep
<1>3. CASE \E pair \in Pairs : Befriend(pair) \/ RemoveFriend(pair)
  BY <1>3, BefriendStep, RemoveFriendStep
<1>4. CASE \E x \in queue : AcknowledgeMessage(x)
  BY <1>4, RowsLeave DEF AcknowledgeMessage
<1>5. CASE \E expired \in SUBSET queue : expired # {} /\ Cleanup(expired)
  BY <1>5, RowsLeave DEF Cleanup
<1>6. CASE UNCHANGED vars
  BY <1>6, RowsLeave DEF vars
<1>. QED  BY <1>1, <1>2, <1>3, <1>4, <1>5, <1>6 DEF Next

-----------------------------------------------------------------------------
(* The steps that add rows.                                                *)

\* Only an INSERT adds rows, and they are added by the request it belongs to.
LEMMA Inserting ==
    ASSUME IInv, [Next]_vars, NEW r \in Requests, NEW y \in Added(r)
    PROVE  /\ y \in inserted' \ inserted
           /\ InsertEnvelope(r) \/ FanOut(r)
<1>1. y \in inserted' \ inserted /\ req'[r] # req[r]
  BY DEF Added
<1>2. PICK s \in Requests : Send(s)
  BY <1>1 DEF Next, vars, RegisterDevice, RevokeDevice, Befriend, RemoveFriend,
              AcknowledgeMessage, Cleanup
<1>3. s = r
  BY <1>1, <1>2, SendKept DEF Kept, Alone
<1>4. Send(r)
  BY <1>2, <1>3
<1>. QED  BY <1>1, <1>4
          DEF Send, Begin, CheckSender, FindOwner, CheckFriendship, CheckActive,
              ReadSequence, LookUp, ListDevices, StatementFails, tables

\* A row is added after all of its request's checks.
LEMMA AddedRow ==
    ASSUME IInv, [Next]_vars, NEW r \in Requests, NEW y \in Added(r)
    PROVE  /\ ~seen[r].strangers
           /\ seen[r].status[y.device] # "REVOKED"
           /\ seen[r].status[req[r].call.from] # "REVOKED"
           /\ req[r].call.version = 2 =>
                 /\ req[r].pc = "insert"
                 /\ y.device = req[r].call.to
                 /\ y.sequence = req[r].sequence
<1>. RequestInv(r)
  BY DEF IInv
<1>1. y \in inserted' \ inserted
  BY Inserting
<1>2. CASE InsertEnvelope(r)
  <2>1. req[r].pc = "insert"
    BY <1>2 DEF InsertEnvelope
  <2>2. y.device = req[r].call.to /\ y.sequence = req[r].sequence
    BY <1>1, <1>2 DEF InsertEnvelope
  <2>. QED  BY <2>1, <2>2
            DEF RequestInv, ChecksAt, ToInsert, PastSender, PastFriend, Running, PC
<1>3. CASE FanOut(r)
  <2>1. req[r].pc = "fanout"
    BY <1>3 DEF FanOut
  <2>2. y.device \in req[r].targets
    BY <1>1, <1>3 DEF FanOut
  <2>. QED  BY <2>1, <2>2
            DEF RequestInv, ChecksAt, Version1, PastSender, PastFriend, Running, PC
<1>. QED  BY <1>2, <1>3, Inserting

-----------------------------------------------------------------------------
(* Counting the bytes of a mailbox.                                        *)

\* A row takes as many bytes as its payload is long.
LEMMA BytesOfRow ==
    ASSUME NEW x, x.payload \in Payloads
    PROVE  /\ IsFiniteSet(Bytes({x}))
           /\ Cardinality(Bytes({x})) = Size[x.payload]
<1>. DEFINE n == Size[x.payload]
<1>1. n \in Nat
  OBVIOUS
<1>2. Bytes({x}) = {x} \X (1 .. n)
  BY DEF Bytes
<1>. HIDE DEF n
<1>3. IsFiniteSet(1 .. n) /\ Cardinality(1 .. n) = n
  BY <1>1, FS_Interval
<1>4. IsFiniteSet({x}) /\ Cardinality({x}) = 1
  BY FS_Singleton
<1>. DEFINE one == {x}
            places == 1 .. n
<1>. HIDE DEF one, places
<1>5. /\ IsFiniteSet(one \X places)
      /\ Cardinality(one \X places) = Cardinality(one) * Cardinality(places)
  BY <1>3, <1>4, FS_Product DEF one, places
<1>6. Cardinality(one) = 1 /\ Cardinality(places) = n
  BY <1>3, <1>4 DEF one, places
<1>7. Cardinality(one \X places) = n
  BY <1>1, <1>5, <1>6
<1>. QED  BY <1>2, <1>5, <1>7 DEF n, one, places

\* The bytes of two sets of rows are the bytes of either.
LEMMA BytesUnion ==
    ASSUME NEW rows, NEW more
    PROVE  Bytes(rows \cup more) = Bytes(rows) \cup Bytes(more)
BY DEF Bytes

\* One more row takes at most its own place.
LEMMA RowCounted ==
    ASSUME NEW rows, IsFiniteSet(rows), IsFiniteSet(Bytes(rows)),
           NEW x, x.payload \in Payloads
    PROVE  /\ IsFiniteSet(rows \cup {x}) /\ IsFiniteSet(Bytes(rows \cup {x}))
           /\ Cardinality(rows \cup {x}) <= Cardinality(rows) + 1
           /\ Cardinality(Bytes(rows \cup {x}))
                 <= Cardinality(Bytes(rows)) + Size[x.payload]
<1>1. Cardinality(rows) \in Nat /\ Cardinality(Bytes(rows)) \in Nat
  BY FS_CardinalityType
<1>2. /\ IsFiniteSet(rows \cup {x})
      /\ Cardinality(rows \cup {x}) <= Cardinality(rows) + 1
  <2>1. /\ IsFiniteSet(rows \cup {x})
        /\ \/ Cardinality(rows \cup {x}) = Cardinality(rows)
           \/ Cardinality(rows \cup {x}) = Cardinality(rows) + 1
    BY FS_AddElement, Zenon
  <2>. QED  BY <1>1, <2>1
<1>. DEFINE old == Bytes(rows)
            new == Bytes({x})
<1>3. IsFiniteSet(old) /\ IsFiniteSet(new) /\ Cardinality(new) = Size[x.payload]
  BY BytesOfRow
<1>4. Bytes(rows \cup {x}) = old \cup new
  BY BytesUnion
<1>5. Cardinality(old) \in Nat /\ Size[x.payload] \in Nat
  BY <1>1
<1>. HIDE DEF old, new
<1>6. IsFiniteSet(old \cap new) /\ Cardinality(old \cap new) \in Nat
  <2>1. old \cap new \in SUBSET old
    OBVIOUS
  <2>2. IsFiniteSet(old \cap new)
    BY <1>3, <2>1, FS_Subset
  <2>. QED  BY <2>2, FS_CardinalityType
<1>7. /\ IsFiniteSet(old \cup new)
      /\ Cardinality(old \cup new)
            = Cardinality(old) + Cardinality(new) - Cardinality(old \cap new)
  BY <1>3, FS_Union
<1>8. Cardinality(old \cup new) <= Cardinality(old) + Size[x.payload]
  BY <1>3, <1>5, <1>6, <1>7
<1>. QED  BY <1>2, <1>4, <1>7, <1>8 DEF old

\* Fewer rows take less room.
LEMMA RowsCounted ==
    ASSUME NEW rows, IsFiniteSet(rows), IsFiniteSet(Bytes(rows)),
           NEW left \in SUBSET rows
    PROVE  /\ IsFiniteSet(left) /\ IsFiniteSet(Bytes(left))
           /\ Cardinality(left) <= Cardinality(rows)
           /\ Cardinality(Bytes(left)) <= Cardinality(Bytes(rows))
<1>1. IsFiniteSet(left) /\ Cardinality(left) <= Cardinality(rows)
  BY FS_Subset
<1>2. Bytes(left) \in SUBSET Bytes(rows)
  BY DEF Bytes
<1>3. /\ IsFiniteSet(Bytes(left))
      /\ Cardinality(Bytes(left)) <= Cardinality(Bytes(rows))
  BY <1>2, FS_Subset
<1>. QED  BY <1>1, <1>3

-----------------------------------------------------------------------------
(* The quota.                                                              *)

\* QuotaInv for one mailbox.
QuotaAt(d) ==
    /\ IsFiniteSet(Mailbox(d)) /\ IsFiniteSet(Bytes(Mailbox(d)))
    /\ Cardinality(Mailbox(d)) <= MaxMailboxMessages
    /\ Used(d) <= MaxMailboxBytes

\* The quota is a matter of each mailbox.
LEMMA QuotaByMailbox == QuotaInv <=> \A d \in Devices : QuotaAt(d)
BY DEF QuotaInv, FiniteInv, QuotaRespected, QuotaAt

\* A mailbox that has room for a row is not too full with it.
LEMMA RowFits ==
    ASSUME NEW d \in Devices, QuotaAt(d), NEW x, x.payload \in Payloads,
           HasRoom(d, x.payload), Mailbox(d)' = Mailbox(d) \cup {x}
    PROVE  QuotaAt(d)'
<1>. DEFINE rows == Mailbox(d)
<1>1. /\ IsFiniteSet(rows) /\ IsFiniteSet(Bytes(rows))
      /\ Cardinality(rows) < MaxMailboxMessages
      /\ Cardinality(Bytes(rows)) + Size[x.payload] <= MaxMailboxBytes
  BY DEF QuotaAt, HasRoom, Used
<1>2. (QuotaAt(d))' <=>
         /\ IsFiniteSet(Mailbox(d)') /\ IsFiniteSet(Bytes(Mailbox(d)'))
         /\ Cardinality(Mailbox(d)') <= MaxMailboxMessages
         /\ Cardinality(Bytes(Mailbox(d)')) <= MaxMailboxBytes
  BY DEF QuotaAt, Used, Bytes
<1>3. PICK old : old = rows
  OBVIOUS
<1>4. /\ IsFiniteSet(old \cup {x}) /\ IsFiniteSet(Bytes(old \cup {x}))
      /\ Cardinality(old \cup {x}) <= Cardinality(old) + 1
      /\ Cardinality(Bytes(old \cup {x}))
            <= Cardinality(Bytes(old)) + Size[x.payload]
      /\ Cardinality(old) \in Nat /\ Cardinality(Bytes(old)) \in Nat
      /\ Cardinality(old \cup {x}) \in Nat
      /\ Cardinality(Bytes(old \cup {x})) \in Nat
  BY <1>1, <1>3, RowCounted, FS_CardinalityType
<1>5. Size[x.payload] \in Nat
  OBVIOUS
<1>6. /\ Cardinality(old \cup {x}) <= MaxMailboxMessages
      /\ Cardinality(Bytes(old \cup {x})) <= MaxMailboxBytes
  BY <1>1, <1>3, <1>4, <1>5
<1>. QED  BY <1>2, <1>3, <1>4, <1>6

\* A mailbox that lost rows, or did not change, is not too full either.
LEMMA RowsFit ==
    ASSUME NEW d \in Devices, QuotaAt(d), Mailbox(d)' \subseteq Mailbox(d)
    PROVE  QuotaAt(d)'
<1>1. (QuotaAt(d))' <=>
         /\ IsFiniteSet(Mailbox(d)') /\ IsFiniteSet(Bytes(Mailbox(d)'))
         /\ Cardinality(Mailbox(d)') <= MaxMailboxMessages
         /\ Cardinality(Bytes(Mailbox(d)')) <= MaxMailboxBytes
  BY DEF QuotaAt, Used, Bytes
<1>2. PICK rows : rows = Mailbox(d)
  OBVIOUS
<1>3. PICK left : left = Mailbox(d)'
  OBVIOUS
<1>4. /\ IsFiniteSet(rows) /\ IsFiniteSet(Bytes(rows))
      /\ Cardinality(rows) <= MaxMailboxMessages
      /\ Cardinality(Bytes(rows)) <= MaxMailboxBytes
  BY <1>2 DEF QuotaAt, Used
<1>5. left \in SUBSET rows
  BY <1>2, <1>3
<1>6. /\ IsFiniteSet(left) /\ IsFiniteSet(Bytes(left))
      /\ Cardinality(left) <= Cardinality(rows)
      /\ Cardinality(Bytes(left)) <= Cardinality(Bytes(rows))
  BY <1>4, <1>5, RowsCounted
<1>7. /\ Cardinality(left) \in Nat /\ Cardinality(rows) \in Nat
      /\ Cardinality(Bytes(left)) \in Nat /\ Cardinality(Bytes(rows)) \in Nat
  BY <1>4, <1>6, FS_CardinalityType
<1>8. /\ Cardinality(left) <= MaxMailboxMessages
      /\ Cardinality(Bytes(left)) <= MaxMailboxBytes
  BY <1>4, <1>6, <1>7
<1>. QED  BY <1>1, <1>3, <1>6, <1>8

\* A fan-out adds one row to each of its mailboxes that has room.
LEMMA FanOutAdds ==
    ASSUME IInv, NEW r \in Requests, FanOut(r), NEW d \in req[r].targets,
           HasRoom(d, req[r].call.payload)
    PROVE  \E x \in inserted' :
              /\ x.device = d /\ x.id \in Nat /\ nextId <= x.id
              /\ x.payload = req[r].call.payload
              /\ x.sequence = FanOutSequence(d)
              /\ Mailbox(d)' = Mailbox(d) \cup {x}
<1>. DEFINE call == req[r].call
            open == {e \in req[r].targets : HasRoom(e, call.payload)}
            next == nextId + Cardinality(open)
            copy(id, e) == [id |-> id[e], device |-> e, sender |-> None,
                            mid |-> None, payload |-> call.payload,
                            sequence |-> FanOutSequence(e)]
<1>0. nextId \in Nat
  BY DEF IInv, TypeOK
<1>1. PICK id \in [open -> nextId .. next - 1] :
         /\ queue' = queue \cup {copy(id, e) : e \in open}
         /\ inserted' = inserted \cup {copy(id, e) : e \in open}
  BY DEF FanOut
<1>2. d \in open
  OBVIOUS
<1>3. Cardinality(open) \in Nat
  <2>1. open \in SUBSET Devices
    BY DEF IInv, TypeOK, Request
  <2>. HIDE DEF open
  <2>. QED  BY <2>1, OpenCount
<1>. DEFINE x == copy(id, d)
<1>4. x.id \in Nat /\ nextId <= x.id
  <2>. HIDE DEF open
  <2>. QED  BY <1>0, <1>1, <1>2, <1>3
<1>5. x \in inserted'
  BY <1>1, <1>2
<1>6. /\ x.device = d /\ x.payload = call.payload
      /\ x.sequence = FanOutSequence(d)
  OBVIOUS
<1>7. Mailbox(d)' = Mailbox(d) \cup {x}
  <2>. DEFINE rows == {copy(id, e) : e \in open}
  <2>1. \A y \in rows : y.device = d => y = x
    OBVIOUS
  <2>2. x \in rows /\ x.device = d
    BY <1>2
  <2>3. queue' = queue \cup rows
    BY <1>1
  <2>. HIDE DEF rows, x
  <2>. QED  BY <2>1, <2>2, <2>3 DEF Mailbox
<1>. HIDE DEF x
<1>. QED  BY <1>4, <1>5, <1>6, <1>7

\* It leaves every other mailbox alone.
LEMMA FanOutSkips ==
    ASSUME IInv, NEW r \in Requests, FanOut(r), NEW d,
           ~(d \in req[r].targets /\ HasRoom(d, req[r].call.payload))
    PROVE  Mailbox(d)' = Mailbox(d)
<1>. DEFINE open == {e \in req[r].targets : HasRoom(e, req[r].call.payload)}
<1>1. \A y \in queue' \ queue : y.device \in open
  BY DEF FanOut
<1>2. queue \subseteq queue' /\ d \notin open
  BY DEF FanOut
<1>. HIDE DEF open
<1>. QED  BY <1>1, <1>2 DEF Mailbox

\* The steps of a request that add no row.
LEMMA QueueKept ==
    ASSUME NEW r \in Requests, Send(r), ~InsertEnvelope(r), ~FanOut(r)
    PROVE  UNCHANGED <<queue, inserted, nextId>>
BY DEF Send, Begin, CheckSender, FindOwner, CheckFriendship, CheckActive,
       ReadSequence, LookUp, ListDevices, StatementFails, tables

\* The quota is kept by whatever INSERTs run, in whatever order.
LEMMA QuotaStep ==
    ASSUME IInv, QuotaInv, [Next]_vars
    PROVE  QuotaInv'
<1>1. ASSUME queue' \subseteq queue
      PROVE  QuotaInv'
  <2>1. ASSUME NEW d \in Devices
        PROVE  QuotaAt(d)'
    BY <1>1, QuotaByMailbox, RowsFit DEF Mailbox
  <2>. QED  BY <2>1 DEF QuotaInv, FiniteInv, QuotaRespected, QuotaAt
<1>2. ASSUME NEW r \in Requests, InsertEnvelope(r)
      PROVE  QuotaInv'
  <2>. DEFINE call == req[r].call
              row == [id |-> nextId, device |-> call.to, sender |-> call.from,
                      mid |-> call.mid, payload |-> call.payload,
                      sequence |-> req[r].sequence]
  <2>1. CASE queue' = queue
    BY <1>1, <2>1
  <2>2. CASE HasRoom(call.to, call.payload) /\ queue' = queue \cup {row}
    <3>1. call.payload \in Payloads
      BY <1>2, CallTypes DEF IInv, TypeOK, InsertEnvelope
    <3>2. row.payload = call.payload /\ row.device = call.to
      OBVIOUS
    <3>. HIDE DEF row
    <3>3. ASSUME NEW d \in Devices
          PROVE  QuotaAt(d)'
      <4>1. QuotaAt(d)
        BY QuotaByMailbox
      <4>2. CASE d = call.to
        <5>1. Mailbox(d)' = Mailbox(d) \cup {row}
          BY <2>2, <3>2, <4>2 DEF Mailbox
        <5>. QED  BY <2>2, <3>1, <3>2, <4>1, <4>2, <5>1, RowFits
      <4>3. CASE d # call.to
        <5>1. Mailbox(d)' = Mailbox(d)
          BY <2>2, <3>2, <4>3 DEF Mailbox
        <5>. QED  BY <4>1, <5>1, RowsFit
      <4>. QED  BY <4>2, <4>3
    <3>. QED  BY <3>3 DEF QuotaInv, FiniteInv, QuotaRespected, QuotaAt
  <2>. QED  BY <1>2, <2>1, <2>2 DEF InsertEnvelope
<1>3. ASSUME NEW r \in Requests, FanOut(r)
      PROVE  QuotaInv'
  <2>. DEFINE call == req[r].call
  <2>1. call.payload \in Payloads
    BY <1>3, CallTypes DEF IInv, TypeOK, FanOut
  <2>2. ASSUME NEW d \in Devices
        PROVE  QuotaAt(d)'
    <3>1. QuotaAt(d)
      BY QuotaByMailbox
    <3>2. CASE d \in req[r].targets /\ HasRoom(d, call.payload)
      <4>1. PICK x \in inserted' :
               x.payload = call.payload /\ Mailbox(d)' = Mailbox(d) \cup {x}
        BY <1>3, <3>2, FanOutAdds
      <4>. QED  BY <2>1, <3>1, <3>2, <4>1, RowFits
    <3>3. CASE ~(d \in req[r].targets /\ HasRoom(d, call.payload))
      <4>1. Mailbox(d)' = Mailbox(d)
        BY <1>3, <3>3, FanOutSkips
      <4>. QED  BY <3>1, <4>1, RowsFit
    <3>. QED  BY <3>2, <3>3
  <2>. QED  BY <2>2 DEF QuotaInv, FiniteInv, QuotaRespected, QuotaAt
<1>4. CASE \E r \in Requests : Send(r)
  BY <1>1, <1>2, <1>3, <1>4, QueueKept
<1>5. CASE UNCHANGED queue \/ queue' \subseteq queue
  BY <1>1, <1>5
<1>. QED  BY <1>4, <1>5
          DEF Next, vars, RegisterDevice, RevokeDevice, Befriend, RemoveFriend,
              AcknowledgeMessage, Cleanup

\* The empty mailboxes are within the quota.
LEMMA QuotaInit == Init => QuotaInv
<1>. SUFFICES ASSUME Init PROVE QuotaInv
  OBVIOUS
<1>1. ASSUME NEW d \in Devices
      PROVE  QuotaAt(d)
  <2>1. Mailbox(d) = {} /\ Bytes(Mailbox(d)) = {}
    BY DEF Init, Mailbox, Bytes
  <2>2. IsFiniteSet({}) /\ Cardinality({}) = 0
    BY FS_EmptySet
  <2>. QED  BY <2>1, <2>2 DEF QuotaAt, Used
<1>. QED  BY <1>1, QuotaByMailbox

-----------------------------------------------------------------------------
(* Whom a fan-out reaches.                                                 *)

\* A device keeps its row, and becomes active once.
LEMMA StatusMoves ==
    ASSUME IInv, [Next]_vars, NEW d \in Devices, IsKnown(d)
    PROVE  IsKnown(d)' /\ (IsActive(d)' => IsActive(d))
<1>. status \in [Devices -> Status]
  BY DEF IInv, TypeOK
<1>1. CASE status' = status
  BY <1>1 DEF IsKnown, IsActive
<1>2. ASSUME NEW e \in Devices, RegisterDevice(e)
      PROVE  IsKnown(d)' /\ (IsActive(d)' => IsActive(d))
  <2>1. status[e] = "ABSENT" /\ status' = [status EXCEPT ![e] = "ACTIVE"]
    BY <1>2 DEF RegisterDevice
  <2>. QED  BY <2>1 DEF IsKnown, IsActive
<1>3. ASSUME NEW e \in Devices, RevokeDevice(e)
      PROVE  IsKnown(d)' /\ (IsActive(d)' => IsActive(d))
  <2>1. status' = [status EXCEPT ![e] = "REVOKED"]
    BY <1>3 DEF RevokeDevice
  <2>. QED  BY <2>1 DEF IsKnown, IsActive
<1>4. CASE \E s \in Requests : Send(s)
  BY <1>1, <1>4
     DEF Send, Begin, CheckSender, FindOwner, CheckFriendship, CheckActive,
         ReadSequence, InsertEnvelope, LookUp, ListDevices, FanOut,
         StatementFails, tables
<1>. QED  BY <1>1, <1>2, <1>3, <1>4
          DEF Next, vars, Befriend, RemoveFriend, AcknowledgeMessage, Cleanup

\* The steps of others take no device off the list.
LEMMA ListedStays ==
    ASSUME IInv, [Next]_vars, NEW r \in Requests, ListedAt(r),
           req'[r] = req[r], seen'[r].status = seen[r].status
    PROVE  ListedAt(r)'
BY StatusMoves DEF ListedAt

\* A request of its own lists every active device of the recipient.
LEMMA ListedBySend ==
    ASSUME IInv, [Next]_vars, NEW r \in Requests, ListedAt(r), Send(r)
    PROVE  ListedAt(r)'
<1>0. /\ req \in [Requests -> Request] /\ req[r] \in Request
      /\ seen \in [Requests -> Seen] /\ seen[r] \in Seen
      /\ status' = status
  BY DEF IInv, TypeOK, Send, Begin, CheckSender, FindOwner, CheckFriendship,
         CheckActive, ReadSequence, InsertEnvelope, LookUp, ListDevices, FanOut,
         StatementFails, tables
<1>1. ASSUME NEW call \in Calls, Begin(r, call)
      PROVE  ListedAt(r)'
  <2>1. seen'[r].status = status /\ req'[r].pc = "sender"
    BY <1>0, <1>1 DEF Begin, Request
  <2>. QED  BY <1>0, <2>1 DEF ListedAt, IsKnown
<1>2. ASSUME req[r].pc # "idle", req'[r].pc # "fanout",
             seen'[r].status = seen[r].status
      PROVE  ListedAt(r)'
  BY <1>0, <1>2 DEF ListedAt, IsKnown
<1>3. CASE ListDevices(r)
  <2>. DEFINE devices == {d \in Devices :
                            IsActive(d) /\ Owner[d] = req[r].call.to}
  <2>1. seen' = seen /\ req[r].pc # "idle"
    BY <1>3 DEF ListDevices
  <2>2. CASE Answer(r, "no_devices")
    BY <1>0, <1>2, <2>1, <2>2 DEF Answer, Request
  <2>3. CASE req' = [req EXCEPT ![r].pc = "fanout", ![r].targets = devices]
    <3>. HIDE DEF devices
    <3>1. req'[r].targets = devices /\ req'[r].call = req[r].call
          /\ req'[r].pc = "fanout"
      BY <1>0, <2>3 DEF Request
    <3>. QED  BY <1>0, <2>1, <3>1 DEF devices, ListedAt, IsKnown, IsActive
  <2>. QED  BY <1>3, <2>2, <2>3 DEF ListDevices
<1>4. ASSUME NEW reply, Answer(r, reply)
      PROVE  req'[r].pc = "done"
  BY <1>0, <1>4 DEF Answer, Request
<1>5. ASSUME NEW pc, Goto(r, pc)
      PROVE  req'[r].pc = pc
  BY <1>0, <1>5 DEF Goto, Request
<1>6. CASE CheckSender(r) \/ FindOwner(r) \/ CheckFriendship(r)
           \/ CheckActive(r) \/ LookUp(r) \/ StatementFails(r) \/ FanOut(r)
  <2>1. seen' = seen /\ req[r].pc # "idle"
    BY <1>6 DEF CheckSender, FindOwner, CheckFriendship, CheckActive, LookUp,
                StatementFails, FanOut
  <2>2. \/ \E reply : Answer(r, reply)
        \/ \E pc \in PC \ {"fanout"} : Goto(r, pc)
    <3>. HIDE DEF Answer, Goto
    <3>1. CASE CheckSender(r)
      <4>1. (IF req[r].call.version = 2 THEN "owner" ELSE "friend")
               \in PC \ {"fanout"}
        BY DEF PC
      <4>. QED  BY <3>1, <4>1 DEF CheckSender
    <3>2. CASE FindOwner(r)
      BY <3>2 DEF FindOwner, PC
    <3>3. CASE CheckFriendship(r)
      <4>1. (IF req[r].call.version = 2 THEN "active" ELSE "devices")
               \in PC \ {"fanout"}
        BY DEF PC
      <4>. QED  BY <3>3, <4>1 DEF CheckFriendship
    <3>4. CASE CheckActive(r)
      BY <3>4 DEF CheckActive, PC
    <3>5. CASE LookUp(r) \/ StatementFails(r) \/ FanOut(r)
      BY <3>5 DEF LookUp, StatementFails, FanOut
    <3>. QED  BY <1>6, <3>1, <3>2, <3>3, <3>4, <3>5
  <2>. QED  BY <1>2, <1>4, <1>5, <2>1, <2>2
<1>7. CASE ReadSequence(r)
  <2>1. req[r].pc # "idle" /\ req'[r].pc = "insert"
    BY <1>0, <1>7 DEF ReadSequence, Request
  <2>2. seen'[r].status = seen[r].status
    BY <1>0, <1>7 DEF ReadSequence, Seen
  <2>. QED  BY <1>2, <2>1, <2>2
<1>8. CASE InsertEnvelope(r)
  <2>1. req[r].pc # "idle"
    BY <1>8 DEF InsertEnvelope
  <2>2. Answer(r, "error") \/ Answer(r, "ok") \/ Goto(r, "lookup")
    BY <1>8 DEF InsertEnvelope
  <2>3. seen'[r].status = seen[r].status
    BY <1>0, <1>8 DEF InsertEnvelope, Seen
  <2>. QED  BY <1>2, <1>4, <1>5, <2>1, <2>2, <2>3
<1>. QED  BY <1>1, <1>3, <1>6, <1>7, <1>8 DEF Send

\* Making friends changes no history of the devices.
LEMMA BefriendSeen ==
    ASSUME IInv, NEW pair \in Pairs, Befriend(pair), NEW r \in Requests
    PROVE  req'[r] = req[r] /\ seen'[r].status = seen[r].status
<1>1. seen[r] \in Seen
  BY DEF IInv, TypeOK
<1>2. seen'[r] = seen[r] \/ seen'[r] = [seen[r] EXCEPT !.strangers = FALSE]
  BY DEF Befriend
<1>3. seen'[r].status = seen[r].status
  BY <1>1, <1>2 DEF Seen
<1>. QED  BY <1>3 DEF Befriend

\* The list of every request holds who it should.
LEMMA ListedStep ==
    ASSUME IInv, [Next]_vars, NEW r \in Requests, ListedAt(r)
    PROVE  ListedAt(r)'
<1>1. CASE req' = req /\ seen' = seen
  BY <1>1, ListedStays
<1>2. ASSUME NEW s \in Requests, Send(s)
      PROVE  ListedAt(r)'
  <2>1. CASE s = r
    BY <1>2, <2>1, ListedBySend
  <2>2. CASE s # r
    BY <1>2, <2>2, SendKept, ListedStays DEF Kept, Alone
  <2>. QED  BY <2>1, <2>2
<1>3. ASSUME NEW pair \in Pairs, Befriend(pair)
      PROVE  ListedAt(r)'
  BY <1>3, BefriendSeen, ListedStays
<1>. QED  BY <1>1, <1>2, <1>3
          DEF Next, vars, RegisterDevice, RevokeDevice, RemoveFriend,
              AcknowledgeMessage, Cleanup

\* What the quota and the fan-out rest on holds from the start, and goes on to.
LEMMA QInvInit == Init => QInv
<1>1. Init => \A r \in Requests : ListedAt(r)
  BY DEF Init, IdleRequest, ListedAt
<1>. QED  BY <1>1, InitInv, QuotaInit DEF QInv

LEMMA QInvNext == QInv /\ [Next]_vars => QInv'
BY NextInv, QuotaStep, ListedStep DEF QInv

\* A fan-out that is answered "ok" is one that ran.
LEMMA FanOutRan ==
    ASSUME IInv, [Next]_vars, NEW r \in Requests, req[r].pc = "fanout",
           req'[r].reply = "ok"
    PROVE  FanOut(r)
<1>1. req[r].reply # "ok"
  BY DEF IInv, RequestInv, ReplyAt
<1>2. PICK s \in Requests : Send(s)
  BY <1>1 DEF Next, vars, RegisterDevice, RevokeDevice, Befriend, RemoveFriend,
              AcknowledgeMessage, Cleanup
<1>3. s = r
  BY <1>1, <1>2, SendKept DEF Kept, Alone
<1>4. ~StatementFails(r)
  BY <1>1 DEF StatementFails, Answer, IInv, TypeOK, Request
<1>. QED  BY <1>2, <1>3, <1>4
          DEF Send, Begin, CheckSender, FindOwner, CheckFriendship, CheckActive,
              ReadSequence, InsertEnvelope, LookUp, ListDevices

\* A row whose mailbox has room is added to it.
LEMMA FanOutReaches ==
    ASSUME IInv, NEW r \in Requests, FanOut(r), NEW d \in req[r].targets,
           HasRoom(d, req[r].call.payload)
    PROVE  \E y \in Added(r) : y.device = d
<1>1. PICK y \in inserted' : y.device = d /\ nextId <= y.id /\ y.id \in Nat
  BY FanOutAdds
<1>2. \A x \in inserted : x.id \in Nat /\ x.id < nextId
  BY DEF IInv, RowsInv, TypeOK, Row
<1>3. y \notin inserted
  BY <1>1, <1>2 DEF IInv, TypeOK
<1>4. req'[r] # req[r]
  <2>1. req'[r].pc = "done" /\ req[r].pc = "fanout"
    BY DEF FanOut, Answer, IInv, TypeOK, Request
  <2>. QED  BY <2>1
<1>. QED  BY <1>1, <1>3, <1>4 DEF Added

-----------------------------------------------------------------------------
(* The theorems.                                                           *)

\* In every reachable state the invariant holds: what a request has passed, what
\* was the case when it began and what it answered agree with the tables.
THEOREM MailboxInvariantHolds == Spec => []IInv
<1>1. IInv /\ [Next]_vars => IInv'
  BY NextInv
<1>. QED  BY InitInv, <1>1, PTL DEF Spec

\* The variables keep their types, whatever the requests, limits and faults.
THEOREM TypesHold == Spec => []TypeOK
<1>1. IInv => TypeOK
  BY DEF IInv
<1>. QED  BY MailboxInvariantHolds, <1>1, PTL

\* No two rows of the queue have the same message id, whoever sent them.
THEOREM MessageIdsAreUnique == Spec => []MessageIdUnique
<1>1. IInv => MessageIdUnique
  BY DEF IInv
<1>. QED  BY MailboxInvariantHolds, <1>1, PTL

\* What a sender is told about its message is true of what was stored, though the
\* INSERT and the look-up after it are separate statements.
THEOREM RepliesHold == Spec => []RepliesAreTrue
<1>1. IInv => RepliesAreTrue
  BY DEF IInv, RequestInv, ReplyAt, RepliesAreTrue
<1>. QED  BY MailboxInvariantHolds, <1>1, PTL

\* An envelope is numbered above whatever was in the mailbox when its request
\* began, however many requests number their own in between.
THEOREM CausalOrderHolds == Spec => CausalOrder
<1>1. IInv /\ [Next]_vars =>
        [\A r \in Requests : req[r].call # None /\ req[r].call.version = 2
                              /\ ~seen[r].guessed =>
           \A y \in Added(r), x \in queue :
              x.device = y.device /\ x.id < seen[r].start =>
                 x.sequence < y.sequence]_vars
  <2>1. SUFFICES ASSUME IInv, [Next]_vars, NEW r \in Requests,
                        req[r].call.version = 2, ~seen[r].guessed,
                        NEW y \in Added(r), NEW x \in queue,
                        x.device = y.device, x.id < seen[r].start
                 PROVE  x.sequence < y.sequence
    OBVIOUS
  <2>2. RequestInv(r)
    BY <2>1 DEF IInv
  <2>3. /\ req[r].pc = "insert" /\ y.device = req[r].call.to
        /\ y.sequence = req[r].sequence
    BY <2>1, AddedRow
  <2>. QED  BY <2>1, <2>2, <2>3 DEF RequestInv, SequenceAt
<1>. QED  BY MailboxInvariantHolds, <1>1, PTL DEF Spec, CausalOrder

\* A request begun after a device was revoked stores nothing for it, and nothing
\* in its name, however its checks interleave with registrations and revocations.
THEOREM RevokedStaysClosedHolds == Spec => RevokedStaysClosed
<1>1. IInv /\ [Next]_vars =>
        [\A r \in Requests, y \in inserted' \ inserted : y \in Added(r) =>
           /\ seen[r].status[y.device] # "REVOKED"
           /\ seen[r].status[req[r].call.from] # "REVOKED"]_vars
  BY AddedRow
<1>. QED  BY MailboxInvariantHolds, <1>1, PTL DEF Spec, RevokedStaysClosed

\* A message is stored only if its request found sender and recipient friends, or
\* the same user, at some time since it began.
THEOREM NoStrangerHolds == Spec => NoStranger
<1>1. IInv /\ [Next]_vars =>
        [\A r \in Requests : Added(r) # {} => ~seen[r].strangers]_vars
  BY AddedRow
<1>. QED  BY MailboxInvariantHolds, <1>1, PTL DEF Spec, NoStranger

\* However many requests passed their checks together, no mailbox ever holds more
\* messages or bytes than the INSERT of either version allows.
THEOREM QuotaHolds == Spec => []QuotaRespected
<1>1. Init => QuotaInv
  BY QuotaInit
<1>2. IInv /\ QuotaInv /\ [Next]_vars => QuotaInv'
  BY QuotaStep
<1>3. QuotaInv => QuotaRespected
  BY DEF QuotaInv
<1>. QED  BY MailboxInvariantHolds, <1>1, <1>2, <1>3, PTL DEF Spec

\* A device that was active when a version 1 request began and still is gets its
\* copy unless its mailbox is full, whatever ran between listing and INSERT.
THEOREM FanOutReachesAllHolds == Spec => FanOutReachesAll
<1>1. QInv /\ [Next]_vars =>
        [\A r \in Requests : req[r].pc = "fanout" /\ req'[r].reply = "ok" =>
          \A d \in Devices :
             /\ Owner[d] = req[r].call.to
             /\ seen[r].status[d] = "ACTIVE" /\ status[d] = "ACTIVE"
             /\ \A y \in Added(r) : y.device # d
             => \/ Cardinality(Mailbox(d)) = MaxMailboxMessages
                \/ Used(d) + Size[req[r].call.payload] > MaxMailboxBytes]_vars
  <2>. SUFFICES ASSUME QInv, [Next]_vars, NEW r \in Requests,
                       req[r].pc = "fanout", req'[r].reply = "ok",
                       NEW d \in Devices, Owner[d] = req[r].call.to,
                       seen[r].status[d] = "ACTIVE", status[d] = "ACTIVE",
                       \A y \in Added(r) : y.device # d
                PROVE  \/ Cardinality(Mailbox(d)) = MaxMailboxMessages
                       \/ Used(d) + Size[req[r].call.payload] > MaxMailboxBytes
    OBVIOUS
  <2>1. IInv /\ QuotaAt(d) /\ ListedAt(r)
    BY QuotaByMailbox DEF QInv
  <2>2. FanOut(r)
    BY <2>1, FanOutRan
  <2>3. d \in req[r].targets
    BY <2>1 DEF ListedAt, IsActive
  <2>4. ~HasRoom(d, req[r].call.payload)
    BY <2>1, <2>2, <2>3, FanOutReaches
  <2>5. /\ Cardinality(Mailbox(d)) \in Nat /\ Used(d) \in Nat
        /\ Cardinality(Mailbox(d)) <= MaxMailboxMessages
    BY <2>1, FS_CardinalityType DEF QuotaAt, Used
  <2>6. Size[req[r].call.payload] \in Nat
    BY <2>1, CallTypes DEF IInv, TypeOK
  <2>. QED  BY <2>4, <2>5, <2>6 DEF HasRoom
<1>. QED  BY QInvInit, QInvNext, <1>1, PTL DEF Spec, FanOutReachesAll

=============================================================================
