------------------------------- MODULE Prekeys -------------------------------
(***************************************************************************)
(* The prekey store: devices upload signed and one-time prekeys, their      *)
(* friends claim them, one of each kind per claim.                          *)
(*                                                                         *)
(* Every upload and every claim is a chain of SQL statements in one         *)
(* transaction on SQLite in WAL mode.  A transaction that begins with a     *)
(* write waits for the one write lock.  One that begins with a SELECT reads *)
(* a snapshot, and its first write fails at once if the lock is taken or    *)
(* anything was committed since.  Nobody sees the writes of a transaction   *)
(* before it commits, and none survive if it fails: db is what was          *)
(* committed, work what the holder of the lock has made of it.              *)
(***************************************************************************)
EXTENDS Integers, FiniteSets

CONSTANTS
    Users,
    Devices,
    Owner,              \* the user who registers a device
    Kinds,              \* "curve" and "pq"
    KeyIds,
    IdempotencyKeys,
    None,
    Requests,           \* bound: the calls of UploadPrekeys and ClaimPrekeys
    Calls,              \* what they may ask for
    MaxBatch,           \* MaxOneTimePrekeys, per kind and upload
    MaxPrekeys,         \* 10000, per kind and device
    MaxFaults           \* bound on failing statements and crashes

Key == [device: Devices, kind: Kinds, id: KeyIds]

Upload == [op: {"upload"}, uid: Users, device: Devices,
           signed: SUBSET Kinds, keys: SUBSET Key]

\* name: the target_user of the request, which is part of its fingerprint and
\* otherwise ignored.
Claim == [op: {"claim"}, uid: Users, device: Devices, name: Users,
          idKey: IdempotencyKeys \cup {None}]

ASSUME PrekeysAssumption ==
    /\ Owner \in [Devices -> Users]
    /\ KeyIds \subseteq Nat
    /\ IsFiniteSet(Devices) /\ IsFiniteSet(Kinds) /\ IsFiniteSet(KeyIds)
    /\ Calls \subseteq Upload \cup Claim
    /\ \A call \in Calls :
           call.op = "upload" => \A k \in call.keys : k.device = call.device
    /\ None \notin IdempotencyKeys \cup Requests
    /\ MaxBatch \in Nat /\ MaxPrekeys \in Nat /\ MaxFaults \in Nat

VARIABLES
    db,         \* the committed tables
    work,       \* the tables as the write transaction sees them
    writer,     \* the request that holds the write lock
    fresh,      \* requests reading a snapshot nothing was committed after
    friends,    \* friendships
    req,        \* the handlers' local state
    faults,     \* failed statements and crashes so far
    \* History, read by no action:
    issued,     \* per request, the bundle it committed
    strangers   \* requests whose caller was no friend of the owner since

vars == <<db, work, writer, fresh, friends, req, faults, issued, strangers>>

-----------------------------------------------------------------------------

\* A bundle: one one-time prekey of each kind at most, and per kind the upload
\* the signed prekey is from.
Bundle == [device: Devices, keys: SUBSET Key,
           signed: [Kinds -> Requests \cup {None}]]

\* A row of idempotency_records; its bundle is NULL until it is known.
Record == [name: Users, device: Devices, bundle: Bundle \cup {None}]

ASSUME NoneAssumption == None \notin Bundle \cup Record

\* one_time_*_prekeys: the keys stored, and those with status CONSUMED;
\* signed_*_prekeys; devices.status; idempotency_records.
Tables == [stored: SUBSET Key, consumed: SUBSET Key,
           signed: [Devices -> [Kinds -> Requests \cup {None}]],
           status: [Devices -> {"ABSENT", "ACTIVE", "REVOKED"}],
           record: [Users \X IdempotencyKeys -> Record \cup {None}]]

Empty == [stored |-> {}, consumed |-> {},
          signed |-> [d \in Devices |-> [kind \in Kinds |-> None]],
          status |-> [d \in Devices |-> "ABSENT"],
          record |-> [x \in Users \X IdempotencyKeys |-> None]]

PC == {"idle", "owned", "count", "write", "owner", "friend", "lookup",
       "insert", "consume", "identity", "signed", "store", "commit", "done"}

Reply == {"none", "ok", "error", "unauthorized", "limit", "not_found",
          "conflict", "lost"}

Request == [pc: PC, reply: Reply, call: Calls \cup {None},
            bundle: Bundle \cup {None}]

OnePerKind(keys) == \A j, k \in keys : j.kind = k.kind => j = k

Pairs == {pair \in SUBSET Users : Cardinality(pair) = 2}

TypeOK ==
    /\ db \in Tables
    /\ work \in Tables
    /\ writer \in Requests \cup {None}
    /\ fresh \subseteq Requests
    /\ friends \subseteq Pairs
    /\ req \in [Requests -> Request]
    /\ \A r \in Requests : req[r].pc # "idle" => req[r].call \in Calls
    /\ \A r \in Requests : req[r].bundle # None => OnePerKind(req[r].bundle.keys)
    /\ faults \in Nat
    /\ issued \in [Requests -> Bundle \cup {None}]
    /\ strangers \subseteq Requests

Init ==
    /\ db = Empty
    /\ work = Empty
    /\ writer = None
    /\ fresh = {}
    /\ friends = {}
    /\ req = [r \in Requests |->
                [pc |-> "idle", reply |-> "none", call |-> None, bundle |-> None]]
    /\ faults = 0
    /\ issued = [r \in Requests |-> None]
    /\ strangers = {}

-----------------------------------------------------------------------------
(* The queries.                                                            *)

Rows(t, d, kind) == {k \in t.stored : k.device = d /\ k.kind = kind}

Available(t, d, kind) == Rows(t, d, kind) \ t.consumed

\* SELECT key_id ... ORDER BY key_id ASC LIMIT 1: a key or none.
\* A plausible bug: no LIMIT.
OldestFirst(t, d, kind) == Available(t, d, kind)

Oldest(t, d, kind) ==
    {k \in Available(t, d, kind) : \A j \in Available(t, d, kind) : k.id <= j.id}

Friends(u, v) == u = v \/ {u, v} \in friends

\* A plausible bug: only the key of the record is compared, not what it is for.
SameKey(row, call) == TRUE

SamePrint(row, call) == row.name = call.name /\ row.device = call.device

RecordKey(call) == <<call.uid, call.idKey>>

OfKind(keys, kind) == {k \in keys : k.kind = kind}

WithinLimit(t, call) ==
    \A kind \in Kinds :
        OfKind(call.keys, kind) # {} =>
            Cardinality(Rows(t, call.device, kind))
                + Cardinality(OfKind(call.keys, kind)) <= MaxPrekeys

-----------------------------------------------------------------------------
(* Transactions.                                                           *)

\* A plausible bug: the count or the look-up is not part of the transaction.
MayWriteByLock(r) == writer = None

\* May a transaction that has read its snapshot write?
MayWrite(r) == writer = None /\ r \in fresh

LockFree == writer = None

TakeLock(r, t) ==
    /\ writer' = r
    /\ work' = t
    /\ UNCHANGED db

\* Nothing that was written is kept.
Rollback(r) ==
    /\ db' = db
    /\ work' = IF writer = r THEN Empty ELSE work
    /\ writer' = IF writer = r THEN None ELSE writer
    /\ fresh' = fresh \ {r}

\* Every snapshot is out of date once something has changed.
Publish(r) ==
    /\ db' = work
    /\ work' = Empty
    /\ writer' = None
    /\ fresh' = IF work = db THEN fresh \ {r} ELSE {}

Goto(r, pc) == req' = [req EXCEPT ![r].pc = pc]

Answer(r, reply) == req' = [req EXCEPT ![r].pc = "done", ![r].reply = reply]

AnswerBundle(r, bundle) ==
    req' = [req EXCEPT ![r].pc = "done", ![r].reply = "ok", ![r].bundle = bundle]

Locals == <<faults, friends, strangers>>

Store == <<db, work, writer, fresh, issued>>

-----------------------------------------------------------------------------
(* UploadPrekeys.                                                          *)

Begin(r, call) ==
    /\ req[r].pc = "idle"
    /\ req' = [req EXCEPT
                 ![r].pc = IF call.op = "upload" THEN "owned" ELSE "owner",
                 ![r].call = call]
    /\ strangers' = IF Friends(call.uid, Owner[call.device])
                    THEN strangers ELSE strangers \cup {r}
    /\ UNCHANGED <<Store, friends, faults>>

\* IsActiveDeviceOwnedByUser and the size of the batch.
CheckOwned(r) ==
    LET call == req[r].call
        owned == /\ db.status[call.device] = "ACTIVE"
                 /\ Owner[call.device] = call.uid
    IN  /\ req[r].pc = "owned"
        /\ IF ~ owned
           THEN Answer(r, "unauthorized")
           ELSE IF \E kind \in Kinds :
                       Cardinality(OfKind(call.keys, kind)) > MaxBatch
           THEN Answer(r, "limit")
           ELSE Goto(r, IF call.keys = {} THEN "write" ELSE "count")
        /\ UNCHANGED <<Store, Locals>>

\* SELECT COUNT(*) for each kind of the batch, on one snapshot.
Count(r) ==
    /\ req[r].pc = "count"
    /\ IF WithinLimit(db, req[r].call)
       THEN /\ Goto(r, "write")
            /\ fresh' = fresh \cup {r}
       ELSE /\ Answer(r, "limit")
            /\ UNCHANGED fresh
    /\ UNCHANGED <<db, work, writer, issued, Locals>>

\* The upserts and the inserts.  ON CONFLICT(device_id, key_id) DO NOTHING: a
\* key that is stored stays as it is, used or not.
StoredWith(t, call, r) ==
    [t EXCEPT
       !.stored = @ \cup call.keys,
       !.signed[call.device] =
           [kind \in Kinds |-> IF kind \in call.signed THEN r ELSE @[kind]]]

\* Without one-time keys nothing has been read yet, and the first upsert waits
\* for the lock.
Write(r) ==
    /\ req[r].pc = "write"
    /\ IF req[r].call.keys = {} THEN LockFree ELSE MayWrite(r)
    /\ TakeLock(r, StoredWith(db, req[r].call, r))
    /\ Goto(r, "commit")
    /\ UNCHANGED <<fresh, issued, Locals>>

\* SQLITE_BUSY: the snapshot is out of date or the lock is taken.
WriteRefused(r) ==
    /\ req[r].pc = "write"
    /\ req[r].call.keys # {}
    /\ ~ MayWrite(r)
    /\ Rollback(r)
    /\ Answer(r, "error")
    /\ UNCHANGED <<issued, Locals>>

-----------------------------------------------------------------------------
(* ClaimPrekeys.                                                           *)

AfterChecks(call) == IF call.idKey = None THEN "consume" ELSE "lookup"

\* GetDeviceOwner finds revoked devices too.
CheckOwner(r) ==
    LET call == req[r].call
    IN  /\ req[r].pc = "owner"
        /\ IF db.status[call.device] = "ABSENT"
           THEN Answer(r, "error")
           ELSE Goto(r, IF call.uid = Owner[call.device]
                        THEN AfterChecks(call) ELSE "friend")
        /\ UNCHANGED <<Store, Locals>>

CheckFriend(r) ==
    LET call == req[r].call
    IN  /\ req[r].pc = "friend"
        /\ IF Friends(call.uid, Owner[call.device])
           THEN Goto(r, AfterChecks(call))
           ELSE Answer(r, "unauthorized")
        /\ UNCHANGED <<Store, Locals>>

\* The SELECT of ClaimPrekeysIdempotent.  A record without an answer cannot be
\* scanned.
Lookup(r) ==
    LET call == req[r].call
        row == db.record[RecordKey(call)]
    IN  /\ req[r].pc = "lookup"
        /\ IF row = None
           THEN /\ Goto(r, "insert")
                /\ fresh' = fresh \cup {r}
           ELSE /\ IF row.bundle = None THEN Answer(r, "error")
                   ELSE IF ~ SamePrint(row, call) THEN Answer(r, "conflict")
                   ELSE AnswerBundle(r, row.bundle)
                /\ UNCHANGED fresh
        /\ UNCHANGED <<db, work, writer, issued, Locals>>

\* "Try to claim the lock (insert empty record first)".
Insert(r) ==
    LET call == req[r].call
        row == [name |-> call.name, device |-> call.device, bundle |-> None]
    IN  /\ req[r].pc = "insert"
        /\ MayWrite(r)
        /\ TakeLock(r, [db EXCEPT !.record[RecordKey(call)] = row])
        /\ Goto(r, "consume")
        /\ UNCHANGED <<fresh, issued, Locals>>

\* Any error of the INSERT is taken for a request in progress.
InsertRefused(r) ==
    /\ req[r].pc = "insert"
    /\ ~ MayWrite(r)
    /\ Rollback(r)
    /\ Answer(r, "conflict")
    /\ UNCHANGED <<issued, Locals>>

\* The two UPDATE ... RETURNING.  The first one of a claim without an
\* idempotency key takes the lock.
Consume(r) ==
    LET call == req[r].call
        t == IF writer = r THEN work ELSE db
        keys == UNION {Oldest(t, call.device, kind) : kind \in Kinds}
    IN  /\ req[r].pc = "consume"
        /\ writer = r \/ (call.idKey = None /\ LockFree)
        /\ TakeLock(r, [t EXCEPT !.consumed = @ \cup keys])
        /\ req' = [req EXCEPT
                     ![r].pc = "identity",
                     ![r].bundle = [device |-> call.device, keys |-> keys,
                                    signed |-> [kind \in Kinds |-> None]]]
        /\ UNCHANGED <<fresh, issued, Locals>>

\* A plausible bug: the identity key of any device is given out.
InServiceEver(d) == work.status[d] # "ABSENT"

InService(d) == work.status[d] = "ACTIVE"

Identity(r) ==
    /\ req[r].pc = "identity"
    /\ IF InService(req[r].call.device)
       THEN /\ Goto(r, "signed")
            /\ UNCHANGED <<db, work, writer, fresh>>
       ELSE /\ Rollback(r)
            /\ Answer(r, "not_found")
    /\ UNCHANGED <<issued, Locals>>

\* The two SELECTs of signed prekeys.
Signed(r) ==
    LET call == req[r].call
    IN  /\ req[r].pc = "signed"
        /\ req' = [req EXCEPT
                     ![r].pc = IF call.idKey = None THEN "commit" ELSE "store",
                     ![r].bundle = [req[r].bundle EXCEPT
                                       !.signed = work.signed[call.device]]]
        /\ UNCHANGED <<Store, Locals>>

\* buildResponse and the UPDATE of the record.
StoreAnswer(r) ==
    LET call == req[r].call
        row == [name |-> call.name, device |-> call.device,
                bundle |-> req[r].bundle]
    IN  /\ req[r].pc = "store"
        /\ work' = [work EXCEPT !.record[RecordKey(call)] = row]
        /\ Goto(r, "commit")
        /\ UNCHANGED <<db, writer, fresh, issued, Locals>>

Commit(r) ==
    /\ req[r].pc = "commit"
    /\ Publish(r)
    /\ Answer(r, "ok")
    /\ issued' = [issued EXCEPT ![r] = req[r].bundle]
    /\ UNCHANGED Locals

-----------------------------------------------------------------------------
(* What may go wrong, and what else goes on.                                *)

\* A statement fails, the commit fails, or the client has gone.
Fault(r) ==
    /\ req[r].pc \notin {"idle", "done"}
    /\ faults < MaxFaults
    /\ faults' = faults + 1
    /\ Rollback(r)
    /\ Answer(r, IF req[r].pc = "insert" THEN "conflict" ELSE "error")
    /\ UNCHANGED <<issued, friends, strangers>>

\* The server dies and starts again; clients repeat what they had no answer to.
Crash ==
    /\ faults < MaxFaults
    /\ \E r \in Requests : req[r].pc \notin {"idle", "done"}
    /\ faults' = faults + 1
    /\ req' = [r \in Requests |->
                 IF req[r].pc \in {"idle", "done"} THEN req[r]
                 ELSE [req[r] EXCEPT !.pc = "done", !.reply = "lost"]]
    /\ work' = Empty
    /\ writer' = None
    /\ fresh' = {}
    /\ UNCHANGED <<db, issued, friends, strangers>>

RegisterDevice(d) ==
    /\ LockFree
    /\ db.status[d] = "ABSENT"
    /\ db' = [db EXCEPT !.status[d] = "ACTIVE"]
    /\ fresh' = {}
    /\ UNCHANGED <<work, writer, req, issued, Locals>>

RevokeDevice(d) ==
    /\ LockFree
    /\ db.status[d] = "ACTIVE"
    /\ db' = [db EXCEPT !.status[d] = "REVOKED"]
    /\ fresh' = {}
    /\ UNCHANGED <<work, writer, req, issued, Locals>>

Befriend(u, v) ==
    /\ LockFree
    /\ u # v
    /\ {u, v} \notin friends
    /\ friends' = friends \cup {{u, v}}
    /\ strangers' = {r \in strangers :
                       {req[r].call.uid, Owner[req[r].call.device]} # {u, v}}
    /\ fresh' = {}
    /\ UNCHANGED <<db, work, writer, req, issued, faults>>

Unfriend(u, v) ==
    /\ LockFree
    /\ {u, v} \in friends
    /\ friends' = friends \ {{u, v}}
    /\ fresh' = {}
    /\ UNCHANGED <<db, work, writer, req, issued, faults, strangers>>

\* Some other table is written: messages, sessions, users.
OtherCommit ==
    /\ LockFree
    /\ fresh # {}
    /\ fresh' = {}
    /\ UNCHANGED <<db, work, writer, req, issued, Locals>>

UploadPrekeys(r) ==
    CheckOwned(r) \/ Count(r) \/ Write(r) \/ WriteRefused(r)

ClaimPrekeys(r) ==
    \/ CheckOwner(r) \/ CheckFriend(r) \/ Lookup(r)
    \/ Insert(r) \/ InsertRefused(r) \/ Consume(r)
    \/ Identity(r) \/ Signed(r) \/ StoreAnswer(r)

Next ==
    \/ \E r \in Requests, call \in Calls : Begin(r, call)
    \/ \E r \in Requests :
           UploadPrekeys(r) \/ ClaimPrekeys(r) \/ Commit(r) \/ Fault(r)
    \/ Crash
    \/ \E d \in Devices : RegisterDevice(d) \/ RevokeDevice(d)
    \/ \E u, v \in Users : Befriend(u, v) \/ Unfriend(u, v)
    \/ OtherCommit

Spec == Init /\ [][Next]_vars

-----------------------------------------------------------------------------
(* Properties.                                                             *)

\* The one-time prekeys marked CONSUMED are those in committed bundles, and no
\* two bundles share one: concurrent claims get different prekeys, and a claim
\* that fails after its UPDATEs gives back what it took.
KeysAccounted ==
    /\ db.consumed = {k \in Key : \E r \in Requests :
                                      issued[r] # None /\ k \in issued[r].keys}
    /\ \A r, q \in Requests :
           r # q /\ issued[r] # None /\ issued[q] # None
               => issued[r].keys \cap issued[q].keys = {}

\* Claims of one user with one idempotency key are all answered with the same
\* bundle, and it was committed by one of them: retries consume nothing, also
\* when they run beside the first attempt.
RetriesAgree ==
    \A r \in Requests :
        req[r].reply = "ok" /\ req[r].call.op = "claim" =>
            /\ req[r].bundle # None
            /\ \/ issued[r] = req[r].bundle
               \/ \E q \in Requests :
                      /\ issued[q] = req[r].bundle
                      /\ req[q].call.op = "claim"
                      /\ RecordKey(req[q].call) = RecordKey(req[r].call)
            /\ \A q \in Requests :
                   /\ req[q].reply = "ok" /\ req[q].call.op = "claim"
                   /\ RecordKey(req[q].call) = RecordKey(req[r].call)
                   /\ req[r].call.idKey # None
                   => req[q].bundle = req[r].bundle

\* No interleaving of uploads stores more one-time prekeys of a kind for a
\* device than the limit, although the count is taken in an earlier statement.
LimitHolds ==
    \A d \in Devices, kind \in Kinds :
        Cardinality(Rows(db, d, kind)) <= MaxPrekeys

\* A claim is answered with a bundle of the device it asked for, to a caller
\* who was the owner or a friend of the owner at some time since the request
\* began.
ClaimsEntitled ==
    \A r \in Requests :
        req[r].reply = "ok" /\ req[r].call.op = "claim" =>
            /\ req[r].bundle.device = req[r].call.device
            /\ r \notin strangers

\* To its clients the store is the dispenser, where uploads and claims are
\* atomic.
Promised == INSTANCE Dispenser WITH
    Claims <- Requests, Uploads <- Requests, Limit <- MaxPrekeys,
    Batches <- {call.keys : call \in {c \in Calls : c.op = "upload"}},
    stored <- db.stored, consumed <- db.consumed, signed <- db.signed,
    active <- {d \in Devices : db.status[d] = "ACTIVE"}

ClaimsAreAtomic == Promised!Spec

\* What the handler says: a claim with a fresh idempotency key is refused only
\* while another request with that key is in progress, or has been.
ConflictIsTrue ==
    \A r \in Requests :
        req[r].reply = "conflict" =>
            \E q \in Requests \ {r} :
                /\ req[q].pc # "idle"
                /\ req[q].call.op = "claim"
                /\ RecordKey(req[q].call) = RecordKey(req[r].call)

=============================================================================
