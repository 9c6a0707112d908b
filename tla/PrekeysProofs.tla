---------------------------- MODULE PrekeysProofs ----------------------------
(***************************************************************************)
(* Proofs about Prekeys, for any users, devices, keys, requests and limits:  *)
(* type correctness, the properties the run checks, two more about the       *)
(* tables, and that the store implements Dispenser.                         *)
(*                                                                         *)
(* The invariant says what the holder of the write lock has made of the       *)
(* committed tables so far, at each of its statements, and what a request     *)
(* whose snapshot is fresh has read in it.  The rest follows, because a       *)
(* commit is the only step that changes what is committed.                  *)
(***************************************************************************)
EXTENDS Prekeys, FiniteSetTheorems, TLAPS

IsUpload(r) == req[r].call.op = "upload"

IsClaim(r) == req[r].call.op = "claim"

IsKeyed(r) == IsClaim(r) /\ req[r].call.idKey # None

\* What kind of request is where, and when it has an answer.
Shape ==
    \A r \in Requests :
        /\ req[r].pc \in {"owned", "count", "write"} => IsUpload(r)
        /\ req[r].pc \in {"owner", "friend", "lookup", "insert", "consume",
                          "identity", "signed", "store"} => IsClaim(r)
        /\ req[r].pc \in {"lookup", "insert", "store"} => IsKeyed(r)
        /\ req[r].pc = "idle" \/ IsUpload(r) => req[r].bundle = None
        /\ req[r].pc # "done" => req[r].reply = "none" /\ issued[r] = None

\* Who holds the write lock.
LockHeld ==
    \A r \in Requests :
        /\ req[r].pc \in {"identity", "signed", "store", "commit"} => writer = r
        /\ writer = r =>
               req[r].pc \in {"consume", "identity", "signed", "store", "commit"}
        /\ writer = r /\ req[r].pc = "consume" => IsKeyed(r)

\* What a snapshot nothing was committed after has shown.
SnapshotsTell ==
    \A r \in Requests :
        /\ req[r].pc = "write" /\ (r \in fresh \/ req[r].call.keys = {}) =>
               WithinLimit(db, req[r].call)
        /\ req[r].pc = "insert" /\ r \in fresh => db.record[RecordKey(req[r].call)] = None

\* What an upload has made of the tables.
UploadWork ==
    \A r \in Requests :
        writer = r /\ IsUpload(r) => work = StoredWith(db, req[r].call, r) /\ WithinLimit(db, req[r].call)

Taken(d) == UNION {Oldest(db, d, kind) : kind \in Kinds}

\* What a claim has made of them.
ClaimWorkOf(r) ==
    /\ work.stored = db.stored /\ work.signed = db.signed /\ work.status = db.status
    /\ req[r].pc = "consume" => work.consumed = db.consumed
    /\ req[r].pc # "consume" =>
           /\ req[r].bundle # None
           /\ req[r].bundle.device = req[r].call.device
           /\ req[r].bundle.keys = Taken(req[r].call.device)
           /\ work.consumed = db.consumed \cup req[r].bundle.keys
    /\ req[r].pc \in {"signed", "store", "commit"} =>
           db.status[req[r].call.device] = "ACTIVE"
    /\ req[r].pc \in {"store", "commit"} =>
           req[r].bundle.signed = db.signed[req[r].call.device]

ClaimWork == \A r \in Requests : writer = r /\ IsClaim(r) => ClaimWorkOf(r)

\* The record of a claim is its own, and complete when it commits.
RecordWork ==
    \A r \in Requests :
        writer = r =>
            /\ ~ IsKeyed(r) => work.record = db.record
            /\ IsKeyed(r) =>
                   /\ db.record[RecordKey(req[r].call)] = None
                   /\ work.record = [db.record EXCEPT ![RecordKey(req[r].call)] =
                         [name |-> req[r].call.name, device |-> req[r].call.device,
                          bundle |-> IF req[r].pc = "commit" THEN req[r].bundle ELSE None]]

\* A committed record holds a bundle that a claim of its user and its key committed.
RecordsTrue ==
    \A x \in Users \X IdempotencyKeys :
        db.record[x] # None =>
            \E q \in Requests :
                /\ IsClaim(q) /\ RecordKey(req[q].call) = x
                /\ issued[q] # None
                /\ issued[q] = db.record[x].bundle
                /\ issued[q].device = db.record[x].device

\* An answer is the bundle the claim committed, and that of the record.
AnswersTrue ==
    \A r \in Requests :
        req[r].reply = "ok" /\ IsClaim(r) =>
            /\ req[r].bundle # None
            /\ req[r].bundle.device = req[r].call.device
            /\ ~ IsKeyed(r) => issued[r] = req[r].bundle
            /\ IsKeyed(r) =>
                   /\ db.record[RecordKey(req[r].call)] # None
                   /\ req[r].bundle = db.record[RecordKey(req[r].call)].bundle

\* A committed bundle was committed by a claim, and has a key of each kind at most.
Issued == \A r \in Requests : issued[r] # None => IsClaim(r) /\ OnePerKind(issued[r].keys)

\* A friend is no stranger, and who has passed the checks is none.
Befriended(r) == Friends(req[r].call.uid, Owner[req[r].call.device])

FriendsAreNone ==
    \A r \in Requests : req[r].pc = "idle" \/ Befriended(r) => r \notin strangers

PassedAreNone ==
    \A r \in Requests :
        /\ req[r].pc \in {"lookup", "insert", "consume", "identity", "signed", "store"} =>
               r \notin strangers
        /\ (req[r].pc = "commit" \/ req[r].reply = "ok") /\ IsClaim(r) => r \notin strangers

IInv ==
    /\ TypeOK /\ Shape /\ LockHeld
    /\ SnapshotsTell /\ UploadWork /\ ClaimWork /\ RecordWork
    /\ RecordsTrue /\ AnswersTrue /\ Issued
    /\ FriendsAreNone /\ PassedAreNone
    /\ KeysAccounted /\ LimitHolds

-----------------------------------------------------------------------------
(* The requests.                                                           *)

\* What the ends of an action do to the request that takes it.
Others(r) == \A q \in Requests \ {r} : req'[q] = req[q]

LEMMA GotoMoves ==
    ASSUME TypeOK, NEW r \in Requests, NEW pc \in PC, Goto(r, pc)
    PROVE  /\ req' \in [Requests -> Request]
           /\ req'[r].pc = pc /\ req'[r].reply = req[r].reply
           /\ req'[r].call = req[r].call /\ req'[r].bundle = req[r].bundle
           /\ Others(r)
  BY DEF TypeOK, Goto, Request, Others

LEMMA AnswerMoves ==
    ASSUME TypeOK, NEW r \in Requests, NEW reply \in Reply, Answer(r, reply)
    PROVE  /\ req' \in [Requests -> Request]
           /\ req'[r].pc = "done" /\ req'[r].reply = reply
           /\ req'[r].call = req[r].call /\ req'[r].bundle = req[r].bundle
           /\ Others(r)
  BY DEF TypeOK, Answer, Request, Others, PC

LEMMA BundleMoves ==
    ASSUME TypeOK, NEW r \in Requests, NEW bundle \in Bundle, AnswerBundle(r, bundle)
    PROVE  /\ req' \in [Requests -> Request]
           /\ req'[r].pc = "done" /\ req'[r].reply = "ok"
           /\ req'[r].call = req[r].call /\ req'[r].bundle = bundle
           /\ Others(r)
<1>1. req' = [req EXCEPT ![r].pc = "done", ![r].reply = "ok", ![r].bundle = bundle]
  BY DEF AnswerBundle
<1>2. req[r] \in Request
  BY DEF TypeOK
<1>3. [[[req[r] EXCEPT !.pc = "done"] EXCEPT !.reply = "ok"] EXCEPT !.bundle = bundle] \in Request
  BY <1>2 DEF Request, PC, Reply
<1> QED
  BY <1>1, <1>3 DEF TypeOK, Request, Others

LEMMA BeginMoves ==
    ASSUME TypeOK, NEW r \in Requests, NEW ask \in Calls, Begin(r, ask)
    PROVE  /\ req[r].pc = "idle"
           /\ req' \in [Requests -> Request]
           /\ req'[r].pc = IF ask.op = "upload" THEN "owned" ELSE "owner"
           /\ req'[r].call = ask
           /\ req'[r].reply = req[r].reply /\ req'[r].bundle = req[r].bundle
           /\ Others(r)
  BY DEF TypeOK, Begin, Request, Others, PC

LEMMA SignedMoves ==
    ASSUME TypeOK, NEW r \in Requests, req[r].bundle \in Bundle, IsClaim(r), Signed(r)
    PROVE  /\ req' \in [Requests -> Request]
           /\ req'[r].pc = IF IsKeyed(r) THEN "store" ELSE "commit"
           /\ req'[r].call = req[r].call /\ req'[r].reply = req[r].reply
           /\ req'[r].bundle \in Bundle
           /\ req'[r].bundle.device = req[r].bundle.device
           /\ req'[r].bundle.keys = req[r].bundle.keys
           /\ req'[r].bundle.signed = work.signed[req[r].call.device]
           /\ Others(r)
<1> DEFINE pc == IF req[r].call.idKey = None THEN "commit" ELSE "store"
           bundle == [req[r].bundle EXCEPT !.signed = work.signed[req[r].call.device]]
<1>1. req' = [req EXCEPT ![r].pc = pc, ![r].bundle = bundle]
  BY DEF Signed
<1>2. pc \in PC /\ pc = IF IsKeyed(r) THEN "store" ELSE "commit"
  BY DEF PC, IsKeyed
<1>3. req[r].call \in Calls
  BY DEF TypeOK, Signed
<1>4. req[r].call \in Claim
  BY <1>3, PrekeysAssumption DEF IsClaim, Upload
<1>5. work.signed[req[r].call.device] \in [Kinds -> Requests \cup {None}]
  BY <1>4 DEF TypeOK, Tables, Claim
<1>6. /\ bundle \in Bundle /\ bundle.device = req[r].bundle.device
      /\ bundle.keys = req[r].bundle.keys
      /\ bundle.signed = work.signed[req[r].call.device]
  BY <1>5 DEF Bundle
<1> HIDE DEF pc, bundle
<1>7. req[r] \in Request
  BY DEF TypeOK
<1>8. [[req[r] EXCEPT !.pc = pc] EXCEPT !.bundle = bundle] \in Request
  BY <1>2, <1>6, <1>7 DEF Request
<1>9. /\ req'[r] = [[req[r] EXCEPT !.pc = pc] EXCEPT !.bundle = bundle] /\ Others(r)
      /\ req' \in [Requests -> Request]
  BY <1>1, <1>8 DEF TypeOK, Others
<1>10. /\ req'[r].pc = pc /\ req'[r].bundle = bundle
       /\ req'[r].call = req[r].call /\ req'[r].reply = req[r].reply
  BY <1>7, <1>9 DEF Request
<1> QED
  BY <1>2, <1>6, <1>9, <1>10

\* The prekeys a claim takes are keys of its device, one of a kind at most.
LEMMA OldestOne ==
    ASSUME NEW t \in Tables, NEW d \in Devices
    PROVE  LET keys == UNION {Oldest(t, d, kind) : kind \in Kinds}
           IN  /\ keys \in SUBSET Key /\ OnePerKind(keys)
               /\ keys \subseteq t.stored \ t.consumed
               /\ \A k \in keys : k.device = d
<1> DEFINE keys == UNION {Oldest(t, d, kind) : kind \in Kinds}
<1>1. ASSUME NEW k \in keys
      PROVE  k \in Key /\ k \in t.stored /\ k \notin t.consumed /\ k.device = d
             /\ k \in Oldest(t, d, k.kind)
  BY <1>1 DEF Oldest, Available, Rows, Tables
<1>2. ASSUME NEW j \in keys, NEW k \in keys, j.kind = k.kind
      PROVE  j = k
  <2>1. j \in Oldest(t, d, k.kind) /\ k \in Oldest(t, d, k.kind)
    BY <1>1, <1>2
  <2>2. j.id <= k.id /\ k.id <= j.id
    BY <2>1 DEF Oldest
  <2>3. j \in Key /\ k \in Key /\ j.device = k.device
    BY <1>1
  <2>4. j.id \in Nat /\ k.id \in Nat
    BY <2>3, PrekeysAssumption DEF Key
  <2>5. j.id = k.id
    BY <2>2, <2>4
  <2> QED
    BY <1>2, <2>3, <2>5 DEF Key
<1> QED
  BY <1>1, <1>2 DEF OnePerKind

\* The tables a claim that consumes has before it: its own, or the committed ones.
TablesOf(r) == IF writer = r THEN work ELSE db

KeysOf(r) == UNION {Oldest(TablesOf(r), req[r].call.device, kind) : kind \in Kinds}

LEMMA ConsumeMoves ==
    ASSUME TypeOK, NEW r \in Requests, IsClaim(r), Consume(r)
    PROVE  /\ req[r].pc = "consume" /\ req[r].call.device \in Devices
           /\ req' \in [Requests -> Request]
           /\ req'[r].pc = "identity"
           /\ req'[r].call = req[r].call /\ req'[r].reply = req[r].reply
           /\ req'[r].bundle \in Bundle
           /\ req'[r].bundle.device = req[r].call.device
           /\ req'[r].bundle.keys = KeysOf(r)
           /\ OnePerKind(KeysOf(r))
           /\ work' = [TablesOf(r) EXCEPT !.consumed = @ \cup KeysOf(r)]
           /\ work' \in Tables
           /\ Others(r)
<1> DEFINE t == IF writer = r THEN work ELSE db
           keys == UNION {Oldest(t, req[r].call.device, kind) : kind \in Kinds}
           bundle == [device |-> req[r].call.device, keys |-> keys,
                      signed |-> [kind \in Kinds |-> None]]
<1>1. req' = [req EXCEPT ![r].pc = "identity", ![r].bundle = bundle]
  BY DEF Consume
<1>2. t \in Tables
  BY DEF TypeOK
<1>3. req[r].call \in Calls /\ req[r].pc = "consume"
  BY DEF TypeOK, Consume
<1>4. req[r].call.device \in Devices
  BY <1>3, PrekeysAssumption DEF IsClaim, Upload, Claim
<1>5. work' = [t EXCEPT !.consumed = @ \cup keys]
  BY DEF Consume, TakeLock
<1> HIDE DEF t
<1>6. keys \in SUBSET Key /\ OnePerKind(keys)
  BY ONLY <1>2, <1>4, OldestOne
<1> HIDE DEF keys
<1>7. bundle \in Bundle
  BY <1>4, <1>6 DEF Bundle
<1>8. bundle.device = req[r].call.device /\ bundle.keys = keys
  OBVIOUS
<1> HIDE DEF bundle
<1>9. req[r] \in Request
  BY DEF TypeOK
<1>10. [[req[r] EXCEPT !.pc = "identity"] EXCEPT !.bundle = bundle] \in Request
  BY <1>7, <1>9 DEF Request, PC
<1>11. /\ req'[r] = [[req[r] EXCEPT !.pc = "identity"] EXCEPT !.bundle = bundle] /\ Others(r)
       /\ req' \in [Requests -> Request]
  BY <1>1, <1>10 DEF TypeOK, Others
<1>12. /\ req'[r].pc = "identity" /\ req'[r].bundle = bundle
       /\ req'[r].call = req[r].call /\ req'[r].reply = req[r].reply
  BY <1>9, <1>11 DEF Request
<1>13. work' \in Tables
  BY <1>2, <1>5, <1>6 DEF Tables
<1> QED
  BY <1>3, <1>4, <1>5, <1>6, <1>7, <1>8, <1>11, <1>12, <1>13 DEF t, keys, TablesOf, KeysOf

LEMMA CrashMoves ==
    ASSUME TypeOK, Crash
    PROVE  /\ req' \in [Requests -> Request]
           /\ \A r \in Requests :
                 /\ req'[r].call = req[r].call /\ req'[r].bundle = req[r].bundle
                 /\ req[r].pc \in {"idle", "done"} => req'[r] = req[r]
                 /\ req[r].pc \notin {"idle", "done"} =>
                        req'[r].pc = "done" /\ req'[r].reply = "lost"
<1>1. ASSUME NEW r \in Requests
      PROVE  /\ req'[r] \in Request
             /\ req'[r].call = req[r].call /\ req'[r].bundle = req[r].bundle
             /\ req[r].pc \in {"idle", "done"} => req'[r] = req[r]
             /\ req[r].pc \notin {"idle", "done"} =>
                    req'[r].pc = "done" /\ req'[r].reply = "lost"
  <2>1. req[r] \in Request
    BY DEF TypeOK
  <2>2. req'[r] = IF req[r].pc \in {"idle", "done"} THEN req[r]
                  ELSE [req[r] EXCEPT !.pc = "done", !.reply = "lost"]
    BY DEF Crash
  <2> QED
    BY <2>1, <2>2 DEF Request, PC, Reply
<1>2. req' = [r \in Requests |-> req'[r]]
  BY DEF Crash
<1> QED
  BY <1>1, <1>2

ReqTyped ==
    /\ req \in [Requests -> Request]
    /\ \A r \in Requests : req[r].pc # "idle" => req[r].call \in Calls
    /\ \A r \in Requests : req[r].bundle # None => OnePerKind(req[r].bundle.keys)

\* The request that looks at the signed prekeys has a bundle.
LEMMA SignedHasBundle ==
    ASSUME TypeOK, Shape, LockHeld, ClaimWork, NEW r \in Requests, Signed(r)
    PROVE  IsClaim(r) /\ req[r].bundle \in Bundle /\ writer = r
<1>1. req[r].pc = "signed" /\ req[r].bundle \in Bundle \cup {None}
  BY DEF Signed, TypeOK, Request
<1>2. IsClaim(r) /\ writer = r
  BY <1>1 DEF Shape, LockHeld
<1>3. req[r].bundle # None
  BY <1>1, <1>2 DEF ClaimWork, ClaimWorkOf
<1> QED
  BY <1>1, <1>2, <1>3

\* The answer from a record, if it has one.
LEMMA LookupFinds ==
    ASSUME TypeOK, Shape, RecordsTrue, Issued, NEW r \in Requests, req[r].pc = "lookup",
           db.record[RecordKey(req[r].call)] # None
    PROVE  LET row == db.record[RecordKey(req[r].call)]
           IN  /\ row.bundle \in Bundle /\ OnePerKind(row.bundle.keys)
               /\ row.bundle.device = row.device
<1>1. IsKeyed(r) /\ req[r].call \in Calls
  BY DEF Shape, TypeOK
<1>2. req[r].call \in Claim
  BY <1>1, PrekeysAssumption DEF IsKeyed, IsClaim, Upload
<1>3. RecordKey(req[r].call) \in Users \X IdempotencyKeys
  BY <1>1, <1>2 DEF RecordKey, Claim, IsKeyed
<1>4. PICK q \in Requests :
         /\ issued[q] # None
         /\ issued[q] = db.record[RecordKey(req[r].call)].bundle
         /\ issued[q].device = db.record[RecordKey(req[r].call)].device
  BY <1>3 DEF RecordsTrue
<1> QED
  BY <1>4 DEF Issued, TypeOK

BeginDoes(r, ask) ==
    /\ req[r].pc = "idle"
    /\ ask.op = "upload" \/ ask.op = "claim"
    /\ req' \in [Requests -> Request]
    /\ req'[r].pc = IF ask.op = "upload" THEN "owned" ELSE "owner"
    /\ req'[r].call = ask
    /\ req'[r].reply = req[r].reply /\ req'[r].bundle = req[r].bundle
    /\ Others(r)
    /\ UNCHANGED <<db, work, writer, fresh, issued, friends, faults>>
    /\ strangers' = IF Friends(ask.uid, Owner[ask.device])
                    THEN strangers ELSE strangers \cup {r}

LEMMA BeginEffect ==
    ASSUME IInv, NEW r \in Requests, NEW ask \in Calls, Begin(r, ask)
    PROVE  BeginDoes(r, ask)
<1>1. TypeOK
  BY DEF IInv
<1>2. ask \in Upload \/ ask \in Claim
  BY PrekeysAssumption
<1>3. ask.op = "upload" \/ ask.op = "claim"
  BY <1>2 DEF Upload, Claim
<1>4. /\ req[r].pc = "idle"
      /\ req' \in [Requests -> Request]
      /\ req'[r].pc = IF ask.op = "upload" THEN "owned" ELSE "owner"
      /\ req'[r].call = ask
      /\ req'[r].reply = req[r].reply /\ req'[r].bundle = req[r].bundle
      /\ Others(r)
  BY <1>1, BeginMoves
<1> QED
  BY <1>3, <1>4 DEF BeginDoes, Begin, Store

LookupDoes(r) ==
    LET row == db.record[RecordKey(req[r].call)]
    IN  /\ req[r].pc = "lookup"
        /\ req' \in [Requests -> Request]
        /\ req'[r].call = req[r].call
        /\ Others(r)
        /\ UNCHANGED <<db, work, writer, issued, faults, friends, strangers>>
        /\ \/ /\ row = None
              /\ req'[r].pc = "insert" /\ req'[r].reply = req[r].reply
              /\ req'[r].bundle = req[r].bundle
              /\ fresh' = fresh \cup {r}
           \/ /\ req'[r].pc = "done" /\ req'[r].reply \in {"error", "conflict"}
              /\ req'[r].bundle = req[r].bundle
              /\ fresh' = fresh
           \/ /\ row # None /\ row.device = req[r].call.device
              /\ req'[r].pc = "done" /\ req'[r].reply = "ok"
              /\ req'[r].bundle = row.bundle
              /\ row.bundle \in Bundle /\ OnePerKind(row.bundle.keys)
              /\ row.bundle.device = row.device
              /\ fresh' = fresh

LEMMA LookupEffect ==
    ASSUME IInv, NEW r \in Requests, Lookup(r)
    PROVE  LookupDoes(r)
<1> DEFINE row == db.record[RecordKey(req[r].call)]
<1>1. TypeOK /\ Shape /\ RecordsTrue /\ Issued
  BY DEF IInv
<1>2. req[r].pc = "lookup" /\ UNCHANGED <<db, work, writer, issued, faults, friends, strangers>>
  BY DEF Lookup, Locals
<1>3. CASE row = None
  <2>1. Goto(r, "insert") /\ fresh' = fresh \cup {r} /\ "insert" \in PC
    BY <1>3 DEF Lookup, PC
  <2> QED
    BY <1>1, <1>2, <1>3, <2>1, GotoMoves DEF LookupDoes
<1>4. CASE row # None
  <2>1. fresh' = fresh
    BY <1>4 DEF Lookup
  <2>2. CASE Answer(r, "error") \/ Answer(r, "conflict")
    BY <1>1, <1>2, <2>1, <2>2, AnswerMoves DEF LookupDoes, Reply
  <2>3. CASE SamePrint(row, req[r].call) /\ AnswerBundle(r, row.bundle)
    <3>1. row.bundle \in Bundle /\ OnePerKind(row.bundle.keys) /\ row.bundle.device = row.device
      BY <1>1, <1>2, <1>4, LookupFinds
    <3>2. /\ req' \in [Requests -> Request]
          /\ req'[r].pc = "done" /\ req'[r].reply = "ok"
          /\ req'[r].call = req[r].call /\ req'[r].bundle = row.bundle
          /\ Others(r)
      BY <1>1, <2>3, <3>1, BundleMoves
    <3> QED
      BY <1>2, <1>4, <2>1, <2>3, <3>1, <3>2 DEF LookupDoes, SamePrint
  <2> QED
    BY <1>4, <2>2, <2>3 DEF Lookup
<1> QED
  BY <1>3, <1>4

ConsumeDoes(r) ==
    /\ req[r].pc = "consume" /\ IsClaim(r) /\ req[r].call.device \in Devices
    /\ writer = r \/ (~ IsKeyed(r) /\ writer = None)
    /\ writer' = r
    /\ UNCHANGED <<db, fresh, issued, faults, friends, strangers>>
    /\ req' \in [Requests -> Request]
    /\ req'[r].pc = "identity"
    /\ req'[r].call = req[r].call /\ req'[r].reply = req[r].reply
    /\ req'[r].bundle \in Bundle
    /\ req'[r].bundle.device = req[r].call.device
    /\ req'[r].bundle.keys = KeysOf(r)
    /\ OnePerKind(KeysOf(r))
    /\ work' = [TablesOf(r) EXCEPT !.consumed = @ \cup KeysOf(r)]
    /\ work' \in Tables
    /\ Others(r)

LEMMA ConsumeEffect ==
    ASSUME IInv, NEW r \in Requests, Consume(r)
    PROVE  ConsumeDoes(r)
<1>1. TypeOK /\ Shape
  BY DEF IInv
<1>2. req[r].pc = "consume" /\ IsClaim(r)
  BY <1>1 DEF Consume, Shape
<1>3. /\ writer = r \/ (~ IsKeyed(r) /\ writer = None)
      /\ writer' = r /\ UNCHANGED <<db, fresh, issued, faults, friends, strangers>>
  BY DEF Consume, TakeLock, LockFree, IsKeyed, Locals
<1>4. /\ req[r].call.device \in Devices
      /\ req' \in [Requests -> Request]
      /\ req'[r].pc = "identity"
      /\ req'[r].call = req[r].call /\ req'[r].reply = req[r].reply
      /\ req'[r].bundle \in Bundle
      /\ req'[r].bundle.device = req[r].call.device
      /\ req'[r].bundle.keys = KeysOf(r)
      /\ OnePerKind(KeysOf(r))
      /\ work' = [TablesOf(r) EXCEPT !.consumed = @ \cup KeysOf(r)]
      /\ work' \in Tables
      /\ Others(r)
  BY <1>1, <1>2, ConsumeMoves
<1> QED
  BY <1>2, <1>3, <1>4 DEF ConsumeDoes

SignedDoes(r) ==
    /\ req[r].pc = "signed" /\ IsClaim(r) /\ req[r].bundle \in Bundle /\ writer = r
    /\ UNCHANGED <<db, work, writer, fresh, issued, faults, friends, strangers>>
    /\ req' \in [Requests -> Request]
    /\ req'[r].pc = IF IsKeyed(r) THEN "store" ELSE "commit"
    /\ req'[r].call = req[r].call /\ req'[r].reply = req[r].reply
    /\ req'[r].bundle \in Bundle
    /\ req'[r].bundle.device = req[r].bundle.device
    /\ req'[r].bundle.keys = req[r].bundle.keys
    /\ req'[r].bundle.signed = work.signed[req[r].call.device]
    /\ Others(r)

LEMMA SignedEffect ==
    ASSUME IInv, NEW r \in Requests, Signed(r)
    PROVE  SignedDoes(r)
<1>1. TypeOK /\ Shape /\ LockHeld /\ ClaimWork
  BY DEF IInv
<1>2. IsClaim(r) /\ req[r].bundle \in Bundle /\ writer = r
  BY <1>1, SignedHasBundle
<1>3. req[r].pc = "signed"
      /\ UNCHANGED <<db, work, writer, fresh, issued, faults, friends, strangers>>
  BY DEF Signed, Store, Locals
<1>4. /\ req' \in [Requests -> Request]
      /\ req'[r].pc = IF IsKeyed(r) THEN "store" ELSE "commit"
      /\ req'[r].call = req[r].call /\ req'[r].reply = req[r].reply
      /\ req'[r].bundle \in Bundle
      /\ req'[r].bundle.device = req[r].bundle.device
      /\ req'[r].bundle.keys = req[r].bundle.keys
      /\ req'[r].bundle.signed = work.signed[req[r].call.device]
      /\ Others(r)
  BY <1>1, <1>2, SignedMoves
<1> QED
  BY <1>2, <1>3, <1>4 DEF SignedDoes

CrashDoes ==
    /\ req' \in [Requests -> Request]
    /\ \A r \in Requests :
          /\ req'[r].call = req[r].call /\ req'[r].bundle = req[r].bundle
          /\ req[r].pc \in {"idle", "done"} => req'[r] = req[r]
          /\ req[r].pc \notin {"idle", "done"} =>
                 req'[r].pc = "done" /\ req'[r].reply = "lost"
    /\ writer' = None /\ fresh' = {} /\ faults' = faults + 1
    /\ UNCHANGED <<db, issued, friends, strangers>>

LEMMA CrashEffect ==
    ASSUME IInv, Crash
    PROVE  CrashDoes
<1>1. TypeOK
  BY DEF IInv
<1> QED
  BY <1>1, CrashMoves DEF CrashDoes, Crash

\* The requests are typed.
LEMMA ReqNext ==
    ASSUME IInv, Next
    PROVE  ReqTyped'
<1>0. TypeOK /\ Shape /\ LockHeld /\ ClaimWork /\ RecordsTrue /\ Issued
  BY DEF IInv
<1> USE <1>0, PrekeysAssumption, NoneAssumption
<1> USE DEF Locals, Store, Others, PC, Reply, ReqTyped, TypeOK, Shape
<1>1. ASSUME NEW r \in Requests, NEW ask \in Calls, Begin(r, ask)
      PROVE  ReqTyped'
  <2>1. BeginDoes(r, ask)
    BY <1>1, BeginEffect
  <2> QED
    BY <2>1 DEF BeginDoes
<1>2. ASSUME NEW r \in Requests, CheckOwned(r)
      PROVE  ReqTyped'
  BY <1>2, GotoMoves, AnswerMoves DEF CheckOwned
<1>3. ASSUME NEW r \in Requests, Count(r)
      PROVE  ReqTyped'
  BY <1>3, GotoMoves, AnswerMoves DEF Count
<1>4. ASSUME NEW r \in Requests, Write(r)
      PROVE  ReqTyped'
  BY <1>4, GotoMoves, AnswerMoves DEF Write
<1>5. ASSUME NEW r \in Requests, WriteRefused(r)
      PROVE  ReqTyped'
  BY <1>5, GotoMoves, AnswerMoves DEF WriteRefused
<1>6. ASSUME NEW r \in Requests, CheckOwner(r)
      PROVE  ReqTyped'
  BY <1>6, GotoMoves, AnswerMoves DEF CheckOwner, AfterChecks
<1>7. ASSUME NEW r \in Requests, CheckFriend(r)
      PROVE  ReqTyped'
  BY <1>7, GotoMoves, AnswerMoves DEF CheckFriend, AfterChecks
<1>8. ASSUME NEW r \in Requests, Lookup(r)
      PROVE  ReqTyped'
  <2>1. LookupDoes(r)
    BY <1>8, LookupEffect
  <2> QED
    BY <2>1 DEF LookupDoes
<1>9. ASSUME NEW r \in Requests, Insert(r)
      PROVE  ReqTyped'
  BY <1>9, GotoMoves, AnswerMoves DEF Insert
<1>10. ASSUME NEW r \in Requests, InsertRefused(r)
       PROVE  ReqTyped'
  BY <1>10, GotoMoves, AnswerMoves DEF InsertRefused
<1>11. ASSUME NEW r \in Requests, Consume(r)
       PROVE  ReqTyped'
  <2>1. ConsumeDoes(r)
    BY <1>11, ConsumeEffect
  <2> QED
    BY <2>1 DEF ConsumeDoes
<1>12. ASSUME NEW r \in Requests, Identity(r)
       PROVE  ReqTyped'
  BY <1>12, GotoMoves, AnswerMoves DEF Identity
<1>13. ASSUME NEW r \in Requests, Signed(r)
       PROVE  ReqTyped'
  <2>1. SignedDoes(r)
    BY <1>13, SignedEffect
  <2> QED
    BY <2>1 DEF SignedDoes
<1>14. ASSUME NEW r \in Requests, StoreAnswer(r)
       PROVE  ReqTyped'
  BY <1>14, GotoMoves, AnswerMoves DEF StoreAnswer
<1>15. ASSUME NEW r \in Requests, Commit(r)
       PROVE  ReqTyped'
  BY <1>15, GotoMoves, AnswerMoves DEF Commit
<1>16. ASSUME NEW r \in Requests, Fault(r)
       PROVE  ReqTyped'
  BY <1>16, GotoMoves, AnswerMoves DEF Fault
<1>17. CASE Crash
  <2>1. CrashDoes
    BY <1>17, CrashEffect
  <2> QED
    BY <2>1 DEF CrashDoes
<1>18. ASSUME NEW d \in Devices, RegisterDevice(d)
       PROVE  ReqTyped'
  BY <1>18 DEF RegisterDevice
<1>19. ASSUME NEW d \in Devices, RevokeDevice(d)
       PROVE  ReqTyped'
  BY <1>19 DEF RevokeDevice
<1>20. ASSUME NEW u \in Users, NEW v \in Users, Befriend(u, v)
       PROVE  ReqTyped'
  BY <1>20 DEF Befriend
<1>21. ASSUME NEW u \in Users, NEW v \in Users, Unfriend(u, v)
       PROVE  ReqTyped'
  BY <1>21 DEF Unfriend
<1>22. CASE OtherCommit
  BY <1>22 DEF OtherCommit
<1> QED
  BY <1>1, <1>2, <1>3, <1>4, <1>5, <1>6, <1>7, <1>8, <1>9, <1>10, <1>11, <1>12,
     <1>13, <1>14, <1>15, <1>16, <1>17, <1>18, <1>19, <1>20, <1>21, <1>22
     DEF Next, UploadPrekeys, ClaimPrekeys

LEMMA EmptyTyped == Empty \in Tables
  BY DEF Empty, Tables

LEMMA UploadCall ==
    ASSUME TypeOK, NEW r \in Requests, IsUpload(r), req[r].pc # "idle"
    PROVE  /\ req[r].call.device \in Devices /\ req[r].call.keys \in SUBSET Key
           /\ \A k \in req[r].call.keys : k.device = req[r].call.device
           /\ req[r].call \in Calls /\ req[r].call.signed \in SUBSET Kinds
           /\ req[r].call.uid \in Users
<1>1. req[r].call \in Calls
  BY DEF TypeOK
<1>2. req[r].call \in Upload
  BY <1>1, PrekeysAssumption DEF IsUpload, Claim
<1> QED
  BY <1>1, <1>2, PrekeysAssumption DEF Upload, IsUpload

LEMMA ClaimCall ==
    ASSUME TypeOK, NEW r \in Requests, IsClaim(r), req[r].pc # "idle"
    PROVE  /\ req[r].call.device \in Devices /\ req[r].call.name \in Users
           /\ req[r].call.uid \in Users
           /\ req[r].call.idKey \in IdempotencyKeys \cup {None}
           /\ IsKeyed(r) => RecordKey(req[r].call) \in Users \X IdempotencyKeys
<1>1. req[r].call \in Calls
  BY DEF TypeOK
<1>2. req[r].call \in Claim
  BY <1>1, PrekeysAssumption DEF IsClaim, Upload
<1> QED
  BY <1>2 DEF Claim, RecordKey, IsKeyed

LEMMA StoredTyped ==
    ASSUME TypeOK, NEW r \in Requests, IsUpload(r), req[r].pc # "idle", NEW t \in Tables
    PROVE  StoredWith(t, req[r].call, r) \in Tables
<1>1. /\ req[r].call.device \in Devices /\ req[r].call.keys \in SUBSET Key
  BY UploadCall
<1>2. [kind \in Kinds |-> IF kind \in req[r].call.signed THEN r
                          ELSE t.signed[req[r].call.device][kind]]
        \in [Kinds -> Requests \cup {None}]
  BY <1>1 DEF Tables
<1> QED
  BY <1>1, <1>2 DEF StoredWith, Tables

TablesTyped == db \in Tables /\ work \in Tables

\* The tables are typed.
LEMMA TablesNext ==
    ASSUME IInv, Next
    PROVE  TablesTyped'
<1>0. TypeOK /\ Shape
  BY DEF IInv
<1> USE <1>0, PrekeysAssumption, NoneAssumption
<1> USE DEF Locals, Store
<1>1. ASSUME NEW r \in Requests, NEW ask \in Calls, Begin(r, ask)
      PROVE  TablesTyped'
  BY <1>1 DEF Begin, TypeOK, TablesTyped
<1>2. ASSUME NEW r \in Requests, CheckOwned(r)
      PROVE  TablesTyped'
  BY <1>2 DEF CheckOwned, TypeOK, TablesTyped
<1>3. ASSUME NEW r \in Requests, Count(r)
      PROVE  TablesTyped'
  BY <1>3 DEF Count, TypeOK, TablesTyped
<1>4. ASSUME NEW r \in Requests, Write(r)
      PROVE  TablesTyped'
  <2>1. IsUpload(r) /\ req[r].pc # "idle" /\ db' = db /\ work' = StoredWith(db, req[r].call, r)
    BY <1>4 DEF Write, TakeLock, Shape
  <2>2. db \in Tables
    BY DEF TypeOK
  <2> QED
    BY <2>1, <2>2, StoredTyped DEF TablesTyped
<1>5. ASSUME NEW r \in Requests, WriteRefused(r)
      PROVE  TablesTyped'
  BY <1>5, EmptyTyped DEF WriteRefused, Rollback, TypeOK, TablesTyped
<1>6. ASSUME NEW r \in Requests, CheckOwner(r)
      PROVE  TablesTyped'
  BY <1>6 DEF CheckOwner, TypeOK, TablesTyped
<1>7. ASSUME NEW r \in Requests, CheckFriend(r)
      PROVE  TablesTyped'
  BY <1>7 DEF CheckFriend, TypeOK, TablesTyped
<1>8. ASSUME NEW r \in Requests, Lookup(r)
      PROVE  TablesTyped'
  BY <1>8 DEF Lookup, TypeOK, TablesTyped
<1>9. ASSUME NEW r \in Requests, Insert(r)
      PROVE  TablesTyped'
  <2> DEFINE row == [name |-> req[r].call.name, device |-> req[r].call.device, bundle |-> None]
  <2>1. IsClaim(r) /\ req[r].pc # "idle" /\ db' = db
        /\ work' = [db EXCEPT !.record[RecordKey(req[r].call)] = row]
    BY <1>9 DEF Insert, TakeLock, Shape
  <2>2. row \in Record
    BY <2>1, ClaimCall DEF Record
  <2> HIDE DEF row
  <2> QED
    BY <2>1, <2>2 DEF TypeOK, Tables, TablesTyped
<1>10. ASSUME NEW r \in Requests, InsertRefused(r)
       PROVE  TablesTyped'
  BY <1>10, EmptyTyped DEF InsertRefused, Rollback, TypeOK, TablesTyped
<1>11. ASSUME NEW r \in Requests, Consume(r)
       PROVE  TablesTyped'
  <2>1. IsClaim(r) /\ db' = db
    BY <1>11 DEF Consume, TakeLock, Shape
  <2>2. work' \in Tables
    BY <1>11, <2>1, ConsumeMoves
  <2> QED
    BY <2>1, <2>2 DEF TypeOK, TablesTyped
<1>12. ASSUME NEW r \in Requests, Identity(r)
       PROVE  TablesTyped'
  BY <1>12, EmptyTyped DEF Identity, Rollback, TypeOK, TablesTyped
<1>13. ASSUME NEW r \in Requests, Signed(r)
       PROVE  TablesTyped'
  BY <1>13 DEF Signed, TypeOK, TablesTyped
<1>14. ASSUME NEW r \in Requests, StoreAnswer(r)
       PROVE  TablesTyped'
  <2> DEFINE row == [name |-> req[r].call.name, device |-> req[r].call.device,
                     bundle |-> req[r].bundle]
  <2>1. IsClaim(r) /\ req[r].pc # "idle" /\ db' = db
        /\ work' = [work EXCEPT !.record[RecordKey(req[r].call)] = row]
    BY <1>14 DEF StoreAnswer, Shape
  <2>2. req[r].bundle \in Bundle \cup {None}
    BY DEF TypeOK, Request
  <2>3. row \in Record
    BY <2>1, <2>2, ClaimCall DEF Record
  <2> HIDE DEF row
  <2> QED
    BY <2>1, <2>3 DEF TypeOK, Tables, TablesTyped
<1>15. ASSUME NEW r \in Requests, Commit(r)
       PROVE  TablesTyped'
  BY <1>15, EmptyTyped DEF Commit, Publish, TypeOK, TablesTyped
<1>16. ASSUME NEW r \in Requests, Fault(r)
       PROVE  TablesTyped'
  BY <1>16, EmptyTyped DEF Fault, Rollback, TypeOK, TablesTyped
<1>17. CASE Crash
  BY <1>17, EmptyTyped DEF Crash, TypeOK, TablesTyped
<1>18. ASSUME NEW d \in Devices, RegisterDevice(d)
       PROVE  TablesTyped'
  BY <1>18 DEF RegisterDevice, LockFree, TypeOK, TablesTyped, Tables
<1>19. ASSUME NEW d \in Devices, RevokeDevice(d)
       PROVE  TablesTyped'
  BY <1>19 DEF RevokeDevice, LockFree, TypeOK, TablesTyped, Tables
<1>20. ASSUME NEW u \in Users, NEW v \in Users, Befriend(u, v)
       PROVE  TablesTyped'
  BY <1>20 DEF Befriend, LockFree, TypeOK, TablesTyped
<1>21. ASSUME NEW u \in Users, NEW v \in Users, Unfriend(u, v)
       PROVE  TablesTyped'
  BY <1>21 DEF Unfriend, LockFree, TypeOK, TablesTyped
<1>22. CASE OtherCommit
  BY <1>22 DEF OtherCommit, LockFree, TypeOK, TablesTyped
<1> QED
  BY <1>1, <1>2, <1>3, <1>4, <1>5, <1>6, <1>7, <1>8, <1>9, <1>10, <1>11, <1>12,
     <1>13, <1>14, <1>15, <1>16, <1>17, <1>18, <1>19, <1>20, <1>21, <1>22
     DEF Next, UploadPrekeys, ClaimPrekeys

RestTyped ==
    /\ writer \in Requests \cup {None}
    /\ fresh \subseteq Requests
    /\ friends \subseteq Pairs
    /\ faults \in Nat
    /\ issued \in [Requests -> Bundle \cup {None}]
    /\ strangers \subseteq Requests

LEMMA TwoMakeAPair ==
    ASSUME NEW u \in Users, NEW v \in Users, u # v
    PROVE  {u, v} \in Pairs
<1>1. IsFiniteSet({u}) /\ Cardinality({u}) = 1 /\ v \notin {u} /\ {u, v} = {u} \cup {v}
  BY FS_Singleton
<1>2. Cardinality({u} \cup {v}) = Cardinality({u}) + 1
  BY <1>1, FS_AddElement
<1>3. Cardinality({u, v}) = 2
  BY <1>1, <1>2
<1> QED
  BY <1>3 DEF Pairs

\* So is everything else.
LEMMA RestNext ==
    ASSUME IInv, Next
    PROVE  RestTyped'
<1>0. TypeOK
  BY DEF IInv
<1> USE <1>0, PrekeysAssumption, NoneAssumption
<1> USE DEF Locals, Store, TypeOK, RestTyped
<1>1. ASSUME NEW r \in Requests, NEW ask \in Calls, Begin(r, ask)
      PROVE  RestTyped'
  BY <1>1 DEF Begin
<1>2. ASSUME NEW r \in Requests, CheckOwned(r)
      PROVE  RestTyped'
  BY <1>2 DEF CheckOwned
<1>3. ASSUME NEW r \in Requests, Count(r)
      PROVE  RestTyped'
  BY <1>3 DEF Count
<1>4. ASSUME NEW r \in Requests, Write(r)
      PROVE  RestTyped'
  BY <1>4 DEF Write, TakeLock, LockFree, MayWrite
<1>5. ASSUME NEW r \in Requests, WriteRefused(r)
      PROVE  RestTyped'
  BY <1>5 DEF WriteRefused, Rollback
<1>6. ASSUME NEW r \in Requests, CheckOwner(r)
      PROVE  RestTyped'
  BY <1>6 DEF CheckOwner
<1>7. ASSUME NEW r \in Requests, CheckFriend(r)
      PROVE  RestTyped'
  BY <1>7 DEF CheckFriend
<1>8. ASSUME NEW r \in Requests, Lookup(r)
      PROVE  RestTyped'
  BY <1>8 DEF Lookup
<1>9. ASSUME NEW r \in Requests, Insert(r)
      PROVE  RestTyped'
  BY <1>9 DEF Insert, TakeLock, MayWrite
<1>10. ASSUME NEW r \in Requests, InsertRefused(r)
       PROVE  RestTyped'
  BY <1>10 DEF InsertRefused, Rollback
<1>11. ASSUME NEW r \in Requests, Consume(r)
       PROVE  RestTyped'
  BY <1>11 DEF Consume, TakeLock
<1>12. ASSUME NEW r \in Requests, Identity(r)
       PROVE  RestTyped'
  BY <1>12 DEF Identity, Rollback
<1>13. ASSUME NEW r \in Requests, Signed(r)
       PROVE  RestTyped'
  BY <1>13 DEF Signed
<1>14. ASSUME NEW r \in Requests, StoreAnswer(r)
       PROVE  RestTyped'
  BY <1>14 DEF StoreAnswer
<1>15. ASSUME NEW r \in Requests, Commit(r)
       PROVE  RestTyped'
  <2>1. req[r].bundle \in Bundle \cup {None}
    BY DEF Request
  <2> QED
    BY <1>15, <2>1 DEF Commit, Publish
<1>16. ASSUME NEW r \in Requests, Fault(r)
       PROVE  RestTyped'
  BY <1>16 DEF Fault, Rollback
<1>17. CASE Crash
  <2>1. CrashDoes
    BY <1>17, CrashEffect
  <2> QED
    BY <2>1 DEF CrashDoes
<1>18. ASSUME NEW d \in Devices, RegisterDevice(d)
       PROVE  RestTyped'
  BY <1>18 DEF RegisterDevice, LockFree
<1>19. ASSUME NEW d \in Devices, RevokeDevice(d)
       PROVE  RestTyped'
  BY <1>19 DEF RevokeDevice, LockFree
<1>20. ASSUME NEW u \in Users, NEW v \in Users, Befriend(u, v)
       PROVE  RestTyped'
  <2>1. {u, v} \in Pairs
    BY <1>20, TwoMakeAPair DEF Befriend
  <2> QED
    BY <1>20, <2>1 DEF Befriend, LockFree
<1>21. ASSUME NEW u \in Users, NEW v \in Users, Unfriend(u, v)
       PROVE  RestTyped'
  BY <1>21 DEF Unfriend, LockFree
<1>22. CASE OtherCommit
  BY <1>22 DEF OtherCommit, LockFree
<1> QED
  BY <1>1, <1>2, <1>3, <1>4, <1>5, <1>6, <1>7, <1>8, <1>9, <1>10, <1>11, <1>12,
     <1>13, <1>14, <1>15, <1>16, <1>17, <1>18, <1>19, <1>20, <1>21, <1>22
     DEF Next, UploadPrekeys, ClaimPrekeys

\* Every action belongs to one kind of request.
LEMMA ShapeNext ==
    ASSUME IInv, Next
    PROVE  Shape'
<1>0. TypeOK /\ Shape /\ LockHeld /\ ClaimWork /\ RecordsTrue /\ Issued
  BY DEF IInv
<1> USE <1>0, PrekeysAssumption, NoneAssumption
<1> USE DEF Locals, Store, Others, PC, Reply, TypeOK, Shape, IsClaim, IsUpload, IsKeyed
<1>1. ASSUME NEW r \in Requests, NEW ask \in Calls, Begin(r, ask)
      PROVE  Shape'
  <2>1. BeginDoes(r, ask)
    BY <1>1, BeginEffect
  <2> QED
    BY <2>1 DEF BeginDoes
<1>2. ASSUME NEW r \in Requests, CheckOwned(r)
      PROVE  Shape'
  BY <1>2, GotoMoves, AnswerMoves DEF CheckOwned
<1>3. ASSUME NEW r \in Requests, Count(r)
      PROVE  Shape'
  BY <1>3, GotoMoves, AnswerMoves DEF Count
<1>4. ASSUME NEW r \in Requests, Write(r)
      PROVE  Shape'
  BY <1>4, GotoMoves, AnswerMoves DEF Write, TakeLock, LockFree, MayWrite
<1>5. ASSUME NEW r \in Requests, WriteRefused(r)
      PROVE  Shape'
  BY <1>5, GotoMoves, AnswerMoves DEF WriteRefused, Rollback
<1>6. ASSUME NEW r \in Requests, CheckOwner(r)
      PROVE  Shape'
  BY <1>6, GotoMoves, AnswerMoves DEF CheckOwner, AfterChecks
<1>7. ASSUME NEW r \in Requests, CheckFriend(r)
      PROVE  Shape'
  BY <1>7, GotoMoves, AnswerMoves DEF CheckFriend, AfterChecks
<1>8. ASSUME NEW r \in Requests, Lookup(r)
      PROVE  Shape'
  <2>1. LookupDoes(r)
    BY <1>8, LookupEffect
  <2> QED
    BY <2>1 DEF LookupDoes
<1>9. ASSUME NEW r \in Requests, Insert(r)
      PROVE  Shape'
  BY <1>9, GotoMoves, AnswerMoves DEF Insert, TakeLock, MayWrite
<1>10. ASSUME NEW r \in Requests, InsertRefused(r)
       PROVE  Shape'
  BY <1>10, GotoMoves, AnswerMoves DEF InsertRefused, Rollback
<1>11. ASSUME NEW r \in Requests, Consume(r)
       PROVE  Shape'
  <2>1. ConsumeDoes(r)
    BY <1>11, ConsumeEffect
  <2> QED
    BY <2>1 DEF ConsumeDoes
<1>12. ASSUME NEW r \in Requests, Identity(r)
       PROVE  Shape'
  BY <1>12, GotoMoves, AnswerMoves DEF Identity, Rollback
<1>13. ASSUME NEW r \in Requests, Signed(r)
       PROVE  Shape'
  <2>1. SignedDoes(r)
    BY <1>13, SignedEffect
  <2> QED
    BY <2>1 DEF SignedDoes
<1>14. ASSUME NEW r \in Requests, StoreAnswer(r)
       PROVE  Shape'
  BY <1>14, GotoMoves, AnswerMoves DEF StoreAnswer
<1>15. ASSUME NEW r \in Requests, Commit(r)
       PROVE  Shape'
  BY <1>15, GotoMoves, AnswerMoves DEF Commit, Publish
<1>16. ASSUME NEW r \in Requests, Fault(r)
       PROVE  Shape'
  BY <1>16, GotoMoves, AnswerMoves DEF Fault, Rollback
<1>17. CASE Crash
  <2>1. CrashDoes
    BY <1>17, CrashEffect
  <2> QED
    BY <2>1 DEF CrashDoes
<1>18. ASSUME NEW d \in Devices, RegisterDevice(d)
       PROVE  Shape'
  BY <1>18 DEF RegisterDevice, LockFree
<1>19. ASSUME NEW d \in Devices, RevokeDevice(d)
       PROVE  Shape'
  BY <1>19 DEF RevokeDevice, LockFree
<1>20. ASSUME NEW u \in Users, NEW v \in Users, Befriend(u, v)
       PROVE  Shape'
  BY <1>20 DEF Befriend, LockFree
<1>21. ASSUME NEW u \in Users, NEW v \in Users, Unfriend(u, v)
       PROVE  Shape'
  BY <1>21 DEF Unfriend, LockFree
<1>22. CASE OtherCommit
  BY <1>22 DEF OtherCommit, LockFree
<1> QED
  BY <1>1, <1>2, <1>3, <1>4, <1>5, <1>6, <1>7, <1>8, <1>9, <1>10, <1>11, <1>12,
     <1>13, <1>14, <1>15, <1>16, <1>17, <1>18, <1>19, <1>20, <1>21, <1>22
     DEF Next, UploadPrekeys, ClaimPrekeys

\* Every action takes, keeps or leaves the lock as it should.
LEMMA LockNext ==
    ASSUME IInv, Next
    PROVE  LockHeld'
<1>0. TypeOK /\ Shape /\ LockHeld /\ ClaimWork /\ RecordsTrue /\ Issued
  BY DEF IInv
<1> USE <1>0, PrekeysAssumption, NoneAssumption
<1> USE DEF Locals, Store, Others, PC, Reply, TypeOK, Shape, IsClaim, IsUpload, IsKeyed, LockHeld
<1>1. ASSUME NEW r \in Requests, NEW ask \in Calls, Begin(r, ask)
      PROVE  LockHeld'
  <2>1. BeginDoes(r, ask)
    BY <1>1, BeginEffect
  <2> QED
    BY <2>1 DEF BeginDoes
<1>2. ASSUME NEW r \in Requests, CheckOwned(r)
      PROVE  LockHeld'
  BY <1>2, GotoMoves, AnswerMoves DEF CheckOwned
<1>3. ASSUME NEW r \in Requests, Count(r)
      PROVE  LockHeld'
  BY <1>3, GotoMoves, AnswerMoves DEF Count
<1>4. ASSUME NEW r \in Requests, Write(r)
      PROVE  LockHeld'
  BY <1>4, GotoMoves, AnswerMoves DEF Write, TakeLock, LockFree, MayWrite
<1>5. ASSUME NEW r \in Requests, WriteRefused(r)
      PROVE  LockHeld'
  BY <1>5, GotoMoves, AnswerMoves DEF WriteRefused, Rollback
<1>6. ASSUME NEW r \in Requests, CheckOwner(r)
      PROVE  LockHeld'
  BY <1>6, GotoMoves, AnswerMoves DEF CheckOwner, AfterChecks
<1>7. ASSUME NEW r \in Requests, CheckFriend(r)
      PROVE  LockHeld'
  BY <1>7, GotoMoves, AnswerMoves DEF CheckFriend, AfterChecks
<1>8. ASSUME NEW r \in Requests, Lookup(r)
      PROVE  LockHeld'
  <2>1. LookupDoes(r)
    BY <1>8, LookupEffect
  <2> QED
    BY <2>1 DEF LookupDoes
<1>9. ASSUME NEW r \in Requests, Insert(r)
      PROVE  LockHeld'
  BY <1>9, GotoMoves, AnswerMoves DEF Insert, TakeLock, MayWrite
<1>10. ASSUME NEW r \in Requests, InsertRefused(r)
       PROVE  LockHeld'
  BY <1>10, GotoMoves, AnswerMoves DEF InsertRefused, Rollback
<1>11. ASSUME NEW r \in Requests, Consume(r)
       PROVE  LockHeld'
  <2>1. ConsumeDoes(r)
    BY <1>11, ConsumeEffect
  <2> QED
    BY <2>1 DEF ConsumeDoes
<1>12. ASSUME NEW r \in Requests, Identity(r)
       PROVE  LockHeld'
  BY <1>12, GotoMoves, AnswerMoves DEF Identity, Rollback
<1>13. ASSUME NEW r \in Requests, Signed(r)
       PROVE  LockHeld'
  <2>1. SignedDoes(r)
    BY <1>13, SignedEffect
  <2> QED
    BY <2>1 DEF SignedDoes
<1>14. ASSUME NEW r \in Requests, StoreAnswer(r)
       PROVE  LockHeld'
  BY <1>14, GotoMoves, AnswerMoves DEF StoreAnswer
<1>15. ASSUME NEW r \in Requests, Commit(r)
       PROVE  LockHeld'
  BY <1>15, GotoMoves, AnswerMoves DEF Commit, Publish
<1>16. ASSUME NEW r \in Requests, Fault(r)
       PROVE  LockHeld'
  BY <1>16, GotoMoves, AnswerMoves DEF Fault, Rollback
<1>17. CASE Crash
  <2>1. CrashDoes
    BY <1>17, CrashEffect
  <2> QED
    BY <2>1 DEF CrashDoes
<1>18. ASSUME NEW d \in Devices, RegisterDevice(d)
       PROVE  LockHeld'
  BY <1>18 DEF RegisterDevice, LockFree
<1>19. ASSUME NEW d \in Devices, RevokeDevice(d)
       PROVE  LockHeld'
  BY <1>19 DEF RevokeDevice, LockFree
<1>20. ASSUME NEW u \in Users, NEW v \in Users, Befriend(u, v)
       PROVE  LockHeld'
  BY <1>20 DEF Befriend, LockFree
<1>21. ASSUME NEW u \in Users, NEW v \in Users, Unfriend(u, v)
       PROVE  LockHeld'
  BY <1>21 DEF Unfriend, LockFree
<1>22. CASE OtherCommit
  BY <1>22 DEF OtherCommit, LockFree
<1> QED
  BY <1>1, <1>2, <1>3, <1>4, <1>5, <1>6, <1>7, <1>8, <1>9, <1>10, <1>11, <1>12,
     <1>13, <1>14, <1>15, <1>16, <1>17, <1>18, <1>19, <1>20, <1>21, <1>22
     DEF Next, UploadPrekeys, ClaimPrekeys

LEMMA NoKeysNoLimit ==
    ASSUME NEW t, NEW call, call.keys = {}
    PROVE  WithinLimit(t, call)
  BY DEF WithinLimit, OfKind

LEMMA SameOldest ==
    ASSUME NEW t, NEW u, t.stored = u.stored, t.consumed = u.consumed, NEW d, NEW kind
    PROVE  Oldest(t, d, kind) = Oldest(u, d, kind)
  BY DEF Oldest, Available, Rows

\* A snapshot tells the truth until something is committed.
LEMMA SnapshotsNext ==
    ASSUME IInv, Next
    PROVE  SnapshotsTell'
<1>0. TypeOK /\ Shape /\ LockHeld /\ SnapshotsTell /\ ClaimWork /\ RecordsTrue /\ Issued
  BY DEF IInv
<1> USE <1>0, PrekeysAssumption, NoneAssumption
<1> USE DEF Locals, Store, Others, PC, Reply, IsClaim, IsUpload, IsKeyed, TypeOK, Shape, LockHeld, SnapshotsTell
<1>1. ASSUME NEW r \in Requests, NEW ask \in Calls, Begin(r, ask)
      PROVE  SnapshotsTell'
  <2>1. BeginDoes(r, ask)
    BY <1>1, BeginEffect
  <2> QED
    BY <2>1 DEF BeginDoes
<1>2. ASSUME NEW r \in Requests, CheckOwned(r)
      PROVE  SnapshotsTell'
  <2>1. req[r].pc = "owned" /\ UNCHANGED <<db, fresh>>
    BY <1>2 DEF CheckOwned
  <2>2. CASE Goto(r, "write") /\ req[r].call.keys = {}
    <3>1. req'[r].pc = "write" /\ Others(r)
      BY <2>2, GotoMoves
    <3>2. WithinLimit(db, req[r].call) /\ req'[r].call = req[r].call
      BY <2>2, GotoMoves, NoKeysNoLimit
    <3> QED
      BY <2>1, <3>1, <3>2
  <2>3. CASE ~ (Goto(r, "write") /\ req[r].call.keys = {})
    <3>1. req'[r].pc \in {"done", "count"} /\ Others(r)
      BY <1>2, <2>3, GotoMoves, AnswerMoves DEF CheckOwned
    <3> QED
      BY <2>1, <3>1
  <2> QED
    BY <2>2, <2>3
<1>3. ASSUME NEW r \in Requests, Count(r)
      PROVE  SnapshotsTell'
  BY <1>3, GotoMoves, AnswerMoves DEF Count
<1>4. ASSUME NEW r \in Requests, Write(r)
      PROVE  SnapshotsTell'
  BY <1>4, GotoMoves, AnswerMoves DEF Write, TakeLock, LockFree, MayWrite
<1>5. ASSUME NEW r \in Requests, WriteRefused(r)
      PROVE  SnapshotsTell'
  BY <1>5, GotoMoves, AnswerMoves DEF WriteRefused, Rollback
<1>6. ASSUME NEW r \in Requests, CheckOwner(r)
      PROVE  SnapshotsTell'
  BY <1>6, GotoMoves, AnswerMoves DEF CheckOwner, AfterChecks
<1>7. ASSUME NEW r \in Requests, CheckFriend(r)
      PROVE  SnapshotsTell'
  BY <1>7, GotoMoves, AnswerMoves DEF CheckFriend, AfterChecks
<1>8. ASSUME NEW r \in Requests, Lookup(r)
      PROVE  SnapshotsTell'
  <2>1. LookupDoes(r)
    BY <1>8, LookupEffect
  <2> QED
    BY <2>1 DEF LookupDoes
<1>9. ASSUME NEW r \in Requests, Insert(r)
      PROVE  SnapshotsTell'
  BY <1>9, GotoMoves, AnswerMoves DEF Insert, TakeLock, MayWrite
<1>10. ASSUME NEW r \in Requests, InsertRefused(r)
       PROVE  SnapshotsTell'
  BY <1>10, GotoMoves, AnswerMoves DEF InsertRefused, Rollback
<1>11. ASSUME NEW r \in Requests, Consume(r)
       PROVE  SnapshotsTell'
  <2>1. ConsumeDoes(r)
    BY <1>11, ConsumeEffect
  <2> QED
    BY <2>1 DEF ConsumeDoes
<1>12. ASSUME NEW r \in Requests, Identity(r)
       PROVE  SnapshotsTell'
  BY <1>12, GotoMoves, AnswerMoves DEF Identity, Rollback
<1>13. ASSUME NEW r \in Requests, Signed(r)
       PROVE  SnapshotsTell'
  <2>1. SignedDoes(r)
    BY <1>13, SignedEffect
  <2> QED
    BY <2>1 DEF SignedDoes
<1>14. ASSUME NEW r \in Requests, StoreAnswer(r)
       PROVE  SnapshotsTell'
  BY <1>14, GotoMoves, AnswerMoves DEF StoreAnswer
<1>15. ASSUME NEW r \in Requests, Commit(r)
       PROVE  SnapshotsTell'
  <2>1. req'[r].pc = "done" /\ Others(r)
    BY <1>15, AnswerMoves DEF Commit
  <2>2. CASE work = db
    BY <1>15, <2>1, <2>2 DEF Commit, Publish
  <2>3. CASE work # db
    BY <1>15, <2>1, <2>3, NoKeysNoLimit DEF Commit, Publish
  <2> QED
    BY <2>2, <2>3
<1>16. ASSUME NEW r \in Requests, Fault(r)
       PROVE  SnapshotsTell'
  BY <1>16, GotoMoves, AnswerMoves DEF Fault, Rollback
<1>17. CASE Crash
  <2>1. CrashDoes
    BY <1>17, CrashEffect
  <2> QED
    BY <2>1 DEF CrashDoes
<1>18. ASSUME NEW d \in Devices, RegisterDevice(d)
       PROVE  SnapshotsTell'
  BY <1>18, NoKeysNoLimit DEF RegisterDevice, LockFree
<1>19. ASSUME NEW d \in Devices, RevokeDevice(d)
       PROVE  SnapshotsTell'
  BY <1>19, NoKeysNoLimit DEF RevokeDevice, LockFree
<1>20. ASSUME NEW u \in Users, NEW v \in Users, Befriend(u, v)
       PROVE  SnapshotsTell'
  BY <1>20 DEF Befriend, LockFree
<1>21. ASSUME NEW u \in Users, NEW v \in Users, Unfriend(u, v)
       PROVE  SnapshotsTell'
  BY <1>21 DEF Unfriend, LockFree
<1>22. CASE OtherCommit
  BY <1>22 DEF OtherCommit, LockFree
<1> QED
  BY <1>1, <1>2, <1>3, <1>4, <1>5, <1>6, <1>7, <1>8, <1>9, <1>10, <1>11, <1>12,
     <1>13, <1>14, <1>15, <1>16, <1>17, <1>18, <1>19, <1>20, <1>21, <1>22
     DEF Next, UploadPrekeys, ClaimPrekeys

\* Nobody changes what an upload has made of the tables.
LEMMA UploadNext ==
    ASSUME IInv, Next
    PROVE  UploadWork'
<1>0. TypeOK /\ Shape /\ LockHeld /\ SnapshotsTell /\ UploadWork
  BY DEF IInv
<1> USE <1>0, PrekeysAssumption, NoneAssumption
<1> USE DEF Locals, Store, Others, PC, Reply, IsClaim, IsUpload, IsKeyed, TypeOK, Shape, LockHeld, SnapshotsTell, UploadWork
<1>1. ASSUME NEW r \in Requests, NEW ask \in Calls, Begin(r, ask)
      PROVE  UploadWork'
  <2>1. BeginDoes(r, ask)
    BY <1>1, BeginEffect
  <2> QED
    BY <2>1 DEF BeginDoes
<1>2. ASSUME NEW r \in Requests, CheckOwned(r)
      PROVE  UploadWork'
  BY <1>2, GotoMoves, AnswerMoves DEF CheckOwned
<1>3. ASSUME NEW r \in Requests, Count(r)
      PROVE  UploadWork'
  BY <1>3, GotoMoves, AnswerMoves DEF Count
<1>4. ASSUME NEW r \in Requests, Write(r)
      PROVE  UploadWork'
  BY <1>4, GotoMoves, AnswerMoves DEF Write, TakeLock, LockFree, MayWrite
<1>5. ASSUME NEW r \in Requests, WriteRefused(r)
      PROVE  UploadWork'
  BY <1>5, GotoMoves, AnswerMoves DEF WriteRefused, Rollback
<1>6. ASSUME NEW r \in Requests, CheckOwner(r)
      PROVE  UploadWork'
  BY <1>6, GotoMoves, AnswerMoves DEF CheckOwner, AfterChecks
<1>7. ASSUME NEW r \in Requests, CheckFriend(r)
      PROVE  UploadWork'
  BY <1>7, GotoMoves, AnswerMoves DEF CheckFriend, AfterChecks
<1>8. ASSUME NEW r \in Requests, Lookup(r)
      PROVE  UploadWork'
  <2>1. LookupDoes(r)
    BY <1>8, LookupEffect
  <2> QED
    BY <2>1 DEF LookupDoes
<1>9. ASSUME NEW r \in Requests, Insert(r)
      PROVE  UploadWork'
  BY <1>9, GotoMoves, AnswerMoves DEF Insert, TakeLock, MayWrite
<1>10. ASSUME NEW r \in Requests, InsertRefused(r)
       PROVE  UploadWork'
  BY <1>10, GotoMoves, AnswerMoves DEF InsertRefused, Rollback
<1>11. ASSUME NEW r \in Requests, Consume(r)
       PROVE  UploadWork'
  <2>1. ConsumeDoes(r)
    BY <1>11, ConsumeEffect
  <2> QED
    BY <2>1 DEF ConsumeDoes
<1>12. ASSUME NEW r \in Requests, Identity(r)
       PROVE  UploadWork'
  BY <1>12, GotoMoves, AnswerMoves DEF Identity, Rollback
<1>13. ASSUME NEW r \in Requests, Signed(r)
       PROVE  UploadWork'
  <2>1. SignedDoes(r)
    BY <1>13, SignedEffect
  <2> QED
    BY <2>1 DEF SignedDoes
<1>14. ASSUME NEW r \in Requests, StoreAnswer(r)
       PROVE  UploadWork'
  BY <1>14, GotoMoves, AnswerMoves DEF StoreAnswer
<1>15. ASSUME NEW r \in Requests, Commit(r)
       PROVE  UploadWork'
  BY <1>15, GotoMoves, AnswerMoves DEF Commit, Publish
<1>16. ASSUME NEW r \in Requests, Fault(r)
       PROVE  UploadWork'
  BY <1>16, GotoMoves, AnswerMoves DEF Fault, Rollback
<1>17. CASE Crash
  <2>1. CrashDoes
    BY <1>17, CrashEffect
  <2> QED
    BY <2>1 DEF CrashDoes
<1>18. ASSUME NEW d \in Devices, RegisterDevice(d)
       PROVE  UploadWork'
  BY <1>18 DEF RegisterDevice, LockFree
<1>19. ASSUME NEW d \in Devices, RevokeDevice(d)
       PROVE  UploadWork'
  BY <1>19 DEF RevokeDevice, LockFree
<1>20. ASSUME NEW u \in Users, NEW v \in Users, Befriend(u, v)
       PROVE  UploadWork'
  BY <1>20 DEF Befriend, LockFree
<1>21. ASSUME NEW u \in Users, NEW v \in Users, Unfriend(u, v)
       PROVE  UploadWork'
  BY <1>21 DEF Unfriend, LockFree
<1>22. CASE OtherCommit
  BY <1>22 DEF OtherCommit, LockFree
<1> QED
  BY <1>1, <1>2, <1>3, <1>4, <1>5, <1>6, <1>7, <1>8, <1>9, <1>10, <1>11, <1>12,
     <1>13, <1>14, <1>15, <1>16, <1>17, <1>18, <1>19, <1>20, <1>21, <1>22
     DEF Next, UploadPrekeys, ClaimPrekeys

\* Nor what a claim has.
LEMMA ClaimNext ==
    ASSUME IInv, Next
    PROVE  ClaimWork'
<1>0. TypeOK /\ Shape /\ LockHeld /\ ClaimWork
  BY DEF IInv
<1> USE <1>0, PrekeysAssumption, NoneAssumption
<1> USE DEF Locals, Store, Others, PC, Reply, IsClaim, IsUpload, IsKeyed, TypeOK, Shape, LockHeld, ClaimWork, ClaimWorkOf, Taken
<1>1. ASSUME NEW r \in Requests, NEW ask \in Calls, Begin(r, ask)
      PROVE  ClaimWork'
  <2>1. BeginDoes(r, ask)
    BY <1>1, BeginEffect
  <2> QED
    BY <2>1 DEF BeginDoes
<1>2. ASSUME NEW r \in Requests, CheckOwned(r)
      PROVE  ClaimWork'
  BY <1>2, GotoMoves, AnswerMoves DEF CheckOwned
<1>3. ASSUME NEW r \in Requests, Count(r)
      PROVE  ClaimWork'
  BY <1>3, GotoMoves, AnswerMoves DEF Count
<1>4. ASSUME NEW r \in Requests, Write(r)
      PROVE  ClaimWork'
  BY <1>4, GotoMoves, AnswerMoves DEF Write, TakeLock, LockFree, MayWrite
<1>5. ASSUME NEW r \in Requests, WriteRefused(r)
      PROVE  ClaimWork'
  BY <1>5, GotoMoves, AnswerMoves DEF WriteRefused, Rollback
<1>6. ASSUME NEW r \in Requests, CheckOwner(r)
      PROVE  ClaimWork'
  BY <1>6, GotoMoves, AnswerMoves DEF CheckOwner, AfterChecks
<1>7. ASSUME NEW r \in Requests, CheckFriend(r)
      PROVE  ClaimWork'
  BY <1>7, GotoMoves, AnswerMoves DEF CheckFriend, AfterChecks
<1>8. ASSUME NEW r \in Requests, Lookup(r)
      PROVE  ClaimWork'
  <2>1. LookupDoes(r)
    BY <1>8, LookupEffect
  <2> QED
    BY <2>1 DEF LookupDoes
<1>9. ASSUME NEW r \in Requests, Insert(r)
      PROVE  ClaimWork'
  BY <1>9, GotoMoves, AnswerMoves DEF Insert, TakeLock, MayWrite
<1>10. ASSUME NEW r \in Requests, InsertRefused(r)
       PROVE  ClaimWork'
  BY <1>10, GotoMoves, AnswerMoves DEF InsertRefused, Rollback
<1>11. ASSUME NEW r \in Requests, Consume(r)
       PROVE  ClaimWork'
  <2>1. ConsumeDoes(r)
    BY <1>11, ConsumeEffect
  <2>2. KeysOf(r) = Taken(req[r].call.device)
    <3>1. TablesOf(r).stored = db.stored /\ TablesOf(r).consumed = db.consumed
      BY <2>1 DEF ConsumeDoes, TablesOf
    <3>2. \A kind \in Kinds : Oldest(TablesOf(r), req[r].call.device, kind)
                                = Oldest(db, req[r].call.device, kind)
      BY <3>1, SameOldest
    <3> QED
      BY <3>2 DEF KeysOf
  <2>3. /\ TablesOf(r).stored = db.stored /\ TablesOf(r).signed = db.signed
        /\ TablesOf(r).status = db.status /\ TablesOf(r).consumed = db.consumed
        /\ TablesOf(r) \in Tables
    BY <2>1 DEF ConsumeDoes, TablesOf
  <2>4. /\ work'.stored = db.stored /\ work'.signed = db.signed /\ work'.status = db.status
        /\ work'.consumed = db.consumed \cup KeysOf(r)
    BY <2>1, <2>3 DEF ConsumeDoes, Tables
  <2>5. req'[r].bundle # None
    BY <2>1 DEF ConsumeDoes
  <2> QED
    BY <2>1, <2>2, <2>4, <2>5 DEF ConsumeDoes
<1>12. ASSUME NEW r \in Requests, Identity(r)
       PROVE  ClaimWork'
  BY <1>12, GotoMoves, AnswerMoves DEF Identity, Rollback, InService
<1>13. ASSUME NEW r \in Requests, Signed(r)
       PROVE  ClaimWork'
  <2>1. SignedDoes(r)
    BY <1>13, SignedEffect
  <2> QED
    BY <2>1 DEF SignedDoes
<1>14. ASSUME NEW r \in Requests, StoreAnswer(r)
       PROVE  ClaimWork'
  BY <1>14, GotoMoves, AnswerMoves DEF StoreAnswer
<1>15. ASSUME NEW r \in Requests, Commit(r)
       PROVE  ClaimWork'
  BY <1>15, GotoMoves, AnswerMoves DEF Commit, Publish
<1>16. ASSUME NEW r \in Requests, Fault(r)
       PROVE  ClaimWork'
  BY <1>16, GotoMoves, AnswerMoves DEF Fault, Rollback
<1>17. CASE Crash
  <2>1. CrashDoes
    BY <1>17, CrashEffect
  <2> QED
    BY <2>1 DEF CrashDoes
<1>18. ASSUME NEW d \in Devices, RegisterDevice(d)
       PROVE  ClaimWork'
  BY <1>18 DEF RegisterDevice, LockFree
<1>19. ASSUME NEW d \in Devices, RevokeDevice(d)
       PROVE  ClaimWork'
  BY <1>19 DEF RevokeDevice, LockFree
<1>20. ASSUME NEW u \in Users, NEW v \in Users, Befriend(u, v)
       PROVE  ClaimWork'
  BY <1>20 DEF Befriend, LockFree
<1>21. ASSUME NEW u \in Users, NEW v \in Users, Unfriend(u, v)
       PROVE  ClaimWork'
  BY <1>21 DEF Unfriend, LockFree
<1>22. CASE OtherCommit
  BY <1>22 DEF OtherCommit, LockFree
<1> QED
  BY <1>1, <1>2, <1>3, <1>4, <1>5, <1>6, <1>7, <1>8, <1>9, <1>10, <1>11, <1>12,
     <1>13, <1>14, <1>15, <1>16, <1>17, <1>18, <1>19, <1>20, <1>21, <1>22
     DEF Next, UploadPrekeys, ClaimPrekeys

\* Nor its record.
LEMMA RecordNext ==
    ASSUME IInv, Next
    PROVE  RecordWork'
<1>0. TypeOK /\ Shape /\ LockHeld /\ SnapshotsTell /\ RecordWork
  BY DEF IInv
<1> USE <1>0, PrekeysAssumption, NoneAssumption
<1> USE DEF Locals, Store, Others, PC, Reply, IsClaim, IsUpload, IsKeyed, TypeOK, Shape, LockHeld, SnapshotsTell, RecordWork
<1>1. ASSUME NEW r \in Requests, NEW ask \in Calls, Begin(r, ask)
      PROVE  RecordWork'
  <2>1. BeginDoes(r, ask)
    BY <1>1, BeginEffect
  <2> QED
    BY <2>1 DEF BeginDoes
<1>2. ASSUME NEW r \in Requests, CheckOwned(r)
      PROVE  RecordWork'
  BY <1>2, GotoMoves, AnswerMoves DEF CheckOwned
<1>3. ASSUME NEW r \in Requests, Count(r)
      PROVE  RecordWork'
  BY <1>3, GotoMoves, AnswerMoves DEF Count
<1>4. ASSUME NEW r \in Requests, Write(r)
      PROVE  RecordWork'
  BY <1>4, GotoMoves, AnswerMoves DEF Write, TakeLock, LockFree, MayWrite, StoredWith
<1>5. ASSUME NEW r \in Requests, WriteRefused(r)
      PROVE  RecordWork'
  BY <1>5, GotoMoves, AnswerMoves DEF WriteRefused, Rollback
<1>6. ASSUME NEW r \in Requests, CheckOwner(r)
      PROVE  RecordWork'
  BY <1>6, GotoMoves, AnswerMoves DEF CheckOwner, AfterChecks
<1>7. ASSUME NEW r \in Requests, CheckFriend(r)
      PROVE  RecordWork'
  BY <1>7, GotoMoves, AnswerMoves DEF CheckFriend, AfterChecks
<1>8. ASSUME NEW r \in Requests, Lookup(r)
      PROVE  RecordWork'
  <2>1. LookupDoes(r)
    BY <1>8, LookupEffect
  <2> QED
    BY <2>1 DEF LookupDoes
<1>9. ASSUME NEW r \in Requests, Insert(r)
      PROVE  RecordWork'
  BY <1>9, GotoMoves, AnswerMoves DEF Insert, TakeLock, MayWrite
<1>10. ASSUME NEW r \in Requests, InsertRefused(r)
       PROVE  RecordWork'
  BY <1>10, GotoMoves, AnswerMoves DEF InsertRefused, Rollback
<1>11. ASSUME NEW r \in Requests, Consume(r)
       PROVE  RecordWork'
  <2>1. ConsumeDoes(r)
    BY <1>11, ConsumeEffect
  <2>2. TablesOf(r) \in Tables
    BY DEF TablesOf
  <2>3. work'.record = TablesOf(r).record
    BY <2>1, <2>2 DEF ConsumeDoes, Tables
  <2> QED
    BY <2>1, <2>3 DEF ConsumeDoes, TablesOf
<1>12. ASSUME NEW r \in Requests, Identity(r)
       PROVE  RecordWork'
  BY <1>12, GotoMoves, AnswerMoves DEF Identity, Rollback
<1>13. ASSUME NEW r \in Requests, Signed(r)
       PROVE  RecordWork'
  <2>1. SignedDoes(r)
    BY <1>13, SignedEffect
  <2>2. CASE IsKeyed(r)
    <3>1. req'[r].pc = "store"
      BY <2>1, <2>2 DEF SignedDoes
    <3> QED
      BY <2>1, <3>1 DEF SignedDoes
  <2>3. CASE ~ IsKeyed(r)
    <3>1. /\ req'[r].call = req[r].call /\ writer = r
          /\ UNCHANGED <<db, work, writer>>
      BY <2>1 DEF SignedDoes
    <3>2. work.record = db.record
      BY <2>3, <3>1
    <3>3. \A q \in Requests : writer' = q => q = r
      BY <3>1
    <3> QED
      BY <2>3, <3>1, <3>2, <3>3
  <2> QED
    BY <2>2, <2>3
<1>14. ASSUME NEW r \in Requests, StoreAnswer(r)
       PROVE  RecordWork'
  <2> DEFINE x == RecordKey(req[r].call)
             row == [name |-> req[r].call.name, device |-> req[r].call.device,
                     bundle |-> req[r].bundle]
             blank == [name |-> req[r].call.name, device |-> req[r].call.device,
                       bundle |-> None]
  <2>1. /\ req[r].pc = "store" /\ writer = r /\ IsKeyed(r)
        /\ UNCHANGED <<db, writer>> /\ Goto(r, "commit")
        /\ work' = [work EXCEPT !.record[x] = row]
    BY <1>14 DEF StoreAnswer
  <2>2. /\ req'[r].pc = "commit" /\ req'[r].call = req[r].call
        /\ req'[r].bundle = req[r].bundle /\ Others(r)
    BY <2>1, GotoMoves
  <2>3. work.record = [db.record EXCEPT ![x] = blank] /\ db.record[x] = None
    BY <2>1
  <2>4. work'.record = [work.record EXCEPT ![x] = row]
    BY <2>1 DEF Tables
  <2>5. db.record = [y \in DOMAIN db.record |-> db.record[y]]
    BY DEF Tables
  <2> HIDE DEF x, row, blank
  <2>6. work'.record = [db.record EXCEPT ![x] = row]
    BY <2>3, <2>4, <2>5
  <2> QED
    BY <2>1, <2>2, <2>3, <2>6 DEF x, row
<1>15. ASSUME NEW r \in Requests, Commit(r)
       PROVE  RecordWork'
  BY <1>15, GotoMoves, AnswerMoves DEF Commit, Publish
<1>16. ASSUME NEW r \in Requests, Fault(r)
       PROVE  RecordWork'
  BY <1>16, GotoMoves, AnswerMoves DEF Fault, Rollback
<1>17. CASE Crash
  <2>1. CrashDoes
    BY <1>17, CrashEffect
  <2> QED
    BY <2>1 DEF CrashDoes
<1>18. ASSUME NEW d \in Devices, RegisterDevice(d)
       PROVE  RecordWork'
  BY <1>18 DEF RegisterDevice, LockFree
<1>19. ASSUME NEW d \in Devices, RevokeDevice(d)
       PROVE  RecordWork'
  BY <1>19 DEF RevokeDevice, LockFree
<1>20. ASSUME NEW u \in Users, NEW v \in Users, Befriend(u, v)
       PROVE  RecordWork'
  BY <1>20 DEF Befriend, LockFree
<1>21. ASSUME NEW u \in Users, NEW v \in Users, Unfriend(u, v)
       PROVE  RecordWork'
  BY <1>21 DEF Unfriend, LockFree
<1>22. CASE OtherCommit
  BY <1>22 DEF OtherCommit, LockFree
<1> QED
  BY <1>1, <1>2, <1>3, <1>4, <1>5, <1>6, <1>7, <1>8, <1>9, <1>10, <1>11, <1>12,
     <1>13, <1>14, <1>15, <1>16, <1>17, <1>18, <1>19, <1>20, <1>21, <1>22
     DEF Next, UploadPrekeys, ClaimPrekeys

LEMMA FiniteKeys == IsFiniteSet(Key)
<1> DEFINE S == Devices \X (Kinds \X KeyIds)
           f == [x \in S |-> [device |-> x[1], kind |-> x[2][1], id |-> x[2][2]]]
<1>1. IsFiniteSet(Kinds \X KeyIds)
  BY PrekeysAssumption, FS_Product
<1>2. IsFiniteSet(S)
  BY <1>1, PrekeysAssumption, FS_Product
<1>3. f \in Surjection(S, Key)
  <2>1. f \in [S -> Key]
    BY DEF Key
  <2>2. ASSUME NEW k \in Key
        PROVE  \E x \in S : f[x] = k
    <3>1. <<k.device, <<k.kind, k.id>>>> \in S
      BY DEF Key
    <3>2. f[<<k.device, <<k.kind, k.id>>>>] = k
      BY <3>1 DEF Key
    <3> QED
      BY <3>1, <3>2
  <2> QED
    BY <2>1, <2>2 DEF Surjection
<1> QED
  BY <1>2, <1>3, FS_Surjection

LEMMA CallKind ==
    ASSUME TypeOK, NEW r \in Requests, req[r].pc # "idle"
    PROVE  IsUpload(r) \/ IsClaim(r)
<1>1. req[r].call \in Upload \cup Claim
  BY PrekeysAssumption DEF TypeOK
<1> QED
  BY <1>1 DEF Upload, Claim, IsUpload, IsClaim

\* Bundles are committed by claims only.
LEMMA IssuedNext ==
    ASSUME IInv, Next
    PROVE  Issued'
<1>0. TypeOK /\ Shape /\ LockHeld /\ ClaimWork /\ Issued
  BY DEF IInv
<1> USE <1>0, PrekeysAssumption, NoneAssumption
<1> USE DEF Locals, Store, Others, PC, Reply, IsClaim, IsUpload, IsKeyed, TypeOK, Shape, LockHeld, ClaimWork, ClaimWorkOf, Issued
<1>1. ASSUME NEW r \in Requests, NEW ask \in Calls, Begin(r, ask)
      PROVE  Issued'
  <2>1. BeginDoes(r, ask)
    BY <1>1, BeginEffect
  <2> QED
    BY <2>1 DEF BeginDoes
<1>2. ASSUME NEW r \in Requests, CheckOwned(r)
      PROVE  Issued'
  BY <1>2, GotoMoves, AnswerMoves DEF CheckOwned
<1>3. ASSUME NEW r \in Requests, Count(r)
      PROVE  Issued'
  BY <1>3, GotoMoves, AnswerMoves DEF Count
<1>4. ASSUME NEW r \in Requests, Write(r)
      PROVE  Issued'
  BY <1>4, GotoMoves, AnswerMoves DEF Write, TakeLock, LockFree, MayWrite
<1>5. ASSUME NEW r \in Requests, WriteRefused(r)
      PROVE  Issued'
  BY <1>5, GotoMoves, AnswerMoves DEF WriteRefused, Rollback
<1>6. ASSUME NEW r \in Requests, CheckOwner(r)
      PROVE  Issued'
  BY <1>6, GotoMoves, AnswerMoves DEF CheckOwner, AfterChecks
<1>7. ASSUME NEW r \in Requests, CheckFriend(r)
      PROVE  Issued'
  BY <1>7, GotoMoves, AnswerMoves DEF CheckFriend, AfterChecks
<1>8. ASSUME NEW r \in Requests, Lookup(r)
      PROVE  Issued'
  <2>1. LookupDoes(r)
    BY <1>8, LookupEffect
  <2> QED
    BY <2>1 DEF LookupDoes
<1>9. ASSUME NEW r \in Requests, Insert(r)
      PROVE  Issued'
  BY <1>9, GotoMoves, AnswerMoves DEF Insert, TakeLock, MayWrite
<1>10. ASSUME NEW r \in Requests, InsertRefused(r)
       PROVE  Issued'
  BY <1>10, GotoMoves, AnswerMoves DEF InsertRefused, Rollback
<1>11. ASSUME NEW r \in Requests, Consume(r)
       PROVE  Issued'
  <2>1. ConsumeDoes(r)
    BY <1>11, ConsumeEffect
  <2> QED
    BY <2>1 DEF ConsumeDoes
<1>12. ASSUME NEW r \in Requests, Identity(r)
       PROVE  Issued'
  BY <1>12, GotoMoves, AnswerMoves DEF Identity, Rollback
<1>13. ASSUME NEW r \in Requests, Signed(r)
       PROVE  Issued'
  <2>1. SignedDoes(r)
    BY <1>13, SignedEffect
  <2> QED
    BY <2>1 DEF SignedDoes
<1>14. ASSUME NEW r \in Requests, StoreAnswer(r)
       PROVE  Issued'
  BY <1>14, GotoMoves, AnswerMoves DEF StoreAnswer
<1>15. ASSUME NEW r \in Requests, Commit(r)
       PROVE  Issued'
  <2>1. /\ req[r].pc = "commit" /\ writer = r
        /\ db' = work /\ writer' = None
        /\ issued' = [issued EXCEPT ![r] = req[r].bundle]
    BY <1>15 DEF Commit, Publish
  <2>2. /\ req'[r].pc = "done" /\ req'[r].reply = "ok" /\ req'[r].call = req[r].call
        /\ req'[r].bundle = req[r].bundle /\ Others(r)
    BY <1>15, AnswerMoves DEF Commit
  <2>3. CASE IsUpload(r)
    BY <2>1, <2>2, <2>3
  <2>4. CASE IsClaim(r)
    <3>1. OnePerKind(req[r].bundle.keys)
      BY <2>1, <2>4
    <3> QED
      BY <2>1, <2>2, <2>4, <3>1
  <2>5. IsUpload(r) \/ IsClaim(r)
    BY <2>1, CallKind
  <2> QED
    BY <2>3, <2>4, <2>5
<1>16. ASSUME NEW r \in Requests, Fault(r)
       PROVE  Issued'
  BY <1>16, GotoMoves, AnswerMoves DEF Fault, Rollback
<1>17. CASE Crash
  <2>1. CrashDoes
    BY <1>17, CrashEffect
  <2> QED
    BY <2>1 DEF CrashDoes
<1>18. ASSUME NEW d \in Devices, RegisterDevice(d)
       PROVE  Issued'
  BY <1>18 DEF RegisterDevice, LockFree
<1>19. ASSUME NEW d \in Devices, RevokeDevice(d)
       PROVE  Issued'
  BY <1>19 DEF RevokeDevice, LockFree
<1>20. ASSUME NEW u \in Users, NEW v \in Users, Befriend(u, v)
       PROVE  Issued'
  BY <1>20 DEF Befriend, LockFree
<1>21. ASSUME NEW u \in Users, NEW v \in Users, Unfriend(u, v)
       PROVE  Issued'
  BY <1>21 DEF Unfriend, LockFree
<1>22. CASE OtherCommit
  BY <1>22 DEF OtherCommit, LockFree
<1> QED
  BY <1>1, <1>2, <1>3, <1>4, <1>5, <1>6, <1>7, <1>8, <1>9, <1>10, <1>11, <1>12,
     <1>13, <1>14, <1>15, <1>16, <1>17, <1>18, <1>19, <1>20, <1>21, <1>22
     DEF Next, UploadPrekeys, ClaimPrekeys

\* A record appears together with the bundle it holds.
LEMMA RecordsNext ==
    ASSUME IInv, Next
    PROVE  RecordsTrue'
<1>0. TypeOK /\ Shape /\ LockHeld /\ ClaimWork /\ RecordWork /\ RecordsTrue
  BY DEF IInv
<1> USE <1>0, PrekeysAssumption, NoneAssumption
<1> USE DEF Locals, Store, Others, PC, Reply, IsClaim, IsUpload, IsKeyed, TypeOK, Shape, LockHeld, ClaimWork, ClaimWorkOf, RecordWork, RecordsTrue
<1>1. ASSUME NEW r \in Requests, NEW ask \in Calls, Begin(r, ask)
      PROVE  RecordsTrue'
  <2>1. BeginDoes(r, ask)
    BY <1>1, BeginEffect
  <2> QED
    BY <2>1 DEF BeginDoes
<1>2. ASSUME NEW r \in Requests, CheckOwned(r)
      PROVE  RecordsTrue'
  BY <1>2, GotoMoves, AnswerMoves DEF CheckOwned
<1>3. ASSUME NEW r \in Requests, Count(r)
      PROVE  RecordsTrue'
  BY <1>3, GotoMoves, AnswerMoves DEF Count
<1>4. ASSUME NEW r \in Requests, Write(r)
      PROVE  RecordsTrue'
  BY <1>4, GotoMoves, AnswerMoves DEF Write, TakeLock, LockFree, MayWrite
<1>5. ASSUME NEW r \in Requests, WriteRefused(r)
      PROVE  RecordsTrue'
  BY <1>5, GotoMoves, AnswerMoves DEF WriteRefused, Rollback
<1>6. ASSUME NEW r \in Requests, CheckOwner(r)
      PROVE  RecordsTrue'
  BY <1>6, GotoMoves, AnswerMoves DEF CheckOwner, AfterChecks
<1>7. ASSUME NEW r \in Requests, CheckFriend(r)
      PROVE  RecordsTrue'
  BY <1>7, GotoMoves, AnswerMoves DEF CheckFriend, AfterChecks
<1>8. ASSUME NEW r \in Requests, Lookup(r)
      PROVE  RecordsTrue'
  <2>1. LookupDoes(r)
    BY <1>8, LookupEffect
  <2> QED
    BY <2>1 DEF LookupDoes
<1>9. ASSUME NEW r \in Requests, Insert(r)
      PROVE  RecordsTrue'
  BY <1>9, GotoMoves, AnswerMoves DEF Insert, TakeLock, MayWrite
<1>10. ASSUME NEW r \in Requests, InsertRefused(r)
       PROVE  RecordsTrue'
  BY <1>10, GotoMoves, AnswerMoves DEF InsertRefused, Rollback
<1>11. ASSUME NEW r \in Requests, Consume(r)
       PROVE  RecordsTrue'
  <2>1. ConsumeDoes(r)
    BY <1>11, ConsumeEffect
  <2> QED
    BY <2>1 DEF ConsumeDoes
<1>12. ASSUME NEW r \in Requests, Identity(r)
       PROVE  RecordsTrue'
  BY <1>12, GotoMoves, AnswerMoves DEF Identity, Rollback
<1>13. ASSUME NEW r \in Requests, Signed(r)
       PROVE  RecordsTrue'
  <2>1. SignedDoes(r)
    BY <1>13, SignedEffect
  <2> QED
    BY <2>1 DEF SignedDoes
<1>14. ASSUME NEW r \in Requests, StoreAnswer(r)
       PROVE  RecordsTrue'
  BY <1>14, GotoMoves, AnswerMoves DEF StoreAnswer
<1>15. ASSUME NEW r \in Requests, Commit(r)
       PROVE  RecordsTrue'
  <2>1. /\ req[r].pc = "commit" /\ writer = r
        /\ db' = work /\ writer' = None
        /\ issued' = [issued EXCEPT ![r] = req[r].bundle]
    BY <1>15 DEF Commit, Publish
  <2>2. /\ req'[r].pc = "done" /\ req'[r].reply = "ok" /\ req'[r].call = req[r].call
        /\ req'[r].bundle = req[r].bundle /\ Others(r)
    BY <1>15, AnswerMoves DEF Commit
  <2>9. /\ ~ IsKeyed(r) => db'.record = db.record
        /\ IsKeyed(r) =>
               /\ db.record[RecordKey(req[r].call)] = None
               /\ db'.record = [db.record EXCEPT ![RecordKey(req[r].call)] =
                     [name |-> req[r].call.name, device |-> req[r].call.device,
                      bundle |-> req[r].bundle]]
    BY <2>1
  <2>3. req[r].bundle \in Bundle \cup {None}
    BY DEF Request
  <2> SUFFICES ASSUME NEW x \in Users \X IdempotencyKeys, db'.record[x] # None
        PROVE  \E q \in Requests :
                  /\ req'[q].call.op = "claim" /\ RecordKey(req'[q].call) = x
                  /\ issued'[q] # None
                  /\ issued'[q] = db'.record[x].bundle
                  /\ issued'[q].device = db'.record[x].device
    OBVIOUS
  <2>4. issued[r] = None
    BY <2>1
  <2>5. CASE db'.record[x] = db.record[x]
    <3>1. PICK q \in Requests :
             /\ req[q].call.op = "claim" /\ RecordKey(req[q].call) = x
             /\ issued[q] # None
             /\ issued[q] = db.record[x].bundle
             /\ issued[q].device = db.record[x].device
      BY <2>5
    <3>2. q # r /\ issued'[q] = issued[q] /\ req'[q] = req[q]
      BY <2>1, <2>2, <2>4, <3>1
    <3> QED
      BY <2>5, <3>1, <3>2
  <2>6. CASE db'.record[x] # db.record[x]
    <3>1. IsKeyed(r) /\ x = RecordKey(req[r].call)
      <4> HIDE DEF IsKeyed, TypeOK, ClaimWork, RecordWork, RecordsTrue
      <4>1. db.record = [y \in Users \X IdempotencyKeys |-> db.record[y]]
        BY DEF TypeOK, Tables
      <4> QED
        BY <2>6, <2>9, <4>1
    <3>2. db'.record[x] = [name |-> req[r].call.name, device |-> req[r].call.device,
                           bundle |-> req[r].bundle]
      <4>1. RecordKey(req[r].call) \in DOMAIN db.record
        BY <3>1 DEF Tables
      <4> QED
        BY <2>1, <3>1, <4>1
    <3>3. req[r].bundle # None /\ req[r].bundle.device = req[r].call.device
      BY <2>1, <3>1
    <3>4. issued'[r] = req[r].bundle
      BY <2>1
    <3> QED
      BY <2>2, <3>1, <3>2, <3>3, <3>4
  <2> QED
    BY <2>5, <2>6
<1>16. ASSUME NEW r \in Requests, Fault(r)
       PROVE  RecordsTrue'
  BY <1>16, GotoMoves, AnswerMoves DEF Fault, Rollback
<1>17. CASE Crash
  <2>1. CrashDoes
    BY <1>17, CrashEffect
  <2> QED
    BY <2>1 DEF CrashDoes
<1>18. ASSUME NEW d \in Devices, RegisterDevice(d)
       PROVE  RecordsTrue'
  BY <1>18 DEF RegisterDevice, LockFree
<1>19. ASSUME NEW d \in Devices, RevokeDevice(d)
       PROVE  RecordsTrue'
  BY <1>19 DEF RevokeDevice, LockFree
<1>20. ASSUME NEW u \in Users, NEW v \in Users, Befriend(u, v)
       PROVE  RecordsTrue'
  BY <1>20 DEF Befriend, LockFree
<1>21. ASSUME NEW u \in Users, NEW v \in Users, Unfriend(u, v)
       PROVE  RecordsTrue'
  BY <1>21 DEF Unfriend, LockFree
<1>22. CASE OtherCommit
  BY <1>22 DEF OtherCommit, LockFree
<1> QED
  BY <1>1, <1>2, <1>3, <1>4, <1>5, <1>6, <1>7, <1>8, <1>9, <1>10, <1>11, <1>12,
     <1>13, <1>14, <1>15, <1>16, <1>17, <1>18, <1>19, <1>20, <1>21, <1>22
     DEF Next, UploadPrekeys, ClaimPrekeys

\* An answer is that of the record, once and for all.
LEMMA AnswersNext ==
    ASSUME IInv, Next
    PROVE  AnswersTrue'
<1>0. TypeOK /\ Shape /\ LockHeld /\ ClaimWork /\ RecordWork /\ AnswersTrue
  BY DEF IInv
<1> USE <1>0, PrekeysAssumption, NoneAssumption
<1> USE DEF Locals, Store, Others, PC, Reply, IsClaim, IsUpload, IsKeyed, TypeOK, Shape, LockHeld, ClaimWork, ClaimWorkOf, RecordWork, AnswersTrue
<1>1. ASSUME NEW r \in Requests, NEW ask \in Calls, Begin(r, ask)
      PROVE  AnswersTrue'
  <2>1. BeginDoes(r, ask)
    BY <1>1, BeginEffect
  <2> QED
    BY <2>1 DEF BeginDoes
<1>2. ASSUME NEW r \in Requests, CheckOwned(r)
      PROVE  AnswersTrue'
  BY <1>2, GotoMoves, AnswerMoves DEF CheckOwned
<1>3. ASSUME NEW r \in Requests, Count(r)
      PROVE  AnswersTrue'
  BY <1>3, GotoMoves, AnswerMoves DEF Count
<1>4. ASSUME NEW r \in Requests, Write(r)
      PROVE  AnswersTrue'
  BY <1>4, GotoMoves, AnswerMoves DEF Write, TakeLock, LockFree, MayWrite
<1>5. ASSUME NEW r \in Requests, WriteRefused(r)
      PROVE  AnswersTrue'
  BY <1>5, GotoMoves, AnswerMoves DEF WriteRefused, Rollback
<1>6. ASSUME NEW r \in Requests, CheckOwner(r)
      PROVE  AnswersTrue'
  BY <1>6, GotoMoves, AnswerMoves DEF CheckOwner, AfterChecks
<1>7. ASSUME NEW r \in Requests, CheckFriend(r)
      PROVE  AnswersTrue'
  BY <1>7, GotoMoves, AnswerMoves DEF CheckFriend, AfterChecks
<1>8. ASSUME NEW r \in Requests, Lookup(r)
      PROVE  AnswersTrue'
  <2>1. LookupDoes(r)
    BY <1>8, LookupEffect
  <2> QED
    BY <2>1 DEF LookupDoes
<1>9. ASSUME NEW r \in Requests, Insert(r)
      PROVE  AnswersTrue'
  BY <1>9, GotoMoves, AnswerMoves DEF Insert, TakeLock, MayWrite
<1>10. ASSUME NEW r \in Requests, InsertRefused(r)
       PROVE  AnswersTrue'
  BY <1>10, GotoMoves, AnswerMoves DEF InsertRefused, Rollback
<1>11. ASSUME NEW r \in Requests, Consume(r)
       PROVE  AnswersTrue'
  <2>1. ConsumeDoes(r)
    BY <1>11, ConsumeEffect
  <2> QED
    BY <2>1 DEF ConsumeDoes
<1>12. ASSUME NEW r \in Requests, Identity(r)
       PROVE  AnswersTrue'
  BY <1>12, GotoMoves, AnswerMoves DEF Identity, Rollback
<1>13. ASSUME NEW r \in Requests, Signed(r)
       PROVE  AnswersTrue'
  <2>1. SignedDoes(r)
    BY <1>13, SignedEffect
  <2> QED
    BY <2>1 DEF SignedDoes
<1>14. ASSUME NEW r \in Requests, StoreAnswer(r)
       PROVE  AnswersTrue'
  BY <1>14, GotoMoves, AnswerMoves DEF StoreAnswer
<1>15. ASSUME NEW r \in Requests, Commit(r)
       PROVE  AnswersTrue'
  <2>1. /\ req[r].pc = "commit" /\ writer = r
        /\ db' = work /\ writer' = None
        /\ issued' = [issued EXCEPT ![r] = req[r].bundle]
    BY <1>15 DEF Commit, Publish
  <2>2. /\ req'[r].pc = "done" /\ req'[r].reply = "ok" /\ req'[r].call = req[r].call
        /\ req'[r].bundle = req[r].bundle /\ Others(r)
    BY <1>15, AnswerMoves DEF Commit
  <2>9. /\ ~ IsKeyed(r) => db'.record = db.record
        /\ IsKeyed(r) =>
               /\ db.record[RecordKey(req[r].call)] = None
               /\ db'.record = [db.record EXCEPT ![RecordKey(req[r].call)] =
                     [name |-> req[r].call.name, device |-> req[r].call.device,
                      bundle |-> req[r].bundle]]
    BY <2>1
  <2> SUFFICES ASSUME NEW q \in Requests, req'[q].reply = "ok", req'[q].call.op = "claim"
        PROVE  /\ req'[q].bundle # None
               /\ req'[q].bundle.device = req'[q].call.device
               /\ req'[q].call.idKey = None => issued'[q] = req'[q].bundle
               /\ req'[q].call.idKey # None =>
                      /\ db'.record[RecordKey(req'[q].call)] # None
                      /\ req'[q].bundle = db'.record[RecordKey(req'[q].call)].bundle
    OBVIOUS
  <2>3. CASE q = r
    <3>1. req[r].bundle # None /\ req[r].bundle.device = req[r].call.device
      BY <2>1, <2>2, <2>3
    <3>2. issued'[r] = req[r].bundle
      BY <2>1
    <3>3. CASE IsKeyed(r)
      <4> DEFINE row == [name |-> req[r].call.name, device |-> req[r].call.device,
                         bundle |-> req[r].bundle]
      <4>1. RecordKey(req[r].call) \in Users \X IdempotencyKeys
        BY <2>1, <3>3, ClaimCall
      <4>2. db'.record = [db.record EXCEPT ![RecordKey(req[r].call)] = row]
        BY <2>1, <3>3
      <4>3. db'.record[RecordKey(req[r].call)] = row
        BY <4>1, <4>2 DEF Tables
      <4>4. row \in Record
        BY <2>1, <3>3, ClaimCall DEF Record, Request
      <4>5. row # None /\ row.bundle = req[r].bundle
        BY <4>4
      <4> QED
        BY <2>2, <2>3, <3>1, <3>3, <4>3, <4>5
    <3>4. CASE ~ IsKeyed(r)
      BY <2>2, <2>3, <3>1, <3>2, <3>4
    <3> QED
      BY <3>3, <3>4
  <2>4. CASE q # r
    <3>1. req'[q] = req[q] /\ issued'[q] = issued[q]
      BY <2>1, <2>2, <2>4
    <3>2. CASE req[q].call.idKey # None
      <4>1. db.record[RecordKey(req[q].call)] # None
            /\ req[q].bundle = db.record[RecordKey(req[q].call)].bundle
        BY <3>1, <3>2
      <4>2. db'.record[RecordKey(req[q].call)] = db.record[RecordKey(req[q].call)]
        <5>1. CASE IsKeyed(r)
          <6> HIDE DEF IsKeyed, TypeOK, ClaimWork, RecordWork, AnswersTrue
          <6>1. RecordKey(req[q].call) # RecordKey(req[r].call)
            BY <2>9, <4>1, <5>1
          <6>2. db.record = [y \in Users \X IdempotencyKeys |-> db.record[y]]
            BY DEF TypeOK, Tables
          <6>3. db'.record = [db.record EXCEPT ![RecordKey(req[r].call)] =
                     [name |-> req[r].call.name, device |-> req[r].call.device,
                      bundle |-> req[r].bundle]]
            BY <2>9, <5>1
          <6>4. RecordKey(req[q].call) \in Users \X IdempotencyKeys
            <7>1. req[q].pc # "idle" /\ IsClaim(q) /\ IsKeyed(q)
              BY <3>1, <3>2 DEF IsKeyed
            <7> QED
              BY <7>1, ClaimCall
          <6> QED
            BY <6>1, <6>2, <6>3, <6>4
        <5>2. CASE ~ IsKeyed(r)
          BY <2>9, <5>2
        <5> QED
          BY <5>1, <5>2
      <4> QED
        BY <3>1, <3>2, <4>1, <4>2
    <3>3. CASE req[q].call.idKey = None
      BY <3>1, <3>3
    <3> QED
      BY <3>2, <3>3
  <2> QED
    BY <2>3, <2>4
<1>16. ASSUME NEW r \in Requests, Fault(r)
       PROVE  AnswersTrue'
  BY <1>16, GotoMoves, AnswerMoves DEF Fault, Rollback
<1>17. CASE Crash
  <2>1. CrashDoes
    BY <1>17, CrashEffect
  <2> QED
    BY <2>1 DEF CrashDoes
<1>18. ASSUME NEW d \in Devices, RegisterDevice(d)
       PROVE  AnswersTrue'
  BY <1>18 DEF RegisterDevice, LockFree
<1>19. ASSUME NEW d \in Devices, RevokeDevice(d)
       PROVE  AnswersTrue'
  BY <1>19 DEF RevokeDevice, LockFree
<1>20. ASSUME NEW u \in Users, NEW v \in Users, Befriend(u, v)
       PROVE  AnswersTrue'
  BY <1>20 DEF Befriend, LockFree
<1>21. ASSUME NEW u \in Users, NEW v \in Users, Unfriend(u, v)
       PROVE  AnswersTrue'
  BY <1>21 DEF Unfriend, LockFree
<1>22. CASE OtherCommit
  BY <1>22 DEF OtherCommit, LockFree
<1> QED
  BY <1>1, <1>2, <1>3, <1>4, <1>5, <1>6, <1>7, <1>8, <1>9, <1>10, <1>11, <1>12,
     <1>13, <1>14, <1>15, <1>16, <1>17, <1>18, <1>19, <1>20, <1>21, <1>22
     DEF Next, UploadPrekeys, ClaimPrekeys

LEMMA FriendsStay ==
    ASSUME NEW q \in Requests, friends' = friends, req'[q].call = req[q].call
    PROVE  Befriended(q)' <=> Befriended(q)
  BY DEF Befriended, Friends

\* Whoever becomes a friend is a stranger no more.
LEMMA FriendsNext ==
    ASSUME IInv, Next
    PROVE  FriendsAreNone'
<1>0. TypeOK /\ Shape /\ LockHeld /\ FriendsAreNone
  BY DEF IInv
<1> USE <1>0, PrekeysAssumption, NoneAssumption
<1> USE DEF Locals, Store, Others, PC, Reply, FriendsAreNone, TypeOK
<1>1. ASSUME NEW r \in Requests, NEW ask \in Calls, Begin(r, ask)
      PROVE  FriendsAreNone'
  <2>1. BeginDoes(r, ask)
    BY <1>1, BeginEffect
  <2>2. ASSUME NEW q \in Requests \ {r}, req'[q].pc = "idle" \/ Befriended(q)'
        PROVE  q \notin strangers'
    <3>1. req'[q] = req[q] /\ friends' = friends /\ strangers' \subseteq strangers \cup {r}
      BY <2>1 DEF BeginDoes
    <3> QED
      BY <2>2, <3>1, FriendsStay
  <2>3. ASSUME Befriended(r)'
        PROVE  r \notin strangers'
    <3>1. Friends(ask.uid, Owner[ask.device])
      BY <2>1, <2>3 DEF BeginDoes, Befriended, Friends
    <3>2. strangers' = strangers
      BY <2>1, <3>1 DEF BeginDoes
    <3>3. req[r].pc = "idle"
      BY <2>1 DEF BeginDoes
    <3> QED
      BY <3>2, <3>3
  <2>4. req'[r].pc # "idle"
    BY <2>1 DEF BeginDoes
  <2> QED
    BY <2>2, <2>3, <2>4
<1>2. ASSUME NEW r \in Requests, CheckOwned(r)
      PROVE  FriendsAreNone'
  BY <1>2, GotoMoves, AnswerMoves, FriendsStay DEF CheckOwned
<1>3. ASSUME NEW r \in Requests, Count(r)
      PROVE  FriendsAreNone'
  BY <1>3, GotoMoves, AnswerMoves, FriendsStay DEF Count
<1>4. ASSUME NEW r \in Requests, Write(r)
      PROVE  FriendsAreNone'
  BY <1>4, GotoMoves, AnswerMoves, FriendsStay DEF Write, TakeLock, LockFree, MayWrite
<1>5. ASSUME NEW r \in Requests, WriteRefused(r)
      PROVE  FriendsAreNone'
  BY <1>5, GotoMoves, AnswerMoves, FriendsStay DEF WriteRefused, Rollback
<1>6. ASSUME NEW r \in Requests, CheckOwner(r)
      PROVE  FriendsAreNone'
  BY <1>6, GotoMoves, AnswerMoves, FriendsStay DEF CheckOwner, AfterChecks
<1>7. ASSUME NEW r \in Requests, CheckFriend(r)
      PROVE  FriendsAreNone'
  BY <1>7, GotoMoves, AnswerMoves, FriendsStay DEF CheckFriend, AfterChecks
<1>8. ASSUME NEW r \in Requests, Lookup(r)
      PROVE  FriendsAreNone'
  <2>1. LookupDoes(r)
    BY <1>8, LookupEffect
  <2> QED
    BY <2>1, FriendsStay DEF LookupDoes
<1>9. ASSUME NEW r \in Requests, Insert(r)
      PROVE  FriendsAreNone'
  BY <1>9, GotoMoves, AnswerMoves, FriendsStay DEF Insert, TakeLock, MayWrite
<1>10. ASSUME NEW r \in Requests, InsertRefused(r)
       PROVE  FriendsAreNone'
  BY <1>10, GotoMoves, AnswerMoves, FriendsStay DEF InsertRefused, Rollback
<1>11. ASSUME NEW r \in Requests, Consume(r)
       PROVE  FriendsAreNone'
  <2>1. ConsumeDoes(r)
    BY <1>11, ConsumeEffect
  <2> QED
    BY <2>1, FriendsStay DEF ConsumeDoes
<1>12. ASSUME NEW r \in Requests, Identity(r)
       PROVE  FriendsAreNone'
  BY <1>12, GotoMoves, AnswerMoves, FriendsStay DEF Identity, Rollback
<1>13. ASSUME NEW r \in Requests, Signed(r)
       PROVE  FriendsAreNone'
  <2>1. SignedDoes(r)
    BY <1>13, SignedEffect
  <2> QED
    BY <2>1, FriendsStay DEF SignedDoes
<1>14. ASSUME NEW r \in Requests, StoreAnswer(r)
       PROVE  FriendsAreNone'
  BY <1>14, GotoMoves, AnswerMoves, FriendsStay DEF StoreAnswer
<1>15. ASSUME NEW r \in Requests, Commit(r)
       PROVE  FriendsAreNone'
  BY <1>15, GotoMoves, AnswerMoves, FriendsStay DEF Commit, Publish
<1>16. ASSUME NEW r \in Requests, Fault(r)
       PROVE  FriendsAreNone'
  BY <1>16, GotoMoves, AnswerMoves, FriendsStay DEF Fault, Rollback
<1>17. CASE Crash
  <2>1. CrashDoes
    BY <1>17, CrashEffect
  <2> QED
    BY <2>1, FriendsStay DEF CrashDoes
<1>18. ASSUME NEW d \in Devices, RegisterDevice(d)
       PROVE  FriendsAreNone'
  BY <1>18, FriendsStay DEF RegisterDevice, LockFree
<1>19. ASSUME NEW d \in Devices, RevokeDevice(d)
       PROVE  FriendsAreNone'
  BY <1>19, FriendsStay DEF RevokeDevice, LockFree
<1>20. ASSUME NEW u \in Users, NEW v \in Users, Befriend(u, v)
       PROVE  FriendsAreNone'
  <2>1. /\ req' = req /\ friends' = friends \cup {{u, v}}
        /\ strangers' = {r \in strangers :
                           {req[r].call.uid, Owner[req[r].call.device]} # {u, v}}
    BY <1>20 DEF Befriend
  <2> SUFFICES ASSUME NEW q \in Requests, req[q].pc = "idle" \/ Befriended(q)', q \in strangers'
        PROVE  FALSE
    BY <2>1
  <2>2. CASE req[q].pc = "idle"
    BY <2>1, <2>2
  <2>3. CASE Befriended(q)'
    <3>1. Befriended(q)
      BY <2>1, <2>3 DEF Befriended, Friends
    <3> QED
      BY <2>1, <3>1
  <2> QED
    BY <2>2, <2>3
<1>21. ASSUME NEW u \in Users, NEW v \in Users, Unfriend(u, v)
       PROVE  FriendsAreNone'
  <2>1. req' = req /\ friends' \subseteq friends /\ strangers' = strangers
    BY <1>21 DEF Unfriend
  <2>2. \A q \in Requests : Befriended(q)' => Befriended(q)
    BY <2>1 DEF Befriended, Friends
  <2> QED
    BY <2>1, <2>2
<1>22. CASE OtherCommit
  BY <1>22, FriendsStay DEF OtherCommit, LockFree
<1> QED
  BY <1>1, <1>2, <1>3, <1>4, <1>5, <1>6, <1>7, <1>8, <1>9, <1>10, <1>11, <1>12,
     <1>13, <1>14, <1>15, <1>16, <1>17, <1>18, <1>19, <1>20, <1>21, <1>22
     DEF Next, UploadPrekeys, ClaimPrekeys

\* A stranger does not pass the checks.
LEMMA PassedNext ==
    ASSUME IInv, Next
    PROVE  PassedAreNone'
<1>0. TypeOK /\ Shape /\ LockHeld /\ FriendsAreNone /\ PassedAreNone
  BY DEF IInv
<1> USE <1>0, PrekeysAssumption, NoneAssumption
<1> USE DEF Locals, Store, Others, PC, Reply, IsClaim, IsUpload, IsKeyed, TypeOK, Shape, LockHeld, PassedAreNone
<1>1. ASSUME NEW r \in Requests, NEW ask \in Calls, Begin(r, ask)
      PROVE  PassedAreNone'
  <2>1. BeginDoes(r, ask)
    BY <1>1, BeginEffect
  <2> QED
    BY <2>1 DEF BeginDoes
<1>2. ASSUME NEW r \in Requests, CheckOwned(r)
      PROVE  PassedAreNone'
  BY <1>2, GotoMoves, AnswerMoves DEF CheckOwned
<1>3. ASSUME NEW r \in Requests, Count(r)
      PROVE  PassedAreNone'
  BY <1>3, GotoMoves, AnswerMoves DEF Count
<1>4. ASSUME NEW r \in Requests, Write(r)
      PROVE  PassedAreNone'
  BY <1>4, GotoMoves, AnswerMoves DEF Write, TakeLock, LockFree, MayWrite
<1>5. ASSUME NEW r \in Requests, WriteRefused(r)
      PROVE  PassedAreNone'
  BY <1>5, GotoMoves, AnswerMoves DEF WriteRefused, Rollback
<1>6. ASSUME NEW r \in Requests, CheckOwner(r)
      PROVE  PassedAreNone'
  <2> DEFINE ok == db.status[req[r].call.device] # "ABSENT" /\ req[r].call.uid = Owner[req[r].call.device]
  <2>1. req[r].pc = "owner" /\ strangers' = strangers
    BY <1>6 DEF CheckOwner
  <2>2. CASE ok
    <3>1. r \notin strangers
      BY <2>1, <2>2 DEF FriendsAreNone, Befriended, Friends
    <3>2. Others(r) /\ req'[r].reply = req[r].reply
      BY <1>6, <2>1, <2>2, GotoMoves, AnswerMoves DEF CheckOwner, AfterChecks
    <3> QED
      BY <2>1, <3>1, <3>2
  <2>3. CASE ~ ok
    BY <1>6, <2>1, <2>3, GotoMoves, AnswerMoves DEF CheckOwner
  <2> QED
    BY <2>2, <2>3
<1>7. ASSUME NEW r \in Requests, CheckFriend(r)
      PROVE  PassedAreNone'
  <2> DEFINE ok == Friends(req[r].call.uid, Owner[req[r].call.device])
  <2>1. req[r].pc = "friend" /\ strangers' = strangers
    BY <1>7 DEF CheckFriend
  <2>2. CASE ok
    <3>1. r \notin strangers
      BY <2>1, <2>2 DEF FriendsAreNone, Befriended, Friends
    <3>2. Others(r) /\ req'[r].reply = req[r].reply
      BY <1>7, <2>1, <2>2, GotoMoves, AnswerMoves DEF CheckFriend, AfterChecks
    <3> QED
      BY <2>1, <3>1, <3>2
  <2>3. CASE ~ ok
    BY <1>7, <2>1, <2>3, GotoMoves, AnswerMoves DEF CheckFriend
  <2> QED
    BY <2>2, <2>3
<1>8. ASSUME NEW r \in Requests, Lookup(r)
      PROVE  PassedAreNone'
  <2>1. LookupDoes(r)
    BY <1>8, LookupEffect
  <2> QED
    BY <2>1 DEF LookupDoes
<1>9. ASSUME NEW r \in Requests, Insert(r)
      PROVE  PassedAreNone'
  BY <1>9, GotoMoves, AnswerMoves DEF Insert, TakeLock, MayWrite
<1>10. ASSUME NEW r \in Requests, InsertRefused(r)
       PROVE  PassedAreNone'
  BY <1>10, GotoMoves, AnswerMoves DEF InsertRefused, Rollback
<1>11. ASSUME NEW r \in Requests, Consume(r)
       PROVE  PassedAreNone'
  <2>1. ConsumeDoes(r)
    BY <1>11, ConsumeEffect
  <2> QED
    BY <2>1 DEF ConsumeDoes
<1>12. ASSUME NEW r \in Requests, Identity(r)
       PROVE  PassedAreNone'
  BY <1>12, GotoMoves, AnswerMoves DEF Identity, Rollback
<1>13. ASSUME NEW r \in Requests, Signed(r)
       PROVE  PassedAreNone'
  <2>1. SignedDoes(r)
    BY <1>13, SignedEffect
  <2> QED
    BY <2>1 DEF SignedDoes
<1>14. ASSUME NEW r \in Requests, StoreAnswer(r)
       PROVE  PassedAreNone'
  BY <1>14, GotoMoves, AnswerMoves DEF StoreAnswer
<1>15. ASSUME NEW r \in Requests, Commit(r)
       PROVE  PassedAreNone'
  BY <1>15, GotoMoves, AnswerMoves DEF Commit, Publish
<1>16. ASSUME NEW r \in Requests, Fault(r)
       PROVE  PassedAreNone'
  BY <1>16, GotoMoves, AnswerMoves DEF Fault, Rollback
<1>17. CASE Crash
  <2>1. CrashDoes
    BY <1>17, CrashEffect
  <2> QED
    BY <2>1 DEF CrashDoes
<1>18. ASSUME NEW d \in Devices, RegisterDevice(d)
       PROVE  PassedAreNone'
  BY <1>18 DEF RegisterDevice, LockFree
<1>19. ASSUME NEW d \in Devices, RevokeDevice(d)
       PROVE  PassedAreNone'
  BY <1>19 DEF RevokeDevice, LockFree
<1>20. ASSUME NEW u \in Users, NEW v \in Users, Befriend(u, v)
       PROVE  PassedAreNone'
  BY <1>20 DEF Befriend, LockFree
<1>21. ASSUME NEW u \in Users, NEW v \in Users, Unfriend(u, v)
       PROVE  PassedAreNone'
  BY <1>21 DEF Unfriend, LockFree
<1>22. CASE OtherCommit
  BY <1>22 DEF OtherCommit, LockFree
<1> QED
  BY <1>1, <1>2, <1>3, <1>4, <1>5, <1>6, <1>7, <1>8, <1>9, <1>10, <1>11, <1>12,
     <1>13, <1>14, <1>15, <1>16, <1>17, <1>18, <1>19, <1>20, <1>21, <1>22
     DEF Next, UploadPrekeys, ClaimPrekeys

\* What an upload that was within the limit comes to.
LEMMA UploadFits ==
    ASSUME TypeOK, NEW r \in Requests, IsUpload(r), req[r].pc # "idle",
           WithinLimit(db, req[r].call), NEW kind \in Kinds,
           OfKind(req[r].call.keys, kind) # {}
    PROVE  Cardinality(Rows(db, req[r].call.device, kind) \cup OfKind(req[r].call.keys, kind))
               <= MaxPrekeys
<1> DEFINE S == Rows(db, req[r].call.device, kind)
           T == OfKind(req[r].call.keys, kind)
<1>1. S \subseteq Key /\ T \subseteq Key
  BY UploadCall DEF TypeOK, Tables, Rows, OfKind
<1>2. IsFiniteSet(S) /\ IsFiniteSet(T) /\ IsFiniteSet(S \cap T)
  BY <1>1, FiniteKeys, FS_Subset
<1>3. Cardinality(S) + Cardinality(T) <= MaxPrekeys
  BY DEF WithinLimit
<1>4. Cardinality(S) \in Nat /\ Cardinality(T) \in Nat /\ Cardinality(S \cap T) \in Nat
  BY <1>2, FS_CardinalityType
<1> HIDE DEF S, T
<1>5. Cardinality(S \cup T) = Cardinality(S) + Cardinality(T) - Cardinality(S \cap T)
  BY <1>2, FS_Union
<1>6. Cardinality(S \cup T) <= MaxPrekeys
  BY <1>3, <1>4, <1>5, PrekeysAssumption
<1> QED
  BY <1>6 DEF S, T

\* What a commit does.
CommitDoes(r) ==
    /\ req[r].pc = "commit" /\ writer = r /\ writer' = None
    /\ req[r].reply = "none" /\ issued[r] = None
    /\ issued' = [issued EXCEPT ![r] = req[r].bundle]
    /\ db' = work
    /\ \/ /\ IsUpload(r) /\ req[r].bundle = None
          /\ db' = StoredWith(db, req[r].call, r) /\ WithinLimit(db, req[r].call)
       \/ /\ IsClaim(r) /\ req[r].bundle \in Bundle /\ req[r].bundle # None
          /\ req[r].bundle.device = req[r].call.device
          /\ req[r].bundle.keys = Taken(req[r].call.device)
          /\ req[r].bundle.signed = db.signed[req[r].call.device]
          /\ db.status[req[r].call.device] = "ACTIVE"
          /\ db'.consumed = db.consumed \cup req[r].bundle.keys
          /\ db'.stored = db.stored /\ db'.signed = db.signed /\ db'.status = db.status

LEMMA CommitEffect ==
    ASSUME IInv, NEW r \in Requests, Commit(r)
    PROVE  CommitDoes(r)
<1>1. TypeOK /\ Shape /\ LockHeld /\ UploadWork /\ ClaimWork
  BY DEF IInv
<1>2. /\ req[r].pc = "commit" /\ writer = r /\ db' = work /\ writer' = None
      /\ issued' = [issued EXCEPT ![r] = req[r].bundle]
      /\ req[r].reply = "none" /\ issued[r] = None
  BY <1>1 DEF Commit, Publish, LockHeld, Shape
<1>3. CASE IsUpload(r)
  BY <1>1, <1>2, <1>3 DEF CommitDoes, UploadWork, Shape
<1>4. CASE IsClaim(r)
  <2>1. ClaimWorkOf(r)
    BY <1>1, <1>2, <1>4 DEF ClaimWork
  <2>2. req[r].bundle \in Bundle \cup {None}
    BY <1>1 DEF TypeOK, Request
  <2> QED
    BY <1>2, <1>4, <2>1, <2>2 DEF CommitDoes, ClaimWorkOf
<1> QED
  BY <1>1, <1>2, <1>3, <1>4, CallKind

\* What a claim takes was not taken before.
LEMMA TakenAreFree ==
    ASSUME TypeOK, NEW d \in Devices
    PROVE  /\ Taken(d) \in SUBSET Key
           /\ Taken(d) \subseteq db.stored \ db.consumed
<1>1. db \in Tables
  BY DEF TypeOK
<1> DEFINE keys == UNION {Oldest(db, d, kind) : kind \in Kinds}
<1>2. keys \in SUBSET Key /\ keys \subseteq db.stored \ db.consumed
  BY <1>1, OldestOne
<1> HIDE DEF keys
<1>3. Taken(d) = keys
  BY DEF Taken, keys
<1> QED
  BY <1>2, <1>3

\* A claim takes what nobody has, and what it takes is its own when it commits.
LEMMA KeysNext ==
    ASSUME IInv, Next
    PROVE  KeysAccounted'
<1>0. TypeOK /\ KeysAccounted
  BY DEF IInv
<1> USE <1>0, PrekeysAssumption, NoneAssumption
<1> USE DEF Locals, Store, KeysAccounted
<1>1. ASSUME NEW r \in Requests, NEW ask \in Calls, Begin(r, ask)
      PROVE  KeysAccounted'
  BY <1>1 DEF Begin
<1>2. ASSUME NEW r \in Requests, CheckOwned(r)
      PROVE  KeysAccounted'
  BY <1>2 DEF CheckOwned
<1>3. ASSUME NEW r \in Requests, Count(r)
      PROVE  KeysAccounted'
  BY <1>3 DEF Count
<1>4. ASSUME NEW r \in Requests, Write(r)
      PROVE  KeysAccounted'
  BY <1>4 DEF Write, TakeLock, LockFree, MayWrite
<1>5. ASSUME NEW r \in Requests, WriteRefused(r)
      PROVE  KeysAccounted'
  BY <1>5 DEF WriteRefused, Rollback
<1>6. ASSUME NEW r \in Requests, CheckOwner(r)
      PROVE  KeysAccounted'
  BY <1>6 DEF CheckOwner
<1>7. ASSUME NEW r \in Requests, CheckFriend(r)
      PROVE  KeysAccounted'
  BY <1>7 DEF CheckFriend
<1>8. ASSUME NEW r \in Requests, Lookup(r)
      PROVE  KeysAccounted'
  BY <1>8 DEF Lookup
<1>9. ASSUME NEW r \in Requests, Insert(r)
      PROVE  KeysAccounted'
  BY <1>9 DEF Insert, TakeLock, MayWrite
<1>10. ASSUME NEW r \in Requests, InsertRefused(r)
       PROVE  KeysAccounted'
  BY <1>10 DEF InsertRefused, Rollback
<1>11. ASSUME NEW r \in Requests, Consume(r)
       PROVE  KeysAccounted'
  BY <1>11 DEF Consume, TakeLock
<1>12. ASSUME NEW r \in Requests, Identity(r)
       PROVE  KeysAccounted'
  BY <1>12 DEF Identity, Rollback
<1>13. ASSUME NEW r \in Requests, Signed(r)
       PROVE  KeysAccounted'
  BY <1>13 DEF Signed
<1>14. ASSUME NEW r \in Requests, StoreAnswer(r)
       PROVE  KeysAccounted'
  BY <1>14 DEF StoreAnswer
<1>15. ASSUME NEW r \in Requests, Commit(r)
       PROVE  KeysAccounted'
  <2>1. CommitDoes(r)
    BY <1>15, CommitEffect
  <2>2. CASE IsUpload(r)
    <3>1. issued' = issued
      BY <2>1, <2>2 DEF CommitDoes, IsUpload, IsClaim, TypeOK
    <3>2. db'.consumed = db.consumed
      BY <2>1, <2>2 DEF CommitDoes, IsUpload, IsClaim, StoredWith, TypeOK, Tables
    <3> QED
      BY <3>1, <3>2
  <2>3. CASE IsClaim(r)
    <3> DEFINE keys == req[r].bundle.keys
    <3>1. keys = Taken(req[r].call.device) /\ db'.consumed = db.consumed \cup keys
          /\ req[r].bundle # None /\ issued' = [issued EXCEPT ![r] = req[r].bundle]
          /\ issued[r] = None
      BY <2>1, <2>3 DEF CommitDoes, IsUpload, IsClaim
    <3>2. keys \subseteq Key /\ keys \cap db.consumed = {}
      <4>1. req[r].call.device \in Devices
        BY <2>1, <2>3, ClaimCall DEF CommitDoes
      <4>2. Taken(req[r].call.device) \in SUBSET Key
            /\ Taken(req[r].call.device) \subseteq db.stored \ db.consumed
        BY <4>1, TakenAreFree
      <4> QED
        BY <3>1, <4>2
    <3> HIDE DEF keys
    <3>3. /\ issued'[r] # None /\ issued'[r].keys = keys
          /\ \A q \in Requests \ {r} : issued'[q] = issued[q]
      BY <3>1 DEF keys, TypeOK
    <3>4. \A q \in Requests : issued[q] # None => issued[q].keys \subseteq db.consumed
      BY DEF TypeOK, Bundle
    <3>5. db'.consumed = {k \in Key : \E q \in Requests :
                                         issued'[q] # None /\ k \in issued'[q].keys}
      BY <3>1, <3>2, <3>3, <3>4
    <3>6. ASSUME NEW p \in Requests, NEW q \in Requests,
                 p # q, issued'[p] # None, issued'[q] # None
          PROVE  issued'[p].keys \cap issued'[q].keys = {}
      BY <3>2, <3>3, <3>4, <3>6
    <3> QED
      BY <3>5, <3>6
  <2> QED
    BY <2>2, <2>3, <2>1 DEF CommitDoes
<1>16. ASSUME NEW r \in Requests, Fault(r)
       PROVE  KeysAccounted'
  BY <1>16 DEF Fault, Rollback
<1>17. CASE Crash
  <2>1. CrashDoes
    BY <1>17, CrashEffect
  <2> QED
    BY <2>1 DEF CrashDoes
<1>18. ASSUME NEW d \in Devices, RegisterDevice(d)
       PROVE  KeysAccounted'
  <2>1. db'.consumed = db.consumed /\ db'.stored = db.stored
    BY <1>18 DEF RegisterDevice, TypeOK, Tables
  <2> QED
    BY <1>18, <2>1 DEF RegisterDevice
<1>19. ASSUME NEW d \in Devices, RevokeDevice(d)
       PROVE  KeysAccounted'
  <2>1. db'.consumed = db.consumed /\ db'.stored = db.stored
    BY <1>19 DEF RevokeDevice, TypeOK, Tables
  <2> QED
    BY <1>19, <2>1 DEF RevokeDevice
<1>20. ASSUME NEW u \in Users, NEW v \in Users, Befriend(u, v)
       PROVE  KeysAccounted'
  BY <1>20 DEF Befriend, LockFree
<1>21. ASSUME NEW u \in Users, NEW v \in Users, Unfriend(u, v)
       PROVE  KeysAccounted'
  BY <1>21 DEF Unfriend, LockFree
<1>22. CASE OtherCommit
  BY <1>22 DEF OtherCommit, LockFree
<1> QED
  BY <1>1, <1>2, <1>3, <1>4, <1>5, <1>6, <1>7, <1>8, <1>9, <1>10, <1>11, <1>12,
     <1>13, <1>14, <1>15, <1>16, <1>17, <1>18, <1>19, <1>20, <1>21, <1>22
     DEF Next, UploadPrekeys, ClaimPrekeys

\* An upload that commits was counted on the tables it is added to.
LEMMA LimitNext ==
    ASSUME IInv, Next
    PROVE  LimitHolds'
<1>0. TypeOK /\ LimitHolds
  BY DEF IInv
<1> USE <1>0, PrekeysAssumption, NoneAssumption
<1> USE DEF Locals, Store, LimitHolds, Rows
<1>1. ASSUME NEW r \in Requests, NEW ask \in Calls, Begin(r, ask)
      PROVE  LimitHolds'
  BY <1>1 DEF Begin
<1>2. ASSUME NEW r \in Requests, CheckOwned(r)
      PROVE  LimitHolds'
  BY <1>2 DEF CheckOwned
<1>3. ASSUME NEW r \in Requests, Count(r)
      PROVE  LimitHolds'
  BY <1>3 DEF Count
<1>4. ASSUME NEW r \in Requests, Write(r)
      PROVE  LimitHolds'
  BY <1>4 DEF Write, TakeLock, LockFree, MayWrite
<1>5. ASSUME NEW r \in Requests, WriteRefused(r)
      PROVE  LimitHolds'
  BY <1>5 DEF WriteRefused, Rollback
<1>6. ASSUME NEW r \in Requests, CheckOwner(r)
      PROVE  LimitHolds'
  BY <1>6 DEF CheckOwner
<1>7. ASSUME NEW r \in Requests, CheckFriend(r)
      PROVE  LimitHolds'
  BY <1>7 DEF CheckFriend
<1>8. ASSUME NEW r \in Requests, Lookup(r)
      PROVE  LimitHolds'
  BY <1>8 DEF Lookup
<1>9. ASSUME NEW r \in Requests, Insert(r)
      PROVE  LimitHolds'
  BY <1>9 DEF Insert, TakeLock, MayWrite
<1>10. ASSUME NEW r \in Requests, InsertRefused(r)
       PROVE  LimitHolds'
  BY <1>10 DEF InsertRefused, Rollback
<1>11. ASSUME NEW r \in Requests, Consume(r)
       PROVE  LimitHolds'
  BY <1>11 DEF Consume, TakeLock
<1>12. ASSUME NEW r \in Requests, Identity(r)
       PROVE  LimitHolds'
  BY <1>12 DEF Identity, Rollback
<1>13. ASSUME NEW r \in Requests, Signed(r)
       PROVE  LimitHolds'
  BY <1>13 DEF Signed
<1>14. ASSUME NEW r \in Requests, StoreAnswer(r)
       PROVE  LimitHolds'
  BY <1>14 DEF StoreAnswer
<1>15. ASSUME NEW r \in Requests, Commit(r)
       PROVE  LimitHolds'
  <2>1. CommitDoes(r)
    BY <1>15, CommitEffect
  <2>2. CASE IsClaim(r)
    BY <2>1, <2>2 DEF CommitDoes, IsClaim, IsUpload
  <2>3. CASE IsUpload(r)
    <3> SUFFICES ASSUME NEW d \in Devices, NEW kind \in Kinds
          PROVE  Cardinality(Rows(db', d, kind)) <= MaxPrekeys
      BY DEF Rows
    <3> HIDE DEF Rows
    <3>1. db' = StoredWith(db, req[r].call, r) /\ WithinLimit(db, req[r].call)
          /\ req[r].pc = "commit"
      BY <2>1, <2>3 DEF CommitDoes, IsClaim, IsUpload
    <3>2. db'.stored = db.stored \cup req[r].call.keys
      BY <3>1 DEF StoredWith, TypeOK, Tables
    <3>3. \A k \in req[r].call.keys : k.device = req[r].call.device
      BY <2>3, <3>1, UploadCall
    <3>4. CASE d = req[r].call.device
      <4>1. Rows(db', d, kind) = Rows(db, d, kind) \cup OfKind(req[r].call.keys, kind)
        BY <3>2, <3>3, <3>4 DEF Rows, OfKind
      <4>2. CASE OfKind(req[r].call.keys, kind) = {}
        BY <4>1, <4>2
      <4>3. CASE OfKind(req[r].call.keys, kind) # {}
        BY <2>3, <3>1, <3>4, <4>1, <4>3, UploadFits
      <4> QED
        BY <4>2, <4>3
    <3>5. CASE d # req[r].call.device
      <4>1. Rows(db', d, kind) = Rows(db, d, kind)
        BY <3>2, <3>3, <3>5 DEF Rows
      <4> QED
        BY <4>1
    <3> QED
      BY <3>4, <3>5
  <2> QED
    BY <2>1, <2>2, <2>3 DEF CommitDoes
<1>16. ASSUME NEW r \in Requests, Fault(r)
       PROVE  LimitHolds'
  BY <1>16 DEF Fault, Rollback
<1>17. CASE Crash
  <2>1. CrashDoes
    BY <1>17, CrashEffect
  <2> QED
    BY <2>1 DEF CrashDoes
<1>18. ASSUME NEW d \in Devices, RegisterDevice(d)
       PROVE  LimitHolds'
  <2>1. db'.consumed = db.consumed /\ db'.stored = db.stored
    BY <1>18 DEF RegisterDevice, TypeOK, Tables
  <2> QED
    BY <1>18, <2>1 DEF RegisterDevice
<1>19. ASSUME NEW d \in Devices, RevokeDevice(d)
       PROVE  LimitHolds'
  <2>1. db'.consumed = db.consumed /\ db'.stored = db.stored
    BY <1>19 DEF RevokeDevice, TypeOK, Tables
  <2> QED
    BY <1>19, <2>1 DEF RevokeDevice
<1>20. ASSUME NEW u \in Users, NEW v \in Users, Befriend(u, v)
       PROVE  LimitHolds'
  BY <1>20 DEF Befriend, LockFree
<1>21. ASSUME NEW u \in Users, NEW v \in Users, Unfriend(u, v)
       PROVE  LimitHolds'
  BY <1>21 DEF Unfriend, LockFree
<1>22. CASE OtherCommit
  BY <1>22 DEF OtherCommit, LockFree
<1> QED
  BY <1>1, <1>2, <1>3, <1>4, <1>5, <1>6, <1>7, <1>8, <1>9, <1>10, <1>11, <1>12,
     <1>13, <1>14, <1>15, <1>16, <1>17, <1>18, <1>19, <1>20, <1>21, <1>22
     DEF Next, UploadPrekeys, ClaimPrekeys

-----------------------------------------------------------------------------
(* The invariant.                                                          *)

LEMMA InvInit == Init => IInv
<1> SUFFICES ASSUME Init PROVE IInv
  OBVIOUS
<1> USE PrekeysAssumption, NoneAssumption
<1>1. TypeOK
  <2>1. ReqTyped
    <3>1. [pc |-> "idle", reply |-> "none", call |-> None, bundle |-> None] \in Request
      BY DEF Request, PC, Reply
    <3> QED
      BY <3>1 DEF Init, ReqTyped
  <2>2. TablesTyped
    BY EmptyTyped DEF Init, TablesTyped
  <2>3. RestTyped
    BY DEF Init, RestTyped
  <2> QED
    BY <2>1, <2>2, <2>3 DEF TypeOK, ReqTyped, TablesTyped, RestTyped
<1>2. \A r \in Requests : /\ req[r].pc = "idle" /\ req[r].reply = "none"
                          /\ req[r].bundle = None /\ issued[r] = None /\ writer # r
  BY DEF Init
<1>3. Shape /\ LockHeld
  BY <1>2 DEF Shape, LockHeld
<1>4. SnapshotsTell /\ UploadWork /\ ClaimWork /\ RecordWork
  BY <1>2 DEF SnapshotsTell, UploadWork, ClaimWork, RecordWork
<1>5. RecordsTrue
  BY DEF Init, Empty, RecordsTrue
<1>6. AnswersTrue /\ Issued
  BY <1>2 DEF AnswersTrue, Issued
<1>7. FriendsAreNone /\ PassedAreNone
  BY <1>2 DEF Init, FriendsAreNone, PassedAreNone
<1>8. KeysAccounted
  BY <1>2 DEF Init, Empty, KeysAccounted
<1>9. LimitHolds
  <2> SUFFICES ASSUME NEW d \in Devices, NEW kind \in Kinds
               PROVE  Cardinality(Rows(db, d, kind)) <= MaxPrekeys
    BY DEF LimitHolds
  <2>1. Rows(db, d, kind) = {}
    BY DEF Init, Empty, Rows
  <2> QED
    BY <2>1, FS_EmptySet
<1> QED
  BY <1>1, <1>3, <1>4, <1>5, <1>6, <1>7, <1>8, <1>9 DEF IInv

LEMMA InvNext == IInv /\ [Next]_vars => IInv'
<1> SUFFICES ASSUME IInv, [Next]_vars PROVE IInv'
  OBVIOUS
<1>1. CASE Next
  <2>1. TypeOK'
    <3>1. ReqTyped' /\ TablesTyped' /\ RestTyped'
      BY <1>1, ReqNext, TablesNext, RestNext
    <3> QED
      BY <3>1 DEF TypeOK, ReqTyped, TablesTyped, RestTyped
  <2>2. Shape' /\ LockHeld' /\ SnapshotsTell' /\ UploadWork' /\ ClaimWork' /\ RecordWork'
    BY <1>1, ShapeNext, LockNext, SnapshotsNext, UploadNext, ClaimNext, RecordNext
  <2>3. RecordsTrue' /\ AnswersTrue' /\ Issued' /\ FriendsAreNone' /\ PassedAreNone'
    BY <1>1, RecordsNext, AnswersNext, IssuedNext, FriendsNext, PassedNext
  <2>4. KeysAccounted' /\ LimitHolds'
    BY <1>1, KeysNext, LimitNext
  <2> QED
    BY <2>1, <2>2, <2>3, <2>4 DEF IInv
<1>2. CASE UNCHANGED vars
  <2>1. TypeOK'
    BY <1>2 DEF IInv, vars, TypeOK
  <2>2. Shape' /\ LockHeld' /\ Issued'
    BY <1>2 DEF IInv, vars, Shape, LockHeld, Issued, IsUpload, IsClaim, IsKeyed
  <2>3. SnapshotsTell' /\ UploadWork'
    BY <1>2 DEF IInv, vars, SnapshotsTell, UploadWork, IsUpload, WithinLimit, Rows, StoredWith
  <2>4. ClaimWork'
    BY <1>2 DEF IInv, vars, ClaimWork, ClaimWorkOf, IsClaim, Taken, Oldest, Available, Rows
  <2>5. RecordWork' /\ RecordsTrue' /\ AnswersTrue'
    BY <1>2 DEF IInv, vars, RecordWork, RecordsTrue, AnswersTrue, IsKeyed, IsClaim
  <2>6. FriendsAreNone' /\ PassedAreNone'
    BY <1>2 DEF IInv, vars, FriendsAreNone, PassedAreNone, Befriended, Friends, IsClaim
  <2>7. KeysAccounted' /\ LimitHolds'
    BY <1>2 DEF IInv, vars, KeysAccounted, LimitHolds, Rows
  <2> QED
    BY <2>1, <2>2, <2>3, <2>4, <2>5, <2>6, <2>7 DEF IInv
<1> QED
  BY <1>1, <1>2

LEMMA InvHolds == Spec => []IInv
  BY InvInit, InvNext, PTL DEF Spec

-----------------------------------------------------------------------------
(* What clients see.                                                       *)

\* An answered claim has the bundle it committed, or that of the record.
LEMMA AnswersAgree ==
    ASSUME IInv
    PROVE  RetriesAgree
<1>1. TypeOK /\ Shape /\ AnswersTrue /\ RecordsTrue
  BY DEF IInv
<1> SUFFICES ASSUME NEW r \in Requests, req[r].reply = "ok", IsClaim(r)
    PROVE  /\ req[r].bundle # None
           /\ \/ issued[r] = req[r].bundle
              \/ \E q \in Requests :
                     /\ issued[q] = req[r].bundle
                     /\ IsClaim(q)
                     /\ RecordKey(req[q].call) = RecordKey(req[r].call)
           /\ \A q \in Requests :
                  /\ req[q].reply = "ok" /\ IsClaim(q)
                  /\ RecordKey(req[q].call) = RecordKey(req[r].call)
                  /\ req[r].call.idKey # None
                  => req[q].bundle = req[r].bundle
  BY DEF RetriesAgree, IsClaim
<1>2. req[r].pc # "idle"
  BY <1>1 DEF Shape
<1>3. req[r].bundle # None
  BY <1>1 DEF AnswersTrue
<1>4. CASE ~ IsKeyed(r)
  BY <1>1, <1>3, <1>4 DEF AnswersTrue, IsKeyed
<1>5. CASE IsKeyed(r)
  <2> DEFINE x == RecordKey(req[r].call)
  <2>1. x \in Users \X IdempotencyKeys
    BY <1>1, <1>2, <1>5, ClaimCall
  <2>2. db.record[x] # None /\ req[r].bundle = db.record[x].bundle
    BY <1>1, <1>5 DEF AnswersTrue
  <2>3. \E q \in Requests : IsClaim(q) /\ RecordKey(req[q].call) = x /\ issued[q] = db.record[x].bundle
    BY <1>1, <2>1, <2>2 DEF RecordsTrue
  <2>4. ASSUME NEW q \in Requests, req[q].reply = "ok", IsClaim(q), RecordKey(req[q].call) = x
        PROVE  req[q].bundle = req[r].bundle
    <3>1. req[q].call.idKey = req[r].call.idKey
      BY <2>4 DEF RecordKey
    <3>2. IsKeyed(q)
      BY <1>5, <2>4, <3>1 DEF IsKeyed
    <3>3. req[q].bundle = db.record[RecordKey(req[q].call)].bundle
      BY <1>1, <2>4, <3>2 DEF AnswersTrue
    <3> QED
      BY <2>2, <2>4, <3>3
  <2> QED
    BY <1>3, <2>2, <2>3, <2>4
<1> QED
  BY <1>4, <1>5

\* The prekeys a claim takes are those Dispenser has it take.
LEMMA TakenIsNext ==
    ASSUME TypeOK, NEW d \in Devices
    PROVE  Taken(d) = UNION {Promised!Next1(d, kind) : kind \in Kinds}
<1>1. ASSUME NEW kind \in Kinds
      PROVE  Oldest(db, d, kind) = Promised!Next1(d, kind)
  <2>1. Available(db, d, kind) = Promised!Unused(d, kind)
    BY DEF Available, Rows, Promised!Unused
  <2> QED
    BY <2>1 DEF Oldest, Promised!Next1
<1> QED
  BY <1>1 DEF Taken

\* Dispenser counts as Prekeys does.
LEMMA SameCount ==
    ASSUME NEW S
    PROVE  Promised!Cardinality(S) = Cardinality(S)
  BY DEF Promised!Cardinality, Cardinality

\* The commit of an upload is the upload.
LEMMA UploadIsSupply ==
    ASSUME IInv, NEW r \in Requests, CommitDoes(r), IsUpload(r)
    PROVE  Promised!Promise
<1> DEFINE ask == req[r].call
           d == ask.device
<1>1. TypeOK
  BY DEF IInv
<1>2. /\ db' = StoredWith(db, ask, r) /\ WithinLimit(db, ask)
      /\ issued[r] = None /\ issued' = [issued EXCEPT ![r] = req[r].bundle]
      /\ req[r].bundle = None /\ req[r].pc # "idle"
  BY DEF CommitDoes, IsUpload, IsClaim
<1>3. /\ ask \in Calls /\ d \in Devices /\ ask.keys \in SUBSET Key /\ ask.signed \in SUBSET Kinds
      /\ \A k \in ask.keys : k.device = d
  BY <1>1, <1>2, UploadCall DEF TypeOK
<1>4. db \in Tables /\ issued' = issued
  BY <1>1, <1>2 DEF TypeOK
<1>5. /\ db'.stored = db.stored \cup ask.keys
      /\ db'.signed = [db.signed EXCEPT ![d] =
                          [kind \in Kinds |-> IF kind \in ask.signed THEN r ELSE @[kind]]]
      /\ db'.consumed = db.consumed /\ db'.status = db.status
  BY <1>2, <1>4 DEF StoredWith, Tables
<1>6. ASSUME NEW k \in ask.keys
      PROVE  Cardinality({j \in db.stored \cup ask.keys : j.device = d /\ j.kind = k.kind})
                 <= MaxPrekeys
  <2>1. k.kind \in Kinds
    BY <1>3 DEF Key
  <2>2. OfKind(ask.keys, k.kind) # {}
    BY DEF OfKind
  <2>3. {j \in db.stored \cup ask.keys : j.device = d /\ j.kind = k.kind}
            = Rows(db, d, k.kind) \cup OfKind(ask.keys, k.kind)
    BY <1>3 DEF Rows, OfKind
  <2> QED
    BY <1>1, <1>2, <2>1, <2>2, <2>3, UploadFits
<1>7. Promised!Supply(r, d, ask.signed, ask.keys)
  BY <1>3, <1>4, <1>5, <1>6, SameCount DEF Promised!Supply
<1>8. ask.keys \in {call.keys : call \in {c \in Calls : c.op = "upload"}}
  BY <1>3 DEF IsUpload
<1> HIDE DEF ask, d
<1> QED
  BY <1>3, <1>7, <1>8 DEF Promised!Promise

\* The commit of a claim is the claim.
LEMMA ClaimIsIssue ==
    ASSUME IInv, NEW r \in Requests, CommitDoes(r), IsClaim(r)
    PROVE  Promised!Promise
<1> DEFINE d == req[r].call.device
           bundle == req[r].bundle
<1>1. TypeOK
  BY DEF IInv
<1>2. /\ req[r].pc # "idle" /\ issued[r] = None
      /\ issued' = [issued EXCEPT ![r] = bundle]
      /\ bundle \in Bundle /\ bundle.device = d /\ bundle.keys = Taken(d)
      /\ bundle.signed = db.signed[d] /\ db.status[d] = "ACTIVE"
      /\ db'.consumed = db.consumed \cup bundle.keys
      /\ db'.stored = db.stored /\ db'.signed = db.signed /\ db'.status = db.status
  BY DEF CommitDoes, IsUpload, IsClaim
<1>3. d \in Devices
  BY <1>1, <1>2, ClaimCall
<1>4. Taken(d) = UNION {Promised!Next1(d, kind) : kind \in Kinds}
  BY <1>1, <1>3, TakenIsNext
<1>5. bundle = [device |-> d, keys |-> Taken(d), signed |-> db.signed[d]]
  BY <1>2 DEF Bundle
<1> HIDE DEF d, bundle
<1>6. Promised!Issue(r, d)
  BY <1>2, <1>3, <1>4, <1>5 DEF Promised!Issue
<1> QED
  BY <1>3, <1>6 DEF Promised!Promise

\* Nothing else changes what Dispenser speaks of, but that devices come and go.
LEMMA StepKeepsPromise ==
    ASSUME IInv, Next
    PROVE  Promised!Promise \/ UNCHANGED Promised!promised
<1>1. TypeOK
  BY DEF IInv
<1>2. ASSUME NEW r \in Requests, Commit(r)
      PROVE  Promised!Promise
  <2>1. CommitDoes(r)
    BY <1>2, CommitEffect
  <2>2. IsUpload(r) \/ IsClaim(r)
    BY <2>1 DEF CommitDoes
  <2> QED
    BY <2>1, <2>2, UploadIsSupply, ClaimIsIssue
<1>3. ASSUME NEW d \in Devices, RegisterDevice(d)
      PROVE  Promised!Promise
  <2>1. /\ db'.stored = db.stored /\ db'.consumed = db.consumed /\ db'.signed = db.signed
        /\ db'.status = [db.status EXCEPT ![d] = "ACTIVE"] /\ issued' = issued
        /\ db.status \in [Devices -> {"ABSENT", "ACTIVE", "REVOKED"}]
    BY <1>1, <1>3 DEF RegisterDevice, TypeOK, Tables
  <2>2. Promised!Enroll(d)
    BY <2>1 DEF Promised!Enroll
  <2> QED
    BY <2>2 DEF Promised!Promise
<1>4. ASSUME NEW d \in Devices, RevokeDevice(d)
      PROVE  Promised!Promise
  <2>1. /\ db'.stored = db.stored /\ db'.consumed = db.consumed /\ db'.signed = db.signed
        /\ db'.status = [db.status EXCEPT ![d] = "REVOKED"] /\ issued' = issued
        /\ db.status \in [Devices -> {"ABSENT", "ACTIVE", "REVOKED"}]
    BY <1>1, <1>4 DEF RevokeDevice, TypeOK, Tables
  <2>2. Promised!Retire(d)
    BY <2>1 DEF Promised!Retire
  <2> QED
    BY <2>2 DEF Promised!Promise
<1>5. CASE db' = db /\ issued' = issued
  BY <1>5 DEF Promised!promised
<1>6. ASSUME NEW r \in Requests, UploadPrekeys(r) \/ ClaimPrekeys(r) \/ Fault(r)
      PROVE  db' = db /\ issued' = issued
  BY <1>6 DEF UploadPrekeys, CheckOwned, Count, Write, WriteRefused, ClaimPrekeys, CheckOwner,
     CheckFriend, Lookup, Insert, InsertRefused, Consume, Identity, Signed, StoreAnswer, Fault,
     Rollback, TakeLock, Store, Locals
<1>7. ASSUME NEW r \in Requests, NEW ask \in Calls, Begin(r, ask)
      PROVE  db' = db /\ issued' = issued
  BY <1>7 DEF Begin, Store
<1>8. ASSUME Crash \/ OtherCommit
      PROVE  db' = db /\ issued' = issued
  BY <1>8 DEF Crash, OtherCommit
<1>9. ASSUME NEW u \in Users, NEW v \in Users, Befriend(u, v) \/ Unfriend(u, v)
      PROVE  db' = db /\ issued' = issued
  BY <1>9 DEF Befriend, Unfriend
<1> QED
  BY <1>2, <1>3, <1>4, <1>5, <1>6, <1>7, <1>8, <1>9 DEF Next

-----------------------------------------------------------------------------
(* The theorems.                                                           *)

\* Type correctness; in particular no bundle holds two one-time prekeys of one
\* kind, whatever is uploaded and claimed at the same time.
THEOREM TypesHold == Spec => []TypeOK
<1>1. IInv => TypeOK
  BY DEF IInv
<1> QED
  BY InvHolds, <1>1, PTL

\* The prekeys marked consumed are exactly those in committed bundles, and no two
\* bundles share one, although a claim may fail or the server die after its
\* UPDATEs.
THEOREM KeysAreAccounted == Spec => []KeysAccounted
<1>1. IInv => KeysAccounted
  BY DEF IInv
<1> QED
  BY InvHolds, <1>1, PTL

\* The limit on stored prekeys holds although an upload counts in one statement
\* and inserts in another: a count that is out of date cannot be followed by a
\* write.
THEOREM StoreIsBounded == Spec => []LimitHolds
<1>1. IInv => LimitHolds
  BY DEF IInv
<1> QED
  BY InvHolds, <1>1, PTL

\* All claims a user makes with one idempotency key are answered with one and the
\* same committed bundle, across retries, failures and restarts.
THEOREM RetriesHold == Spec => []RetriesAgree
  BY InvHolds, AnswersAgree, PTL

\* A bundle goes to a caller who was the owner of the device or a friend of the
\* owner since the request began.
THEOREM ClaimsHaveTitle == Spec => []ClaimsEntitled
<1>1. IInv => ClaimsEntitled
  BY DEF IInv, ClaimsEntitled, AnswersTrue, PassedAreNone, IsClaim
<1> QED
  BY InvHolds, <1>1, PTL

\* The store implements Dispenser: every upload and every claim takes effect at
\* once, at its commit, or not at all.
THEOREM StoreDispenses == Spec => ClaimsAreAtomic
<1>1. Init => Promised!Opened
  BY DEF Init, Empty, Promised!Opened
<1>2. IInv /\ [Next]_vars => [Promised!Promise]_(Promised!promised)
  <2> SUFFICES ASSUME IInv, [Next]_vars
               PROVE  Promised!Promise \/ UNCHANGED Promised!promised
    OBVIOUS
  <2>1. CASE Next
    BY <2>1, StepKeepsPromise
  <2>2. CASE UNCHANGED vars
    BY <2>2 DEF vars, Promised!promised
  <2> QED
    BY <2>1, <2>2
<1> QED
  BY <1>1, <1>2, InvHolds, PTL DEF Spec, ClaimsAreAtomic, Promised!Spec

=============================================================================
