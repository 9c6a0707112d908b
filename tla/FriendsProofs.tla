---------------------------- MODULE FriendsProofs ----------------------------
(***************************************************************************)
(* Proofs about Friends, for any users, clients, calls, and number of        *)
(* attempts and faults: type correctness, NeverBoth, and that friendships    *)
(* implement Consent.                                                      *)
(*                                                                         *)
(* What makes the refinement work is that a step which changes the tables     *)
(* finds them as the caller was told by an earlier statement, or changes      *)
(* nothing: every write says in its WHERE what it relies on, and between      *)
(* the two writes of AcceptFriendRequest the lock keeps everybody else out.   *)
(***************************************************************************)
EXTENDS Friends, TLAPS

\* Who is about to ask somebody asks another user than himself.
AsksOther ==
    \A c \in Clients :
        call[c].pc \in {"insert", "sender", "check"} => call[c].uid # call[c].target

\* The lock is held by the client between the two writes of AcceptFriendRequest,
\* who is the recipient of a request that is still there.
LockOfAccept ==
    \A c \in Clients :
        /\ lock = c <=> call[c].pc = "create"
        /\ call[c].pc \in {"accept", "create"} => call[c].op = "accept"
        /\ call[c].pc = "create" => <<call[c].target, call[c].uid>> \in asked

\* Nobody has a request from himself or is his own friend, and two users do not
\* ask each other at the same time.
Decent ==
    /\ \A u \in Users : <<u, u>> \notin asked /\ {u} \notin friends
    /\ \A u, v \in Users : ~ (<<u, v>> \in asked /\ <<v, u>> \in asked)

IInv == TypeOK /\ AsksOther /\ LockOfAccept /\ Decent /\ NeverBoth

\* What there is between the two users of a call, whoever of them calls.
BetweenOf(c) == Between(call[c].uid, call[c].target)

\* What there is now between its two users a call has seen.
SawNow == \A c \in Clients : call[c].pc # "idle" => BetweenOf(c) \in saw[c]

\* How often things have changed at least under the hands of AddFriend: an INSERT
\* that is refused finds something between the two, the first look-up after it
\* no request, the second no friendship, and a friendship does not turn into a
\* request in one step.
Owed(c) ==
    LET before == 2 * call[c].attempt
        now == BetweenOf(c)
    IN  CASE call[c].pc = "insert" ->
               IF now = "nothing" THEN before - 1 ELSE before
          [] call[c].pc = "sender" ->
               IF now = "nothing" THEN before + 1 ELSE before
          [] call[c].pc = "check" ->
               IF now = "friends" THEN before
               ELSE IF now = "nothing" THEN before + 1
               ELSE before + 2
          [] OTHER -> 0

Asking == {"insert", "sender", "check"}

CountedOf(c) ==
    /\ call[c].pc = "resolve" => call[c].attempt = 0
    /\ call[c].pc \in Asking => changes[c] = MaxChanges \/ changes[c] >= Owed(c)

Counted == \A c \in Clients : CountedOf(c)

\* What the answers rest on.
HistoryInv == IInv /\ SawNow /\ Counted

-----------------------------------------------------------------------------
(* Types.                                                                  *)

CallsTyped ==
    /\ call \in [Clients -> Call]
    /\ \A c \in Clients :
           /\ call[c].attempt < MaxAttempts
           /\ (call[c].pc # "idle" => call[c].uid \in Users)
           /\ (call[c].pc \notin {"idle", "resolve"} => call[c].target \in Users)

\* A call that is answered.
LEMMA ReturnTyped ==
    ASSUME TypeOK, NEW c \in Clients, NEW reply \in Reply, Return(c, reply)
    PROVE  CallsTyped'
<1>1. [Idle EXCEPT !.reply = reply] \in Call
  BY FriendsAssumption DEF Idle, Call, PC, Op
<1>2. call' = [call EXCEPT ![c] = [Idle EXCEPT !.reply = reply]]
  BY DEF Return
<1>3. call' \in [Clients -> Call]
  BY <1>1, <1>2 DEF TypeOK
<1>4. /\ call'[c].pc = "idle" /\ call'[c].attempt = 0
      /\ \A d \in Clients \ {c} : call'[d] = call[d]
  BY <1>2 DEF TypeOK, Idle
<1> QED
  BY <1>3, <1>4, FriendsAssumption DEF TypeOK, CallsTyped

\* A call that goes on.
LEMMA GotoTyped ==
    ASSUME TypeOK, NEW c \in Clients, NEW pc \in PC, Goto(c, pc),
           call[c].pc # "idle",
           pc # "resolve" => call[c].target \in Users
    PROVE  CallsTyped'
<1>1. call' = [call EXCEPT ![c].pc = pc]
  BY DEF Goto
<1>2. call' \in [Clients -> Call]
  BY <1>1 DEF TypeOK, Call
<1>3. /\ call'[c].pc = pc /\ call'[c].attempt = call[c].attempt
      /\ call'[c].uid = call[c].uid /\ call'[c].target = call[c].target
      /\ \A d \in Clients \ {c} : call'[d] = call[d]
  BY <1>1 DEF TypeOK, Call
<1> QED
  BY <1>2, <1>3 DEF TypeOK, CallsTyped

\* The history is typed whatever it is told.
LEMMA WatchTyped ==
    ASSUME TypeOK, NEW c \in Clients, call[c].uid \in Users \/ Tables' = Tables, Watch(c)
    PROVE  /\ actor' \in Users \cup {None}
           /\ saw' \in [Clients -> SUBSET Relation]
           /\ changes' \in [Clients -> 0 .. MaxChanges]
<1> DEFINE now(d) == Between(call[d].uid, call[d].target)'
           was(d) == Between(call[d].uid, call[d].target)
<1>1. actor' \in Users \cup {None}
  BY DEF TypeOK, Watch
<1>2. \A d \in Clients : now(d) \in Relation
  BY DEF Between, Relation
<1>3. saw' = [d \in Clients |->
                IF call'[d].pc = "idle" THEN {}
                ELSE IF call[d].pc = "idle" THEN {now(d)}
                ELSE saw[d] \cup {now(d)}]
  BY DEF Watch
<1>4. changes' = [d \in Clients |->
                    IF call'[d].pc = "idle" \/ call[d].pc = "idle" THEN 0
                    ELSE IF now(d) = was(d) \/ changes[d] = MaxChanges
                    THEN changes[d]
                    ELSE changes[d] + 1]
  BY DEF Watch
<1> HIDE DEF now, was
<1>5. saw' \in [Clients -> SUBSET Relation]
  BY <1>2, <1>3 DEF TypeOK
<1>6. changes' \in [Clients -> 0 .. MaxChanges]
  BY <1>4, FriendsAssumption DEF TypeOK
<1> QED
  BY <1>1, <1>5, <1>6

\* What a step that changes no table has to show.
LEMMA StillTyped ==
    ASSUME TypeOK, NEW c \in Clients, call[c].uid \in Users \/ Tables' = Tables, Watch(c),
           CallsTyped', lock' \in {None, c, lock}, faults' \in Nat,
           asked' \subseteq Users \X Users, friends' \subseteq SUBSET Users
    PROVE  TypeOK'
<1>1. /\ actor' \in Users \cup {None}
      /\ saw' \in [Clients -> SUBSET Relation]
      /\ changes' \in [Clients -> 0 .. MaxChanges]
  BY WatchTyped
<1> QED
  BY <1>1 DEF TypeOK, CallsTyped

\* One step per action.
LEMMA TypeNext ==
    ASSUME TypeOK, NEW c \in Clients, Watch(c),
           (\E ask \in Calls : Begin(c, ask)) \/ Move(c) \/ Fault(c)
    PROVE  TypeOK'
<1> USE DEF Waiting, Tables
<1>0. call[c] \in Call /\ (call[c].pc # "idle" => call[c].uid \in Users)
  BY DEF TypeOK
<1>1. ASSUME NEW ask \in Calls, Begin(c, ask)
      PROVE  TypeOK'
  <2> DEFINE new == [pc |-> "resolve", op |-> ask.op, uid |-> ask.uid,
                     target |-> ask.target, attempt |-> 0, reply |-> "none"]
  <2>1. call' = [call EXCEPT ![c] = new] /\ UNCHANGED <<Tables, lock, faults>>
    BY <1>1 DEF Begin
  <2>2. /\ ask.op \in Op /\ ask.uid \in Users /\ ask.target \in Users \cup {None}
    BY FriendsAssumption
  <2>3. new \in Call /\ new.pc = "resolve" /\ new.attempt = 0 /\ new.uid \in Users
    BY <2>2 DEF Call, PC, Reply
  <2> HIDE DEF new
  <2>4. CallsTyped'
    BY <2>1, <2>3, FriendsAssumption DEF TypeOK, CallsTyped
  <2> QED
    BY <2>1, <2>4, StillTyped DEF TypeOK
<1>2. CASE Resolve(c)
  <2>1. CallsTyped'
    <3>1. CASE call[c].target = None
      BY <1>2, <3>1, ReturnTyped DEF Resolve, Reply
    <3>2. CASE call[c].target # None
      <4>1. call[c].target \in Users
        BY <1>0, <3>2 DEF Call
      <4>2. Return(c, "self") \/ Goto(c, "insert") \/ Goto(c, "remove") \/ Goto(c, "look")
        BY <1>2, <3>2 DEF Resolve
      <4> QED
        BY <1>2, <4>1, <4>2, ReturnTyped, GotoTyped DEF Resolve, Reply, PC
    <3> QED
      BY <3>1, <3>2
  <2> QED
    BY <1>2, <2>1, StillTyped DEF Resolve, TypeOK
<1>3. CASE InsertRequest(c)
  <2>1. call[c].uid \in Users /\ call[c].target \in Users
    BY <1>3 DEF InsertRequest, TypeOK
  <2>2. Return(c, "ok") \/ Goto(c, "sender")
    BY <1>3 DEF InsertRequest
  <2>3. CallsTyped'
    BY <1>3, <2>1, <2>2, ReturnTyped, GotoTyped DEF InsertRequest, Reply, PC
  <2>4. asked' \subseteq Users \X Users
    BY <1>3, <2>1 DEF InsertRequest, TypeOK
  <2> QED
    BY <1>3, <2>1, <2>3, <2>4, StillTyped DEF InsertRequest, TypeOK
<1>4. CASE FindSender(c)
  <2>1. Return(c, "sent") \/ Return(c, "received") \/ Goto(c, "check")
    BY <1>4 DEF FindSender
  <2>2. CallsTyped'
    BY <1>4, <2>1, ReturnTyped, GotoTyped DEF FindSender, Reply, PC, TypeOK
  <2> QED
    BY <1>4, <2>2, StillTyped DEF FindSender, TypeOK
<1>5. CASE FindFriendship(c)
  <2>1. CallsTyped'
    <3>1. CASE Return(c, "friends") \/ Return(c, "busy")
      BY <3>1, ReturnTyped DEF Reply
    <3>2. CASE ~ (Return(c, "friends") \/ Return(c, "busy"))
      <4>1. /\ call' = [call EXCEPT ![c].pc = "insert", ![c].attempt = @ + 1]
            /\ call[c].attempt + 1 # MaxAttempts
        BY <1>5, <3>2 DEF FindFriendship, LastAttempt, NextAttempt
      <4>2. call[c].attempt + 1 \in Nat /\ call[c].attempt + 1 < MaxAttempts
        BY <1>0, <4>1, FriendsAssumption DEF TypeOK, Call
      <4>3. call' \in [Clients -> Call]
        BY <4>1, <4>2 DEF TypeOK, Call, PC
      <4>4. /\ call'[c].attempt = call[c].attempt + 1 /\ call'[c].uid = call[c].uid
            /\ call'[c].target = call[c].target
            /\ \A d \in Clients \ {c} : call'[d] = call[d]
        BY <4>1 DEF TypeOK, Call
      <4>5. call[c].uid \in Users /\ call[c].target \in Users
        BY <1>5 DEF FindFriendship, TypeOK
      <4> QED
        BY <4>2, <4>3, <4>4, <4>5 DEF TypeOK, CallsTyped
    <3> QED
      BY <3>1, <3>2
  <2> QED
    BY <1>5, <2>1, StillTyped DEF FindFriendship, TypeOK
<1>6. CASE LookForRequest(c)
  <2>1. \/ Return(c, "forbidden") \/ Return(c, "not_found")
        \/ Goto(c, "accept") \/ Goto(c, "delete")
    BY <1>6 DEF LookForRequest
  <2>2. CallsTyped'
    BY <1>6, <2>1, ReturnTyped, GotoTyped DEF LookForRequest, Reply, PC, TypeOK
  <2> QED
    BY <1>6, <2>2, StillTyped DEF LookForRequest, TypeOK
<1>7. CASE DeleteRequest(c)
  <2>1. Return(c, "ok") \/ Return(c, "not_found")
    BY <1>7 DEF DeleteRequest
  <2>2. CallsTyped'
    BY <2>1, ReturnTyped DEF Reply
  <2>3. asked' \subseteq Users \X Users
    BY <1>7 DEF DeleteRequest, TypeOK
  <2> QED
    BY <1>0, <1>7, <2>2, <2>3, StillTyped DEF DeleteRequest, TypeOK
<1>8. CASE BeginAccept(c)
  <2>1. Return(c, "not_found") \/ Goto(c, "create")
    BY <1>8 DEF BeginAccept
  <2>2. CallsTyped'
    BY <1>8, <2>1, ReturnTyped, GotoTyped DEF BeginAccept, Reply, PC, TypeOK
  <2> QED
    BY <1>8, <2>2, StillTyped DEF BeginAccept, TypeOK
<1>9. CASE CommitAccept(c)
  <2>1. Return(c, "error") \/ Return(c, "ok")
    BY <1>9 DEF CommitAccept
  <2>2. CallsTyped'
    BY <2>1, ReturnTyped DEF Reply
  <2>3. call[c].uid \in Users /\ call[c].target \in Users
    BY <1>9 DEF CommitAccept, TypeOK
  <2>4. asked' \subseteq Users \X Users /\ friends' \subseteq SUBSET Users
    BY <1>9, <2>3 DEF CommitAccept, TypeOK
  <2> QED
    BY <1>9, <2>2, <2>3, <2>4, StillTyped DEF CommitAccept, TypeOK
<1>10. CASE RemoveFriendship(c)
  <2>1. CallsTyped'
    BY <1>10, ReturnTyped DEF RemoveFriendship, Reply
  <2> QED
    BY <1>0, <1>10, <2>1, StillTyped DEF RemoveFriendship, TypeOK
<1>11. CASE Busy(c)
  <2>1. CallsTyped'
    BY <1>11, ReturnTyped DEF Busy, Reply
  <2> QED
    BY <1>11, <2>1, StillTyped DEF Busy, TypeOK
<1>12. CASE Fault(c)
  <2>1. CallsTyped'
    BY <1>12, ReturnTyped DEF Fault, Reply
  <2> QED
    BY <1>12, <2>1, StillTyped DEF Fault, TypeOK
<1> QED
  BY <1>1, <1>2, <1>3, <1>4, <1>5, <1>6, <1>7, <1>8, <1>9, <1>10, <1>11, <1>12 DEF Move

-----------------------------------------------------------------------------
(* Safety.                                                                 *)

\* Where a call is after it was answered, and after it went on.
LEMMA ReturnMoves ==
    ASSUME TypeOK, NEW c \in Clients, NEW reply, Return(c, reply)
    PROVE  call'[c].pc = "idle" /\ \A d \in Clients \ {c} : call'[d] = call[d]
  BY DEF TypeOK, Return, Idle

LEMMA GotoMoves ==
    ASSUME TypeOK, NEW c \in Clients, NEW pc, Goto(c, pc)
    PROVE  /\ call'[c].pc = pc /\ call'[c].op = call[c].op
           /\ call'[c].uid = call[c].uid /\ call'[c].target = call[c].target
           /\ \A d \in Clients \ {c} : call'[d] = call[d]
  BY DEF TypeOK, Goto, Call

\* A step in which the lock stays and a call neither reaches nor leaves the
\* transaction.
LEMMA LockStays ==
    ASSUME LockOfAccept, NEW c \in Clients,
           lock' = lock,
           call[c].pc # "create", call'[c].pc \notin {"accept", "create"},
           \A d \in Clients \ {c} : call'[d] = call[d],
           lock = None \/ asked' = asked, None \notin Clients
    PROVE  LockOfAccept'
  BY DEF LockOfAccept

\* The answers and the moves that change no table.
LEMMA SafeNext ==
    ASSUME IInv, NEW c \in Clients,
           (\E ask \in Calls : Begin(c, ask)) \/ Move(c) \/ Fault(c)
    PROVE  AsksOther' /\ LockOfAccept' /\ Decent' /\ NeverBoth'
<1> DEFINE Safe == AsksOther /\ LockOfAccept /\ Decent /\ NeverBoth
<1> USE DEF Waiting, Tables, IInv
<1>a. None \notin Clients /\ None \notin Users
  BY FriendsAssumption
<1>b. ASSUME UNCHANGED Tables
      PROVE  Decent' /\ NeverBoth'
  BY <1>b DEF Decent, NeverBoth
<1>c. call[c].pc # "idle" => call[c].uid \in Users
  BY DEF TypeOK
<1>d. call[c].pc \notin {"idle", "resolve"} => call[c].target \in Users
  BY DEF TypeOK
<1>1. ASSUME NEW ask \in Calls, Begin(c, ask)
      PROVE  Safe'
  <2>1. call'[c].pc = "resolve" /\ \A d \in Clients \ {c} : call'[d] = call[d]
    BY <1>1 DEF Begin, TypeOK
  <2>2. LockOfAccept'
    BY <1>1, <1>a, <2>1, LockStays DEF Begin
  <2>3. AsksOther'
    BY <2>1 DEF AsksOther
  <2> QED
    BY <1>1, <1>b, <2>2, <2>3 DEF Begin
<1>2. CASE Resolve(c)
  <2>1. /\ call'[c].pc \in {"idle", "insert", "remove", "look"}
        /\ call'[c].pc = "insert" =>
               /\ call'[c].uid = call[c].uid /\ call'[c].target = call[c].target
               /\ call[c].uid # call[c].target
        /\ \A d \in Clients \ {c} : call'[d] = call[d]
    BY <1>2, ReturnMoves, GotoMoves DEF Resolve
  <2>2. LockOfAccept'
    BY <1>2, <1>a, <2>1, LockStays DEF Resolve
  <2>3. AsksOther'
    BY <2>1 DEF AsksOther
  <2> QED
    BY <1>2, <1>b, <2>2, <2>3 DEF Resolve
<1>3. CASE InsertRequest(c)
  <2>1. call[c].pc = "insert" /\ lock = None /\ lock' = lock /\ friends' = friends
    BY <1>3 DEF InsertRequest
  <2>2. /\ call'[c].pc \in {"idle", "sender"}
        /\ call'[c].pc = "sender" =>
               call'[c].uid = call[c].uid /\ call'[c].target = call[c].target
        /\ \A d \in Clients \ {c} : call'[d] = call[d]
    BY <1>3, ReturnMoves, GotoMoves DEF InsertRequest
  <2>3. LockOfAccept'
    BY <1>a, <2>1, <2>2, LockStays
  <2>4. AsksOther'
    BY <2>1, <2>2 DEF AsksOther
  <2>5. call[c].uid # call[c].target
    BY <2>1 DEF AsksOther
  <2>6. CASE MayAsk(call[c].uid, call[c].target)
    <3>1. asked' = asked \cup {<<call[c].uid, call[c].target>>}
      BY <1>3, <2>6 DEF InsertRequest
    <3>2. /\ <<call[c].uid, call[c].target>> \notin asked
          /\ <<call[c].target, call[c].uid>> \notin asked
          /\ {call[c].uid, call[c].target} \notin friends
      BY <2>6 DEF MayAsk, HasRequest
    <3>3. Decent'
      BY <2>1, <2>5, <3>1, <3>2 DEF Decent
    <3>4. NeverBoth'
      <4> SUFFICES ASSUME NEW pair \in asked' PROVE {pair[1], pair[2]} \notin friends'
        BY DEF NeverBoth
      <4>1. CASE pair \in asked
        BY <2>1, <4>1 DEF NeverBoth
      <4>2. CASE pair = <<call[c].uid, call[c].target>>
        BY <2>1, <3>2, <4>2
      <4> QED
        BY <3>1, <4>1, <4>2
    <3> QED
      BY <2>3, <2>4, <3>3, <3>4
  <2>7. CASE ~ MayAsk(call[c].uid, call[c].target)
    BY <1>3, <1>b, <2>1, <2>3, <2>4, <2>7 DEF InsertRequest
  <2> QED
    BY <2>6, <2>7
<1>4. CASE FindSender(c)
  <2>1. /\ call'[c].pc \in {"idle", "check"}
        /\ call'[c].pc = "check" =>
               call'[c].uid = call[c].uid /\ call'[c].target = call[c].target
        /\ \A d \in Clients \ {c} : call'[d] = call[d]
    BY <1>4, ReturnMoves, GotoMoves DEF FindSender
  <2>2. LockOfAccept'
    BY <1>4, <1>a, <2>1, LockStays DEF FindSender
  <2>3. AsksOther'
    BY <1>4, <2>1 DEF AsksOther, FindSender
  <2> QED
    BY <1>4, <1>b, <2>2, <2>3 DEF FindSender
<1>5. CASE FindFriendship(c)
  <2>1. /\ call'[c].pc \in {"idle", "insert"}
        /\ call'[c].pc = "insert" =>
               call'[c].uid = call[c].uid /\ call'[c].target = call[c].target
        /\ \A d \in Clients \ {c} : call'[d] = call[d]
    <3>1. CASE \E reply \in Reply : Return(c, reply)
      BY <3>1, ReturnMoves
    <3>2. CASE ~ \E reply \in Reply : Return(c, reply)
      <4>1. call' = [call EXCEPT ![c].pc = "insert", ![c].attempt = NextAttempt(@)]
        BY <1>5, <3>2 DEF FindFriendship, Reply
      <4> QED
        BY <4>1 DEF TypeOK, Call
    <3> QED
      BY <3>1, <3>2
  <2>2. LockOfAccept'
    BY <1>5, <1>a, <2>1, LockStays DEF FindFriendship
  <2>3. AsksOther'
    BY <1>5, <2>1 DEF AsksOther, FindFriendship
  <2> QED
    BY <1>5, <1>b, <2>2, <2>3 DEF FindFriendship
<1>6. CASE LookForRequest(c)
  <2>1. /\ call'[c].pc \in {"idle", "accept", "delete"}
        /\ call'[c].pc = "accept" => call'[c].op = "accept"
        /\ \A d \in Clients \ {c} : call'[d] = call[d]
    BY <1>6, ReturnMoves, GotoMoves DEF LookForRequest
  <2>2. LockOfAccept'
    BY <1>6, <1>a, <2>1 DEF LookForRequest, LockOfAccept
  <2>3. AsksOther'
    BY <2>1 DEF AsksOther
  <2> QED
    BY <1>6, <1>b, <2>2, <2>3 DEF LookForRequest
<1>7. CASE DeleteRequest(c)
  <2>1. /\ call'[c].pc = "idle" /\ \A d \in Clients \ {c} : call'[d] = call[d]
    BY <1>7, ReturnMoves DEF DeleteRequest
  <2>2. LockOfAccept'
    BY <1>7, <1>a, <2>1, LockStays DEF DeleteRequest
  <2>3. AsksOther'
    BY <2>1 DEF AsksOther
  <2>4. asked' \subseteq asked /\ friends' = friends
    BY <1>7 DEF DeleteRequest
  <2>5. Decent' /\ NeverBoth'
    BY <2>4 DEF Decent, NeverBoth
  <2> QED
    BY <2>2, <2>3, <2>5
<1>8. CASE BeginAccept(c)
  <2>1. call[c].pc = "accept" /\ lock = None /\ UNCHANGED Tables
    BY <1>8 DEF BeginAccept
  <2>2. CASE Matches(c) # {}
    <3>1. lock' = c /\ Goto(c, "create")
      BY <1>8, <2>2 DEF BeginAccept
    <3>2. call[c].op = "accept"
      BY <2>1 DEF LockOfAccept
    <3>3. <<call[c].target, call[c].uid>> \in asked
      BY <2>2, <3>2 DEF Matches, Sender, Recipient
    <3>4. /\ call'[c].pc = "create" /\ call'[c].op = call[c].op
          /\ call'[c].uid = call[c].uid /\ call'[c].target = call[c].target
          /\ \A d \in Clients \ {c} : call'[d] = call[d]
      BY <3>1, GotoMoves
    <3>5. LockOfAccept'
      BY <1>a, <2>1, <3>1, <3>2, <3>3, <3>4 DEF LockOfAccept
    <3>6. AsksOther'
      BY <3>4 DEF AsksOther
    <3> QED
      BY <1>b, <2>1, <3>5, <3>6
  <2>3. CASE Matches(c) = {}
    <3>1. lock' = lock /\ call'[c].pc = "idle"
          /\ \A d \in Clients \ {c} : call'[d] = call[d]
      BY <1>8, <2>3, ReturnMoves DEF BeginAccept
    <3>2. LockOfAccept'
      BY <1>a, <2>1, <3>1, LockStays
    <3>3. AsksOther'
      BY <3>1 DEF AsksOther
    <3> QED
      BY <1>b, <2>1, <3>2, <3>3
  <2> QED
    BY <2>2, <2>3
<1>9. CASE CommitAccept(c)
  <2>1. /\ call'[c].pc = "idle" /\ \A d \in Clients \ {c} : call'[d] = call[d]
    BY <1>9, ReturnMoves DEF CommitAccept
  <2>2. call[c].pc = "create" /\ lock = c /\ lock' = None /\ call[c].op = "accept"
    BY <1>9 DEF CommitAccept, LockOfAccept
  <2>3. LockOfAccept'
    BY <1>a, <2>1, <2>2 DEF LockOfAccept
  <2>4. AsksOther'
    BY <2>1 DEF AsksOther
  <2>5. CASE UNCHANGED Tables
    BY <1>b, <2>3, <2>4, <2>5
  <2>6. CASE ~ UNCHANGED Tables
    <3>1. /\ asked' = asked \ {<<call[c].target, call[c].uid>>}
          /\ friends' = friends \cup {{call[c].uid, call[c].target}}
          /\ <<call[c].target, call[c].uid>> \in asked
      BY <1>9, <2>2, <2>6
         DEF CommitAccept, Matches, Sender, Recipient, LockOfAccept
    <3>2. call[c].uid \in Users /\ call[c].target \in Users
      BY <1>c, <1>d, <2>2
    <3>3. /\ call[c].uid # call[c].target
          /\ <<call[c].uid, call[c].target>> \notin asked
      BY <3>1, <3>2 DEF Decent
    <3>4. Decent'
      BY <3>1, <3>3 DEF Decent
    <3>5. ASSUME NEW u \in Users, NEW v \in Users, <<u, v>> \in asked'
          PROVE  {u, v} \notin friends'
      <4>1. {u, v} \notin friends
        BY <3>1, <3>5 DEF NeverBoth
      <4>2. {u, v} # {call[c].uid, call[c].target}
        BY <3>1, <3>3, <3>5
      <4> QED
        BY <3>1, <4>1, <4>2
    <3>6. NeverBoth'
      <4> SUFFICES ASSUME NEW pair \in asked' PROVE {pair[1], pair[2]} \notin friends'
        BY DEF NeverBoth
      <4>1. pair \in Users \X Users
        BY <3>1 DEF TypeOK
      <4>2. pair[1] \in Users /\ pair[2] \in Users /\ pair = <<pair[1], pair[2]>>
        BY <4>1
      <4> QED
        BY <3>5, <4>2
    <3> QED
      BY <2>3, <2>4, <3>4, <3>6
  <2> QED
    BY <2>5, <2>6
<1>10. CASE RemoveFriendship(c)
  <2>1. /\ call'[c].pc = "idle" /\ \A d \in Clients \ {c} : call'[d] = call[d]
    BY <1>10, ReturnMoves DEF RemoveFriendship
  <2>2. LockOfAccept'
    BY <1>10, <1>a, <2>1, LockStays DEF RemoveFriendship
  <2>3. AsksOther'
    BY <2>1 DEF AsksOther
  <2>4. friends' \subseteq friends /\ asked' = asked
    BY <1>10 DEF RemoveFriendship
  <2>5. Decent' /\ NeverBoth'
    BY <2>4 DEF Decent, NeverBoth
  <2> QED
    BY <2>2, <2>3, <2>5
<1>11. CASE Busy(c)
  <2>1. /\ call'[c].pc = "idle" /\ \A d \in Clients \ {c} : call'[d] = call[d]
    BY <1>11, ReturnMoves DEF Busy
  <2>2. LockOfAccept'
    BY <1>11, <1>a, <2>1, LockStays DEF Busy
  <2>3. AsksOther'
    BY <2>1 DEF AsksOther
  <2> QED
    BY <1>11, <1>b, <2>2, <2>3 DEF Busy
<1>12. CASE Fault(c)
  <2>1. /\ call'[c].pc = "idle" /\ \A d \in Clients \ {c} : call'[d] = call[d]
    BY <1>12, ReturnMoves DEF Fault
  <2>2. LockOfAccept'
    BY <1>12, <1>a, <2>1 DEF Fault, LockOfAccept
  <2>3. AsksOther'
    BY <2>1 DEF AsksOther
  <2> QED
    BY <1>12, <1>b, <2>2, <2>3 DEF Fault
<1> QED
  BY <1>1, <1>2, <1>3, <1>4, <1>5, <1>6, <1>7, <1>8, <1>9, <1>10, <1>11, <1>12 DEF Move

-----------------------------------------------------------------------------
(* The history.                                                            *)

\* The handlers' part of a step, and the history that is kept of it.
Acts(c) == (\E ask \in Calls : Begin(c, ask)) \/ Move(c) \/ Fault(c)

\* What there is between two users, by table.
LEMMA BetweenCases ==
    ASSUME IInv, NEW u \in Users, NEW v \in Users
    PROVE  /\ Between(u, v) = "friends" <=> {u, v} \in friends
           /\ Between(u, v) = "sent" <=> <<u, v>> \in asked
           /\ Between(u, v) = "received" <=> <<v, u>> \in asked
           /\ Between(u, v) = "nothing" <=>
                 ~ (HasRequest(u, v) \/ {u, v} \in friends)
           /\ Between(u, v) \in Relation
<1>1. <<u, v>> \in asked => {u, v} \notin friends
  BY DEF IInv, NeverBoth
<1>2. <<v, u>> \in asked => {u, v} \notin friends
  <2>1. {v, u} = {u, v}
    OBVIOUS
  <2>. QED  BY <2>1 DEF IInv, NeverBoth
<1>3. ~ (<<u, v>> \in asked /\ <<v, u>> \in asked)
  BY DEF IInv, Decent
<1>. QED  BY <1>1, <1>2, <1>3 DEF Between, HasRequest, Relation

\* Friends do not have a request between them one step later.
LEMMA PartFirst ==
    ASSUME IInv, IInv', NEW c \in Clients, Acts(c),
           NEW u \in Users, NEW v \in Users, Between(u, v) = "friends"
    PROVE  Between(u, v)' \in {"friends", "nothing"}
<1>1. {u, v} \in friends
  BY BetweenCases
<1>2. CASE {u, v} \in friends'
  BY <1>2 DEF Between
<1>3. CASE {u, v} \notin friends'
  <2>1. asked' = asked
    BY <1>1, <1>3
       DEF Acts, Begin, Move, Fault, Resolve, InsertRequest, FindSender,
           FindFriendship, LookForRequest, DeleteRequest, BeginAccept,
           CommitAccept, RemoveFriendship, Busy, Tables
  <2>2. <<u, v>> \notin asked /\ <<v, u>> \notin asked
    BY <1>1, BetweenCases
  <2>. QED  BY <1>3, <2>1, <2>2 DEF Between
<1>. QED  BY <1>2, <1>3

\* A step leaves the other calls alone.
LEMMA OthersStay ==
    ASSUME TypeOK, NEW c \in Clients, Acts(c), NEW d \in Clients \ {c}
    PROVE  call'[d] = call[d]
<1>1. ASSUME NEW x, call' = [call EXCEPT ![c] = x]
      PROVE  call'[d] = call[d]
  BY <1>1 DEF TypeOK
<1>2. ASSUME NEW reply, Return(c, reply)
      PROVE  call'[d] = call[d]
  BY <1>2, ReturnMoves
<1>3. ASSUME NEW pc, Goto(c, pc)
      PROVE  call'[d] = call[d]
  BY <1>3, GotoMoves
<1>4. CASE \E ask \in Calls : Begin(c, ask)
  BY <1>1, <1>4 DEF Begin
<1>5. CASE Resolve(c)
  BY <1>2, <1>3, <1>5 DEF Resolve
<1>6. CASE FindFriendship(c)
  BY <1>2, <1>6 DEF FindFriendship, TypeOK
<1>7. CASE InsertRequest(c) \/ FindSender(c)
  BY <1>2, <1>3, <1>7 DEF InsertRequest, FindSender
<1>8. CASE LookForRequest(c)
  BY <1>2, <1>3, <1>8 DEF LookForRequest
<1>9. CASE DeleteRequest(c) \/ BeginAccept(c) \/ CommitAccept(c)
  BY <1>2, <1>3, <1>9 DEF DeleteRequest, BeginAccept, CommitAccept
<1>10. CASE RemoveFriendship(c) \/ Busy(c) \/ Fault(c)
  BY <1>2, <1>10 DEF RemoveFriendship, Busy, Fault
<1>. QED  BY <1>4, <1>5, <1>6, <1>7, <1>8, <1>9, <1>10 DEF Acts, Move

\* The history of a call.
LEMMA Watched ==
    ASSUME NEW c \in Clients, Watch(c), NEW d \in Clients
    PROVE  /\ saw'[d] = IF call'[d].pc = "idle" THEN {}
                        ELSE IF call[d].pc = "idle"
                        THEN {Between(call[d].uid, call[d].target)'}
                        ELSE saw[d] \cup {Between(call[d].uid, call[d].target)'}
           /\ changes'[d] =
                 IF call'[d].pc = "idle" \/ call[d].pc = "idle" THEN 0
                 ELSE IF BetweenOf(d)' = BetweenOf(d) \/ changes[d] = MaxChanges
                 THEN changes[d]
                 ELSE changes[d] + 1
BY DEF Watch, BetweenOf

\* What there is now is seen now.
LEMMA SawNext ==
    ASSUME NEW c \in Clients, Watch(c)
    PROVE  SawNow'
BY Watched DEF SawNow, BetweenOf

\* Whatever others do under the hands of AddFriend, the count keeps up.
LEMMA CountedWhenOthersMove ==
    ASSUME HistoryInv, IInv', NEW c \in Clients, Acts(c), Watch(c),
           NEW d \in Clients \ {c}
    PROVE  CountedOf(d)'
<1>. TypeOK /\ IInv /\ CountedOf(d)
  BY DEF HistoryInv, IInv, Counted
<1>1. call'[d] = call[d]
  BY OthersStay
<1>. SUFFICES ASSUME call[d].pc \in Asking
              PROVE  (changes[d] = MaxChanges \/ changes[d] >= Owed(d))'
  BY <1>1 DEF CountedOf
<1>2. /\ call[d].uid \in Users /\ call[d].target \in Users
      /\ call[d].attempt \in Nat
      /\ changes[d] \in Nat /\ changes[d] <= MaxChanges
      /\ call[d].pc # "idle"
  BY FriendsAssumption DEF TypeOK, Call, Asking
<1>3. changes'[d] = IF BetweenOf(d)' = BetweenOf(d) \/ changes[d] = MaxChanges
                    THEN changes[d]
                    ELSE changes[d] + 1
  BY <1>1, <1>2, Watched
<1>4. BetweenOf(d) = "friends" => BetweenOf(d)' \in {"friends", "nothing"}
  <2>1. Between(call[d].uid, call[d].target) = "friends" =>
           Between(call[d].uid, call[d].target)' \in {"friends", "nothing"}
    <3>1. PICK u \in Users, v \in Users : u = call[d].uid /\ v = call[d].target
      BY <1>2
    <3>2. Between(u, v) = "friends" => Between(u, v)' \in {"friends", "nothing"}
      BY PartFirst
    <3>. QED  BY <1>1, <3>1, <3>2 DEF Between
  <2>. QED  BY <2>1 DEF BetweenOf
<1>5. BetweenOf(d) \in Relation /\ BetweenOf(d)' \in Relation
  BY DEF BetweenOf, Between, Relation
<1>6. CASE changes[d] = MaxChanges
  BY <1>3, <1>6
<1>7. CASE changes[d] # MaxChanges
  <2>1. changes[d] >= Owed(d)
    BY <1>7 DEF CountedOf
  <2>. DEFINE k == call[d].attempt
  <2>2. CASE call[d].pc = "insert"
    <3>1. Owed(d) = IF BetweenOf(d) = "nothing" THEN 2 * k - 1 ELSE 2 * k
      BY <2>2 DEF Owed
    <3>2. Owed(d)' = IF BetweenOf(d)' = "nothing" THEN 2 * k - 1 ELSE 2 * k
      BY <1>1, <2>2 DEF Owed
    <3>. HIDE DEF k
    <3>. QED  BY <1>2, <1>3, <1>7, <2>1, <3>1, <3>2 DEF k
  <2>3. CASE call[d].pc = "sender"
    <3>1. Owed(d) = IF BetweenOf(d) = "nothing" THEN 2 * k + 1 ELSE 2 * k
      BY <2>3 DEF Owed
    <3>2. Owed(d)' = IF BetweenOf(d)' = "nothing" THEN 2 * k + 1 ELSE 2 * k
      BY <1>1, <2>3 DEF Owed
    <3>. HIDE DEF k
    <3>. QED  BY <1>2, <1>3, <1>7, <2>1, <3>1, <3>2 DEF k
  <2>4. CASE call[d].pc = "check"
    <3>1. Owed(d) = IF BetweenOf(d) = "friends" THEN 2 * k
                    ELSE IF BetweenOf(d) = "nothing" THEN 2 * k + 1
                    ELSE 2 * k + 2
      BY <2>4 DEF Owed
    <3>2. Owed(d)' = IF BetweenOf(d)' = "friends" THEN 2 * k
                     ELSE IF BetweenOf(d)' = "nothing" THEN 2 * k + 1
                     ELSE 2 * k + 2
      BY <1>1, <2>4 DEF Owed
    <3>. HIDE DEF k
    <3>. QED  BY <1>2, <1>3, <1>4, <1>5, <1>7, <2>1, <3>1, <3>2 DEF k, Relation
  <2>. QED  BY <2>2, <2>3, <2>4 DEF Asking
<1>. QED  BY <1>6, <1>7

\* AddFriend's own steps change nothing until it returns, but find things out.
LEMMA CountedWhenCalling ==
    ASSUME HistoryInv, IInv', NEW c \in Clients, Acts(c), Watch(c)
    PROVE  CountedOf(c)'
<1>. USE DEF Waiting
<1>0. TypeOK /\ IInv /\ CountedOf(c) /\ AsksOther /\ call[c] \in Call
  BY DEF HistoryInv, IInv, Counted, TypeOK
<1>a. ASSUME call'[c].pc \notin Asking \cup {"resolve"}
      PROVE  CountedOf(c)'
  BY <1>a DEF CountedOf
<1>b. ASSUME NEW reply, Return(c, reply)
      PROVE  CountedOf(c)'
  <2>1. call'[c].pc = "idle"
    BY <1>0, <1>b, ReturnMoves
  <2>. QED  BY <1>a, <2>1 DEF Asking
<1>c. ASSUME NEW pc \in PC \ (Asking \cup {"resolve"}), Goto(c, pc)
      PROVE  CountedOf(c)'
  <2>1. call'[c].pc = pc
    BY <1>0, <1>c, GotoMoves
  <2>. QED  BY <1>a, <2>1
<1>d. /\ call[c].pc \notin {"idle", "resolve"} =>
            call[c].uid \in Users /\ call[c].target \in Users
      /\ call[c].attempt \in Nat
      /\ changes[c] \in Nat /\ changes[c] <= MaxChanges
  BY <1>0, FriendsAssumption DEF TypeOK, Call
\* Where AddFriend goes on and no table changes, the count stays.
<1>e. ASSUME call[c].pc # "idle", call'[c].pc # "idle", UNCHANGED Tables,
             call'[c].uid = call[c].uid, call'[c].target = call[c].target
      PROVE  BetweenOf(c)' = BetweenOf(c) /\ changes'[c] = changes[c]
  <2>1. BetweenOf(c)' = BetweenOf(c)
    BY <1>e DEF BetweenOf, Between, Tables
  <2>. QED  BY <1>e, <2>1, Watched
<1>1. CASE \E ask \in Calls : Begin(c, ask)
  <2>1. call'[c].pc = "resolve" /\ call'[c].attempt = 0
    BY <1>0, <1>1 DEF Begin, TypeOK
  <2>. QED  BY <2>1 DEF CountedOf, Asking
<1>2. CASE Resolve(c)
  <2>1. CASE Goto(c, "insert")
    <3>1. /\ call'[c].pc = "insert" /\ call'[c].attempt = 0
          /\ call'[c].uid = call[c].uid /\ call'[c].target = call[c].target
      BY <1>0, <1>2, <2>1 DEF Goto, TypeOK, Call, CountedOf, Resolve
    <3>2. changes'[c] = changes[c]
      BY <1>2, <1>e, <3>1 DEF Resolve, Tables
    <3>3. Owed(c)' = IF BetweenOf(c)' = "nothing" THEN 2 * 0 - 1 ELSE 2 * 0
      BY <3>1 DEF Owed
    <3>. QED  BY <1>d, <3>1, <3>2, <3>3 DEF CountedOf
  <2>2. CASE Goto(c, "remove") \/ Goto(c, "look")
    BY <1>c, <2>2 DEF PC, Asking
  <2>3. CASE \E reply : Return(c, reply)
    BY <1>b, <2>3
  <2>. QED  BY <1>2, <2>1, <2>2, <2>3 DEF Resolve
<1>3. CASE InsertRequest(c)
  <2>1. CASE Return(c, "ok")
    BY <1>b, <2>1
  <2>2. CASE /\ ~ MayAsk(call[c].uid, call[c].target)
             /\ Goto(c, "sender") /\ UNCHANGED Tables
    <3>1. BetweenOf(c) # "nothing"
      BY <1>0, <1>3, <1>d, <2>2, BetweenCases DEF MayAsk, InsertRequest, BetweenOf
    <3>2. /\ call'[c].pc = "sender" /\ call'[c].attempt = call[c].attempt
          /\ call'[c].uid = call[c].uid /\ call'[c].target = call[c].target
      BY <1>0, <2>2 DEF Goto, TypeOK, Call
    <3>3. BetweenOf(c)' = BetweenOf(c) /\ changes'[c] = changes[c]
      BY <1>3, <1>e, <2>2, <3>2 DEF InsertRequest
    <3>4. Owed(c) = 2 * call[c].attempt
      BY <1>3, <3>1 DEF Owed, InsertRequest
    <3>5. Owed(c)' = 2 * call[c].attempt
      BY <3>1, <3>2, <3>3 DEF Owed
    <3>6. call[c].pc \in Asking
      BY <1>3 DEF InsertRequest, Asking
    <3>. QED  BY <1>0, <3>2, <3>3, <3>4, <3>5, <3>6 DEF CountedOf
  <2>. QED  BY <1>3, <2>1, <2>2 DEF InsertRequest, Tables
<1>4. CASE FindSender(c)
  <2>1. CASE Return(c, "sent") \/ Return(c, "received")
    BY <1>b, <2>1
  <2>2. CASE /\ <<call[c].uid, call[c].target>> \notin asked
             /\ <<call[c].target, call[c].uid>> \notin asked
             /\ Goto(c, "check")
    <3>1. BetweenOf(c) \in {"nothing", "friends"}
      BY <2>2 DEF BetweenOf, Between
    <3>2. /\ call'[c].pc = "check" /\ call'[c].attempt = call[c].attempt
          /\ call'[c].uid = call[c].uid /\ call'[c].target = call[c].target
      BY <1>0, <2>2 DEF Goto, TypeOK, Call
    <3>3. BetweenOf(c)' = BetweenOf(c) /\ changes'[c] = changes[c]
      BY <1>4, <1>e, <2>2, <3>2 DEF FindSender
    <3>4. Owed(c)' = Owed(c)
      BY <1>4, <3>1, <3>2, <3>3 DEF Owed, FindSender
    <3>5. call[c].pc \in Asking
      BY <1>4 DEF FindSender, Asking
    <3>. QED  BY <1>0, <3>2, <3>3, <3>4, <3>5 DEF CountedOf
  <2>. QED  BY <1>4, <2>1, <2>2 DEF FindSender
<1>5. CASE FindFriendship(c)
  <2>1. CASE Return(c, "friends") \/ Return(c, "busy")
    BY <1>b, <2>1
  <2>2. CASE /\ {call[c].uid, call[c].target} \notin friends
             /\ call' = [call EXCEPT ![c].pc = "insert", ![c].attempt = @ + 1]
    <3>1. BetweenOf(c) # "friends"
      BY <2>2 DEF BetweenOf, Between
    <3>2. /\ call'[c].pc = "insert" /\ call'[c].attempt = call[c].attempt + 1
          /\ call'[c].uid = call[c].uid /\ call'[c].target = call[c].target
      BY <1>0, <2>2 DEF TypeOK, Call
    <3>3. BetweenOf(c)' = BetweenOf(c) /\ changes'[c] = changes[c]
      BY <1>5, <1>e, <2>2, <3>2 DEF FindFriendship
    <3>. DEFINE k == call[c].attempt
    <3>4. Owed(c) = IF BetweenOf(c) = "nothing" THEN 2 * k + 1 ELSE 2 * k + 2
      BY <1>5, <3>1 DEF Owed, FindFriendship
    <3>5. Owed(c)' = IF BetweenOf(c) = "nothing" THEN 2 * (k + 1) - 1
                     ELSE 2 * (k + 1)
      BY <3>2, <3>3 DEF Owed
    <3>6. Owed(c)' = Owed(c)
      BY <1>d, <3>4, <3>5
    <3>7. call[c].pc \in Asking
      BY <1>5 DEF FindFriendship, Asking
    <3>. QED  BY <1>0, <3>2, <3>3, <3>6, <3>7 DEF CountedOf
  <2>. QED  BY <1>5, <2>1, <2>2 DEF FindFriendship, NextAttempt
<1>6. CASE LookForRequest(c)
  <2>1. \/ \E reply : Return(c, reply)
        \/ Goto(c, "accept") \/ Goto(c, "delete")
    BY <1>6 DEF LookForRequest
  <2>. QED  BY <1>b, <1>c, <2>1 DEF PC, Asking
<1>7. CASE DeleteRequest(c) \/ CommitAccept(c) \/ RemoveFriendship(c)
           \/ Busy(c) \/ Fault(c)
  BY <1>7, <1>b DEF DeleteRequest, CommitAccept, RemoveFriendship, Busy, Fault
<1>8. CASE BeginAccept(c)
  <2>1. (\E reply : Return(c, reply)) \/ Goto(c, "create")
    BY <1>8 DEF BeginAccept
  <2>. QED  BY <1>b, <1>c, <2>1 DEF PC, Asking
<1>. QED  BY <1>1, <1>2, <1>3, <1>4, <1>5, <1>6, <1>7, <1>8 DEF Acts, Move

-----------------------------------------------------------------------------
(* Refinement.                                                             *)

\* The wishes of Consent.
Wants == asked \cup {p \in Users \X Users : p[1] # p[2] /\ {p[1], p[2]} \in friends}

\* A pair is wished for by a request or by both friends.
LEMMA WantsPair ==
    ASSUME NEW u \in Users, NEW v \in Users
    PROVE  <<u, v>> \in Wants <=>
               <<u, v>> \in asked \/ (u # v /\ {u, v} \in friends)
  BY DEF Wants

\* Every change of the tables is a wish or a parting of the caller.
LEMMA ChangeIsConsented ==
    ASSUME IInv, NEW c \in Clients,
           Move(c) \/ Fault(c), Tables' # Tables
    PROVE  /\ call[c].uid \in Users /\ call[c].target \in Users
           /\ LET u == call[c].uid
                  v == call[c].target
              IN  \/ /\ u # v /\ <<u, v>> \notin Wants
                     /\ Wants' = Wants \cup {<<u, v>>}
                  \/ /\ {<<u, v>>, <<v, u>>} \cap Wants # {}
                     /\ Wants' = Wants \ {<<u, v>>, <<v, u>>}
<1> DEFINE u == call[c].uid
           v == call[c].target
<1> USE DEF Waiting, Tables, IInv
<1>1. CASE InsertRequest(c) /\ MayAsk(u, v)
  <2>1. /\ u \in Users /\ v \in Users /\ u # v
    BY <1>1 DEF InsertRequest, TypeOK, AsksOther
  <2>2. asked' = asked \cup {<<u, v>>} /\ friends' = friends
    BY <1>1 DEF InsertRequest
  <2>3. <<u, v>> \notin Wants
    BY <1>1, <2>1, WantsPair DEF MayAsk, HasRequest
  <2>4. Wants' = Wants \cup {<<u, v>>}
    BY <2>2 DEF Wants
  <2> QED
    BY <2>1, <2>3, <2>4
<1>2. CASE DeleteRequest(c) /\ Matches(c) # {}
  <2>1. /\ u \in Users /\ v \in Users
    BY <1>2 DEF DeleteRequest, TypeOK
  <2>2. asked' = asked \ {<<Sender(c), Recipient(c)>>} /\ friends' = friends
        /\ <<Sender(c), Recipient(c)>> \in asked
    BY <1>2 DEF DeleteRequest, Matches
  <2>3. \/ Sender(c) = u /\ Recipient(c) = v
        \/ Sender(c) = v /\ Recipient(c) = u
    BY DEF Sender, Recipient
  <2>4. {u, v} \notin friends /\ u # v
        /\ ~ (<<u, v>> \in asked /\ <<v, u>> \in asked)
    <3>1. CASE <<u, v>> \in asked
      <4>1. {u, v} \notin friends
        BY <3>1 DEF NeverBoth
      <4> QED
        BY <2>1, <3>1, <4>1 DEF Decent
    <3>2. CASE <<v, u>> \in asked
      <4>1. {v, u} \notin friends
        BY <3>2 DEF NeverBoth
      <4>2. {u, v} = {v, u}
        OBVIOUS
      <4> QED
        BY <2>1, <3>2, <4>1, <4>2 DEF Decent
    <3> QED
      BY <2>2, <2>3, <3>1, <3>2
  <2>5. asked' = asked \ {<<u, v>>, <<v, u>>}
    BY <2>2, <2>3, <2>4
  <2>6. {v, u} = {u, v}
    OBVIOUS
  <2>7. {<<u, v>>, <<v, u>>} \cap asked # {}
    BY <2>2, <2>3
  <2>8. {p \in Users \X Users : p[1] # p[2] /\ {p[1], p[2]} \in friends}
          \cap {<<u, v>>, <<v, u>>} = {}
    BY <2>4, <2>6
  <2>9. Wants' = Wants \ {<<u, v>>, <<v, u>>}
    BY <2>2, <2>5, <2>8 DEF Wants
  <2> QED
    BY <2>1, <2>7, <2>9 DEF Wants
<1>3. CASE CommitAccept(c)
  <2>1. /\ u \in Users /\ v \in Users
    BY <1>3 DEF CommitAccept, TypeOK
  <2>2. /\ asked' = asked \ {<<v, u>>} /\ friends' = friends \cup {{u, v}}
        /\ <<v, u>> \in asked
    BY <1>3 DEF CommitAccept, Matches, Sender, Recipient, LockOfAccept
  <2>3. u # v /\ <<u, v>> \notin asked
    BY <2>1, <2>2 DEF Decent
  <2>4. {u, v} \notin friends
    <3>1. {v, u} \notin friends
      BY <2>2 DEF NeverBoth
    <3>2. {u, v} = {v, u}
      OBVIOUS
    <3> QED
      BY <3>1, <3>2
  <2>5. <<u, v>> \notin Wants
    BY <2>1, <2>3, <2>4, WantsPair
  <2>6. ASSUME NEW x \in Users, NEW y \in Users, x # y
        PROVE  {x, y} \in friends' <=>
                   {x, y} \in friends \/ <<x, y>> = <<u, v>> \/ <<x, y>> = <<v, u>>
    BY <2>2, <2>6
  <2>7. {p \in Users \X Users : p[1] # p[2] /\ {p[1], p[2]} \in friends}'
          = {p \in Users \X Users : p[1] # p[2] /\ {p[1], p[2]} \in friends}
                \cup {<<u, v>>, <<v, u>>}
    BY <2>1, <2>3, <2>6
  <2>8. Wants' = Wants \cup {<<u, v>>}
    BY <2>2, <2>7 DEF Wants
  <2> QED
    BY <2>1, <2>3, <2>5, <2>8
<1>4. CASE RemoveFriendship(c)
  <2>1. /\ u \in Users /\ v \in Users
    BY <1>4 DEF RemoveFriendship, TypeOK
  <2>2. /\ asked' = asked /\ friends' = friends \ {{u, v}}
        /\ {u, v} \in friends
    BY <1>4 DEF RemoveFriendship
  <2>3. u # v
    <3>1. {u} \notin friends
      BY <2>1 DEF Decent
    <3> QED
      BY <2>2, <3>1
  <2>4. <<u, v>> \notin asked /\ <<v, u>> \notin asked
    <3>1. {v, u} = {u, v}
      OBVIOUS
    <3> QED
      BY <2>2, <3>1 DEF NeverBoth
  <2>5. ASSUME NEW x \in Users, NEW y \in Users
        PROVE  {x, y} \in friends' <=>
                   {x, y} \in friends /\ <<x, y>> # <<u, v>> /\ <<x, y>> # <<v, u>>
    BY <2>2
  <2>6. {p \in Users \X Users : p[1] # p[2] /\ {p[1], p[2]} \in friends}'
          = {p \in Users \X Users : p[1] # p[2] /\ {p[1], p[2]} \in friends}
                \ {<<u, v>>, <<v, u>>}
    BY <2>5
  <2>7. Wants' = Wants \ {<<u, v>>, <<v, u>>}
    BY <2>2, <2>4, <2>6 DEF Wants
  <2>8. <<u, v>> \in Wants
    BY <2>1, <2>2, <2>3, WantsPair
  <2> QED
    BY <2>1, <2>7, <2>8
<1> QED
  BY <1>1, <1>2, <1>3, <1>4
     DEF Move, Fault, Resolve, InsertRequest, FindSender, FindFriendship, LookForRequest,
         DeleteRequest, BeginAccept, Busy

\* A step is a wish, a parting, or changes nothing that Consent speaks of.
LEMMA StepImplements ==
    ASSUME IInv, NEW c \in Clients, Watch(c),
           (\E ask \in Calls : Begin(c, ask)) \/ Move(c) \/ Fault(c)
    PROVE  \/ \E u, v \in Users : ConsentKept!Wish(u, v) \/ ConsentKept!Part(u, v)
           \/ UNCHANGED <<Wants, actor>>
<1>1. CASE Tables' = Tables
  <2>1. actor' = actor
    BY <1>1 DEF Watch
  <2>2. Wants' = Wants
    BY <1>1 DEF Wants, Tables
  <2> QED
    BY <2>1, <2>2
<1>2. CASE Tables' # Tables
  <2>1. Move(c) \/ Fault(c)
    BY <1>2 DEF Begin
  <2>2. actor' = call[c].uid
    BY <1>2 DEF Watch
  <2>3. PICK u \in Users, v \in Users :
           /\ u = call[c].uid
           /\ \/ /\ u # v /\ <<u, v>> \notin Wants
                 /\ Wants' = Wants \cup {<<u, v>>}
              \/ /\ {<<u, v>>, <<v, u>>} \cap Wants # {}
                 /\ Wants' = Wants \ {<<u, v>>, <<v, u>>}
    BY <1>2, <2>1, ChangeIsConsented
  <2>4. ConsentKept!Wish(u, v) \/ ConsentKept!Part(u, v)
    BY <2>2, <2>3 DEF ConsentKept!Wish, ConsentKept!Part, Wants
  <2> QED
    BY <2>4
<1> QED
  BY <1>1, <1>2

-----------------------------------------------------------------------------
(* The theorems.                                                           *)

LEMMA InvInit == Init => IInv
<1> SUFFICES ASSUME Init PROVE IInv
  OBVIOUS
<1>1. Idle \in Call
  BY FriendsAssumption DEF Idle, Call, PC, Op, Reply
<1>2. TypeOK
  BY <1>1, FriendsAssumption DEF Init, TypeOK, Idle
<1>3. AsksOther /\ LockOfAccept
  BY FriendsAssumption DEF Init, AsksOther, LockOfAccept, Idle
<1>4. Decent /\ NeverBoth
  BY DEF Init, Decent, NeverBoth
<1> QED
  BY <1>2, <1>3, <1>4 DEF IInv

LEMMA InvNext == IInv /\ [Next]_vars => IInv'
<1> SUFFICES ASSUME IInv, [Next]_vars PROVE IInv'
  OBVIOUS
<1>1. CASE Next
  <2>1. PICK c \in Clients :
           Watch(c) /\ ((\E ask \in Calls : Begin(c, ask)) \/ Move(c) \/ Fault(c))
    BY <1>1 DEF Next, Step
  <2>2. TypeOK'
    BY <2>1, TypeNext DEF IInv
  <2>3. AsksOther' /\ LockOfAccept' /\ Decent' /\ NeverBoth'
    BY <2>1, SafeNext
  <2> QED
    BY <2>2, <2>3 DEF IInv
<1>2. CASE UNCHANGED vars
  BY <1>2 DEF vars, IInv, TypeOK, AsksOther, LockOfAccept, Decent, NeverBoth
<1> QED
  BY <1>1, <1>2

LEMMA InvHolds == Spec => []IInv
  BY InvInit, InvNext, PTL DEF Spec

\* A step is somebody's, and is watched.
LEMMA SomebodyActs ==
    ASSUME Next
    PROVE  \E c \in Clients : Acts(c) /\ Watch(c)
BY DEF Next, Step, Acts

LEMMA HistoryInit == Init => HistoryInv
<1>. SUFFICES ASSUME Init PROVE HistoryInv
  OBVIOUS
<1>1. SawNow /\ Counted
  BY DEF Init, Idle, SawNow, Counted, CountedOf, Asking
<1>. QED  BY <1>1, InvInit DEF HistoryInv

LEMMA HistoryNext == HistoryInv /\ [Next]_vars => HistoryInv'
<1>. SUFFICES ASSUME HistoryInv, [Next]_vars PROVE HistoryInv'
  OBVIOUS
<1>1. IInv'
  BY InvNext DEF HistoryInv
<1>2. CASE Next
  <2>1. PICK c \in Clients : Acts(c) /\ Watch(c)
    BY <1>2, SomebodyActs
  <2>2. Counted'
    BY <1>1, <2>1, CountedWhenOthersMove, CountedWhenCalling DEF Counted
  <2>. QED  BY <1>1, <2>1, <2>2, SawNext DEF HistoryInv
<1>3. CASE UNCHANGED vars
  BY <1>1, <1>3 DEF vars, HistoryInv, SawNow, BetweenOf, Between, Counted,
                    CountedOf, Owed
<1>. QED  BY <1>2, <1>3

\* What a call is told it has found.
LEMMA AnswersOf ==
    ASSUME HistoryInv, NEW c \in Clients, Acts(c), call[c].pc # "idle",
           call'[c].pc = "idle"
    PROVE  WasTrue(c, call'[c].reply)
<1>. USE DEF Waiting
<1>0. TypeOK /\ IInv /\ CountedOf(c) /\ call[c] \in Call
      /\ BetweenOf(c) \in saw[c]
  BY DEF HistoryInv, IInv, Counted, TypeOK, SawNow
<1>a. ASSUME NEW reply, Return(c, reply)
      PROVE  call'[c].reply = reply
  BY <1>0, <1>a DEF Return, Idle, TypeOK
<1>b. ASSUME NEW pc, Goto(c, pc)
      PROVE  pc = "idle"
  BY <1>0, <1>b, GotoMoves
<1>. DEFINE u == call[c].uid
            v == call[c].target
<1>c. call[c].pc \notin {"idle", "resolve"} => u \in Users /\ v \in Users
  BY <1>0 DEF TypeOK
<1>d. call[c].pc \notin {"idle", "resolve"} =>
         /\ BetweenOf(c) = "friends" <=> {u, v} \in friends
         /\ BetweenOf(c) = "sent" <=> <<u, v>> \in asked
         /\ BetweenOf(c) = "received" <=> <<v, u>> \in asked
  BY <1>0, <1>c, BetweenCases DEF BetweenOf
\* The answers that say nothing of the two users.
<1>e. ASSUME NEW reply \in {"ok", "error", "unknown", "self"}, Return(c, reply)
      PROVE  WasTrue(c, call'[c].reply)
  BY <1>a, <1>e DEF WasTrue
<1>f. ASSUME Matches(c) = {}, call[c].pc \notin {"idle", "resolve"}
      PROVE  BetweenOf(c) # (IF call[c].op = "cancel" THEN "sent" ELSE "received")
  BY <1>d, <1>f DEF Matches, Sender, Recipient
<1>1. CASE Resolve(c)
  <2>1. Return(c, "unknown") \/ Return(c, "self")
    BY <1>1, <1>b DEF Resolve
  <2>. QED  BY <1>e, <2>1
<1>2. CASE InsertRequest(c)
  <2>1. Return(c, "ok")
    BY <1>2, <1>b DEF InsertRequest
  <2>. QED  BY <1>e, <2>1
<1>3. CASE FindSender(c)
  <2>1. \/ <<u, v>> \in asked /\ Return(c, "sent")
        \/ <<v, u>> \in asked /\ Return(c, "received")
    BY <1>3, <1>b DEF FindSender
  <2>2. \/ call'[c].reply = "sent" /\ BetweenOf(c) = "sent"
        \/ call'[c].reply = "received" /\ BetweenOf(c) = "received"
    BY <1>3, <1>a, <1>d, <2>1 DEF FindSender
  <2>. QED  BY <1>0, <2>2 DEF WasTrue
<1>4. CASE FindFriendship(c)
  <2>1. CASE {u, v} \in friends /\ Return(c, "friends")
    <3>1. call'[c].reply = "friends" /\ BetweenOf(c) = "friends"
      BY <1>4, <1>a, <1>d, <2>1 DEF FindFriendship
    <3>. QED  BY <1>0, <3>1 DEF WasTrue
  <2>2. CASE {u, v} \notin friends /\ LastAttempt(c) /\ Return(c, "busy")
    <3>1. BetweenOf(c) # "friends"
      BY <1>4, <1>d, <2>2 DEF FindFriendship
    <3>2. call[c].attempt + 1 = MaxAttempts /\ call[c].attempt \in Nat
      BY <1>0, <2>2 DEF LastAttempt, Call
    <3>3. Owed(c) >= 2 * call[c].attempt + 1
      BY <1>4, <3>1, <3>2 DEF Owed, FindFriendship
    <3>4. /\ Owed(c) \in Int /\ changes[c] \in Int
          /\ changes[c] = MaxChanges \/ changes[c] >= Owed(c)
      <4>1. Owed(c) \in {2 * call[c].attempt + 1, 2 * call[c].attempt + 2}
        BY <1>4, <3>1 DEF Owed, FindFriendship
      <4>. QED  BY <1>0, <1>4, <3>2, <4>1, FriendsAssumption
                DEF CountedOf, Asking, FindFriendship, TypeOK
    <3>5. changes[c] >= 2 * MaxAttempts - 1
      BY <3>2, <3>3, <3>4, FriendsAssumption
    <3>6. call'[c].reply = "busy"
      BY <1>a, <2>2
    <3>. QED  BY <3>5, <3>6 DEF WasTrue
  <2>3. CASE call' = [call EXCEPT ![c].pc = "insert", ![c].attempt = @ + 1]
    <3>1. call'[c].pc = "insert"
      BY <1>0, <2>3 DEF TypeOK, Call
    <3>. QED  BY <3>1
  <2>. QED  BY <1>4, <2>1, <2>2, <2>3 DEF FindFriendship, NextAttempt
<1>5. CASE LookForRequest(c)
  <2>1. CASE <<Recipient(c), Sender(c)>> \in asked /\ Return(c, "forbidden")
    <3>1. call'[c].reply = "forbidden"
      BY <1>a, <2>1
    <3>2. BetweenOf(c) = IF call[c].op = "cancel" THEN "received" ELSE "sent"
      BY <1>5, <1>d, <2>1 DEF LookForRequest, Sender, Recipient
    <3>. QED  BY <1>0, <3>1, <3>2 DEF WasTrue
  <2>2. CASE <<Sender(c), Recipient(c)>> \notin asked /\ Return(c, "not_found")
    <3>1. call'[c].reply = "not_found"
      BY <1>a, <2>2
    <3>2. BetweenOf(c) # (IF call[c].op = "cancel" THEN "sent" ELSE "received")
      BY <1>5, <1>f, <2>2 DEF LookForRequest, Matches
    <3>. QED  BY <1>0, <3>1, <3>2 DEF WasTrue
  <2>. QED  BY <1>5, <1>b, <2>1, <2>2 DEF LookForRequest
<1>6. CASE DeleteRequest(c) \/ BeginAccept(c)
  <2>1. CASE Return(c, "ok")
    BY <1>e, <2>1
  <2>2. CASE Matches(c) = {} /\ Return(c, "not_found")
    <3>1. call'[c].reply = "not_found"
      BY <1>a, <2>2
    <3>2. BetweenOf(c) # (IF call[c].op = "cancel" THEN "sent" ELSE "received")
      BY <1>6, <1>f, <2>2 DEF DeleteRequest, BeginAccept
    <3>. QED  BY <1>0, <3>1, <3>2 DEF WasTrue
  <2>. QED  BY <1>6, <1>b, <2>1, <2>2 DEF DeleteRequest, BeginAccept
<1>7. CASE CommitAccept(c) \/ RemoveFriendship(c) \/ Busy(c) \/ Fault(c)
  <2>1. Return(c, "ok") \/ Return(c, "error")
    BY <1>7 DEF CommitAccept, RemoveFriendship, Busy, Fault
  <2>. QED  BY <1>e, <2>1
<1>. QED  BY <1>1, <1>2, <1>3, <1>4, <1>5, <1>6, <1>7 DEF Acts, Move, Begin

LEMMA HistoryHolds == Spec => []HistoryInv
  BY HistoryInit, HistoryNext, PTL DEF Spec

\* Type correctness; the lock is somebody's transaction, and no call makes more
\* attempts than the code allows.
THEOREM TypesHold == Spec => []TypeOK
<1>1. IInv => TypeOK
  BY DEF IInv
<1> QED
  BY InvHolds, <1>1, PTL

\* Two users are never friends with a request between them, whatever calls of
\* both are interleaved between the SELECT and the write of each.
THEOREM FriendsHaveNoRequest == Spec => []NeverBoth
<1>1. IInv => NeverBoth
  BY DEF IInv
<1> QED
  BY InvHolds, <1>1, PTL

\* Requests and friendships implement Consent: every change of the tables is
\* exactly what one of the two users asked for by a call of his own.
THEOREM FriendsImplementConsent == Spec => FriendsByConsent
<1>1. Init => ConsentKept!Start
  BY DEF Init, ConsentKept!Start
<1>2. IInv /\ [Next]_vars =>
        [\E u, v \in Users : ConsentKept!Wish(u, v) \/ ConsentKept!Part(u, v)]_<<Wants, actor>>
  <2> SUFFICES ASSUME IInv, [Next]_vars
               PROVE  \/ \E u, v \in Users : ConsentKept!Wish(u, v) \/ ConsentKept!Part(u, v)
                      \/ UNCHANGED <<Wants, actor>>
    OBVIOUS
  <2>1. CASE Next
    <3>1. PICK c \in Clients :
             Watch(c) /\ ((\E ask \in Calls : Begin(c, ask)) \/ Move(c) \/ Fault(c))
      BY <2>1 DEF Next, Step
    <3> QED
      BY <3>1, StepImplements
  <2>2. CASE UNCHANGED vars
    BY <2>2 DEF vars, Wants
  <2> QED
    BY <2>1, <2>2
<1> QED
  BY <1>1, <1>2, InvHolds, PTL DEF Spec, FriendsByConsent, ConsentKept!Spec, Wants

\* What a call is told was the case at some time while it ran, whatever the calls
\* of both users did between its statements; and AddFriend gives up only when
\* things changed under its hands twice per attempt but the last.
THEOREM AnswersAreTrue == Spec => AnswersWereTrue
<1>1. HistoryInv /\ [Next]_vars =>
        [\A c \in Clients :
           ~ Waiting(c, "idle") /\ Waiting(c, "idle")' =>
              WasTrue(c, call'[c].reply)]_vars
  <2>. SUFFICES ASSUME HistoryInv, Next, NEW c \in Clients,
                       call[c].pc # "idle", call'[c].pc = "idle"
                PROVE  WasTrue(c, call'[c].reply)
    BY DEF Waiting
  <2>1. PICK d \in Clients : Acts(d)
    BY SomebodyActs
  <2>2. d = c
    BY <2>1, OthersStay DEF HistoryInv, IInv
  <2>. QED  BY <2>1, <2>2, AnswersOf
<1>. QED  BY HistoryHolds, <1>1, PTL DEF Spec, AnswersWereTrue

=============================================================================
