------------------------------- MODULE Friends -------------------------------
(***************************************************************************)
(* Friend requests and friendships: AddFriend, AcceptRequest,               *)
(* DeclineRequest, CancelRequest and RemoveFriend.                          *)
(*                                                                         *)
(* A call finds out by one or more SELECTs what there is between the two    *)
(* users and changes it in a later statement; the calls of both users, and  *)
(* of several clients of one, interleave between any two statements.        *)
(* AcceptFriendRequest is a transaction of two writes: it has the write     *)
(* lock of the database from the first to the commit, and its DELETE shows  *)
(* together with its INSERT.                                                *)
(***************************************************************************)
EXTENDS Integers, FiniteSets

CONSTANTS
    Users,
    None,           \* no such user, nobody
    Calls,          \* what they may ask for
    Clients,        \* bound: the calls under way at a time
    MaxAttempts,    \* of AddFriend
    MaxFaults,      \* bound on failing statements
    MaxChanges      \* where the history stops counting changes

Op == {"add", "accept", "decline", "cancel", "remove"}

ASSUME FriendsAssumption ==
    /\ Calls \subseteq [op: Op, uid: Users, target: Users \cup {None}]
    /\ None \notin Users \cup Clients
    /\ MaxAttempts \in Nat \ {0}
    /\ MaxFaults \in Nat
    /\ MaxChanges \in Nat /\ MaxChanges >= 2 * MaxAttempts - 1

VARIABLES
    asked,      \* friend_requests: pairs of sender and recipient
    friends,    \* friendships: sets of two users
    lock,       \* the client whose transaction holds the write lock
    call,       \* the handlers' local state
    faults,
    \* History, read by no action:
    actor,      \* the user whose call changed the tables last
    saw,        \* per call, what there was between the two users since it began
    changes     \* per call, how often that has changed

vars == <<asked, friends, lock, call, faults, actor, saw, changes>>

-----------------------------------------------------------------------------

PC == {"idle", "resolve", "insert", "sender", "check", "look", "delete",
       "accept", "create", "remove"}

Reply == {"none", "ok", "error", "unknown", "self", "sent", "received",
          "friends", "busy", "not_found", "forbidden"}

Call == [pc: PC, op: Op, uid: Users \cup {None}, target: Users \cup {None},
         attempt: Nat, reply: Reply]

\* What there may be between a user and another one.
Relation == {"nothing", "sent", "received", "friends"}

TypeOK ==
    /\ asked \subseteq Users \X Users
    /\ friends \subseteq SUBSET Users
    /\ lock \in Clients \cup {None}
    /\ call \in [Clients -> Call]
    /\ \A c \in Clients :
           /\ call[c].attempt < MaxAttempts
           /\ (call[c].pc # "idle" => call[c].uid \in Users)
           /\ (call[c].pc \notin {"idle", "resolve"} => call[c].target \in Users)
    /\ faults \in Nat
    /\ actor \in Users \cup {None}
    /\ saw \in [Clients -> SUBSET Relation]
    /\ changes \in [Clients -> 0 .. MaxChanges]

Between(u, v) ==
    IF {u, v} \in friends THEN "friends"
    ELSE IF <<u, v>> \in asked THEN "sent"
    ELSE IF <<v, u>> \in asked THEN "received"
    ELSE "nothing"

Idle == [pc |-> "idle", op |-> "add", uid |-> None, target |-> None,
         attempt |-> 0, reply |-> "none"]

Init ==
    /\ asked = {}
    /\ friends = {}
    /\ lock = None
    /\ call = [c \in Clients |-> Idle]
    /\ faults = 0
    /\ actor = None
    /\ saw = [c \in Clients |-> {}]
    /\ changes = [c \in Clients |-> 0]

-----------------------------------------------------------------------------
(* The statements.                                                         *)

Waiting(c, pc) == call[c].pc = pc

Goto(c, pc) == call' = [call EXCEPT ![c].pc = pc]

Return(c, reply) == call' = [call EXCEPT ![c] = [Idle EXCEPT !.reply = reply]]

HasRequest(u, v) == <<u, v>> \in asked \/ <<v, u>> \in asked

Tables == <<asked, friends>>

Begin(c, ask) ==
    /\ Waiting(c, "idle")
    /\ call' = [call EXCEPT ![c] =
                  [pc |-> "resolve", op |-> ask.op, uid |-> ask.uid,
                   target |-> ask.target, attempt |-> 0, reply |-> "none"]]
    /\ UNCHANGED <<Tables, lock, faults>>

\* getTargetUserID and the comparison with the caller.
Resolve(c) ==
    /\ Waiting(c, "resolve")
    /\ IF call[c].target = None THEN Return(c, "unknown")
       ELSE IF call[c].op = "add"
            THEN IF call[c].target = call[c].uid THEN Return(c, "self")
                 ELSE Goto(c, "insert")
       ELSE Goto(c, IF call[c].op = "remove" THEN "remove" ELSE "look")
    /\ UNCHANGED <<Tables, lock, faults>>

-----------------------------------------------------------------------------
(* AddFriend.                                                              *)

\* A plausible bug: INSERT does not look at friendships.
MayAskAnyone(u, v) == ~ HasRequest(u, v)

MayAsk(u, v) == ~ HasRequest(u, v) /\ {u, v} \notin friends

\* INSERT INTO friend_requests ... WHERE NOT EXISTS; the primary key of the
\* table is the pair.
InsertRequest(c) ==
    LET u == call[c].uid
        v == call[c].target
    IN  /\ Waiting(c, "insert")
        /\ lock = None
        /\ UNCHANGED <<friends, lock, faults>>
        /\ IF MayAsk(u, v)
           THEN /\ asked' = asked \cup {<<u, v>>}
                /\ Return(c, "ok")
           ELSE /\ Goto(c, "sender")
                /\ UNCHANGED asked

\* GetFriendRequestSender, for the reason.
FindSender(c) ==
    LET u == call[c].uid
        v == call[c].target
    IN  /\ Waiting(c, "sender")
        /\ IF <<u, v>> \in asked THEN Return(c, "sent")
           ELSE IF <<v, u>> \in asked THEN Return(c, "received")
           ELSE Goto(c, "check")
        /\ UNCHANGED <<Tables, lock, faults>>

\* Plausible bugs: one attempt too many, or too few.
OneAttemptMore(c) == call[c].attempt = MaxAttempts

OneAttemptLess(c) == call[c].attempt + 2 >= MaxAttempts

LastAttempt(c) == call[c].attempt + 1 = MaxAttempts

\* A plausible bug: attempts are not counted.
SameAttempt(attempt) == attempt

NextAttempt(attempt) == attempt + 1

\* CheckFriendship, and the next attempt if that is not the reason either.
FindFriendship(c) ==
    /\ Waiting(c, "check")
    /\ IF {call[c].uid, call[c].target} \in friends THEN Return(c, "friends")
       ELSE IF LastAttempt(c) THEN Return(c, "busy")
       ELSE call' = [call EXCEPT ![c].pc = "insert",
                                 ![c].attempt = NextAttempt(@)]
    /\ UNCHANGED <<Tables, lock, faults>>

-----------------------------------------------------------------------------
(* AcceptRequest, DeclineRequest, CancelRequest, RemoveFriend.              *)

\* Who has to have sent the request.
Sender(c) == IF call[c].op = "cancel" THEN call[c].uid ELSE call[c].target

Recipient(c) == IF call[c].op = "cancel" THEN call[c].target ELSE call[c].uid

LookForRequest(c) ==
    /\ Waiting(c, "look")
    /\ IF <<Sender(c), Recipient(c)>> \in asked
       THEN Goto(c, IF call[c].op = "accept" THEN "accept" ELSE "delete")
       ELSE IF <<Recipient(c), Sender(c)>> \in asked THEN Return(c, "forbidden")
       ELSE Return(c, "not_found")
    /\ UNCHANGED <<Tables, lock, faults>>

\* DELETE ... AND sender_id = ?, of which the second statement sees whether it
\* found a row.  A plausible bug: without sender_id.
MatchesPair(c) ==
    {<<Sender(c), Recipient(c)>>, <<Recipient(c), Sender(c)>>} \cap asked

Matches(c) == {<<Sender(c), Recipient(c)>>} \cap asked

\* DeclineFriendRequest and CancelFriendRequest.
DeleteRequest(c) ==
    /\ Waiting(c, "delete")
    /\ lock = None
    /\ UNCHANGED <<friends, lock, faults>>
    /\ IF Matches(c) # {}
       THEN /\ asked' = asked \ Matches(c)
            /\ Return(c, "ok")
       ELSE /\ Return(c, "not_found")
            /\ UNCHANGED asked

\* The DELETE of AcceptFriendRequest.
BeginAccept(c) ==
    /\ Waiting(c, "accept")
    /\ lock = None
    /\ IF Matches(c) # {}
       THEN /\ lock' = c
            /\ Goto(c, "create")
       ELSE /\ Return(c, "not_found")
            /\ UNCHANGED lock
    /\ UNCHANGED <<Tables, faults>>

\* Its INSERT, and the commit of both.
CommitAccept(c) ==
    LET pair == {call[c].uid, call[c].target}
    IN  /\ Waiting(c, "create")
        /\ lock' = None
        /\ IF pair \in friends
           THEN /\ Return(c, "error")
                /\ UNCHANGED Tables
           ELSE /\ asked' = asked \ Matches(c)
                /\ friends' = friends \cup {pair}
                /\ Return(c, "ok")
        /\ UNCHANGED faults

RemoveFriendship(c) ==
    LET pair == {call[c].uid, call[c].target}
    IN  /\ Waiting(c, "remove")
        /\ lock = None
        /\ friends' = friends \ {pair}
        /\ UNCHANGED <<asked, lock, faults>>
        /\ Return(c, "ok")

\* A statement fails, or the client has gone; a transaction is rolled back.
Fault(c) ==
    /\ ~ Waiting(c, "idle")
    /\ faults < MaxFaults
    /\ faults' = faults + 1
    /\ lock' = IF lock = c THEN None ELSE lock
    /\ Return(c, "error")
    /\ UNCHANGED Tables

\* Whoever waits for the write lock too long (busy_timeout) is told so.
Busy(c) ==
    /\ lock # None
    /\ call[c].pc \in {"insert", "delete", "accept", "remove"}
    /\ Return(c, "error")
    /\ UNCHANGED <<Tables, lock, faults>>

-----------------------------------------------------------------------------
(* The history: every call under way sees what the others change.           *)

Watch(c) ==
    LET now(d) == Between(call[d].uid, call[d].target)'
        was(d) == Between(call[d].uid, call[d].target)
    IN  /\ actor' = IF Tables' = Tables THEN actor ELSE call[c].uid
        /\ saw' = [d \in Clients |->
                     IF call'[d].pc = "idle" THEN {}
                     ELSE IF call[d].pc = "idle" THEN {now(d)}
                     ELSE saw[d] \cup {now(d)}]
        /\ changes' = [d \in Clients |->
                         IF call'[d].pc = "idle" \/ call[d].pc = "idle" THEN 0
                         ELSE IF now(d) = was(d) \/ changes[d] = MaxChanges
                         THEN changes[d]
                         ELSE changes[d] + 1]

-----------------------------------------------------------------------------

Move(c) ==
    \/ Resolve(c)
    \/ InsertRequest(c) \/ FindSender(c) \/ FindFriendship(c)
    \/ LookForRequest(c) \/ DeleteRequest(c)
    \/ BeginAccept(c) \/ CommitAccept(c)
    \/ RemoveFriendship(c)
    \/ Busy(c)

Step(c) == Move(c) /\ Watch(c)

Next ==
    \E c \in Clients :
        \/ (\E ask \in Calls : Begin(c, ask)) /\ Watch(c)
        \/ Step(c)
        \/ Fault(c) /\ Watch(c)

\* A handler goes on by itself; where it waits for the lock, the wait is bounded.
Fairness == \A c \in Clients : WF_vars(Step(c))

Spec == Init /\ [][Next]_vars

FairSpec == Spec /\ Fairness

-----------------------------------------------------------------------------
(* Properties.                                                             *)

\* No interleaving leaves a request between two friends.
NeverBoth == \A pair \in asked : {pair[1], pair[2]} \notin friends

\* What a call is told was the case at some time while it ran, and AddFriend
\* gives up only if things changed under its hands all the time: twice per
\* attempt but the last.
WasTrue(c, reply) ==
    /\ reply \in {"sent", "received", "friends"} => reply \in saw[c]
    /\ reply = "forbidden" =>
           (IF call[c].op = "cancel" THEN "received" ELSE "sent") \in saw[c]
    /\ reply = "not_found" =>
           \E relation \in saw[c] :
               relation # (IF call[c].op = "cancel" THEN "sent" ELSE "received")
    /\ reply = "busy" => changes[c] >= 2 * MaxAttempts - 1

AnswersWereTrue ==
    [][\A c \in Clients :
           ~ Waiting(c, "idle") /\ Waiting(c, "idle")' => WasTrue(c, call'[c].reply)]_vars

\* Nobody is made a friend, or is said to ask for it, but by their own calls.
ConsentKept ==
    INSTANCE Consent WITH
        Nobody <- None,
        wants <- asked \cup {p \in Users \X Users :
                               p[1] # p[2] /\ {p[1], p[2]} \in friends}

FriendsByConsent == ConsentKept!Spec

\* Every call is answered, however the others get in its way.
CallsReturn == \A c \in Clients : ~ Waiting(c, "idle") ~> Waiting(c, "idle")

=============================================================================
