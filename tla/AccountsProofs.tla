---------------------------- MODULE AccountsProofs ----------------------------
(***************************************************************************)
(* Proofs about Accounts, for any number of names, tokens and requests and   *)
(* any bounds: type correctness and what the run checks.                    *)
(*                                                                         *)
(* The inductive invariant says, beside the properties themselves, what a    *)
(* request that is under way knows: its copy of a session is true for ever,  *)
(* because the session of a token never changes; whoever is about to delete  *)
(* a row was told to by a log-out, or has seen that its time is over; and a  *)
(* log-out that nobody disturbed has nobody beside it who could fill the     *)
(* cache again.                                                            *)
(***************************************************************************)
EXTENDS Accounts, TLAPS

\* A request that is about a token has one, which was issued.
HasToken == {"cached", "row", "check", "store", "accepted", "expire", "drop", "delete"}

HasEntry == {"cached", "check", "store", "expire"}

HasName == {"create", "block", "commit", "session"}

FormedAt(r) ==
    /\ req[r].pc \in HasToken => req[r].token \in Tokens /\ issued[req[r].token] # None
    /\ req[r].pc \in HasEntry => req[r].entry \in Entry
    /\ req[r].pc \in HasName => req[r].name \in Names
    /\ req[r].pc \in {"create", "block", "commit"} => req[r].password \in Passwords

Formed == \A r \in Requests : FormedAt(r)

\* The session of a token, wherever there is a copy of it, is the one issued.
RowsAreTrue == \A t \in Tokens : sessions[t] # None => sessions[t] = issued[t]

CacheIsTrue == \A t \in Tokens : cache[t] # None => issued[t] # None /\ IsTrueOf(cache[t], t)

RequestIsTrue(r) == req[r].pc \in HasEntry => IsTrueOf(req[r].entry, req[r].token)

RequestsAreTrue == \A r \in Requests : RequestIsTrue(r)

\* Who deletes a row may.
MayDelete(t) == t \in leaving \/ now > issued[t].created + Duration

DeletesAreDue ==
    \A r \in Requests :
        req[r].pc \in {"expire", "drop", "delete"} => MayDelete(req[r].token)

\* Beside a log-out that nobody disturbed nobody can fill the cache.
AloneIsAlone ==
    \A r \in Requests :
        req[r].pc = "delete" /\ req[r].alone =>
            /\ cache[req[r].token] = None
            /\ \A q \in Requests : ~ MayStore(q, req[r].token)

EndedWasIssued == \A t \in ended : issued[t] # None

\* A registration that has passed the first insert has a name nobody else has.
NameIsFree ==
    \A r \in Requests : req[r].pc \in {"block", "commit"} => req[r].name \notin users

IInv ==
    /\ TypeOK
    /\ Formed
    /\ RowsAreTrue
    /\ CacheIsTrue
    /\ RequestsAreTrue
    /\ DeletesAreDue
    /\ AloneIsAlone
    /\ EndedWasIssued
    /\ LogoutHolds
    /\ SessionsLast
    /\ NameIsFree
    /\ NamesKept

USE DEF Idle

-----------------------------------------------------------------------------
(* Types.                                                                  *)

LEMMA IdleTyped == Idle \in Request
  BY DEF Request

LEMMA TypeInit == Init => TypeOK
<1> SUFFICES ASSUME Init PROVE TypeOK
  OBVIOUS
<1>1. req \in [Requests -> Request]
  BY IdleTyped DEF Init
<1>2. cleaner \in Cleaner
  BY AccountsAssumption DEF Init, Resting, Cleaner, Time
<1>3. \A r \in Requests : writer = r <=> req[r].pc \in {"block", "commit"}
  BY AccountsAssumption DEF Init
<1>4. /\ now \in Time /\ faults \in 0 .. MaxFaults /\ crashes \in 0 .. MaxCrashes
      /\ users \subseteq Names /\ writer \in Requests \cup {None}
      /\ leaving \subseteq Tokens /\ ended \subseteq Tokens
  BY AccountsAssumption DEF Init, Time
<1>5. /\ keys \in [Names -> Passwords \cup {None}]
      /\ owners \in [Names -> Passwords \cup {None}]
      /\ sessions \in [Tokens -> Session \cup {None}]
      /\ cache \in [Tokens -> Entry \cup {None}]
      /\ issued \in [Tokens -> Session \cup {None}]
  BY DEF Init
<1> QED
  BY <1>1, <1>2, <1>3, <1>4, <1>5 DEF TypeOK

LockHeld == \A r \in Requests : writer = r <=> req[r].pc \in {"block", "commit"}

\* A request that has no transaction answers.
LEMMA AnswerTyped ==
    ASSUME TypeOK, NEW r \in Requests, req[r].pc \notin {"block", "commit"},
           Answer(r), writer' = writer
    PROVE  req' \in [Requests -> Request] /\ LockHeld'
<1>1. req' = [req EXCEPT ![r] = Idle]
  BY DEF Answer
<1>2. req' \in [Requests -> Request]
  BY <1>1, IdleTyped DEF TypeOK
<1>3. \A q \in Requests : (writer' = q) <=> req'[q].pc \in {"block", "commit"}
  BY <1>1 DEF TypeOK
<1> QED
  BY <1>2, <1>3 DEF LockHeld

\* One step per action; in each, the request that moves is a request again.
LEMMA TypeNext ==
    ASSUME TypeOK, Formed, Next
    PROVE  TypeOK'
<1> USE AccountsAssumption
<1> USE DEF TypeOK, FormedAt, tables, history, others, Answer, At, GoTo, Request, HasToken, HasEntry, HasName
<1>1. ASSUME NEW r \in Requests, NEW n \in Names, NEW p \in Passwords, CheckTaken(r, n, p)
      PROVE  TypeOK'
  BY <1>1 DEF CheckTaken
<1>2. ASSUME NEW r \in Requests, NEW n \in Names, NEW p \in Passwords, CheckPassword(r, n, p)
      PROVE  TypeOK'
  BY <1>2 DEF CheckPassword
<1>3. ASSUME NEW r \in Requests, InsertUser(r)
      PROVE  TypeOK'
  <2>1. CASE IsFree(req[r].name)
    BY <1>3, <2>1 DEF InsertUser
  <2>2. CASE ~ IsFree(req[r].name)
    <3>1. req' \in [Requests -> Request] /\ LockHeld'
      BY <1>3, <2>2, AnswerTyped DEF InsertUser
    <3> QED
      BY <1>3, <2>2, <3>1 DEF InsertUser, LockHeld
  <2> QED
    BY <2>1, <2>2
<1>4. ASSUME NEW r \in Requests, InsertBlock(r)
      PROVE  TypeOK'
  BY <1>4 DEF InsertBlock
<1>5. ASSUME NEW r \in Requests, CommitUser(r)
      PROVE  TypeOK'
  BY <1>5 DEF CommitUser, Formed, FormedAt
<1>6. ASSUME NEW r \in Requests, RegisterFails(r)
      PROVE  TypeOK'
  BY <1>6 DEF RegisterFails, RolledBack, Fault
<1>7. ASSUME NEW r \in Requests, CreateSession(r)
      PROVE  TypeOK'
  BY <1>7 DEF CreateSession, Formed, Session
<1>8. ASSUME NEW r \in Requests, LoginFails(r)
      PROVE  TypeOK'
  BY <1>8 DEF LoginFails, Fault
<1>9. ASSUME NEW r \in Requests, NEW t \in Tokens, LoadCache(r, t)
      PROVE  TypeOK'
  <2>1. /\ req'[r] \in Request /\ req'[r].pc \in {"row", "cached"}
        /\ \A q \in Requests \ {r} : req'[q] \in Request /\ req'[q].pc = req[q].pc
    <3> DEFINE mine == [Idle EXCEPT !.pc = IF cache[t] = None THEN "row" ELSE "cached",
                                    !.token = t, !.entry = cache[t]]
    <3>1. mine \in Request /\ mine.pc \in {"row", "cached"}
      OBVIOUS
    <3>2. req'[r] = mine
      BY <1>9 DEF LoadCache, Disturbed
    <3>3. ASSUME NEW q \in Requests \ {r}
          PROVE  req'[q] \in Request /\ req'[q].pc = req[q].pc
      <4>1. req'[q] = IF req[q].token = t THEN [req[q] EXCEPT !.alone = FALSE] ELSE req[q]
        BY <1>9 DEF LoadCache, Disturbed
      <4> QED
        BY <4>1
    <3> HIDE DEF mine
    <3> QED
      BY <3>1, <3>2, <3>3
  <2>2. req' \in [Requests -> Request]
    <3>1. req' = [q \in Requests |-> req'[q]]
      BY <1>9 DEF LoadCache, Disturbed
    <3> QED
      BY <2>1, <3>1
  <2>3. \A q \in Requests : (writer = q)' <=> req'[q].pc \in {"block", "commit"}
    BY <1>9, <2>1 DEF LoadCache
  <2> QED
    BY <1>9, <2>2, <2>3 DEF LoadCache
<1>10. ASSUME NEW r \in Requests, NEW t \in Tokens, Logout(r, t)
       PROVE  TypeOK'
  BY <1>10 DEF Logout
<1>11. ASSUME NEW r \in Requests, CheckCached(r)
       PROVE  TypeOK'
  <2>1. CASE IsOver(req[r].entry)
    <3>1. req' \in [Requests -> Request] /\ LockHeld'
      BY <1>11, <2>1, AnswerTyped DEF CheckCached
    <3>2. cache' \in [Tokens -> Entry \cup {None}]
      BY <1>11, <2>1 DEF CheckCached
    <3> QED
      BY <1>11, <2>1, <3>1, <3>2 DEF CheckCached, LockHeld
  <2>2. CASE ~ IsOver(req[r].entry)
    BY <1>11, <2>2 DEF CheckCached
  <2> QED
    BY <2>1, <2>2
<1>12. ASSUME NEW r \in Requests, ReadRow(r)
       PROVE  TypeOK'
  <2>1. CASE sessions[req[r].token] = None
    <3>1. req' \in [Requests -> Request] /\ LockHeld'
      BY <1>12, <2>1, AnswerTyped DEF ReadRow
    <3> QED
      BY <1>12, <2>1, <3>1 DEF ReadRow, LockHeld
  <2>2. CASE sessions[req[r].token] # None
    <3> DEFINE entry == [user |-> sessions[req[r].token].user,
                         expires |-> sessions[req[r].token].created + Duration]
    <3>1. entry \in Entry
      BY <1>12, <2>2 DEF ReadRow, Formed, Session, Entry, Time
    <3> HIDE DEF entry
    <3>2. req' = [req EXCEPT ![r].pc = "check", ![r].entry = entry]
      BY <1>12, <2>2 DEF ReadRow, entry
    <3> QED
      BY <1>12, <3>1, <3>2 DEF ReadRow
  <2> QED
    BY <2>1, <2>2
<1>13. ASSUME NEW r \in Requests, CheckRow(r)
       PROVE  TypeOK'
  BY <1>13 DEF CheckRow
<1>14. ASSUME NEW r \in Requests, StoreCache(r)
       PROVE  TypeOK'
  BY <1>14 DEF StoreCache, Formed
<1>15. ASSUME NEW r \in Requests, LookupFails(r)
       PROVE  TypeOK'
  BY <1>15 DEF LookupFails, Fault
<1>16. ASSUME NEW r \in Requests, Handled(r)
       PROVE  TypeOK'
  BY <1>16 DEF Handled
<1>17. ASSUME NEW r \in Requests, DropCached(r)
       PROVE  TypeOK'
  <2> DEFINE alone == \A q \in Requests : ~ MayStore(q, req[r].token)
  <2>1. alone \in BOOLEAN
    OBVIOUS
  <2>2. req' = [req EXCEPT ![r] = [req[r] EXCEPT !.pc = "delete", !.alone = alone]]
    BY <1>17 DEF DropCached
  <2> HIDE DEF alone
  <2>3. [req[r] EXCEPT !.pc = "delete", !.alone = alone] \in Request
    <3>1. req[r] \in Request
      BY <1>17
    <3> QED
      BY <2>1, <3>1
  <2>4. req' \in [Requests -> Request]
    BY <1>17, <2>2, <2>3
  <2>5. \A q \in Requests : (writer' = q) <=> req'[q].pc \in {"block", "commit"}
    BY <1>17, <2>2 DEF DropCached
  <2>6. cache' \in [Tokens -> Entry \cup {None}]
    BY <1>17 DEF DropCached, Uncached
  <2> QED
    BY <1>17, <2>4, <2>5, <2>6 DEF DropCached
<1>18. ASSUME NEW r \in Requests, DeleteRow(r)
       PROVE  TypeOK'
  BY <1>18 DEF DeleteRow, Formed
<1>19. ASSUME NEW r \in Requests, DeleteFails(r)
       PROVE  TypeOK'
  BY <1>19 DEF DeleteFails, Fault
<1>20. CASE StartCleanup
  BY <1>20 DEF StartCleanup, Cleaner
<1>21. ASSUME NEW t \in Tokens, CleanCached(t)
       PROVE  TypeOK'
  BY <1>21 DEF CleanCached, Cleaner
<1>22. CASE CleanRows
  BY <1>22 DEF CleanRows, Cleaner, Resting, Time
<1>23. CASE CleanupFails
  BY <1>23 DEF CleanupFails, Cleaner, Resting, Fault, Time
<1>24. CASE Tick
  BY <1>24 DEF Tick, Time
<1>25. CASE Crash
  BY <1>25 DEF Crash, Cleaner, Resting, Time
<1> QED
  BY <1>1, <1>2, <1>3, <1>4, <1>5, <1>6, <1>7, <1>8, <1>9, <1>10, <1>11, <1>12, <1>13,
     <1>14, <1>15, <1>16, <1>17, <1>18, <1>19, <1>20, <1>21, <1>22, <1>23, <1>24, <1>25
     DEF Next

IssuedLasts == \A t \in Tokens : issued[t] # None => issued'[t] = issued[t]

\* What a lookup that begins does to the requests.
LookupBegins(r, t) ==
    /\ req'[r].pc = IF cache[t] = None THEN "row" ELSE "cached"
    /\ req'[r].token = t
    /\ req'[r].entry = cache[t]
    /\ \A q \in Requests \ {r} :
          /\ req'[q].pc = req[q].pc
          /\ req'[q].name = req[q].name
          /\ req'[q].password = req[q].password
          /\ req'[q].token = req[q].token
          /\ req'[q].entry = req[q].entry
          /\ req'[q].alone = (req[q].alone /\ req[q].token # t)

LEMMA LookupBeginning ==
    ASSUME TypeOK, NEW r \in Requests, NEW t \in Tokens, LoadCache(r, t)
    PROVE  LookupBegins(r, t)
<1>1. req'[r] = [Idle EXCEPT !.pc = IF cache[t] = None THEN "row" ELSE "cached",
                             !.token = t, !.entry = cache[t]]
  BY DEF LoadCache, Disturbed
<1>2. ASSUME NEW q \in Requests \ {r}
      PROVE  /\ req'[q].pc = req[q].pc /\ req'[q].name = req[q].name
             /\ req'[q].password = req[q].password /\ req'[q].token = req[q].token
             /\ req'[q].entry = req[q].entry
             /\ req'[q].alone = (req[q].alone /\ req[q].token # t)
  <2>1. req'[q] = IF req[q].token = t THEN [req[q] EXCEPT !.alone = FALSE] ELSE req[q]
    BY DEF LoadCache, Disturbed
  <2>2. req[q] \in Request
    BY DEF TypeOK
  <2> QED
    BY <2>1, <2>2 DEF Request
<1> QED
  BY <1>1, <1>2 DEF LookupBegins

\* The session of a token never changes.
LEMMA IssuedOnce ==
    ASSUME TypeOK, Next
    PROVE  IssuedLasts
<1> USE AccountsAssumption
<1> USE DEF TypeOK, history, IssuedLasts
<1>1. ASSUME NEW r \in Requests, NEW n \in Names, NEW p \in Passwords, CheckTaken(r, n, p)
      PROVE  IssuedLasts
  BY <1>1 DEF CheckTaken
<1>2. ASSUME NEW r \in Requests, NEW n \in Names, NEW p \in Passwords, CheckPassword(r, n, p)
      PROVE  IssuedLasts
  BY <1>2 DEF CheckPassword
<1>3. ASSUME NEW r \in Requests, InsertUser(r)
      PROVE  IssuedLasts
  BY <1>3 DEF InsertUser
<1>4. ASSUME NEW r \in Requests, InsertBlock(r)
      PROVE  IssuedLasts
  BY <1>4 DEF InsertBlock
<1>5. ASSUME NEW r \in Requests, CommitUser(r)
      PROVE  IssuedLasts
  BY <1>5 DEF CommitUser
<1>6. ASSUME NEW r \in Requests, RegisterFails(r)
      PROVE  IssuedLasts
  BY <1>6 DEF RegisterFails
<1>7. ASSUME NEW r \in Requests, CreateSession(r)
      PROVE  IssuedLasts
  BY <1>7 DEF CreateSession
<1>8. ASSUME NEW r \in Requests, LoginFails(r)
      PROVE  IssuedLasts
  BY <1>8 DEF LoginFails
<1>9. ASSUME NEW r \in Requests, NEW t \in Tokens, LoadCache(r, t)
      PROVE  IssuedLasts
  BY <1>9 DEF LoadCache
<1>10. ASSUME NEW r \in Requests, NEW t \in Tokens, Logout(r, t)
      PROVE  IssuedLasts
  BY <1>10 DEF Logout
<1>11. ASSUME NEW r \in Requests, CheckCached(r)
      PROVE  IssuedLasts
  BY <1>11 DEF CheckCached
<1>12. ASSUME NEW r \in Requests, ReadRow(r)
      PROVE  IssuedLasts
  BY <1>12 DEF ReadRow
<1>13. ASSUME NEW r \in Requests, CheckRow(r)
      PROVE  IssuedLasts
  BY <1>13 DEF CheckRow
<1>14. ASSUME NEW r \in Requests, StoreCache(r)
      PROVE  IssuedLasts
  BY <1>14 DEF StoreCache
<1>15. ASSUME NEW r \in Requests, LookupFails(r)
      PROVE  IssuedLasts
  BY <1>15 DEF LookupFails
<1>16. ASSUME NEW r \in Requests, Handled(r)
      PROVE  IssuedLasts
  BY <1>16 DEF Handled
<1>17. ASSUME NEW r \in Requests, DropCached(r)
      PROVE  IssuedLasts
  BY <1>17 DEF DropCached
<1>18. ASSUME NEW r \in Requests, DeleteRow(r)
      PROVE  IssuedLasts
  BY <1>18 DEF DeleteRow
<1>19. ASSUME NEW r \in Requests, DeleteFails(r)
      PROVE  IssuedLasts
  BY <1>19 DEF DeleteFails
<1>20. CASE StartCleanup
  BY <1>20 DEF StartCleanup
<1>21. ASSUME NEW t \in Tokens, CleanCached(t)
      PROVE  IssuedLasts
  BY <1>21 DEF CleanCached
<1>22. CASE CleanRows
  BY <1>22 DEF CleanRows
<1>23. CASE CleanupFails
  BY <1>23 DEF CleanupFails
<1>24. CASE Tick
  BY <1>24 DEF Tick
<1>25. CASE Crash
  BY <1>25 DEF Crash
<1> QED
  BY <1>1, <1>2, <1>3, <1>4, <1>5, <1>6, <1>7, <1>8, <1>9, <1>10, <1>11, <1>12, <1>13,
     <1>14, <1>15, <1>16, <1>17, <1>18, <1>19, <1>20, <1>21, <1>22, <1>23, <1>24, <1>25
     DEF Next

\* A request has what its place in the code needs.
LEMMA FormedNext ==
    ASSUME TypeOK, Formed, RowsAreTrue, IssuedLasts, Next
    PROVE  Formed'
<1> USE AccountsAssumption
<1> USE DEF TypeOK, tables, history, others, Answer, At, GoTo, Formed, FormedAt, HasToken, HasEntry, HasName, IssuedLasts
<1>1. ASSUME NEW r \in Requests, NEW n \in Names, NEW p \in Passwords, CheckTaken(r, n, p)
      PROVE  Formed'
  BY <1>1 DEF CheckTaken
<1>2. ASSUME NEW r \in Requests, NEW n \in Names, NEW p \in Passwords, CheckPassword(r, n, p)
      PROVE  Formed'
  BY <1>2 DEF CheckPassword
<1>3. ASSUME NEW r \in Requests, InsertUser(r)
      PROVE  Formed'
  <2>1. CASE IsFree(req[r].name)
    <3>1. At(r, "create") /\ req' = [req EXCEPT ![r].pc = "block"] /\ issued' = issued
      BY <1>3, <2>1 DEF InsertUser
    <3> QED
      BY <1>3, <3>1
  <2>2. CASE ~ (IsFree(req[r].name))
    <3>1. req' = [req EXCEPT ![r] = Idle] /\ issued' = issued
      BY <1>3, <2>2 DEF InsertUser
    <3> QED
      BY <1>3, <3>1
  <2> QED
    BY <2>1, <2>2
<1>4. ASSUME NEW r \in Requests, InsertBlock(r)
      PROVE  Formed'
  BY <1>4 DEF InsertBlock
<1>5. ASSUME NEW r \in Requests, CommitUser(r)
      PROVE  Formed'
  BY <1>5 DEF CommitUser
<1>6. ASSUME NEW r \in Requests, RegisterFails(r)
      PROVE  Formed'
  BY <1>6 DEF RegisterFails
<1>7. ASSUME NEW r \in Requests, CreateSession(r)
      PROVE  Formed'
  BY <1>7 DEF CreateSession
<1>8. ASSUME NEW r \in Requests, LoginFails(r)
      PROVE  Formed'
  BY <1>8 DEF LoginFails
<1>9. ASSUME NEW r \in Requests, NEW t \in Tokens, LoadCache(r, t)
      PROVE  Formed'
  <2>1. LookupBegins(r, t)
    BY <1>9, LookupBeginning
  <2>2. FormedAt(r)'
    BY <1>9, <2>1 DEF LoadCache, LookupBegins
  <2>3. ASSUME NEW q \in Requests \ {r}
        PROVE  FormedAt(q)'
    BY <1>9, <2>1 DEF LoadCache, LookupBegins
  <2> QED
    BY <2>2, <2>3
<1>10. ASSUME NEW r \in Requests, NEW t \in Tokens, Logout(r, t)
      PROVE  Formed'
  BY <1>10 DEF Logout
<1>11. ASSUME NEW r \in Requests, CheckCached(r)
      PROVE  Formed'
  <2>1. CASE IsOver(req[r].entry)
    <3>1. req' = [req EXCEPT ![r] = Idle] /\ issued' = issued
      BY <1>11, <2>1 DEF CheckCached
    <3> QED
      BY <1>11, <3>1
  <2>2. CASE ~ (IsOver(req[r].entry))
    <3>1. At(r, "cached") /\ req' = [req EXCEPT ![r].pc = "accepted"] /\ issued' = issued
      BY <1>11, <2>2 DEF CheckCached
    <3> QED
      BY <1>11, <3>1
  <2> QED
    BY <2>1, <2>2
<1>12. ASSUME NEW r \in Requests, ReadRow(r)
      PROVE  Formed'
  <2>1. CASE sessions[req[r].token] = None
    <3>1. req' = [req EXCEPT ![r] = Idle] /\ issued' = issued
      BY <1>12, <2>1 DEF ReadRow
    <3> QED
      BY <1>12, <3>1
  <2>2. CASE sessions[req[r].token] # None
    <3> DEFINE row == sessions[req[r].token]
               entry == [user |-> row.user, expires |-> row.created + Duration]
    <3>1. req' = [req EXCEPT ![r].pc = "check", ![r].entry = entry]
      BY <1>12, <2>2 DEF ReadRow
    <3>2. entry \in Entry /\ IsTrueOf(entry, req[r].token)
      BY <1>12, <2>2 DEF ReadRow, Session, Entry, Time, RowsAreTrue, IsTrueOf, Formed, FormedAt, HasToken
    <3> HIDE DEF entry
    <3>3. /\ req'[r].pc = "check" /\ req'[r].entry = entry /\ req'[r].token = req[r].token
          /\ \A q \in Requests \ {r} : req'[q] = req[q]
      BY <3>1
    <3> QED
      BY <1>12, <3>2, <3>3 DEF ReadRow
  <2> QED
    BY <2>1, <2>2
<1>13. ASSUME NEW r \in Requests, CheckRow(r)
      PROVE  Formed'
  BY <1>13 DEF CheckRow
<1>14. ASSUME NEW r \in Requests, StoreCache(r)
      PROVE  Formed'
  BY <1>14 DEF StoreCache
<1>15. ASSUME NEW r \in Requests, LookupFails(r)
      PROVE  Formed'
  BY <1>15 DEF LookupFails
<1>16. ASSUME NEW r \in Requests, Handled(r)
      PROVE  Formed'
  BY <1>16 DEF Handled
<1>17. ASSUME NEW r \in Requests, DropCached(r)
      PROVE  Formed'
  BY <1>17 DEF DropCached
<1>18. ASSUME NEW r \in Requests, DeleteRow(r)
      PROVE  Formed'
  BY <1>18 DEF DeleteRow
<1>19. ASSUME NEW r \in Requests, DeleteFails(r)
      PROVE  Formed'
  BY <1>19 DEF DeleteFails
<1>20. CASE StartCleanup
  BY <1>20 DEF StartCleanup
<1>21. ASSUME NEW t \in Tokens, CleanCached(t)
      PROVE  Formed'
  BY <1>21 DEF CleanCached
<1>22. CASE CleanRows
  BY <1>22 DEF CleanRows
<1>23. CASE CleanupFails
  BY <1>23 DEF CleanupFails
<1>24. CASE Tick
  BY <1>24 DEF Tick
<1>25. CASE Crash
  BY <1>25 DEF Crash
<1> QED
  BY <1>1, <1>2, <1>3, <1>4, <1>5, <1>6, <1>7, <1>8, <1>9, <1>10, <1>11, <1>12, <1>13,
     <1>14, <1>15, <1>16, <1>17, <1>18, <1>19, <1>20, <1>21, <1>22, <1>23, <1>24, <1>25
     DEF Next

\* Nobody writes a row but who issues the token, and nobody changes one.
LEMMA RowsNext ==
    ASSUME TypeOK, RowsAreTrue, IssuedLasts, Next
    PROVE  RowsAreTrue'
<1> USE AccountsAssumption
<1> USE DEF TypeOK, tables, history, others, Answer, At, GoTo, RowsAreTrue, IssuedLasts
<1>1. ASSUME NEW r \in Requests, NEW n \in Names, NEW p \in Passwords, CheckTaken(r, n, p)
      PROVE  RowsAreTrue'
  BY <1>1 DEF CheckTaken
<1>2. ASSUME NEW r \in Requests, NEW n \in Names, NEW p \in Passwords, CheckPassword(r, n, p)
      PROVE  RowsAreTrue'
  BY <1>2 DEF CheckPassword
<1>3. ASSUME NEW r \in Requests, InsertUser(r)
      PROVE  RowsAreTrue'
  BY <1>3 DEF InsertUser
<1>4. ASSUME NEW r \in Requests, InsertBlock(r)
      PROVE  RowsAreTrue'
  BY <1>4 DEF InsertBlock
<1>5. ASSUME NEW r \in Requests, CommitUser(r)
      PROVE  RowsAreTrue'
  BY <1>5 DEF CommitUser
<1>6. ASSUME NEW r \in Requests, RegisterFails(r)
      PROVE  RowsAreTrue'
  BY <1>6 DEF RegisterFails
<1>7. ASSUME NEW r \in Requests, CreateSession(r)
      PROVE  RowsAreTrue'
  BY <1>7 DEF CreateSession
<1>8. ASSUME NEW r \in Requests, LoginFails(r)
      PROVE  RowsAreTrue'
  BY <1>8 DEF LoginFails
<1>9. ASSUME NEW r \in Requests, NEW t \in Tokens, LoadCache(r, t)
      PROVE  RowsAreTrue'
  BY <1>9 DEF LoadCache
<1>10. ASSUME NEW r \in Requests, NEW t \in Tokens, Logout(r, t)
      PROVE  RowsAreTrue'
  BY <1>10 DEF Logout
<1>11. ASSUME NEW r \in Requests, CheckCached(r)
      PROVE  RowsAreTrue'
  BY <1>11 DEF CheckCached
<1>12. ASSUME NEW r \in Requests, ReadRow(r)
      PROVE  RowsAreTrue'
  BY <1>12 DEF ReadRow
<1>13. ASSUME NEW r \in Requests, CheckRow(r)
      PROVE  RowsAreTrue'
  BY <1>13 DEF CheckRow
<1>14. ASSUME NEW r \in Requests, StoreCache(r)
      PROVE  RowsAreTrue'
  BY <1>14 DEF StoreCache
<1>15. ASSUME NEW r \in Requests, LookupFails(r)
      PROVE  RowsAreTrue'
  BY <1>15 DEF LookupFails
<1>16. ASSUME NEW r \in Requests, Handled(r)
      PROVE  RowsAreTrue'
  BY <1>16 DEF Handled
<1>17. ASSUME NEW r \in Requests, DropCached(r)
      PROVE  RowsAreTrue'
  BY <1>17 DEF DropCached
<1>18. ASSUME NEW r \in Requests, DeleteRow(r)
      PROVE  RowsAreTrue'
  BY <1>18 DEF DeleteRow
<1>19. ASSUME NEW r \in Requests, DeleteFails(r)
      PROVE  RowsAreTrue'
  BY <1>19 DEF DeleteFails
<1>20. CASE StartCleanup
  BY <1>20 DEF StartCleanup
<1>21. ASSUME NEW t \in Tokens, CleanCached(t)
      PROVE  RowsAreTrue'
  BY <1>21 DEF CleanCached
<1>22. CASE CleanRows
  BY <1>22 DEF CleanRows
<1>23. CASE CleanupFails
  BY <1>23 DEF CleanupFails
<1>24. CASE Tick
  BY <1>24 DEF Tick
<1>25. CASE Crash
  BY <1>25 DEF Crash
<1> QED
  BY <1>1, <1>2, <1>3, <1>4, <1>5, <1>6, <1>7, <1>8, <1>9, <1>10, <1>11, <1>12, <1>13,
     <1>14, <1>15, <1>16, <1>17, <1>18, <1>19, <1>20, <1>21, <1>22, <1>23, <1>24, <1>25
     DEF Next

\* The cache is filled from a request, which has a true copy.
LEMMA CacheNext ==
    ASSUME TypeOK, Formed, CacheIsTrue, RequestsAreTrue, IssuedLasts, Next
    PROVE  CacheIsTrue'
<1> USE AccountsAssumption
<1> USE DEF TypeOK, tables, history, others, Answer, At, GoTo, Formed, FormedAt, HasToken, HasEntry, CacheIsTrue, RequestsAreTrue, RequestIsTrue, IssuedLasts, IsTrueOf
<1>1. ASSUME NEW r \in Requests, NEW n \in Names, NEW p \in Passwords, CheckTaken(r, n, p)
      PROVE  CacheIsTrue'
  BY <1>1 DEF CheckTaken
<1>2. ASSUME NEW r \in Requests, NEW n \in Names, NEW p \in Passwords, CheckPassword(r, n, p)
      PROVE  CacheIsTrue'
  BY <1>2 DEF CheckPassword
<1>3. ASSUME NEW r \in Requests, InsertUser(r)
      PROVE  CacheIsTrue'
  BY <1>3 DEF InsertUser
<1>4. ASSUME NEW r \in Requests, InsertBlock(r)
      PROVE  CacheIsTrue'
  BY <1>4 DEF InsertBlock
<1>5. ASSUME NEW r \in Requests, CommitUser(r)
      PROVE  CacheIsTrue'
  BY <1>5 DEF CommitUser
<1>6. ASSUME NEW r \in Requests, RegisterFails(r)
      PROVE  CacheIsTrue'
  BY <1>6 DEF RegisterFails
<1>7. ASSUME NEW r \in Requests, CreateSession(r)
      PROVE  CacheIsTrue'
  BY <1>7 DEF CreateSession
<1>8. ASSUME NEW r \in Requests, LoginFails(r)
      PROVE  CacheIsTrue'
  BY <1>8 DEF LoginFails
<1>9. ASSUME NEW r \in Requests, NEW t \in Tokens, LoadCache(r, t)
      PROVE  CacheIsTrue'
  BY <1>9 DEF LoadCache
<1>10. ASSUME NEW r \in Requests, NEW t \in Tokens, Logout(r, t)
      PROVE  CacheIsTrue'
  BY <1>10 DEF Logout
<1>11. ASSUME NEW r \in Requests, CheckCached(r)
      PROVE  CacheIsTrue'
  BY <1>11 DEF CheckCached
<1>12. ASSUME NEW r \in Requests, ReadRow(r)
      PROVE  CacheIsTrue'
  BY <1>12 DEF ReadRow
<1>13. ASSUME NEW r \in Requests, CheckRow(r)
      PROVE  CacheIsTrue'
  BY <1>13 DEF CheckRow
<1>14. ASSUME NEW r \in Requests, StoreCache(r)
      PROVE  CacheIsTrue'
  BY <1>14 DEF StoreCache
<1>15. ASSUME NEW r \in Requests, LookupFails(r)
      PROVE  CacheIsTrue'
  BY <1>15 DEF LookupFails
<1>16. ASSUME NEW r \in Requests, Handled(r)
      PROVE  CacheIsTrue'
  BY <1>16 DEF Handled
<1>17. ASSUME NEW r \in Requests, DropCached(r)
      PROVE  CacheIsTrue'
  BY <1>17 DEF DropCached, Uncached
<1>18. ASSUME NEW r \in Requests, DeleteRow(r)
      PROVE  CacheIsTrue'
  BY <1>18 DEF DeleteRow
<1>19. ASSUME NEW r \in Requests, DeleteFails(r)
      PROVE  CacheIsTrue'
  BY <1>19 DEF DeleteFails
<1>20. CASE StartCleanup
  BY <1>20 DEF StartCleanup
<1>21. ASSUME NEW t \in Tokens, CleanCached(t)
      PROVE  CacheIsTrue'
  BY <1>21 DEF CleanCached
<1>22. CASE CleanRows
  BY <1>22 DEF CleanRows
<1>23. CASE CleanupFails
  BY <1>23 DEF CleanupFails
<1>24. CASE Tick
  BY <1>24 DEF Tick
<1>25. CASE Crash
  BY <1>25 DEF Crash
<1> QED
  BY <1>1, <1>2, <1>3, <1>4, <1>5, <1>6, <1>7, <1>8, <1>9, <1>10, <1>11, <1>12, <1>13,
     <1>14, <1>15, <1>16, <1>17, <1>18, <1>19, <1>20, <1>21, <1>22, <1>23, <1>24, <1>25
     DEF Next

\* A request has its copy from the cache or from the row.
LEMMA RequestsNext ==
    ASSUME TypeOK, Formed, RowsAreTrue, CacheIsTrue, RequestsAreTrue, IssuedLasts, Next
    PROVE  RequestsAreTrue'
<1> USE AccountsAssumption
<1> USE DEF TypeOK, tables, history, others, Answer, At, GoTo, Formed, FormedAt, HasToken, HasEntry, RowsAreTrue, CacheIsTrue, RequestsAreTrue, RequestIsTrue, IssuedLasts, IsTrueOf
<1>1. ASSUME NEW r \in Requests, NEW n \in Names, NEW p \in Passwords, CheckTaken(r, n, p)
      PROVE  RequestsAreTrue'
  BY <1>1 DEF CheckTaken
<1>2. ASSUME NEW r \in Requests, NEW n \in Names, NEW p \in Passwords, CheckPassword(r, n, p)
      PROVE  RequestsAreTrue'
  BY <1>2 DEF CheckPassword
<1>3. ASSUME NEW r \in Requests, InsertUser(r)
      PROVE  RequestsAreTrue'
  <2>1. CASE IsFree(req[r].name)
    <3>1. At(r, "create") /\ req' = [req EXCEPT ![r].pc = "block"] /\ issued' = issued
      BY <1>3, <2>1 DEF InsertUser
    <3> QED
      BY <1>3, <3>1
  <2>2. CASE ~ (IsFree(req[r].name))
    <3>1. req' = [req EXCEPT ![r] = Idle] /\ issued' = issued
      BY <1>3, <2>2 DEF InsertUser
    <3> QED
      BY <1>3, <3>1
  <2> QED
    BY <2>1, <2>2
<1>4. ASSUME NEW r \in Requests, InsertBlock(r)
      PROVE  RequestsAreTrue'
  BY <1>4 DEF InsertBlock
<1>5. ASSUME NEW r \in Requests, CommitUser(r)
      PROVE  RequestsAreTrue'
  BY <1>5 DEF CommitUser
<1>6. ASSUME NEW r \in Requests, RegisterFails(r)
      PROVE  RequestsAreTrue'
  BY <1>6 DEF RegisterFails
<1>7. ASSUME NEW r \in Requests, CreateSession(r)
      PROVE  RequestsAreTrue'
  BY <1>7 DEF CreateSession
<1>8. ASSUME NEW r \in Requests, LoginFails(r)
      PROVE  RequestsAreTrue'
  BY <1>8 DEF LoginFails
<1>9. ASSUME NEW r \in Requests, NEW t \in Tokens, LoadCache(r, t)
      PROVE  RequestsAreTrue'
  <2>1. LookupBegins(r, t)
    BY <1>9, LookupBeginning
  <2>2. RequestIsTrue(r)'
    BY <1>9, <2>1 DEF LoadCache, LookupBegins
  <2>3. ASSUME NEW q \in Requests \ {r}
        PROVE  RequestIsTrue(q)'
    BY <1>9, <2>1 DEF LoadCache, LookupBegins
  <2> QED
    BY <2>2, <2>3
<1>10. ASSUME NEW r \in Requests, NEW t \in Tokens, Logout(r, t)
      PROVE  RequestsAreTrue'
  BY <1>10 DEF Logout
<1>11. ASSUME NEW r \in Requests, CheckCached(r)
      PROVE  RequestsAreTrue'
  <2>1. CASE IsOver(req[r].entry)
    <3>1. req' = [req EXCEPT ![r] = Idle] /\ issued' = issued
      BY <1>11, <2>1 DEF CheckCached
    <3> QED
      BY <1>11, <3>1
  <2>2. CASE ~ (IsOver(req[r].entry))
    <3>1. At(r, "cached") /\ req' = [req EXCEPT ![r].pc = "accepted"] /\ issued' = issued
      BY <1>11, <2>2 DEF CheckCached
    <3> QED
      BY <1>11, <3>1
  <2> QED
    BY <2>1, <2>2
<1>12. ASSUME NEW r \in Requests, ReadRow(r)
      PROVE  RequestsAreTrue'
  <2>1. CASE sessions[req[r].token] = None
    <3>1. req' = [req EXCEPT ![r] = Idle] /\ issued' = issued
      BY <1>12, <2>1 DEF ReadRow
    <3> QED
      BY <1>12, <3>1
  <2>2. CASE sessions[req[r].token] # None
    <3> DEFINE row == sessions[req[r].token]
               entry == [user |-> row.user, expires |-> row.created + Duration]
    <3>1. req' = [req EXCEPT ![r].pc = "check", ![r].entry = entry]
      BY <1>12, <2>2 DEF ReadRow
    <3>2. entry \in Entry /\ IsTrueOf(entry, req[r].token)
      BY <1>12, <2>2 DEF ReadRow, Session, Entry, Time, RowsAreTrue, IsTrueOf, Formed, FormedAt, HasToken
    <3> HIDE DEF entry
    <3>3. /\ req'[r].pc = "check" /\ req'[r].entry = entry /\ req'[r].token = req[r].token
          /\ \A q \in Requests \ {r} : req'[q] = req[q]
      BY <3>1
    <3> QED
      BY <1>12, <3>2, <3>3 DEF ReadRow
  <2> QED
    BY <2>1, <2>2
<1>13. ASSUME NEW r \in Requests, CheckRow(r)
      PROVE  RequestsAreTrue'
  BY <1>13 DEF CheckRow
<1>14. ASSUME NEW r \in Requests, StoreCache(r)
      PROVE  RequestsAreTrue'
  BY <1>14 DEF StoreCache
<1>15. ASSUME NEW r \in Requests, LookupFails(r)
      PROVE  RequestsAreTrue'
  BY <1>15 DEF LookupFails
<1>16. ASSUME NEW r \in Requests, Handled(r)
      PROVE  RequestsAreTrue'
  BY <1>16 DEF Handled
<1>17. ASSUME NEW r \in Requests, DropCached(r)
      PROVE  RequestsAreTrue'
  BY <1>17 DEF DropCached
<1>18. ASSUME NEW r \in Requests, DeleteRow(r)
      PROVE  RequestsAreTrue'
  BY <1>18 DEF DeleteRow
<1>19. ASSUME NEW r \in Requests, DeleteFails(r)
      PROVE  RequestsAreTrue'
  BY <1>19 DEF DeleteFails
<1>20. CASE StartCleanup
  BY <1>20 DEF StartCleanup
<1>21. ASSUME NEW t \in Tokens, CleanCached(t)
      PROVE  RequestsAreTrue'
  BY <1>21 DEF CleanCached
<1>22. CASE CleanRows
  BY <1>22 DEF CleanRows
<1>23. CASE CleanupFails
  BY <1>23 DEF CleanupFails
<1>24. CASE Tick
  BY <1>24 DEF Tick
<1>25. CASE Crash
  BY <1>25 DEF Crash
<1> QED
  BY <1>1, <1>2, <1>3, <1>4, <1>5, <1>6, <1>7, <1>8, <1>9, <1>10, <1>11, <1>12, <1>13,
     <1>14, <1>15, <1>16, <1>17, <1>18, <1>19, <1>20, <1>21, <1>22, <1>23, <1>24, <1>25
     DEF Next

\* A request that goes on to delete a row was told to, or has seen the time.
LEMMA DueNext ==
    ASSUME TypeOK, Formed, RequestsAreTrue, DeletesAreDue, IssuedLasts, Next
    PROVE  DeletesAreDue'
<1> USE AccountsAssumption
<1> USE DEF TypeOK, tables, history, others, Answer, At, GoTo, Formed, FormedAt, HasToken, HasEntry, RequestsAreTrue, RequestIsTrue, DeletesAreDue, MayDelete, IssuedLasts, IsTrueOf, IsOver, Session, Entry, Time
<1>1. ASSUME NEW r \in Requests, NEW n \in Names, NEW p \in Passwords, CheckTaken(r, n, p)
      PROVE  DeletesAreDue'
  BY <1>1 DEF CheckTaken
<1>2. ASSUME NEW r \in Requests, NEW n \in Names, NEW p \in Passwords, CheckPassword(r, n, p)
      PROVE  DeletesAreDue'
  BY <1>2 DEF CheckPassword
<1>3. ASSUME NEW r \in Requests, InsertUser(r)
      PROVE  DeletesAreDue'
  <2>1. CASE IsFree(req[r].name)
    <3>1. At(r, "create") /\ req' = [req EXCEPT ![r].pc = "block"] /\ UNCHANGED <<now, issued, leaving>>
      BY <1>3, <2>1 DEF InsertUser
    <3> QED
      BY <1>3, <3>1
  <2>2. CASE ~ (IsFree(req[r].name))
    <3>1. req' = [req EXCEPT ![r] = Idle] /\ UNCHANGED <<now, issued, leaving>>
      BY <1>3, <2>2 DEF InsertUser
    <3> QED
      BY <1>3, <3>1
  <2> QED
    BY <2>1, <2>2
<1>4. ASSUME NEW r \in Requests, InsertBlock(r)
      PROVE  DeletesAreDue'
  BY <1>4 DEF InsertBlock
<1>5. ASSUME NEW r \in Requests, CommitUser(r)
      PROVE  DeletesAreDue'
  BY <1>5 DEF CommitUser
<1>6. ASSUME NEW r \in Requests, RegisterFails(r)
      PROVE  DeletesAreDue'
  BY <1>6 DEF RegisterFails
<1>7. ASSUME NEW r \in Requests, CreateSession(r)
      PROVE  DeletesAreDue'
  BY <1>7 DEF CreateSession
<1>8. ASSUME NEW r \in Requests, LoginFails(r)
      PROVE  DeletesAreDue'
  BY <1>8 DEF LoginFails
<1>9. ASSUME NEW r \in Requests, NEW t \in Tokens, LoadCache(r, t)
      PROVE  DeletesAreDue'
  <2>1. LookupBegins(r, t)
    BY <1>9, LookupBeginning
  <2> QED
    BY <1>9, <2>1 DEF LoadCache, LookupBegins
<1>10. ASSUME NEW r \in Requests, NEW t \in Tokens, Logout(r, t)
      PROVE  DeletesAreDue'
  BY <1>10 DEF Logout
<1>11. ASSUME NEW r \in Requests, CheckCached(r)
      PROVE  DeletesAreDue'
  <2>1. CASE IsOver(req[r].entry)
    <3>1. req' = [req EXCEPT ![r] = Idle] /\ UNCHANGED <<now, issued, leaving>>
      BY <1>11, <2>1 DEF CheckCached
    <3> QED
      BY <1>11, <3>1
  <2>2. CASE ~ (IsOver(req[r].entry))
    <3>1. At(r, "cached") /\ req' = [req EXCEPT ![r].pc = "accepted"] /\ UNCHANGED <<now, issued, leaving>>
      BY <1>11, <2>2 DEF CheckCached
    <3> QED
      BY <1>11, <3>1
  <2> QED
    BY <2>1, <2>2
<1>12. ASSUME NEW r \in Requests, ReadRow(r)
      PROVE  DeletesAreDue'
  <2>1. CASE sessions[req[r].token] = None
    <3>1. req' = [req EXCEPT ![r] = Idle]
      BY <1>12, <2>1 DEF ReadRow
    <3> QED
      BY <1>12, <2>1, <3>1 DEF ReadRow
  <2>2. CASE sessions[req[r].token] # None
    <3> DEFINE row == sessions[req[r].token]
               entry == [user |-> row.user, expires |-> row.created + Duration]
    <3>1. req' = [req EXCEPT ![r].pc = "check", ![r].entry = entry]
      BY <1>12, <2>2 DEF ReadRow
    <3> HIDE DEF entry
    <3>2. /\ req[r].pc = "row" /\ req'[r].pc = "check" /\ req'[r].token = req[r].token
          /\ \A q \in Requests \ {r} : req'[q] = req[q]
      BY <1>12, <3>1 DEF ReadRow
    <3> QED
      BY <1>12, <2>2, <3>2 DEF ReadRow
  <2> QED
    BY <2>1, <2>2
<1>13. ASSUME NEW r \in Requests, CheckRow(r)
      PROVE  DeletesAreDue'
  <2>1. CASE IsOver(req[r].entry)
    <3>1. At(r, "check") /\ req' = [req EXCEPT ![r].pc = "expire"] /\ UNCHANGED <<now, issued, leaving>>
      BY <1>13, <2>1 DEF CheckRow
    <3>2. IsTrueOf(req[r].entry, req[r].token)
      BY <3>1 DEF CheckRow
    <3>3. now > issued[req[r].token].created + Duration
      BY <2>1, <3>2
    <3> QED
      BY <3>1, <3>3
  <2>2. CASE ~ IsOver(req[r].entry)
    <3>1. At(r, "check") /\ req' = [req EXCEPT ![r].pc = "store"] /\ UNCHANGED <<now, issued, leaving>>
      BY <1>13, <2>2 DEF CheckRow
    <3> QED
      BY <1>13, <3>1
  <2> QED
    BY <2>1, <2>2
<1>14. ASSUME NEW r \in Requests, StoreCache(r)
      PROVE  DeletesAreDue'
  BY <1>14 DEF StoreCache
<1>15. ASSUME NEW r \in Requests, LookupFails(r)
      PROVE  DeletesAreDue'
  BY <1>15 DEF LookupFails
<1>16. ASSUME NEW r \in Requests, Handled(r)
      PROVE  DeletesAreDue'
  BY <1>16 DEF Handled
<1>17. ASSUME NEW r \in Requests, DropCached(r)
      PROVE  DeletesAreDue'
  BY <1>17 DEF DropCached
<1>18. ASSUME NEW r \in Requests, DeleteRow(r)
      PROVE  DeletesAreDue'
  BY <1>18 DEF DeleteRow
<1>19. ASSUME NEW r \in Requests, DeleteFails(r)
      PROVE  DeletesAreDue'
  BY <1>19 DEF DeleteFails
<1>20. CASE StartCleanup
  BY <1>20 DEF StartCleanup
<1>21. ASSUME NEW t \in Tokens, CleanCached(t)
      PROVE  DeletesAreDue'
  BY <1>21 DEF CleanCached
<1>22. CASE CleanRows
  BY <1>22 DEF CleanRows
<1>23. CASE CleanupFails
  BY <1>23 DEF CleanupFails
<1>24. CASE Tick
  BY <1>24 DEF Tick
<1>25. CASE Crash
  BY <1>25 DEF Crash
<1> QED
  BY <1>1, <1>2, <1>3, <1>4, <1>5, <1>6, <1>7, <1>8, <1>9, <1>10, <1>11, <1>12, <1>13,
     <1>14, <1>15, <1>16, <1>17, <1>18, <1>19, <1>20, <1>21, <1>22, <1>23, <1>24, <1>25
     DEF Next

\* A row goes because of a log-out or because its time is over.
LEMMA LastNext ==
    ASSUME TypeOK, Formed, DeletesAreDue, SessionsLast, IssuedLasts, Next
    PROVE  SessionsLast'
<1> USE AccountsAssumption
<1> USE DEF TypeOK, tables, history, others, Answer, At, GoTo, Formed, FormedAt, HasToken, DeletesAreDue, MayDelete, IssuedLasts, SessionsLast, Session, Time
<1>1. ASSUME NEW r \in Requests, NEW n \in Names, NEW p \in Passwords, CheckTaken(r, n, p)
      PROVE  SessionsLast'
  BY <1>1 DEF CheckTaken
<1>2. ASSUME NEW r \in Requests, NEW n \in Names, NEW p \in Passwords, CheckPassword(r, n, p)
      PROVE  SessionsLast'
  BY <1>2 DEF CheckPassword
<1>3. ASSUME NEW r \in Requests, InsertUser(r)
      PROVE  SessionsLast'
  BY <1>3 DEF InsertUser
<1>4. ASSUME NEW r \in Requests, InsertBlock(r)
      PROVE  SessionsLast'
  BY <1>4 DEF InsertBlock
<1>5. ASSUME NEW r \in Requests, CommitUser(r)
      PROVE  SessionsLast'
  BY <1>5 DEF CommitUser
<1>6. ASSUME NEW r \in Requests, RegisterFails(r)
      PROVE  SessionsLast'
  BY <1>6 DEF RegisterFails
<1>7. ASSUME NEW r \in Requests, CreateSession(r)
      PROVE  SessionsLast'
  BY <1>7 DEF CreateSession
<1>8. ASSUME NEW r \in Requests, LoginFails(r)
      PROVE  SessionsLast'
  BY <1>8 DEF LoginFails
<1>9. ASSUME NEW r \in Requests, NEW t \in Tokens, LoadCache(r, t)
      PROVE  SessionsLast'
  BY <1>9 DEF LoadCache
<1>10. ASSUME NEW r \in Requests, NEW t \in Tokens, Logout(r, t)
      PROVE  SessionsLast'
  BY <1>10 DEF Logout
<1>11. ASSUME NEW r \in Requests, CheckCached(r)
      PROVE  SessionsLast'
  BY <1>11 DEF CheckCached
<1>12. ASSUME NEW r \in Requests, ReadRow(r)
      PROVE  SessionsLast'
  BY <1>12 DEF ReadRow
<1>13. ASSUME NEW r \in Requests, CheckRow(r)
      PROVE  SessionsLast'
  BY <1>13 DEF CheckRow
<1>14. ASSUME NEW r \in Requests, StoreCache(r)
      PROVE  SessionsLast'
  BY <1>14 DEF StoreCache
<1>15. ASSUME NEW r \in Requests, LookupFails(r)
      PROVE  SessionsLast'
  BY <1>15 DEF LookupFails
<1>16. ASSUME NEW r \in Requests, Handled(r)
      PROVE  SessionsLast'
  BY <1>16 DEF Handled
<1>17. ASSUME NEW r \in Requests, DropCached(r)
      PROVE  SessionsLast'
  BY <1>17 DEF DropCached
<1>18. ASSUME NEW r \in Requests, DeleteRow(r)
      PROVE  SessionsLast'
  BY <1>18 DEF DeleteRow
<1>19. ASSUME NEW r \in Requests, DeleteFails(r)
      PROVE  SessionsLast'
  BY <1>19 DEF DeleteFails
<1>20. CASE StartCleanup
  BY <1>20 DEF StartCleanup
<1>21. ASSUME NEW t \in Tokens, CleanCached(t)
      PROVE  SessionsLast'
  BY <1>21 DEF CleanCached
<1>22. CASE CleanRows
  BY <1>22 DEF CleanRows, IsOld
<1>23. CASE CleanupFails
  BY <1>23 DEF CleanupFails
<1>24. CASE Tick
  BY <1>24 DEF Tick
<1>25. CASE Crash
  BY <1>25 DEF Crash
<1> QED
  BY <1>1, <1>2, <1>3, <1>4, <1>5, <1>6, <1>7, <1>8, <1>9, <1>10, <1>11, <1>12, <1>13,
     <1>14, <1>15, <1>16, <1>17, <1>18, <1>19, <1>20, <1>21, <1>22, <1>23, <1>24, <1>25
     DEF Next

\* A lookup that begins beside a log-out disturbs it.
LEMMA AloneNext ==
    ASSUME TypeOK, Formed, AloneIsAlone, Next
    PROVE  AloneIsAlone'
<1> USE AccountsAssumption
<1> USE DEF TypeOK, tables, history, others, Answer, At, GoTo, Formed, FormedAt, HasToken, AloneIsAlone, MayStore
<1>1. ASSUME NEW r \in Requests, NEW n \in Names, NEW p \in Passwords, CheckTaken(r, n, p)
      PROVE  AloneIsAlone'
  BY <1>1 DEF CheckTaken
<1>2. ASSUME NEW r \in Requests, NEW n \in Names, NEW p \in Passwords, CheckPassword(r, n, p)
      PROVE  AloneIsAlone'
  BY <1>2 DEF CheckPassword
<1>3. ASSUME NEW r \in Requests, InsertUser(r)
      PROVE  AloneIsAlone'
  <2>1. CASE IsFree(req[r].name)
    <3>1. At(r, "create") /\ req' = [req EXCEPT ![r].pc = "block"] /\ UNCHANGED cache
      BY <1>3, <2>1 DEF InsertUser
    <3> QED
      BY <1>3, <3>1
  <2>2. CASE ~ (IsFree(req[r].name))
    <3>1. req' = [req EXCEPT ![r] = Idle] /\ UNCHANGED cache
      BY <1>3, <2>2 DEF InsertUser
    <3> QED
      BY <1>3, <3>1
  <2> QED
    BY <2>1, <2>2
<1>4. ASSUME NEW r \in Requests, InsertBlock(r)
      PROVE  AloneIsAlone'
  BY <1>4 DEF InsertBlock
<1>5. ASSUME NEW r \in Requests, CommitUser(r)
      PROVE  AloneIsAlone'
  BY <1>5 DEF CommitUser
<1>6. ASSUME NEW r \in Requests, RegisterFails(r)
      PROVE  AloneIsAlone'
  BY <1>6 DEF RegisterFails
<1>7. ASSUME NEW r \in Requests, CreateSession(r)
      PROVE  AloneIsAlone'
  BY <1>7 DEF CreateSession
<1>8. ASSUME NEW r \in Requests, LoginFails(r)
      PROVE  AloneIsAlone'
  BY <1>8 DEF LoginFails
<1>9. ASSUME NEW r \in Requests, NEW t \in Tokens, LoadCache(r, t)
      PROVE  AloneIsAlone'
  <2>1. LookupBegins(r, t)
    BY <1>9, LookupBeginning
  <2>2. SUFFICES ASSUME NEW q \in Requests, req'[q].pc = "delete", req'[q].alone
        PROVE  /\ cache'[req'[q].token] = None
               /\ \A x \in Requests :
                      ~ (req'[x].token = req'[q].token /\ req'[x].pc \in {"row", "check", "store"})
    OBVIOUS
  <2>3. q # r /\ req[q].pc = "delete" /\ req[q].alone /\ req'[q].token = req[q].token
    BY <2>1, <2>2 DEF LookupBegins
  <2>4. req[q].token # t
    BY <2>1, <2>2, <2>3 DEF LookupBegins
  <2>5. cache' = cache
    BY <1>9 DEF LoadCache
  <2>6. ASSUME NEW x \in Requests \ {r}
        PROVE  req'[x].token = req[x].token /\ req'[x].pc = req[x].pc
    BY <2>1 DEF LookupBegins
  <2>7. req'[r].token = t
    BY <2>1 DEF LookupBegins
  <2> QED
    BY <2>3, <2>4, <2>5, <2>6, <2>7
<1>10. ASSUME NEW r \in Requests, NEW t \in Tokens, Logout(r, t)
      PROVE  AloneIsAlone'
  BY <1>10 DEF Logout
<1>11. ASSUME NEW r \in Requests, CheckCached(r)
      PROVE  AloneIsAlone'
  <2>1. CASE IsOver(req[r].entry)
    <3>1. req' = [req EXCEPT ![r] = Idle] /\ cache' = [cache EXCEPT ![req[r].token] = None]
      BY <1>11, <2>1 DEF CheckCached
    <3> QED
      BY <1>11, <3>1
  <2>2. CASE ~ (IsOver(req[r].entry))
    <3>1. At(r, "cached") /\ req' = [req EXCEPT ![r].pc = "accepted"] /\ UNCHANGED cache
      BY <1>11, <2>2 DEF CheckCached
    <3> QED
      BY <1>11, <3>1
  <2> QED
    BY <2>1, <2>2
<1>12. ASSUME NEW r \in Requests, ReadRow(r)
      PROVE  AloneIsAlone'
  <2>1. CASE sessions[req[r].token] = None
    <3>1. req' = [req EXCEPT ![r] = Idle]
      BY <1>12, <2>1 DEF ReadRow
    <3> QED
      BY <1>12, <2>1, <3>1 DEF ReadRow
  <2>2. CASE sessions[req[r].token] # None
    <3> DEFINE row == sessions[req[r].token]
               entry == [user |-> row.user, expires |-> row.created + Duration]
    <3>1. req' = [req EXCEPT ![r].pc = "check", ![r].entry = entry]
      BY <1>12, <2>2 DEF ReadRow
    <3> HIDE DEF entry
    <3>2. /\ req[r].pc = "row" /\ req'[r].pc = "check" /\ req'[r].token = req[r].token
          /\ \A q \in Requests \ {r} : req'[q] = req[q]
      BY <1>12, <3>1 DEF ReadRow
    <3> QED
      BY <1>12, <2>2, <3>2 DEF ReadRow
  <2> QED
    BY <2>1, <2>2
<1>13. ASSUME NEW r \in Requests, CheckRow(r)
      PROVE  AloneIsAlone'
  BY <1>13 DEF CheckRow
<1>14. ASSUME NEW r \in Requests, StoreCache(r)
      PROVE  AloneIsAlone'
  BY <1>14 DEF StoreCache
<1>15. ASSUME NEW r \in Requests, LookupFails(r)
      PROVE  AloneIsAlone'
  BY <1>15 DEF LookupFails
<1>16. ASSUME NEW r \in Requests, Handled(r)
      PROVE  AloneIsAlone'
  BY <1>16 DEF Handled
<1>17. ASSUME NEW r \in Requests, DropCached(r)
      PROVE  AloneIsAlone'
  BY <1>17 DEF DropCached, Uncached
<1>18. ASSUME NEW r \in Requests, DeleteRow(r)
      PROVE  AloneIsAlone'
  BY <1>18 DEF DeleteRow
<1>19. ASSUME NEW r \in Requests, DeleteFails(r)
      PROVE  AloneIsAlone'
  BY <1>19 DEF DeleteFails
<1>20. CASE StartCleanup
  BY <1>20 DEF StartCleanup
<1>21. ASSUME NEW t \in Tokens, CleanCached(t)
      PROVE  AloneIsAlone'
  BY <1>21 DEF CleanCached
<1>22. CASE CleanRows
  BY <1>22 DEF CleanRows
<1>23. CASE CleanupFails
  BY <1>23 DEF CleanupFails
<1>24. CASE Tick
  BY <1>24 DEF Tick
<1>25. CASE Crash
  BY <1>25 DEF Crash
<1> QED
  BY <1>1, <1>2, <1>3, <1>4, <1>5, <1>6, <1>7, <1>8, <1>9, <1>10, <1>11, <1>12, <1>13,
     <1>14, <1>15, <1>16, <1>17, <1>18, <1>19, <1>20, <1>21, <1>22, <1>23, <1>24, <1>25
     DEF Next

\* What was logged out had been issued.
LEMMA EndedNext ==
    ASSUME TypeOK, Formed, EndedWasIssued, IssuedLasts, Next
    PROVE  EndedWasIssued'
<1> USE AccountsAssumption
<1> USE DEF TypeOK, tables, history, others, Answer, At, GoTo, Formed, FormedAt, HasToken, EndedWasIssued, IssuedLasts
<1>1. ASSUME NEW r \in Requests, NEW n \in Names, NEW p \in Passwords, CheckTaken(r, n, p)
      PROVE  EndedWasIssued'
  BY <1>1 DEF CheckTaken
<1>2. ASSUME NEW r \in Requests, NEW n \in Names, NEW p \in Passwords, CheckPassword(r, n, p)
      PROVE  EndedWasIssued'
  BY <1>2 DEF CheckPassword
<1>3. ASSUME NEW r \in Requests, InsertUser(r)
      PROVE  EndedWasIssued'
  BY <1>3 DEF InsertUser
<1>4. ASSUME NEW r \in Requests, InsertBlock(r)
      PROVE  EndedWasIssued'
  BY <1>4 DEF InsertBlock
<1>5. ASSUME NEW r \in Requests, CommitUser(r)
      PROVE  EndedWasIssued'
  BY <1>5 DEF CommitUser
<1>6. ASSUME NEW r \in Requests, RegisterFails(r)
      PROVE  EndedWasIssued'
  BY <1>6 DEF RegisterFails
<1>7. ASSUME NEW r \in Requests, CreateSession(r)
      PROVE  EndedWasIssued'
  BY <1>7 DEF CreateSession
<1>8. ASSUME NEW r \in Requests, LoginFails(r)
      PROVE  EndedWasIssued'
  BY <1>8 DEF LoginFails
<1>9. ASSUME NEW r \in Requests, NEW t \in Tokens, LoadCache(r, t)
      PROVE  EndedWasIssued'
  BY <1>9 DEF LoadCache
<1>10. ASSUME NEW r \in Requests, NEW t \in Tokens, Logout(r, t)
      PROVE  EndedWasIssued'
  BY <1>10 DEF Logout
<1>11. ASSUME NEW r \in Requests, CheckCached(r)
      PROVE  EndedWasIssued'
  BY <1>11 DEF CheckCached
<1>12. ASSUME NEW r \in Requests, ReadRow(r)
      PROVE  EndedWasIssued'
  BY <1>12 DEF ReadRow
<1>13. ASSUME NEW r \in Requests, CheckRow(r)
      PROVE  EndedWasIssued'
  BY <1>13 DEF CheckRow
<1>14. ASSUME NEW r \in Requests, StoreCache(r)
      PROVE  EndedWasIssued'
  BY <1>14 DEF StoreCache
<1>15. ASSUME NEW r \in Requests, LookupFails(r)
      PROVE  EndedWasIssued'
  BY <1>15 DEF LookupFails
<1>16. ASSUME NEW r \in Requests, Handled(r)
      PROVE  EndedWasIssued'
  BY <1>16 DEF Handled
<1>17. ASSUME NEW r \in Requests, DropCached(r)
      PROVE  EndedWasIssued'
  BY <1>17 DEF DropCached
<1>18. ASSUME NEW r \in Requests, DeleteRow(r)
      PROVE  EndedWasIssued'
  BY <1>18 DEF DeleteRow
<1>19. ASSUME NEW r \in Requests, DeleteFails(r)
      PROVE  EndedWasIssued'
  BY <1>19 DEF DeleteFails
<1>20. CASE StartCleanup
  BY <1>20 DEF StartCleanup
<1>21. ASSUME NEW t \in Tokens, CleanCached(t)
      PROVE  EndedWasIssued'
  BY <1>21 DEF CleanCached
<1>22. CASE CleanRows
  BY <1>22 DEF CleanRows
<1>23. CASE CleanupFails
  BY <1>23 DEF CleanupFails
<1>24. CASE Tick
  BY <1>24 DEF Tick
<1>25. CASE Crash
  BY <1>25 DEF Crash
<1> QED
  BY <1>1, <1>2, <1>3, <1>4, <1>5, <1>6, <1>7, <1>8, <1>9, <1>10, <1>11, <1>12, <1>13,
     <1>14, <1>15, <1>16, <1>17, <1>18, <1>19, <1>20, <1>21, <1>22, <1>23, <1>24, <1>25
     DEF Next

\* What was logged out stays away: no new row, no copy, no lookup.
LEMMA HoldsNext ==
    ASSUME TypeOK, Formed, AloneIsAlone, EndedWasIssued, LogoutHolds, Next
    PROVE  LogoutHolds'
<1> USE AccountsAssumption
<1> USE DEF TypeOK, tables, history, others, Answer, At, GoTo, Formed, FormedAt, HasToken, AloneIsAlone, MayStore, EndedWasIssued, LogoutHolds
<1>1. ASSUME NEW r \in Requests, NEW n \in Names, NEW p \in Passwords, CheckTaken(r, n, p)
      PROVE  LogoutHolds'
  BY <1>1 DEF CheckTaken
<1>2. ASSUME NEW r \in Requests, NEW n \in Names, NEW p \in Passwords, CheckPassword(r, n, p)
      PROVE  LogoutHolds'
  BY <1>2 DEF CheckPassword
<1>3. ASSUME NEW r \in Requests, InsertUser(r)
      PROVE  LogoutHolds'
  <2>1. CASE IsFree(req[r].name)
    <3>1. At(r, "create") /\ req' = [req EXCEPT ![r].pc = "block"] /\ UNCHANGED <<sessions, cache, ended>>
      BY <1>3, <2>1 DEF InsertUser
    <3> QED
      BY <1>3, <3>1
  <2>2. CASE ~ (IsFree(req[r].name))
    <3>1. req' = [req EXCEPT ![r] = Idle] /\ UNCHANGED <<sessions, cache, ended>>
      BY <1>3, <2>2 DEF InsertUser
    <3> QED
      BY <1>3, <3>1
  <2> QED
    BY <2>1, <2>2
<1>4. ASSUME NEW r \in Requests, InsertBlock(r)
      PROVE  LogoutHolds'
  BY <1>4 DEF InsertBlock
<1>5. ASSUME NEW r \in Requests, CommitUser(r)
      PROVE  LogoutHolds'
  BY <1>5 DEF CommitUser
<1>6. ASSUME NEW r \in Requests, RegisterFails(r)
      PROVE  LogoutHolds'
  BY <1>6 DEF RegisterFails
<1>7. ASSUME NEW r \in Requests, CreateSession(r)
      PROVE  LogoutHolds'
  BY <1>7 DEF CreateSession
<1>8. ASSUME NEW r \in Requests, LoginFails(r)
      PROVE  LogoutHolds'
  BY <1>8 DEF LoginFails
<1>9. ASSUME NEW r \in Requests, NEW t \in Tokens, LoadCache(r, t)
      PROVE  LogoutHolds'
  <2>1. LookupBegins(r, t)
    BY <1>9, LookupBeginning
  <2> QED
    BY <1>9, <2>1 DEF LoadCache, LookupBegins
<1>10. ASSUME NEW r \in Requests, NEW t \in Tokens, Logout(r, t)
      PROVE  LogoutHolds'
  BY <1>10 DEF Logout
<1>11. ASSUME NEW r \in Requests, CheckCached(r)
      PROVE  LogoutHolds'
  <2>1. CASE IsOver(req[r].entry)
    <3>1. req' = [req EXCEPT ![r] = Idle] /\ cache' = [cache EXCEPT ![req[r].token] = None] /\ UNCHANGED <<sessions, ended>>
      BY <1>11, <2>1 DEF CheckCached
    <3> QED
      BY <1>11, <3>1
  <2>2. CASE ~ (IsOver(req[r].entry))
    <3>1. At(r, "cached") /\ req' = [req EXCEPT ![r].pc = "accepted"] /\ UNCHANGED <<sessions, cache, ended>>
      BY <1>11, <2>2 DEF CheckCached
    <3> QED
      BY <1>11, <3>1
  <2> QED
    BY <2>1, <2>2
<1>12. ASSUME NEW r \in Requests, ReadRow(r)
      PROVE  LogoutHolds'
  <2>1. CASE sessions[req[r].token] = None
    <3>1. req' = [req EXCEPT ![r] = Idle]
      BY <1>12, <2>1 DEF ReadRow
    <3> QED
      BY <1>12, <2>1, <3>1 DEF ReadRow
  <2>2. CASE sessions[req[r].token] # None
    <3> DEFINE row == sessions[req[r].token]
               entry == [user |-> row.user, expires |-> row.created + Duration]
    <3>1. req' = [req EXCEPT ![r].pc = "check", ![r].entry = entry]
      BY <1>12, <2>2 DEF ReadRow
    <3> HIDE DEF entry
    <3>2. /\ req[r].pc = "row" /\ req'[r].pc = "check" /\ req'[r].token = req[r].token
          /\ \A q \in Requests \ {r} : req'[q] = req[q]
      BY <1>12, <3>1 DEF ReadRow
    <3> QED
      BY <1>12, <2>2, <3>2 DEF ReadRow
  <2> QED
    BY <2>1, <2>2
<1>13. ASSUME NEW r \in Requests, CheckRow(r)
      PROVE  LogoutHolds'
  BY <1>13 DEF CheckRow
<1>14. ASSUME NEW r \in Requests, StoreCache(r)
      PROVE  LogoutHolds'
  BY <1>14 DEF StoreCache
<1>15. ASSUME NEW r \in Requests, LookupFails(r)
      PROVE  LogoutHolds'
  BY <1>15 DEF LookupFails
<1>16. ASSUME NEW r \in Requests, Handled(r)
      PROVE  LogoutHolds'
  BY <1>16 DEF Handled
<1>17. ASSUME NEW r \in Requests, DropCached(r)
      PROVE  LogoutHolds'
  BY <1>17 DEF DropCached, Uncached
<1>18. ASSUME NEW r \in Requests, DeleteRow(r)
      PROVE  LogoutHolds'
  BY <1>18 DEF DeleteRow
<1>19. ASSUME NEW r \in Requests, DeleteFails(r)
      PROVE  LogoutHolds'
  BY <1>19 DEF DeleteFails
<1>20. CASE StartCleanup
  BY <1>20 DEF StartCleanup
<1>21. ASSUME NEW t \in Tokens, CleanCached(t)
      PROVE  LogoutHolds'
  BY <1>21 DEF CleanCached
<1>22. CASE CleanRows
  BY <1>22 DEF CleanRows
<1>23. CASE CleanupFails
  BY <1>23 DEF CleanupFails
<1>24. CASE Tick
  BY <1>24 DEF Tick
<1>25. CASE Crash
  BY <1>25 DEF Crash
<1> QED
  BY <1>1, <1>2, <1>3, <1>4, <1>5, <1>6, <1>7, <1>8, <1>9, <1>10, <1>11, <1>12, <1>13,
     <1>14, <1>15, <1>16, <1>17, <1>18, <1>19, <1>20, <1>21, <1>22, <1>23, <1>24, <1>25
     DEF Next

\* Only the request with the write lock adds a name.
LEMMA FreeNext ==
    ASSUME TypeOK, NameIsFree, Next
    PROVE  NameIsFree'
<1> USE AccountsAssumption
<1> USE DEF TypeOK, tables, history, others, Answer, At, GoTo, NameIsFree
<1>1. ASSUME NEW r \in Requests, NEW n \in Names, NEW p \in Passwords, CheckTaken(r, n, p)
      PROVE  NameIsFree'
  BY <1>1 DEF CheckTaken
<1>2. ASSUME NEW r \in Requests, NEW n \in Names, NEW p \in Passwords, CheckPassword(r, n, p)
      PROVE  NameIsFree'
  BY <1>2 DEF CheckPassword
<1>3. ASSUME NEW r \in Requests, InsertUser(r)
      PROVE  NameIsFree'
  <2>1. CASE IsFree(req[r].name)
    <3>1. /\ At(r, "create") /\ req' = [req EXCEPT ![r].pc = "block"]
          /\ req[r].name \notin users /\ UNCHANGED users
      BY <1>3, <2>1 DEF InsertUser, IsFree
    <3> QED
      BY <1>3, <3>1
  <2>2. CASE ~ (IsFree(req[r].name))
    <3>1. req' = [req EXCEPT ![r] = Idle] /\ UNCHANGED <<users, writer>>
      BY <1>3, <2>2 DEF InsertUser
    <3> QED
      BY <1>3, <3>1
  <2> QED
    BY <2>1, <2>2
<1>4. ASSUME NEW r \in Requests, InsertBlock(r)
      PROVE  NameIsFree'
  BY <1>4 DEF InsertBlock
<1>5. ASSUME NEW r \in Requests, CommitUser(r)
      PROVE  NameIsFree'
  BY <1>5 DEF CommitUser
<1>6. ASSUME NEW r \in Requests, RegisterFails(r)
      PROVE  NameIsFree'
  BY <1>6 DEF RegisterFails, RolledBack
<1>7. ASSUME NEW r \in Requests, CreateSession(r)
      PROVE  NameIsFree'
  BY <1>7 DEF CreateSession
<1>8. ASSUME NEW r \in Requests, LoginFails(r)
      PROVE  NameIsFree'
  BY <1>8 DEF LoginFails
<1>9. ASSUME NEW r \in Requests, NEW t \in Tokens, LoadCache(r, t)
      PROVE  NameIsFree'
  <2>1. LookupBegins(r, t)
    BY <1>9, LookupBeginning
  <2> QED
    BY <1>9, <2>1 DEF LoadCache, LookupBegins
<1>10. ASSUME NEW r \in Requests, NEW t \in Tokens, Logout(r, t)
      PROVE  NameIsFree'
  BY <1>10 DEF Logout
<1>11. ASSUME NEW r \in Requests, CheckCached(r)
      PROVE  NameIsFree'
  <2>1. CASE IsOver(req[r].entry)
    <3>1. req' = [req EXCEPT ![r] = Idle] /\ UNCHANGED <<users, writer>>
      BY <1>11, <2>1 DEF CheckCached
    <3> QED
      BY <1>11, <3>1
  <2>2. CASE ~ (IsOver(req[r].entry))
    <3>1. At(r, "cached") /\ req' = [req EXCEPT ![r].pc = "accepted"] /\ UNCHANGED <<users, writer>>
      BY <1>11, <2>2 DEF CheckCached
    <3> QED
      BY <1>11, <3>1
  <2> QED
    BY <2>1, <2>2
<1>12. ASSUME NEW r \in Requests, ReadRow(r)
      PROVE  NameIsFree'
  <2>1. CASE sessions[req[r].token] = None
    <3>1. req' = [req EXCEPT ![r] = Idle]
      BY <1>12, <2>1 DEF ReadRow
    <3> QED
      BY <1>12, <2>1, <3>1 DEF ReadRow
  <2>2. CASE sessions[req[r].token] # None
    <3> DEFINE row == sessions[req[r].token]
               entry == [user |-> row.user, expires |-> row.created + Duration]
    <3>1. req' = [req EXCEPT ![r].pc = "check", ![r].entry = entry]
      BY <1>12, <2>2 DEF ReadRow
    <3> HIDE DEF entry
    <3>2. /\ req[r].pc = "row" /\ req'[r].pc = "check" /\ req'[r].token = req[r].token
          /\ \A q \in Requests \ {r} : req'[q] = req[q]
      BY <1>12, <3>1 DEF ReadRow
    <3> QED
      BY <1>12, <2>2, <3>2 DEF ReadRow
  <2> QED
    BY <2>1, <2>2
<1>13. ASSUME NEW r \in Requests, CheckRow(r)
      PROVE  NameIsFree'
  BY <1>13 DEF CheckRow
<1>14. ASSUME NEW r \in Requests, StoreCache(r)
      PROVE  NameIsFree'
  BY <1>14 DEF StoreCache
<1>15. ASSUME NEW r \in Requests, LookupFails(r)
      PROVE  NameIsFree'
  BY <1>15 DEF LookupFails
<1>16. ASSUME NEW r \in Requests, Handled(r)
      PROVE  NameIsFree'
  BY <1>16 DEF Handled
<1>17. ASSUME NEW r \in Requests, DropCached(r)
      PROVE  NameIsFree'
  BY <1>17 DEF DropCached
<1>18. ASSUME NEW r \in Requests, DeleteRow(r)
      PROVE  NameIsFree'
  BY <1>18 DEF DeleteRow
<1>19. ASSUME NEW r \in Requests, DeleteFails(r)
      PROVE  NameIsFree'
  BY <1>19 DEF DeleteFails
<1>20. CASE StartCleanup
  BY <1>20 DEF StartCleanup
<1>21. ASSUME NEW t \in Tokens, CleanCached(t)
      PROVE  NameIsFree'
  BY <1>21 DEF CleanCached
<1>22. CASE CleanRows
  BY <1>22 DEF CleanRows
<1>23. CASE CleanupFails
  BY <1>23 DEF CleanupFails
<1>24. CASE Tick
  BY <1>24 DEF Tick
<1>25. CASE Crash
  BY <1>25 DEF Crash
<1> QED
  BY <1>1, <1>2, <1>3, <1>4, <1>5, <1>6, <1>7, <1>8, <1>9, <1>10, <1>11, <1>12, <1>13,
     <1>14, <1>15, <1>16, <1>17, <1>18, <1>19, <1>20, <1>21, <1>22, <1>23, <1>24, <1>25
     DEF Next

\* A password is written together with a name that was free.
LEMMA KeptNext ==
    ASSUME TypeOK, Formed, NameIsFree, NamesKept, Next
    PROVE  NamesKept'
<1> USE AccountsAssumption
<1> USE DEF TypeOK, tables, history, others, At, Formed, FormedAt, HasName, NameIsFree, NamesKept
<1>1. ASSUME NEW r \in Requests, NEW n \in Names, NEW p \in Passwords, CheckTaken(r, n, p)
      PROVE  NamesKept'
  BY <1>1 DEF CheckTaken
<1>2. ASSUME NEW r \in Requests, NEW n \in Names, NEW p \in Passwords, CheckPassword(r, n, p)
      PROVE  NamesKept'
  BY <1>2 DEF CheckPassword
<1>3. ASSUME NEW r \in Requests, InsertUser(r)
      PROVE  NamesKept'
  BY <1>3 DEF InsertUser
<1>4. ASSUME NEW r \in Requests, InsertBlock(r)
      PROVE  NamesKept'
  BY <1>4 DEF InsertBlock
<1>5. ASSUME NEW r \in Requests, CommitUser(r)
      PROVE  NamesKept'
  BY <1>5 DEF CommitUser
<1>6. ASSUME NEW r \in Requests, RegisterFails(r)
      PROVE  NamesKept'
  BY <1>6 DEF RegisterFails
<1>7. ASSUME NEW r \in Requests, CreateSession(r)
      PROVE  NamesKept'
  BY <1>7 DEF CreateSession
<1>8. ASSUME NEW r \in Requests, LoginFails(r)
      PROVE  NamesKept'
  BY <1>8 DEF LoginFails
<1>9. ASSUME NEW r \in Requests, NEW t \in Tokens, LoadCache(r, t)
      PROVE  NamesKept'
  BY <1>9 DEF LoadCache
<1>10. ASSUME NEW r \in Requests, NEW t \in Tokens, Logout(r, t)
      PROVE  NamesKept'
  BY <1>10 DEF Logout
<1>11. ASSUME NEW r \in Requests, CheckCached(r)
      PROVE  NamesKept'
  BY <1>11 DEF CheckCached
<1>12. ASSUME NEW r \in Requests, ReadRow(r)
      PROVE  NamesKept'
  BY <1>12 DEF ReadRow
<1>13. ASSUME NEW r \in Requests, CheckRow(r)
      PROVE  NamesKept'
  BY <1>13 DEF CheckRow
<1>14. ASSUME NEW r \in Requests, StoreCache(r)
      PROVE  NamesKept'
  BY <1>14 DEF StoreCache
<1>15. ASSUME NEW r \in Requests, LookupFails(r)
      PROVE  NamesKept'
  BY <1>15 DEF LookupFails
<1>16. ASSUME NEW r \in Requests, Handled(r)
      PROVE  NamesKept'
  BY <1>16 DEF Handled
<1>17. ASSUME NEW r \in Requests, DropCached(r)
      PROVE  NamesKept'
  BY <1>17 DEF DropCached
<1>18. ASSUME NEW r \in Requests, DeleteRow(r)
      PROVE  NamesKept'
  BY <1>18 DEF DeleteRow
<1>19. ASSUME NEW r \in Requests, DeleteFails(r)
      PROVE  NamesKept'
  BY <1>19 DEF DeleteFails
<1>20. CASE StartCleanup
  BY <1>20 DEF StartCleanup
<1>21. ASSUME NEW t \in Tokens, CleanCached(t)
      PROVE  NamesKept'
  BY <1>21 DEF CleanCached
<1>22. CASE CleanRows
  BY <1>22 DEF CleanRows
<1>23. CASE CleanupFails
  BY <1>23 DEF CleanupFails
<1>24. CASE Tick
  BY <1>24 DEF Tick
<1>25. CASE Crash
  BY <1>25 DEF Crash
<1> QED
  BY <1>1, <1>2, <1>3, <1>4, <1>5, <1>6, <1>7, <1>8, <1>9, <1>10, <1>11, <1>12, <1>13,
     <1>14, <1>15, <1>16, <1>17, <1>18, <1>19, <1>20, <1>21, <1>22, <1>23, <1>24, <1>25
     DEF Next

-----------------------------------------------------------------------------
(* The invariant.                                                          *)

LEMMA InvInit == Init => IInv
<1> SUFFICES ASSUME Init PROVE IInv
  OBVIOUS
<1>1. TypeOK
  BY TypeInit
<1>2. Formed /\ RequestsAreTrue /\ DeletesAreDue /\ AloneIsAlone /\ NameIsFree
  BY DEF Init, Formed, FormedAt, HasToken, HasEntry, HasName, RequestsAreTrue,
         RequestIsTrue, DeletesAreDue, AloneIsAlone, NameIsFree
<1>3. RowsAreTrue /\ CacheIsTrue /\ EndedWasIssued /\ LogoutHolds /\ SessionsLast
  BY DEF Init, RowsAreTrue, CacheIsTrue, EndedWasIssued, LogoutHolds, SessionsLast
<1>4. NamesKept
  BY DEF Init, NamesKept
<1> QED
  BY <1>1, <1>2, <1>3, <1>4 DEF IInv

LEMMA InvNext == IInv /\ [Next]_vars => IInv'
<1> SUFFICES ASSUME IInv, [Next]_vars PROVE IInv'
  OBVIOUS
<1>1. CASE Next
  <2>1. IssuedLasts
    BY <1>1, IssuedOnce DEF IInv
  <2>2. TypeOK' /\ Formed'
    BY <1>1, <2>1, TypeNext, FormedNext DEF IInv
  <2>3. RowsAreTrue' /\ CacheIsTrue' /\ RequestsAreTrue'
    BY <1>1, <2>1, RowsNext, CacheNext, RequestsNext DEF IInv
  <2>4. DeletesAreDue' /\ SessionsLast'
    BY <1>1, <2>1, DueNext, LastNext DEF IInv
  <2>5. AloneIsAlone' /\ EndedWasIssued' /\ LogoutHolds'
    BY <1>1, <2>1, AloneNext, EndedNext, HoldsNext DEF IInv
  <2>6. NameIsFree' /\ NamesKept'
    BY <1>1, FreeNext, KeptNext DEF IInv
  <2> QED
    BY <2>2, <2>3, <2>4, <2>5, <2>6 DEF IInv
<1>2. CASE UNCHANGED vars
  <2> USE <1>2 DEF vars
  <2>1. TypeOK' /\ Formed'
    BY DEF IInv, TypeOK, Formed, FormedAt
  <2>2. RowsAreTrue' /\ CacheIsTrue' /\ RequestsAreTrue'
    BY DEF IInv, RowsAreTrue, CacheIsTrue, RequestsAreTrue, RequestIsTrue, IsTrueOf
  <2>3. DeletesAreDue' /\ SessionsLast'
    BY DEF IInv, DeletesAreDue, MayDelete, SessionsLast
  <2>4. AloneIsAlone' /\ EndedWasIssued' /\ LogoutHolds'
    BY DEF IInv, AloneIsAlone, MayStore, EndedWasIssued, LogoutHolds
  <2>5. NameIsFree' /\ NamesKept'
    BY DEF IInv, NameIsFree, NamesKept
  <2> QED
    BY <2>1, <2>2, <2>3, <2>4, <2>5 DEF IInv
<1> QED
  BY <1>1, <1>2

LEMMA InvHolds == Spec => []IInv
  BY InvInit, InvNext, PTL DEF Spec

-----------------------------------------------------------------------------
(* The theorems.                                                           *)

\* Type correctness; in particular the write lock is held by the registration
\* that is between its first insert and its commit, and by nobody else.
THEOREM TypesHold == Spec => []TypeOK
<1>1. IInv => TypeOK
  BY DEF IInv
<1> QED
  BY InvHolds, <1>1, PTL

\* A log-out that no lookup fell into is final: neither the table nor the cache nor
\* a lookup under way can bring the token back.
THEOREM LogoutIsFinal == Spec => []LogoutHolds
<1>1. IInv => LogoutHolds
  BY DEF IInv
<1> QED
  BY InvHolds, <1>1, PTL

\* A session that nobody logged out is in the table until its time is over.
THEOREM SessionsLive == Spec => []SessionsLast
<1>1. IInv => SessionsLast
  BY DEF IInv
<1> QED
  BY InvHolds, <1>1, PTL

\* A name is never without its password and never gets a second one, however many
\* registrations of it run at the same time.
THEOREM NamesLast == Spec => []NamesKept
<1>1. IInv => NamesKept
  BY DEF IInv
<1> QED
  BY InvHolds, <1>1, PTL

\* Only the check of the cache and that of the row accept a token.
LEMMA AcceptStep ==
    ASSUME TypeOK, NEW q \in Requests, 
           req[q].pc \in {"cached", "check"}, req'[q].pc \in {"store", "accepted"}, Next
    PROVE  ~ IsOver(req[q].entry)
<1> USE AccountsAssumption
<1> USE DEF TypeOK, tables, history, others, Answer, At, GoTo
<1>1. ASSUME NEW r \in Requests, NEW n \in Names, NEW p \in Passwords, CheckTaken(r, n, p)
      PROVE  ~ IsOver(req[q].entry)
  BY <1>1 DEF CheckTaken
<1>2. ASSUME NEW r \in Requests, NEW n \in Names, NEW p \in Passwords, CheckPassword(r, n, p)
      PROVE  ~ IsOver(req[q].entry)
  BY <1>2 DEF CheckPassword
<1>3. ASSUME NEW r \in Requests, InsertUser(r)
      PROVE  ~ IsOver(req[q].entry)
  <2>1. CASE IsFree(req[r].name)
    <3>1. At(r, "create") /\ req' = [req EXCEPT ![r].pc = "block"]
      BY <1>3, <2>1 DEF InsertUser
    <3> QED
      BY <1>3, <3>1
  <2>2. CASE ~ (IsFree(req[r].name))
    <3>1. req' = [req EXCEPT ![r] = Idle]
      BY <1>3, <2>2 DEF InsertUser
    <3> QED
      BY <1>3, <3>1
  <2> QED
    BY <2>1, <2>2
<1>4. ASSUME NEW r \in Requests, InsertBlock(r)
      PROVE  ~ IsOver(req[q].entry)
  BY <1>4 DEF InsertBlock
<1>5. ASSUME NEW r \in Requests, CommitUser(r)
      PROVE  ~ IsOver(req[q].entry)
  BY <1>5 DEF CommitUser
<1>6. ASSUME NEW r \in Requests, RegisterFails(r)
      PROVE  ~ IsOver(req[q].entry)
  BY <1>6 DEF RegisterFails
<1>7. ASSUME NEW r \in Requests, CreateSession(r)
      PROVE  ~ IsOver(req[q].entry)
  BY <1>7 DEF CreateSession
<1>8. ASSUME NEW r \in Requests, LoginFails(r)
      PROVE  ~ IsOver(req[q].entry)
  BY <1>8 DEF LoginFails
<1>9. ASSUME NEW r \in Requests, NEW t \in Tokens, LoadCache(r, t)
      PROVE  ~ IsOver(req[q].entry)
  <2>1. LookupBegins(r, t)
    BY <1>9, LookupBeginning
  <2> QED
    BY <1>9, <2>1 DEF LoadCache, LookupBegins
<1>10. ASSUME NEW r \in Requests, NEW t \in Tokens, Logout(r, t)
      PROVE  ~ IsOver(req[q].entry)
  BY <1>10 DEF Logout
<1>11. ASSUME NEW r \in Requests, CheckCached(r)
      PROVE  ~ IsOver(req[q].entry)
  <2>1. CASE IsOver(req[r].entry)
    <3>1. req' = [req EXCEPT ![r] = Idle]
      BY <1>11, <2>1 DEF CheckCached
    <3> QED
      BY <1>11, <3>1
  <2>2. CASE ~ (IsOver(req[r].entry))
    <3>1. At(r, "cached") /\ req' = [req EXCEPT ![r].pc = "accepted"]
      BY <1>11, <2>2 DEF CheckCached
    <3> QED
      BY <1>11, <3>1, <2>2
  <2> QED
    BY <2>1, <2>2
<1>12. ASSUME NEW r \in Requests, ReadRow(r)
      PROVE  ~ IsOver(req[q].entry)
  BY <1>12 DEF ReadRow
<1>13. ASSUME NEW r \in Requests, CheckRow(r)
      PROVE  ~ IsOver(req[q].entry)
  BY <1>13 DEF CheckRow
<1>14. ASSUME NEW r \in Requests, StoreCache(r)
      PROVE  ~ IsOver(req[q].entry)
  BY <1>14 DEF StoreCache
<1>15. ASSUME NEW r \in Requests, LookupFails(r)
      PROVE  ~ IsOver(req[q].entry)
  BY <1>15 DEF LookupFails
<1>16. ASSUME NEW r \in Requests, Handled(r)
      PROVE  ~ IsOver(req[q].entry)
  BY <1>16 DEF Handled
<1>17. ASSUME NEW r \in Requests, DropCached(r)
      PROVE  ~ IsOver(req[q].entry)
  BY <1>17 DEF DropCached
<1>18. ASSUME NEW r \in Requests, DeleteRow(r)
      PROVE  ~ IsOver(req[q].entry)
  BY <1>18 DEF DeleteRow
<1>19. ASSUME NEW r \in Requests, DeleteFails(r)
      PROVE  ~ IsOver(req[q].entry)
  BY <1>19 DEF DeleteFails
<1>20. CASE StartCleanup
  BY <1>20 DEF StartCleanup
<1>21. ASSUME NEW t \in Tokens, CleanCached(t)
      PROVE  ~ IsOver(req[q].entry)
  BY <1>21 DEF CleanCached
<1>22. CASE CleanRows
  BY <1>22 DEF CleanRows
<1>23. CASE CleanupFails
  BY <1>23 DEF CleanupFails
<1>24. CASE Tick
  BY <1>24 DEF Tick
<1>25. CASE Crash
  BY <1>25 DEF Crash
<1> QED
  BY <1>1, <1>2, <1>3, <1>4, <1>5, <1>6, <1>7, <1>8, <1>9, <1>10, <1>11, <1>12, <1>13,
     <1>14, <1>15, <1>16, <1>17, <1>18, <1>19, <1>20, <1>21, <1>22, <1>23, <1>24, <1>25
     DEF Next

\* Whatever accepts a token accepts it as the user it was issued for, and in time.
THEOREM AcceptsInTime == Spec => AcceptedInTime
<1>1. IInv /\ [Next]_vars =>
        [\A r \in Requests :
            req[r].pc \in {"cached", "check"} /\ req'[r].pc \in {"store", "accepted"} =>
                /\ IsTrueOf(req[r].entry, req[r].token)
                /\ now <= issued[req[r].token].created + Duration]_vars
  <2> SUFFICES ASSUME IInv, Next, NEW r \in Requests,
                      req[r].pc \in {"cached", "check"}, req'[r].pc \in {"store", "accepted"}
               PROVE  /\ IsTrueOf(req[r].entry, req[r].token)
                      /\ now <= issued[req[r].token].created + Duration
    OBVIOUS
  <2>1. ~ IsOver(req[r].entry)
    BY AcceptStep DEF IInv
  <2>2. IsTrueOf(req[r].entry, req[r].token)
    BY DEF IInv, RequestsAreTrue, RequestIsTrue, HasEntry
  <2>3. issued[req[r].token] \in Session
    BY DEF IInv, Formed, FormedAt, HasToken, TypeOK
  <2> QED
    BY <2>1, <2>2, <2>3, AccountsAssumption DEF IsOver, IsTrueOf, IInv, TypeOK, Session, Time
<1> QED
  BY <1>1, InvHolds, PTL DEF Spec, AcceptedInTime

=============================================================================
