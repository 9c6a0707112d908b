------------------------------ MODULE Accounts ------------------------------
(***************************************************************************)
(* Users and their sessions: registration, log-in, the lookup of a token    *)
(* with its cache in memory, log-out, and the clean-up pass.  A request     *)
(* takes several steps: each statement or transaction on the database and   *)
(* each access to the cache is one, and others' steps come between.  The    *)
(* database has one writer at a time; a statement that waits for it too     *)
(* long fails.  The process may crash: the tables stay, the cache and all   *)
(* that was under way are lost.                                            *)
(***************************************************************************)
EXTENDS Integers, FiniteSets

CONSTANTS
    Names,
    Passwords,
    Tokens,         \* bound: the random tokens there are
    Requests,       \* bound: the requests under way
    Duration,       \* SessionDuration
    MaxTime,        \* bound on the clock
    MaxFaults,      \* bound on statements that fail
    MaxCrashes,     \* bound
    None

ASSUME AccountsAssumption ==
    /\ Duration \in Nat \ {0}
    /\ MaxTime \in Nat
    /\ MaxFaults \in Nat /\ MaxCrashes \in Nat
    /\ None \notin Names \cup Passwords \cup Tokens \cup Requests

VARIABLES
    now,
    users,      \* the names in the users table
    keys,       \* per name, its AUTH block
    sessions,   \* per token, its SESSION block
    cache,      \* activeSessionCache
    writer,     \* the request whose transaction has the write lock
    req,        \* the requests' local state
    cleaner,    \* the eviction loop's
    faults,
    crashes,
    \* History, read by no action except the fresh choice of a token:
    issued,     \* per token, the session it was issued for
    leaving,    \* tokens a log-out was asked for
    ended,      \* tokens logged out and no lookup fell into it
    owners      \* per name, the password of the registration that succeeded

vars == <<now, users, keys, sessions, cache, writer, req, cleaner, faults, crashes,
          issued, leaving, ended, owners>>

tables == <<users, keys, sessions>>
history == <<issued, leaving, ended, owners>>
others == <<now, cleaner, crashes>>

-----------------------------------------------------------------------------

Time == 0 .. MaxTime

Session == [user: Names, created: Time]

\* cachedSession, and what a lookup makes of a row.
Entry == [user: Names, expires: Nat]

Request == [pc: {"idle", "create", "block", "commit", "session",
                 "cached", "row", "check", "store", "accepted", "expire",
                 "drop", "delete"},
            name: Names \cup {None},
            password: Passwords \cup {None},
            token: Tokens \cup {None},
            entry: Entry \cup {None},
            alone: BOOLEAN]  \* history: no lookup fell into the log-out

Idle == [pc |-> "idle", name |-> None, password |-> None, token |-> None,
         entry |-> None, alone |-> FALSE]

Cleaner == [pc: {"idle", "range", "rows"}, time: Time, left: SUBSET Tokens]

Resting == [pc |-> "idle", time |-> 0, left |-> {}]

TypeOK ==
    /\ now \in Time
    /\ users \subseteq Names
    /\ keys \in [Names -> Passwords \cup {None}]
    /\ sessions \in [Tokens -> Session \cup {None}]
    /\ cache \in [Tokens -> Entry \cup {None}]
    /\ writer \in Requests \cup {None}
    /\ \A r \in Requests : writer = r <=> req[r].pc \in {"block", "commit"}
    /\ req \in [Requests -> Request]
    /\ cleaner \in Cleaner
    /\ faults \in 0 .. MaxFaults
    /\ crashes \in 0 .. MaxCrashes
    /\ issued \in [Tokens -> Session \cup {None}]
    /\ leaving \subseteq Tokens
    /\ ended \subseteq Tokens
    /\ owners \in [Names -> Passwords \cup {None}]

Init ==
    /\ now = 0
    /\ users = {}
    /\ keys = [n \in Names |-> None]
    /\ sessions = [t \in Tokens |-> None]
    /\ cache = [t \in Tokens |-> None]
    /\ writer = None
    /\ req = [r \in Requests |-> Idle]
    /\ cleaner = Resting
    /\ faults = 0
    /\ crashes = 0
    /\ issued = [t \in Tokens |-> None]
    /\ leaving = {}
    /\ ended = {}
    /\ owners = [n \in Names |-> None]

At(r, pc) == req[r].pc = pc

GoTo(r, pc) == req' = [req EXCEPT ![r].pc = pc]

\* A request answers; its client's next one finds it idle.
Answer(r) == req' = [req EXCEPT ![r] = Idle]

\* A statement that fails: the lock was not had in time, or another error.
Fault == faults < MaxFaults /\ faults' = faults + 1

-----------------------------------------------------------------------------
(* Register.                                                               *)

\* IsUsernameTaken; the hash of the password takes its time afterwards.
CheckTaken(r, n, p) ==
    /\ At(r, "idle")
    /\ n \notin users
    /\ req' = [req EXCEPT ![r] = [Idle EXCEPT !.pc = "create", !.name = n, !.password = p]]
    /\ UNCHANGED <<tables, cache, writer, faults, history, others>>

\* A plausible bug: the name is not unique, so the later insert goes through.
AnyName(n) == TRUE

\* The UNIQUE index on username_hash.
IsFree(n) == n \notin users

\* CreateUser: the first insert takes the write lock, or finds the name taken.
InsertUser(r) ==
    /\ At(r, "create")
    /\ writer = None
    /\ IF IsFree(req[r].name)
       THEN writer' = r /\ GoTo(r, "block")
       ELSE writer' = writer /\ Answer(r)
    /\ UNCHANGED <<tables, cache, faults, history, others>>

InsertBlock(r) ==
    /\ At(r, "block")
    /\ GoTo(r, "commit")
    /\ UNCHANGED <<tables, cache, writer, faults, history, others>>

CommitUser(r) ==
    /\ At(r, "commit")
    /\ users' = users \cup {req[r].name}
    /\ keys' = [keys EXCEPT ![req[r].name] = req[r].password]
    /\ owners' = [owners EXCEPT ![req[r].name] =
                     IF @ = None THEN req[r].password ELSE @]
    /\ writer' = None
    /\ Answer(r)
    /\ UNCHANGED <<sessions, cache, faults, issued, leaving, ended, others>>

\* A plausible bug: the transaction is not rolled back.
LeftOpen(r) == writer

\* The deferred Rollback.
RolledBack(r) == IF writer = r THEN None ELSE writer

RegisterFails(r) ==
    /\ At(r, "create") \/ At(r, "block") \/ At(r, "commit")
    /\ Fault
    /\ writer' = RolledBack(r)
    /\ Answer(r)
    /\ UNCHANGED <<tables, cache, history, others>>

-----------------------------------------------------------------------------
(* Login.                                                                  *)

\* GetAuthKey and the check of the password.
CheckPassword(r, n, p) ==
    /\ At(r, "idle")
    /\ keys[n] = p
    /\ req' = [req EXCEPT ![r] = [Idle EXCEPT !.pc = "session", !.name = n]]
    /\ UNCHANGED <<tables, cache, writer, faults, history, others>>

\* CreateSession, with a token nobody had before.
CreateSession(r) ==
    /\ At(r, "session")
    /\ writer = None
    /\ \E t \in Tokens :
          /\ issued[t] = None
          /\ sessions' = [sessions EXCEPT ![t] = [user |-> req[r].name, created |-> now]]
          /\ issued' = [issued EXCEPT ![t] = [user |-> req[r].name, created |-> now]]
    /\ Answer(r)
    /\ UNCHANGED <<users, keys, cache, writer, faults, leaving, ended, owners, others>>

LoginFails(r) ==
    /\ At(r, "session")
    /\ Fault
    /\ Answer(r)
    /\ UNCHANGED <<tables, cache, writer, history, others>>

-----------------------------------------------------------------------------
(* GetUserIdBySession.                                                     *)

\* History: a lookup that starts falls into the log-outs of its token.
Disturbed(t) ==
    [q \in Requests |->
       IF req[q].token = t THEN [req[q] EXCEPT !.alone = FALSE] ELSE req[q]]

\* The cache is looked at first.
LoadCache(r, t) ==
    /\ At(r, "idle")
    /\ issued[t] # None
    /\ req' = [Disturbed(t) EXCEPT
                 ![r] = [Idle EXCEPT !.pc = IF cache[t] = None THEN "row" ELSE "cached",
                                     !.token = t, !.entry = cache[t]]]
    /\ UNCHANGED <<tables, cache, writer, faults, history, others>>

\* A plausible bug: what is in the cache is good.
StaysGood(entry) == FALSE

IsOver(entry) == now > entry.expires

\* The entry is accepted, or deleted if it has expired.
CheckCached(r) ==
    /\ At(r, "cached")
    /\ IF IsOver(req[r].entry)
       THEN cache' = [cache EXCEPT ![req[r].token] = None] /\ Answer(r)
       ELSE cache' = cache /\ GoTo(r, "accepted")
    /\ UNCHANGED <<tables, writer, faults, history, others>>

\* The row's entry, or the end of a lookup that finds none.
ReadRow(r) ==
    LET row == sessions[req[r].token]
    IN  /\ At(r, "row")
        /\ IF row = None
           THEN Answer(r)
           ELSE req' = [req EXCEPT ![r].pc = "check", ![r].entry =
                          [user |-> row.user, expires |-> row.created + Duration]]
        /\ UNCHANGED <<tables, cache, writer, faults, history, others>>

CheckRow(r) ==
    /\ At(r, "check")
    /\ GoTo(r, IF IsOver(req[r].entry) THEN "expire" ELSE "store")
    /\ UNCHANGED <<tables, cache, writer, faults, history, others>>

StoreCache(r) ==
    /\ At(r, "store")
    /\ cache' = [cache EXCEPT ![req[r].token] = req[r].entry]
    /\ GoTo(r, "accepted")
    /\ UNCHANGED <<tables, writer, faults, history, others>>

\* The handler behind requireSession has the user and runs.
Handled(r) ==
    /\ At(r, "accepted")
    /\ Answer(r)
    /\ UNCHANGED <<tables, cache, writer, faults, history, others>>

LookupFails(r) ==
    /\ At(r, "row")
    /\ Fault
    /\ Answer(r)
    /\ UNCHANGED <<tables, cache, writer, history, others>>

-----------------------------------------------------------------------------
(* deleteSessionByHash, of Logout and of a lookup that finds an old row.    *)

MayStore(q, t) == req[q].token = t /\ req[q].pc \in {"row", "check", "store"}

Logout(r, t) ==
    /\ At(r, "idle")
    /\ issued[t] # None
    /\ leaving' = leaving \cup {t}
    /\ req' = [req EXCEPT ![r] = [Idle EXCEPT !.pc = "drop", !.token = t]]
    /\ UNCHANGED <<tables, cache, writer, faults, issued, ended, owners, others>>

\* A plausible bug: the cache keeps what is deleted.
KeptCache(t) == cache

Uncached(t) == [cache EXCEPT ![t] = None]

DropCached(r) ==
    /\ At(r, "drop") \/ At(r, "expire")
    /\ cache' = Uncached(req[r].token)
    /\ req' = [req EXCEPT ![r] = [@ EXCEPT
                  !.pc = "delete",
                  !.alone = \A q \in Requests : ~ MayStore(q, req[r].token)]]
    /\ UNCHANGED <<tables, writer, faults, history, others>>

DeleteRow(r) ==
    /\ At(r, "delete")
    /\ writer = None
    /\ sessions' = [sessions EXCEPT ![req[r].token] = None]
    /\ ended' = IF req[r].alone THEN ended \cup {req[r].token} ELSE ended
    /\ Answer(r)
    /\ UNCHANGED <<users, keys, cache, writer, faults, issued, leaving, owners, others>>

\* LogoutUser answers success all the same.
DeleteFails(r) ==
    /\ At(r, "delete")
    /\ Fault
    /\ Answer(r)
    /\ UNCHANGED <<tables, cache, writer, history, others>>

-----------------------------------------------------------------------------
(* CleanupExpiredSessions, every five minutes.                             *)

StartCleanup ==
    /\ cleaner.pc = "idle"
    /\ cleaner' = [pc |-> "range", time |-> now, left |-> Tokens]
    /\ UNCHANGED <<tables, cache, writer, req, faults, history, now, crashes>>

\* sync.Map.Range visits each token once, in any order.
CleanCached(t) ==
    /\ cleaner.pc = "range"
    /\ t \in cleaner.left
    /\ cache' = IF cache[t] # None /\ cleaner.time > cache[t].expires
                THEN [cache EXCEPT ![t] = None] ELSE cache
    /\ cleaner' = [cleaner EXCEPT !.left = @ \ {t},
                                  !.pc = IF cleaner.left = {t} THEN "rows" ELSE "range"]
    /\ UNCHANGED <<tables, writer, req, faults, history, now, crashes>>

\* A plausible bug: the last second of a session is cut off.
IsAged(row) == row.created <= now - Duration

IsOld(row) == row.created < now - Duration

CleanRows ==
    /\ cleaner.pc = "rows"
    /\ writer = None
    /\ sessions' = [t \in Tokens |-> IF sessions[t] # None /\ IsOld(sessions[t])
                                     THEN None ELSE sessions[t]]
    /\ cleaner' = Resting
    /\ UNCHANGED <<users, keys, cache, writer, req, faults, history, now, crashes>>

CleanupFails ==
    /\ cleaner.pc = "rows"
    /\ Fault
    /\ cleaner' = Resting
    /\ UNCHANGED <<tables, cache, writer, req, history, now, crashes>>

-----------------------------------------------------------------------------

Tick ==
    /\ now < MaxTime
    /\ now' = now + 1
    /\ UNCHANGED <<tables, cache, writer, req, cleaner, faults, crashes, history>>

\* A new process starts with an empty cache; SQLite rolls back what was open.
Crash ==
    /\ crashes < MaxCrashes
    /\ crashes' = crashes + 1
    /\ cache' = [t \in Tokens |-> None]
    /\ writer' = None
    /\ req' = [r \in Requests |-> Idle]
    /\ cleaner' = Resting
    /\ UNCHANGED <<tables, faults, history, now>>

Next ==
    \/ \E r \in Requests :
          \/ \E n \in Names, p \in Passwords : CheckTaken(r, n, p) \/ CheckPassword(r, n, p)
          \/ InsertUser(r) \/ InsertBlock(r) \/ CommitUser(r) \/ RegisterFails(r)
          \/ CreateSession(r) \/ LoginFails(r)
          \/ \E t \in Tokens : LoadCache(r, t) \/ Logout(r, t)
          \/ CheckCached(r) \/ ReadRow(r) \/ CheckRow(r) \/ StoreCache(r) \/ LookupFails(r)
          \/ Handled(r)
          \/ DropCached(r) \/ DeleteRow(r) \/ DeleteFails(r)
    \/ StartCleanup \/ (\E t \in Tokens : CleanCached(t)) \/ CleanRows \/ CleanupFails
    \/ Tick \/ Crash

Spec == Init /\ [][Next]_vars

-----------------------------------------------------------------------------
(* Properties.                                                             *)

\* A token that was logged out is never accepted again, not even before it would
\* have expired, unless a lookup of it fell between the two halves of the
\* log-out: nothing that is left, in the table, in the cache or in a request
\* under way, could bring it back.
LogoutHolds ==
    \A t \in ended :
        /\ sessions[t] = None
        /\ cache[t] = None
        /\ \A r \in Requests : req[r].token = t => req[r].pc \notin {"check", "store"}

\* The copy in the cache or in a request is that of the session issued.
IsTrueOf(entry, t) ==
    entry = [user |-> issued[t].user, expires |-> issued[t].created + Duration]

\* When a lookup finds a token good, the token is that user's and its session
\* has not lasted longer than SessionDuration, whether the answer comes from the
\* cache, filled at any time before, or from the table.
AcceptedInTime ==
    [][\A r \in Requests :
          req[r].pc \in {"cached", "check"} /\ req'[r].pc \in {"store", "accepted"} =>
              /\ IsTrueOf(req[r].entry, req[r].token)
              /\ now <= issued[req[r].token].created + Duration]_vars

\* Only its own log-out ends a session early: no clean-up, no lookup and no
\* restart takes the row of one whose time is not over.
SessionsLast ==
    \A t \in Tokens \ leaving :
        issued[t] # None /\ now <= issued[t].created + Duration => sessions[t] = issued[t]

\* A name has a password whenever it is taken, and it stays that of the first
\* registration that succeeded.
NamesKept ==
    /\ users = {n \in Names : keys[n] # None}
    /\ \A n \in Names : keys[n] = owners[n]

=============================================================================
