------------------------------- MODULE Sockets -------------------------------
(***************************************************************************)
(* The WebSocket manager: the handlers of connections, their heartbeats,    *)
(* the deliveries that write to them, the revocation that disconnects a     *)
(* device and the shutdown that closes everything.                         *)
(*                                                                         *)
(* A handler of HandleWebSocket is identified with its connection and its   *)
(* websocketSession.  sessionMutex is never held while anything waits, so   *)
(* each of its critical sections is one step; the mutex of a session is     *)
(* held during writes, which take time and may fail.                       *)
(***************************************************************************)
EXTENDS Integers, FiniteSets

CONSTANTS
    Handlers,               \* bound: the calls of HandleWebSocket
    Devices,
    Workers,                \* bound: concurrent calls of DeliverMessage
    None,                   \* no entry in the map of sessions
    MaxGlobalWebSockets

ASSUME SocketsAssumption ==
    /\ IsFiniteSet(Handlers)
    /\ None \notin Handlers
    /\ MaxGlobalWebSockets \in Nat \ {0}

VARIABLES
    status,     \* devices.status, of registered devices
    session,    \* activeSessions
    tokens,     \* how many connSem holds
    pc,         \* where the handlers are
    device,     \* the device of each handler
    conn,       \* the connections, as the server sees them
    mu,         \* per session: is its mutex held?
    heartbeat,  \* where the goroutines that ping are
    worker,     \* the calls of DeliverMessage
    revoking,   \* devices whose row is updated, but not yet disconnected
    shutdown,   \* where the shutdown is, and the sessions it has to close
    missed      \* history: handshakes that a disconnect came too early for

vars == <<status, session, tokens, pc, device, conn, mu, heartbeat, worker,
          revoking, shutdown, missed>>

-----------------------------------------------------------------------------

Shaking == {"validated", "admitted", "upgraded"}

PC == {"idle", "reading", "leaving", "releasing", "done"} \cup Shaking

\* The handlers with a token of connSem.
Holders == {h \in Handlers :
              pc[h] \in {"admitted", "upgraded", "reading", "leaving", "releasing"}}

IdleWorker == [pc |-> "idle", session |-> None]

Worker == {IdleWorker} \cup [pc: {"found", "writing", "failed"}, session: Handlers]

Shutdown == [pc: {"running", "sweeping", "farewell", "closing", "drained",
                  "stopped"},
             left: SUBSET Handlers, current: Handlers \cup {None}]

TypeOK ==
    /\ status \in [Devices -> {"ACTIVE", "REVOKED"}]
    /\ session \in [Devices -> Handlers \cup {None}]
    /\ tokens \in Nat
    /\ pc \in [Handlers -> PC]
    /\ device \in [Handlers -> Devices]
    /\ conn \in [Handlers -> {"none", "open", "closed"}]
    /\ mu \in [Handlers -> BOOLEAN]
    /\ heartbeat \in [Handlers -> {"off", "waiting", "due", "ping", "failed"}]
    /\ worker \in [Workers -> Worker]
    /\ revoking \subseteq Devices
    /\ shutdown \in Shutdown
    /\ missed \subseteq Handlers

Init ==
    /\ status = [d \in Devices |-> "ACTIVE"]
    /\ session = [d \in Devices |-> None]
    /\ tokens = 0
    /\ pc = [h \in Handlers |-> "idle"]
    /\ device \in [Handlers -> Devices]
    /\ conn = [h \in Handlers |-> "none"]
    /\ mu = [h \in Handlers |-> FALSE]
    /\ heartbeat = [h \in Handlers |-> "off"]
    /\ worker = [w \in Workers |-> IdleWorker]
    /\ revoking = {}
    /\ shutdown = [pc |-> "running", left |-> {}, current |-> None]
    /\ missed = {}

-----------------------------------------------------------------------------
(* The mutexes and the connections.                                        *)

\* A plausible bug: Shutdown keeps sessionMutex while it says goodbye.
SessionMutexKept == shutdown.pc \notin {"sweeping", "farewell", "closing"}

\* sessionMutex can be had at once: no step ends while it is held.
SessionMutexFree == TRUE

Lock(h) == ~mu[h] /\ mu' = [mu EXCEPT ![h] = TRUE]

Unlock(h) == mu' = [mu EXCEPT ![h] = FALSE]

\* Close on some connections.
Close(hs) == conn' = [h \in Handlers |-> IF h \in hs THEN "closed" ELSE conn[h]]

\* A plausible bug: the entry goes, whosever it is.
RemoveAny(h) == session' = [session EXCEPT ![device[h]] = None]

\* delete, if the entry of the device is still this session.
RemoveOwn(h) ==
    session' = [session EXCEPT ![device[h]] = IF @ = h THEN None ELSE @]

-----------------------------------------------------------------------------
(* HandleWebSocket and HandleConnection.                                   *)

handshake == <<device, mu, worker, revoking, shutdown, missed, status>>

\* A plausible bug: ValidateDeviceOwnership, which finds revoked devices too.
IsValidEver(d) == TRUE

\* ValidateActiveDeviceOwnership.
IsValid(d) == status[d] = "ACTIVE"

\* The request may also be refused for reasons
\* that are not modelled, or the query fail.
Validate(h) ==
    /\ pc[h] = "idle" /\ shutdown.pc # "stopped"
    /\ \/ /\ IsValid(device[h])
          /\ pc' = [pc EXCEPT ![h] = "validated"]
       \/ pc' = [pc EXCEPT ![h] = "done"]
    /\ UNCHANGED <<handshake, session, tokens, conn, heartbeat>>

Admit(h) ==
    /\ pc[h] = "validated"
    /\ IF tokens < MaxGlobalWebSockets
       THEN tokens' = tokens + 1 /\ pc' = [pc EXCEPT ![h] = "admitted"]
       ELSE pc' = [pc EXCEPT ![h] = "done"] /\ UNCHANGED tokens
    /\ UNCHANGED <<handshake, session, conn, heartbeat>>

\* A plausible bug: an early return without the token.
KeepToken == tokens' = tokens

ReleaseToken == tokens' = tokens - 1

Upgrade(h) ==
    /\ pc[h] = "admitted"
    /\ \/ /\ pc' = [pc EXCEPT ![h] = "upgraded"]
          /\ conn' = [conn EXCEPT ![h] = "open"]
          /\ UNCHANGED tokens
       \/ /\ pc' = [pc EXCEPT ![h] = "done"]
          /\ ReleaseToken
          /\ UNCHANGED conn
    /\ UNCHANGED <<handshake, session, heartbeat>>

Register(h) ==
    /\ pc[h] = "upgraded" /\ SessionMutexFree
    /\ Close({session[device[h]]})
    /\ session' = [session EXCEPT ![device[h]] = h]
    /\ heartbeat' = [heartbeat EXCEPT ![h] = "waiting"]
    /\ pc' = [pc EXCEPT ![h] = "reading"]
    /\ UNCHANGED <<handshake, tokens>>

\* ReadMessage fails: the client has gone or is late, or the server has closed.
StopReading(h) ==
    /\ pc[h] = "reading"
    /\ Close({h})
    /\ pc' = [pc EXCEPT ![h] = "leaving"]
    /\ UNCHANGED <<handshake, session, tokens, heartbeat>>

Unregister(h) ==
    /\ pc[h] = "leaving" /\ SessionMutexFree
    /\ RemoveOwn(h)
    /\ pc' = [pc EXCEPT ![h] = "releasing"]
    /\ UNCHANGED <<handshake, tokens, conn, heartbeat>>

Release(h) ==
    /\ pc[h] = "releasing"
    /\ ReleaseToken
    /\ pc' = [pc EXCEPT ![h] = "done"]
    /\ UNCHANGED <<handshake, session, conn, heartbeat>>

Handle(h) ==
    \/ Validate(h) \/ Admit(h) \/ Upgrade(h) \/ Register(h)
    \/ StopReading(h) \/ Unregister(h) \/ Release(h)

-----------------------------------------------------------------------------
(* The heartbeat of a session.                                             *)

ping == <<status, session, tokens, pc, device, worker, revoking, shutdown, missed>>

Tick(h) ==
    /\ heartbeat[h] = "waiting"
    /\ heartbeat' = [heartbeat EXCEPT ![h] = "due"]
    /\ UNCHANGED <<ping, mu, conn>>

LockForPing(h) ==
    /\ heartbeat[h] = "due" /\ Lock(h)
    /\ heartbeat' = [heartbeat EXCEPT ![h] = "ping"]
    /\ UNCHANGED <<ping, conn>>

\* A write to an open connection may fail, too.
Ping(h) ==
    /\ heartbeat[h] = "ping" /\ Unlock(h)
    /\ \/ conn[h] = "open" /\ heartbeat' = [heartbeat EXCEPT ![h] = "waiting"]
       \/ heartbeat' = [heartbeat EXCEPT ![h] = "failed"]
    /\ UNCHANGED <<ping, conn>>

GiveUp(h) ==
    /\ heartbeat[h] = "failed" /\ Close({h})
    /\ heartbeat' = [heartbeat EXCEPT ![h] = "off"]
    /\ UNCHANGED <<ping, mu>>

\* The handler has closed stopHeartbeat.
Stop(h) ==
    /\ heartbeat[h] = "waiting" /\ pc[h] # "reading"
    /\ heartbeat' = [heartbeat EXCEPT ![h] = "off"]
    /\ UNCHANGED <<ping, mu, conn>>

Heartbeat(h) ==
    Tick(h) \/ LockForPing(h) \/ Ping(h) \/ GiveUp(h) \/ Stop(h)

-----------------------------------------------------------------------------
(* DeliverMessage.                                                         *)

delivery == <<status, tokens, pc, device, heartbeat, revoking, shutdown, missed>>

LookUp(w, d) ==
    /\ worker[w].pc = "idle" /\ SessionMutexFree
    /\ session[d] # None
    /\ worker' = [worker EXCEPT ![w] = [pc |-> "found", session |-> session[d]]]
    /\ UNCHANGED <<delivery, session, conn, mu>>

LockSession(w) ==
    /\ worker[w].pc = "found" /\ Lock(worker[w].session)
    /\ worker' = [worker EXCEPT ![w].pc = "writing"]
    /\ UNCHANGED <<delivery, session, conn>>

Write(w) ==
    LET h == worker[w].session
    IN  /\ worker[w].pc = "writing"
        /\ \/ /\ conn[h] = "open" /\ Unlock(h)
              /\ worker' = [worker EXCEPT ![w] = IdleWorker]
              /\ UNCHANGED conn
           \/ /\ worker' = [worker EXCEPT ![w].pc = "failed"]
              /\ Close({h}) /\ UNCHANGED mu
        /\ UNCHANGED <<delivery, session>>

DropSession(w) ==
    /\ worker[w].pc = "failed" /\ SessionMutexFree
    /\ RemoveOwn(worker[w].session)
    /\ Unlock(worker[w].session)
    /\ worker' = [worker EXCEPT ![w] = IdleWorker]
    /\ UNCHANGED <<delivery, conn>>

Deliver(w) ==
    \/ \E d \in Devices : LookUp(w, d)
    \/ LockSession(w) \/ Write(w) \/ DropSession(w)

-----------------------------------------------------------------------------
(* RevokeDevice: first the row, then the connection.                       *)

RevokeDevice(d) ==
    /\ d \notin revoking /\ shutdown.pc # "stopped"
    /\ status' = [status EXCEPT ![d] = "REVOKED"]
    /\ revoking' = revoking \cup {d}
    /\ UNCHANGED <<session, tokens, pc, device, conn, mu, heartbeat, worker,
                   shutdown, missed>>

DisconnectDevice(d) ==
    /\ d \in revoking /\ SessionMutexFree
    /\ Close({session[d]})
    /\ session' = [session EXCEPT ![d] = None]
    /\ revoking' = revoking \ {d}
    /\ missed' = missed \cup {h \in Handlers : device[h] = d /\ pc[h] \in Shaking}
    /\ UNCHANGED <<status, tokens, pc, device, mu, heartbeat, worker, shutdown>>

-----------------------------------------------------------------------------
(* handleGracefulShutdown: the manager's Shutdown, then the server's.      *)

rest == <<status, tokens, pc, device, heartbeat, worker, revoking, missed>>

\* A plausible bug: the snapshot has gaps.
SnapshotWithGaps == {session[d] : d \in Devices}

Snapshot == {session[d] : d \in Devices} \ {None}

Sweep ==
    /\ shutdown.pc = "running" /\ SessionMutexFree
    /\ shutdown' = [shutdown EXCEPT !.pc = "sweeping", !.left = Snapshot]
    /\ session' = [d \in Devices |-> None]
    /\ UNCHANGED <<rest, conn, mu>>

\* A plausible bug: the close message is written without the mutex.
SayGoodbyeUnlocked(h) ==
    /\ shutdown.pc = "sweeping" /\ h \in shutdown.left
    /\ shutdown' = [shutdown EXCEPT !.pc = "farewell", !.current = h]
    /\ UNCHANGED <<rest, session, conn, mu>>

SayGoodbye(h) ==
    /\ shutdown.pc = "sweeping" /\ h \in shutdown.left /\ Lock(h)
    /\ shutdown' = [shutdown EXCEPT !.pc = "farewell", !.current = h]
    /\ UNCHANGED <<rest, session, conn>>

\* A plausible bug: the mutex is not released.
SaidGoodbyeLocked ==
    /\ shutdown.pc = "farewell"
    /\ shutdown' = [shutdown EXCEPT !.pc = "closing"]
    /\ UNCHANGED <<rest, session, conn, mu>>

\* The message is written, or not: its error is ignored.
SaidGoodbye ==
    /\ shutdown.pc = "farewell" /\ Unlock(shutdown.current)
    /\ shutdown' = [shutdown EXCEPT !.pc = "closing"]
    /\ UNCHANGED <<rest, session, conn>>

Hangup ==
    /\ shutdown.pc = "closing" /\ Close({shutdown.current})
    /\ shutdown' = [pc |-> "sweeping", left |-> shutdown.left \ {shutdown.current},
                    current |-> None]
    /\ UNCHANGED <<rest, session, mu>>

Drained ==
    /\ shutdown.pc = "sweeping" /\ shutdown.left = {}
    /\ shutdown' = [shutdown EXCEPT !.pc = "drained"]
    /\ UNCHANGED <<rest, session, conn, mu>>

\* Until here requests are accepted.  The server waits for those under way, for
\* some time, and has no part in the connections that were upgraded.
StopServer ==
    /\ shutdown.pc = "drained"
    /\ shutdown' = [shutdown EXCEPT !.pc = "stopped"]
    /\ UNCHANGED <<rest, session, conn, mu>>

ShutDown ==
    \/ Sweep
    \/ \E h \in Handlers : SayGoodbye(h)
    \/ SaidGoodbye \/ Hangup \/ Drained \/ StopServer

-----------------------------------------------------------------------------

Next ==
    \/ \E h \in Handlers : Handle(h) \/ Heartbeat(h)
    \/ \E w \in Workers : Deliver(w)
    \/ \E d \in Devices : RevokeDevice(d) \/ DisconnectDevice(d)
    \/ ShutDown

Spec == Init /\ [][Next]_vars

\* Goroutines run, writes end at their deadlines, reads of closed connections
\* fail; whoever waits for a mutex of a session gets it some time.
Fairness ==
    /\ \A h \in Handlers :
          /\ WF_vars(conn[h] = "closed" /\ StopReading(h))
          /\ WF_vars(Unregister(h)) /\ WF_vars(Release(h))
          /\ SF_vars(Heartbeat(h))
          /\ SF_vars(SayGoodbye(h))
    /\ \A w \in Workers :
          /\ SF_vars(LockSession(w)) /\ WF_vars(Write(w)) /\ WF_vars(DropSession(w))
    /\ WF_vars(SaidGoodbye) /\ WF_vars(Hangup) /\ WF_vars(Drained)

FairSpec == Spec /\ Fairness

-----------------------------------------------------------------------------
(* Properties.                                                             *)

Live(h) == pc[h] = "reading" /\ conn[h] = "open"

\* A connection that is served can be found, by a new connection of its device,
\* by a revocation or by the shutdown: nothing has taken its entry and left it
\* open.
LiveIsReachable ==
    \A h \in Handlers :
        Live(h) => session[device[h]] = h \/ h \in shutdown.left

\* The map has no session whose handler has ended, nor one of another device.
MapIsLive ==
    \A d \in Devices : session[d] # None =>
        device[session[d]] = d /\ pc[session[d]] \in {"reading", "leaving"}

\* connSem counts the handlers under way: no path loses a token or returns one
\* twice, and there are never more than the limit.
TokensExact ==
    tokens = Cardinality(Holders) /\ tokens <= MaxGlobalWebSockets

\* Heartbeat, deliveries and shutdown never write to a connection at once.
Writers(h) ==
    {w \in Workers : worker[w].session = h /\ worker[w].pc \in {"writing", "failed"}}

OneWriter ==
    \A h \in Handlers :
        /\ \A v, w \in Writers(h) : v = w
        /\ heartbeat[h] = "ping" => Writers(h) = {}
        /\ shutdown.pc = "farewell" /\ shutdown.current = h =>
              Writers(h) = {} /\ heartbeat[h] # "ping"

\* When a revocation has returned, only a handshake that had been validated
\* before and was not registered yet can leave the device connected, or
\* the shutdown is about to close the connection.
RevokedIsCutOff ==
    \A h \in Handlers :
        Live(h) /\ status[device[h]] = "REVOKED" /\ device[h] \notin revoking =>
            h \in missed \/ h \in shutdown.left

\* A call of DeliverMessage returns, whoever competes for its session, and so
\* does Shutdown, though deliveries and heartbeats hold the mutexes it needs.
CallsReturn ==
    /\ \A w \in Workers : worker[w].pc = "found" ~> worker[w].pc = "idle"
    /\ shutdown.pc = "sweeping" ~> shutdown.pc = "drained"

\* A closed connection comes to an end: its handler gives its token back, its
\* heartbeat stops.
ClosedEnds ==
    \A h \in Handlers :
        pc[h] = "reading" /\ conn[h] = "closed" ~>
            pc[h] = "done" /\ heartbeat[h] = "off"

\* Refuted: what the tests expect of a revocation, see the README.

\* A device is disconnected when its revocation has returned.
RevokedIsOffline ==
    \A h \in Handlers :
        Live(h) /\ status[device[h]] = "REVOKED" => device[h] \in revoking

=============================================================================
