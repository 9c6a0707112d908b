-------------------------- MODULE SocketsInvariant --------------------------
(***************************************************************************)
(* The inductive invariant behind the safety properties of Sockets.         *)
(***************************************************************************)
EXTENDS Sockets

\* Handlers that have registered, or will not any more.
Past == {"reading", "leaving", "releasing", "done"}

\* Whoever refers to a session got it from the map.
ReferencesInv ==
    /\ \A d \in Devices : session[d] # None => pc[session[d]] \in Past
    /\ \A w \in Workers : worker[w].pc # "idle" => pc[worker[w].session] \in Past
    /\ \A h \in shutdown.left : pc[h] \in Past
    /\ shutdown.pc = "running" => shutdown.left = {}
    /\ shutdown.pc \in {"farewell", "closing"} =>
          shutdown.current # None /\ pc[shutdown.current] \in Past

\* Connections are open from the upgrade on, until closed for good.
ConnInv ==
    /\ \A h \in Handlers : conn[h] = "open" => pc[h] \in {"upgraded", "reading"}
    /\ \A w \in Workers : worker[w].pc = "failed" => conn[worker[w].session] = "closed"

\* Whoever writes to a connection has its mutex.
MutexInv ==
    \A h \in Handlers :
        /\ Writers(h) # {} => mu[h]
        /\ heartbeat[h] = "ping" => mu[h]
        /\ shutdown.pc = "farewell" /\ shutdown.current = h => mu[h]

\* A handshake that outlives the revocation has been missed by it.
HandshakeInv ==
    \A h \in Handlers :
        /\ pc[h] \in Shaking
        /\ status[device[h]] = "REVOKED" /\ device[h] \notin revoking
        => h \in missed

IInv ==
    /\ TypeOK
    /\ ReferencesInv
    /\ ConnInv
    /\ MapIsLive
    /\ LiveIsReachable
    /\ TokensExact
    /\ MutexInv
    /\ OneWriter
    /\ HandshakeInv
    /\ RevokedIsCutOff

=============================================================================
