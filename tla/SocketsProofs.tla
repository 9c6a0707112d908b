---------------------------- MODULE SocketsProofs ----------------------------
(***************************************************************************)
(* Sockets satisfies its safety properties for any number of handshakes,    *)
(* devices and deliveries.                                                  *)
(***************************************************************************)
EXTENDS SocketsInvariant, TLAPS, FiniteSetTheorems

USE SocketsAssumption

-----------------------------------------------------------------------------
(* Counting tokens.                                                        *)

LEMMA HoldersFinite == IsFiniteSet(Holders) /\ Cardinality(Holders) \in Nat
<1>1. Holders \subseteq Handlers
  BY DEF Holders
<1>. QED  BY <1>1, FS_Subset, FS_CardinalityType

LEMMA HoldersGrow ==
    ASSUME NEW h \in Handlers \ Holders, Holders' = Holders \cup {h}
    PROVE  Cardinality(Holders') = Cardinality(Holders) + 1
BY HoldersFinite, FS_AddElement

LEMMA HoldersShrink ==
    ASSUME NEW h \in Holders, Holders' = Holders \ {h}
    PROVE  /\ Cardinality(Holders') = Cardinality(Holders) - 1
           /\ Cardinality(Holders') \in Nat
<1>1. Cardinality(Holders') = Cardinality(Holders) - 1
  BY HoldersFinite, FS_RemoveElement
<1>2. IsFiniteSet(Holders \ {h})
  BY HoldersFinite, FS_RemoveElement
<1>. QED  BY <1>1, <1>2, FS_CardinalityType

-----------------------------------------------------------------------------
(* HandleWebSocket and HandleConnection.                                   *)

LEMMA ValidateStep ==
    ASSUME IInv, NEW h \in Handlers, Validate(h)
    PROVE  IInv'
<1>. USE DEF IInv, Validate, handshake, IsValid
<1>1. TypeOK'
  BY DEF TypeOK, PC, Shaking
<1>2. ReferencesInv'
  BY DEF ReferencesInv, Past, TypeOK, Worker, IdleWorker, Shutdown, Shaking
<1>3. ConnInv'
  BY DEF ConnInv, ReferencesInv, Past, TypeOK, Worker, IdleWorker, Shutdown,
         Shaking
<1>4. MapIsLive'
  BY DEF MapIsLive, TypeOK, Shutdown
<1>5. LiveIsReachable'
  BY DEF LiveIsReachable, Live, ConnInv, MapIsLive, TypeOK, Worker,
         IdleWorker, Shutdown
<1>6. TokensExact'
  BY DEF TokensExact, Holders, TypeOK
<1>7. HandshakeInv'
  BY DEF HandshakeInv, Shaking, TypeOK
<1>8. RevokedIsCutOff'
  BY DEF RevokedIsCutOff, HandshakeInv, LiveIsReachable, Live, Shaking,
         TypeOK, Shutdown
<1>9. MutexInv' /\ OneWriter'
  BY DEF MutexInv, Writers, OneWriter
<1>. QED  BY <1>1, <1>2, <1>3, <1>4, <1>5, <1>6, <1>7, <1>8, <1>9

LEMMA AdmitStep ==
    ASSUME IInv, NEW h \in Handlers, Admit(h)
    PROVE  IInv'
<1>. USE DEF IInv, Admit, handshake
<1>1. TypeOK'
  BY DEF TypeOK, PC, Shaking
<1>2. ReferencesInv'
  BY DEF ReferencesInv, Past, TypeOK, Worker, IdleWorker, Shutdown, Shaking
<1>3. ConnInv'
  BY DEF ConnInv, ReferencesInv, Past, TypeOK, Worker, IdleWorker, Shutdown,
         Shaking
<1>4. MapIsLive'
  BY DEF MapIsLive, TypeOK, Shutdown
<1>5. LiveIsReachable'
  BY DEF LiveIsReachable, Live, ConnInv, MapIsLive, TypeOK, Worker,
         IdleWorker, Shutdown
<1>6. TokensExact'
  <2>1. h \notin Holders
    BY DEF Holders
  <2>2. CASE tokens < MaxGlobalWebSockets /\ tokens' = tokens + 1
             /\ pc' = [pc EXCEPT ![h] = "admitted"]
    <3>1. Holders' = Holders \cup {h}
      BY <2>2 DEF Holders, TypeOK
    <3>2. Cardinality(Holders') = Cardinality(Holders) + 1
      BY <2>1, <3>1, HoldersGrow
    <3>. QED  BY <2>2, <3>2 DEF TokensExact, TypeOK
  <2>3. CASE tokens' = tokens /\ pc' = [pc EXCEPT ![h] = "done"]
    <3>1. Holders' = Holders
      BY <2>1, <2>3 DEF Holders, TypeOK
    <3>. QED  BY <2>3, <3>1 DEF TokensExact
  <2>. QED  BY <2>2, <2>3
<1>7. HandshakeInv'
  BY DEF HandshakeInv, Shaking, TypeOK
<1>8. RevokedIsCutOff'
  BY DEF RevokedIsCutOff, HandshakeInv, LiveIsReachable, Live, Shaking,
         TypeOK, Shutdown
<1>9. MutexInv' /\ OneWriter'
  BY DEF MutexInv, Writers, OneWriter
<1>. QED  BY <1>1, <1>2, <1>3, <1>4, <1>5, <1>6, <1>7, <1>8, <1>9

LEMMA UpgradeStep ==
    ASSUME IInv, NEW h \in Handlers, Upgrade(h)
    PROVE  IInv'
<1>. USE DEF IInv, Upgrade, handshake, ReleaseToken
<1>1. TokensExact' /\ tokens' \in Nat
  <2>1. h \in Holders
    BY DEF Holders
  <2>2. CASE pc' = [pc EXCEPT ![h] = "upgraded"] /\ tokens' = tokens
    <3>1. Holders' = Holders
      BY <2>1, <2>2 DEF Holders, TypeOK
    <3>. QED  BY <2>2, <3>1 DEF TokensExact, TypeOK
  <2>3. CASE pc' = [pc EXCEPT ![h] = "done"] /\ tokens' = tokens - 1
    <3>1. Holders' = Holders \ {h}
      BY <2>3 DEF Holders, TypeOK
    <3>2. /\ Cardinality(Holders') = Cardinality(Holders) - 1
          /\ Cardinality(Holders') \in Nat
      BY <2>1, <3>1, HoldersShrink
    <3>. QED  BY <2>3, <3>2 DEF TokensExact, TypeOK
  <2>. QED  BY <2>2, <2>3
<1>2. TypeOK'
  BY <1>1 DEF TypeOK, PC, Shaking
<1>3. ReferencesInv'
  BY DEF ReferencesInv, Past, TypeOK, Worker, IdleWorker, Shutdown, Shaking
<1>4. ConnInv'
  BY DEF ConnInv, ReferencesInv, Past, TypeOK, Worker, IdleWorker, Shutdown,
         Shaking
<1>5. MapIsLive'
  BY DEF MapIsLive, TypeOK, Shutdown
<1>6. LiveIsReachable'
  BY DEF LiveIsReachable, Live, ConnInv, MapIsLive, TypeOK, Worker,
         IdleWorker, Shutdown
<1>7. HandshakeInv'
  BY DEF HandshakeInv, Shaking, TypeOK
<1>8. RevokedIsCutOff'
  BY DEF RevokedIsCutOff, HandshakeInv, LiveIsReachable, Live, Shaking,
         TypeOK, Shutdown
<1>9. MutexInv' /\ OneWriter'
  BY DEF MutexInv, Writers, OneWriter
<1>. QED  BY <1>1, <1>2, <1>3, <1>4, <1>5, <1>6, <1>7, <1>8, <1>9

LEMMA RegisterStep ==
    ASSUME IInv, NEW h \in Handlers, Register(h)
    PROVE  IInv'
<1>. USE DEF IInv, Register, handshake, Close
<1>1. TypeOK'
  BY DEF TypeOK, PC, Shaking
<1>2. ReferencesInv'
  BY DEF ReferencesInv, Past, TypeOK, Worker, IdleWorker, Shutdown, Shaking
<1>3. ConnInv'
  BY DEF ConnInv, ReferencesInv, Past, TypeOK, Worker, IdleWorker, Shutdown,
         Shaking
<1>4. MapIsLive'
  BY DEF MapIsLive, TypeOK, Shutdown
<1>5. LiveIsReachable'
  BY DEF LiveIsReachable, Live, ConnInv, MapIsLive, TypeOK, Worker,
         IdleWorker, Shutdown
<1>6. TokensExact'
  BY DEF TokensExact, Holders, TypeOK
<1>7. MutexInv'
  BY DEF MutexInv, OneWriter, Writers, TypeOK, Worker, IdleWorker, Shutdown
<1>8. OneWriter'
  BY DEF MutexInv, OneWriter, Writers, TypeOK, Worker, IdleWorker, Shutdown
<1>9. HandshakeInv'
  BY DEF HandshakeInv, Shaking, TypeOK
<1>10. RevokedIsCutOff'
  BY DEF RevokedIsCutOff, HandshakeInv, LiveIsReachable, Live, Shaking,
         TypeOK, Shutdown
<1>. QED  BY <1>1, <1>2, <1>3, <1>4, <1>5, <1>6, <1>7, <1>8, <1>9, <1>10

LEMMA StopReadingStep ==
    ASSUME IInv, NEW h \in Handlers, StopReading(h)
    PROVE  IInv'
<1>. USE DEF IInv, StopReading, handshake, Close
<1>1. TypeOK'
  BY DEF TypeOK, PC, Shaking
<1>2. ReferencesInv'
  BY DEF ReferencesInv, Past, TypeOK, Worker, IdleWorker, Shutdown, Shaking
<1>3. ConnInv'
  BY DEF ConnInv, ReferencesInv, Past, TypeOK, Worker, IdleWorker, Shutdown,
         Shaking
<1>4. MapIsLive'
  BY DEF MapIsLive, TypeOK, Shutdown
<1>5. LiveIsReachable'
  BY DEF LiveIsReachable, Live, ConnInv, MapIsLive, TypeOK, Worker,
         IdleWorker, Shutdown
<1>6. TokensExact'
  BY DEF TokensExact, Holders, TypeOK
<1>7. HandshakeInv'
  BY DEF HandshakeInv, Shaking, TypeOK
<1>8. RevokedIsCutOff'
  BY DEF RevokedIsCutOff, HandshakeInv, LiveIsReachable, Live, Shaking,
         TypeOK, Shutdown
<1>9. MutexInv' /\ OneWriter'
  BY DEF MutexInv, Writers, OneWriter
<1>. QED  BY <1>1, <1>2, <1>3, <1>4, <1>5, <1>6, <1>7, <1>8, <1>9

LEMMA UnregisterStep ==
    ASSUME IInv, NEW h \in Handlers, Unregister(h)
    PROVE  IInv'
<1>. USE DEF IInv, Unregister, handshake, RemoveOwn
<1>1. TypeOK'
  BY DEF TypeOK, PC, Shaking
<1>2. ReferencesInv'
  BY DEF ReferencesInv, Past, TypeOK, Worker, IdleWorker, Shutdown, Shaking
<1>3. ConnInv'
  BY DEF ConnInv, ReferencesInv, Past, TypeOK, Worker, IdleWorker, Shutdown,
         Shaking
<1>4. MapIsLive'
  BY DEF MapIsLive, TypeOK, Shutdown
<1>5. LiveIsReachable'
  BY DEF LiveIsReachable, Live, ConnInv, MapIsLive, TypeOK, Worker,
         IdleWorker, Shutdown
<1>6. TokensExact'
  BY DEF TokensExact, Holders, TypeOK
<1>7. HandshakeInv'
  BY DEF HandshakeInv, Shaking, TypeOK
<1>8. RevokedIsCutOff'
  BY DEF RevokedIsCutOff, HandshakeInv, LiveIsReachable, Live, Shaking,
         TypeOK, Shutdown
<1>9. MutexInv' /\ OneWriter'
  BY DEF MutexInv, Writers, OneWriter
<1>. QED  BY <1>1, <1>2, <1>3, <1>4, <1>5, <1>6, <1>7, <1>8, <1>9

LEMMA ReleaseStep ==
    ASSUME IInv, NEW h \in Handlers, Release(h)
    PROVE  IInv'
<1>. USE DEF IInv, Release, handshake, ReleaseToken
<1>1. TokensExact' /\ tokens' \in Nat
  <2>1. h \in Holders /\ Holders' = Holders \ {h}
    BY DEF Holders, TypeOK
  <2>2. /\ Cardinality(Holders') = Cardinality(Holders) - 1
        /\ Cardinality(Holders') \in Nat
    BY <2>1, HoldersShrink
  <2>. QED  BY <2>2 DEF TokensExact, TypeOK
<1>2. TypeOK'
  BY <1>1 DEF TypeOK, PC, Shaking
<1>3. ReferencesInv'
  BY DEF ReferencesInv, Past, TypeOK, Worker, IdleWorker, Shutdown, Shaking
<1>4. ConnInv'
  BY DEF ConnInv, ReferencesInv, Past, TypeOK, Worker, IdleWorker, Shutdown,
         Shaking
<1>5. MapIsLive'
  BY DEF MapIsLive, TypeOK, Shutdown
<1>6. LiveIsReachable'
  BY DEF LiveIsReachable, Live, ConnInv, MapIsLive, TypeOK, Worker,
         IdleWorker, Shutdown
<1>7. HandshakeInv'
  BY DEF HandshakeInv, Shaking, TypeOK
<1>8. RevokedIsCutOff'
  BY DEF RevokedIsCutOff, HandshakeInv, LiveIsReachable, Live, Shaking,
         TypeOK, Shutdown
<1>9. MutexInv' /\ OneWriter'
  BY DEF MutexInv, Writers, OneWriter
<1>. QED  BY <1>1, <1>2, <1>3, <1>4, <1>5, <1>6, <1>7, <1>8, <1>9

-----------------------------------------------------------------------------
(* The heartbeat.                                                          *)

LEMMA TickStep ==
    ASSUME IInv, NEW h \in Handlers, Tick(h)
    PROVE  IInv'
<1>. USE DEF IInv, Tick, ping
<1>1. TypeOK'
  BY DEF TypeOK
<1>2. MutexInv'
  BY DEF MutexInv, OneWriter, Writers, TypeOK, Worker, IdleWorker, Shutdown
<1>3. OneWriter'
  BY DEF MutexInv, OneWriter, Writers, TypeOK, Worker, IdleWorker, Shutdown
<1>4. ReferencesInv' /\ ConnInv' /\ MapIsLive' /\ LiveIsReachable' /\
      TokensExact' /\ HandshakeInv' /\ RevokedIsCutOff'
  BY DEF ReferencesInv, ConnInv, MapIsLive, LiveIsReachable, Live,
         TokensExact, Holders, HandshakeInv, RevokedIsCutOff
<1>. QED  BY <1>1, <1>2, <1>3, <1>4

LEMMA LockForPingStep ==
    ASSUME IInv, NEW h \in Handlers, LockForPing(h)
    PROVE  IInv'
<1>. USE DEF IInv, LockForPing, ping, Lock
<1>1. TypeOK'
  BY DEF TypeOK
<1>2. MutexInv'
  BY DEF MutexInv, OneWriter, Writers, TypeOK, Worker, IdleWorker, Shutdown
<1>3. OneWriter'
  BY DEF MutexInv, OneWriter, Writers, TypeOK, Worker, IdleWorker, Shutdown
<1>4. ReferencesInv' /\ ConnInv' /\ MapIsLive' /\ LiveIsReachable' /\
      TokensExact' /\ HandshakeInv' /\ RevokedIsCutOff'
  BY DEF ReferencesInv, ConnInv, MapIsLive, LiveIsReachable, Live,
         TokensExact, Holders, HandshakeInv, RevokedIsCutOff
<1>. QED  BY <1>1, <1>2, <1>3, <1>4

LEMMA PingStep ==
    ASSUME IInv, NEW h \in Handlers, Ping(h)
    PROVE  IInv'
<1>. USE DEF IInv, Ping, ping, Unlock
<1>1. TypeOK'
  BY DEF TypeOK
<1>2. MutexInv'
  BY DEF MutexInv, OneWriter, Writers, TypeOK, Worker, IdleWorker, Shutdown
<1>3. OneWriter'
  BY DEF MutexInv, OneWriter, Writers, TypeOK, Worker, IdleWorker, Shutdown
<1>4. ReferencesInv' /\ ConnInv' /\ MapIsLive' /\ LiveIsReachable' /\
      TokensExact' /\ HandshakeInv' /\ RevokedIsCutOff'
  BY DEF ReferencesInv, ConnInv, MapIsLive, LiveIsReachable, Live,
         TokensExact, Holders, HandshakeInv, RevokedIsCutOff
<1>. QED  BY <1>1, <1>2, <1>3, <1>4

LEMMA GiveUpStep ==
    ASSUME IInv, NEW h \in Handlers, GiveUp(h)
    PROVE  IInv'
<1>. USE DEF IInv, GiveUp, ping, Close
<1>1. TypeOK'
  BY DEF TypeOK
<1>2. ConnInv'
  BY DEF ConnInv, ReferencesInv, Past, TypeOK, Worker, IdleWorker, Shutdown,
         Shaking
<1>3. LiveIsReachable'
  BY DEF LiveIsReachable, Live, ConnInv, MapIsLive, TypeOK, Worker,
         IdleWorker, Shutdown
<1>4. MutexInv'
  BY DEF MutexInv, OneWriter, Writers, TypeOK, Worker, IdleWorker, Shutdown
<1>5. OneWriter'
  BY DEF MutexInv, OneWriter, Writers, TypeOK, Worker, IdleWorker, Shutdown
<1>6. RevokedIsCutOff'
  BY DEF RevokedIsCutOff, HandshakeInv, LiveIsReachable, Live, Shaking,
         TypeOK, Shutdown
<1>7. ReferencesInv' /\ MapIsLive' /\ TokensExact' /\ HandshakeInv'
  BY DEF ReferencesInv, MapIsLive, TokensExact, Holders, HandshakeInv
<1>. QED  BY <1>1, <1>2, <1>3, <1>4, <1>5, <1>6, <1>7

LEMMA StopStep ==
    ASSUME IInv, NEW h \in Handlers, Stop(h)
    PROVE  IInv'
<1>. USE DEF IInv, Stop, ping
<1>1. TypeOK'
  BY DEF TypeOK
<1>2. MutexInv'
  BY DEF MutexInv, OneWriter, Writers, TypeOK, Worker, IdleWorker, Shutdown
<1>3. OneWriter'
  BY DEF MutexInv, OneWriter, Writers, TypeOK, Worker, IdleWorker, Shutdown
<1>4. ReferencesInv' /\ ConnInv' /\ MapIsLive' /\ LiveIsReachable' /\
      TokensExact' /\ HandshakeInv' /\ RevokedIsCutOff'
  BY DEF ReferencesInv, ConnInv, MapIsLive, LiveIsReachable, Live,
         TokensExact, Holders, HandshakeInv, RevokedIsCutOff
<1>. QED  BY <1>1, <1>2, <1>3, <1>4

-----------------------------------------------------------------------------
(* DeliverMessage.                                                         *)

LEMMA LookUpStep ==
    ASSUME IInv, NEW w \in Workers, NEW d \in Devices, LookUp(w, d)
    PROVE  IInv'
<1>. USE DEF IInv, LookUp, delivery
<1>1. TypeOK'
  BY DEF TypeOK, Worker, IdleWorker
<1>2. ReferencesInv'
  BY DEF ReferencesInv, Past, TypeOK, Worker, IdleWorker, Shutdown, Shaking
<1>3. ConnInv'
  BY DEF ConnInv, ReferencesInv, Past, TypeOK, Worker, IdleWorker, Shutdown,
         Shaking
<1>4. MutexInv'
  BY DEF MutexInv, OneWriter, Writers, TypeOK, Worker, IdleWorker, Shutdown
<1>5. OneWriter'
  BY DEF MutexInv, OneWriter, Writers, TypeOK, Worker, IdleWorker, Shutdown
<1>6. MapIsLive' /\ LiveIsReachable' /\ TokensExact' /\ HandshakeInv' /\
      RevokedIsCutOff'
  BY DEF MapIsLive, LiveIsReachable, Live, TokensExact, Holders, HandshakeInv,
         RevokedIsCutOff
<1>. QED  BY <1>1, <1>2, <1>3, <1>4, <1>5, <1>6

LEMMA LockSessionStep ==
    ASSUME IInv, NEW w \in Workers, LockSession(w)
    PROVE  IInv'
<1>. USE DEF IInv, LockSession, delivery, Lock
<1>1. TypeOK'
  BY DEF TypeOK, Worker, IdleWorker
<1>2. ReferencesInv'
  BY DEF ReferencesInv, Past, TypeOK, Worker, IdleWorker, Shutdown, Shaking
<1>3. ConnInv'
  BY DEF ConnInv, ReferencesInv, Past, TypeOK, Worker, IdleWorker, Shutdown,
         Shaking
<1>4. MutexInv'
  BY DEF MutexInv, OneWriter, Writers, TypeOK, Worker, IdleWorker, Shutdown
<1>5. OneWriter'
  BY DEF MutexInv, OneWriter, Writers, TypeOK, Worker, IdleWorker, Shutdown
<1>6. MapIsLive' /\ LiveIsReachable' /\ TokensExact' /\ HandshakeInv' /\
      RevokedIsCutOff'
  BY DEF MapIsLive, LiveIsReachable, Live, TokensExact, Holders, HandshakeInv,
         RevokedIsCutOff
<1>. QED  BY <1>1, <1>2, <1>3, <1>4, <1>5, <1>6

LEMMA WriteStep ==
    ASSUME IInv, NEW w \in Workers, Write(w)
    PROVE  IInv'
<1>. USE DEF IInv, Write, delivery, Close, Unlock
<1>1. TypeOK'
  <2>1. worker[w] \in Worker /\ worker[w].pc = "writing"
    BY DEF TypeOK
  <2>2. worker[w].session \in Handlers
    BY <2>1 DEF Worker, IdleWorker
  <2>3. [worker[w] EXCEPT !.pc = "failed"] \in Worker /\ IdleWorker \in Worker
    BY <2>1 DEF Worker, IdleWorker
  <2>4. worker' \in [Workers -> Worker]
    BY <2>3 DEF TypeOK
  <2>5. conn' \in [Handlers -> {"none", "open", "closed"}]
        /\ mu' \in [Handlers -> BOOLEAN]
    BY <2>2 DEF TypeOK
  <2>. QED  BY <2>4, <2>5 DEF TypeOK
<1>2. ReferencesInv'
  BY DEF ReferencesInv, Past, TypeOK, Worker, IdleWorker, Shutdown, Shaking
<1>3. ConnInv'
  BY DEF ConnInv, ReferencesInv, Past, TypeOK, Worker, IdleWorker, Shutdown,
         Shaking
<1>4. LiveIsReachable'
  BY DEF LiveIsReachable, Live, ConnInv, MapIsLive, TypeOK, Worker,
         IdleWorker, Shutdown
<1>5. MutexInv'
  BY DEF MutexInv, OneWriter, Writers, TypeOK, Worker, IdleWorker, Shutdown
<1>6. OneWriter'
  <2>1. \A h \in Handlers : Writers(h)' \subseteq Writers(h)
    BY DEF Writers, TypeOK, Worker, IdleWorker
  <2>2. OneWriter /\ UNCHANGED <<heartbeat, shutdown>>
    OBVIOUS
  <2>. QED  BY ONLY <2>1, <2>2 DEF OneWriter
<1>7. RevokedIsCutOff'
  BY DEF RevokedIsCutOff, HandshakeInv, LiveIsReachable, Live, Shaking,
         TypeOK, Shutdown
<1>8. MapIsLive' /\ TokensExact' /\ HandshakeInv'
  BY DEF MapIsLive, TokensExact, Holders, HandshakeInv
<1>. QED  BY <1>1, <1>2, <1>3, <1>4, <1>5, <1>6, <1>7, <1>8

LEMMA DropSessionStep ==
    ASSUME IInv, NEW w \in Workers, DropSession(w)
    PROVE  IInv'
<1>. USE DEF IInv, DropSession, delivery, Unlock, RemoveOwn
<1>1. TypeOK'
  BY DEF TypeOK, Worker, IdleWorker
<1>2. ReferencesInv'
  BY DEF ReferencesInv, Past, TypeOK, Worker, IdleWorker, Shutdown, Shaking
<1>3. ConnInv'
  BY DEF ConnInv, ReferencesInv, Past, TypeOK, Worker, IdleWorker, Shutdown,
         Shaking
<1>4. MapIsLive'
  BY DEF MapIsLive, TypeOK, Shutdown
<1>5. LiveIsReachable'
  BY DEF LiveIsReachable, Live, ConnInv, MapIsLive, TypeOK, Worker,
         IdleWorker, Shutdown
<1>6. MutexInv'
  BY DEF MutexInv, OneWriter, Writers, TypeOK, Worker, IdleWorker, Shutdown
<1>7. OneWriter'
  <2>1. \A h \in Handlers : Writers(h)' \subseteq Writers(h)
    BY DEF Writers, TypeOK, Worker, IdleWorker
  <2>2. OneWriter /\ UNCHANGED <<heartbeat, shutdown>>
    OBVIOUS
  <2>. QED  BY ONLY <2>1, <2>2 DEF OneWriter
<1>8. TokensExact' /\ HandshakeInv' /\ RevokedIsCutOff'
  BY DEF TokensExact, Holders, HandshakeInv, RevokedIsCutOff, Live
<1>. QED  BY <1>1, <1>2, <1>3, <1>4, <1>5, <1>6, <1>7, <1>8

-----------------------------------------------------------------------------
(* RevokeDevice.                                                           *)

LEMMA RevokeDeviceStep ==
    ASSUME IInv, NEW d \in Devices, RevokeDevice(d)
    PROVE  IInv'
<1>. USE DEF IInv, RevokeDevice
<1>1. TypeOK'
  BY DEF TypeOK
<1>2. HandshakeInv'
  BY DEF HandshakeInv, Shaking, TypeOK
<1>3. RevokedIsCutOff'
  BY DEF RevokedIsCutOff, HandshakeInv, LiveIsReachable, Live, Shaking,
         TypeOK, Shutdown
<1>4. ReferencesInv' /\ ConnInv' /\ MapIsLive' /\ LiveIsReachable' /\
      TokensExact' /\ MutexInv' /\ OneWriter'
  BY DEF ReferencesInv, ConnInv, MapIsLive, LiveIsReachable, Live,
         TokensExact, Holders, MutexInv, Writers, OneWriter
<1>. QED  BY <1>1, <1>2, <1>3, <1>4

LEMMA DisconnectDeviceStep ==
    ASSUME IInv, NEW d \in Devices, DisconnectDevice(d)
    PROVE  IInv'
<1>. USE DEF IInv, DisconnectDevice, Close
<1>1. TypeOK'
  <2>1. conn' \in [Handlers -> {"none", "open", "closed"}]
    BY DEF TypeOK
  <2>2. session' \in [Devices -> Handlers \cup {None}]
    BY DEF TypeOK
  <2>3. revoking' \subseteq Devices /\ missed' \subseteq Handlers
    BY DEF TypeOK
  <2>. QED  BY <2>1, <2>2, <2>3 DEF TypeOK
<1>2. ReferencesInv'
  BY DEF ReferencesInv, Past, TypeOK, Worker, IdleWorker, Shutdown, Shaking
<1>3. ConnInv'
  BY DEF ConnInv, ReferencesInv, Past, TypeOK, Worker, IdleWorker, Shutdown,
         Shaking
<1>4. MapIsLive'
  BY DEF MapIsLive, TypeOK, Shutdown
<1>5. ASSUME NEW h \in Handlers, Live(h)'
      PROVE  /\ Live(h) /\ h # session[d]
             /\ session[device[h]] = h \/ h \in shutdown.left
             /\ device[h] = d => h \in shutdown.left
  <2>1. Live(h) /\ h # session[d]
    BY <1>5 DEF Live
  <2>. QED  BY <2>1 DEF LiveIsReachable
<1>6. LiveIsReachable'
  BY <1>5 DEF LiveIsReachable, TypeOK
<1>7. HandshakeInv'
  BY DEF HandshakeInv, Shaking, TypeOK
<1>8. RevokedIsCutOff'
  BY <1>5 DEF RevokedIsCutOff, TypeOK
<1>9. TokensExact' /\ MutexInv' /\ OneWriter'
  BY DEF TokensExact, Holders, MutexInv, Writers, OneWriter
<1>. QED  BY <1>1, <1>2, <1>3, <1>4, <1>6, <1>7, <1>8, <1>9

-----------------------------------------------------------------------------
(* The shutdown.                                                           *)

LEMMA SweepStep ==
    ASSUME IInv, Sweep
    PROVE  IInv'
<1>. USE DEF IInv, Sweep, rest, Snapshot
<1>1. /\ Snapshot \in SUBSET Handlers
      /\ shutdown.left = {}
      /\ shutdown' = [pc |-> "sweeping", left |-> Snapshot,
                      current |-> shutdown.current]
  <2>1. Snapshot \in SUBSET Handlers /\ shutdown \in Shutdown
    BY DEF TypeOK
  <2>2. shutdown.left = {}
    BY DEF ReferencesInv
  <2>. HIDE DEF Snapshot
  <2>3. shutdown' = [pc |-> "sweeping", left |-> Snapshot,
                     current |-> shutdown.current]
    BY <2>1 DEF Shutdown
  <2>. QED  BY <2>1, <2>2, <2>3
<1>2. TypeOK'
  <2>. HIDE DEF Snapshot
  <2>. QED  BY <1>1 DEF TypeOK, Shutdown
<1>3. ReferencesInv'
  BY DEF ReferencesInv, Past, TypeOK, Worker, IdleWorker, Shutdown, Shaking
<1>4. MapIsLive'
  BY DEF MapIsLive, TypeOK, Shutdown
<1>5. LiveIsReachable'
  <2>1. \A h \in Handlers : Live(h) => h \in Snapshot
    BY <1>1 DEF LiveIsReachable, TypeOK
  <2>2. shutdown'.left = Snapshot
    BY <1>1
  <2>. QED  BY <2>1, <2>2 DEF LiveIsReachable, Live
<1>6. MutexInv'
  BY DEF MutexInv, OneWriter, Writers, TypeOK, Worker, IdleWorker, Shutdown
<1>7. OneWriter'
  BY DEF MutexInv, OneWriter, Writers, TypeOK, Worker, IdleWorker, Shutdown
<1>8. RevokedIsCutOff'
  BY <1>1 DEF RevokedIsCutOff, LiveIsReachable, Live, TypeOK
<1>9. ConnInv' /\ TokensExact' /\ HandshakeInv'
  BY DEF ConnInv, TokensExact, Holders, HandshakeInv
<1>. QED  BY <1>2, <1>3, <1>4, <1>5, <1>6, <1>7, <1>8, <1>9

LEMMA SayGoodbyeStep ==
    ASSUME IInv, NEW h \in Handlers, SayGoodbye(h)
    PROVE  IInv'
<1>. USE DEF IInv, SayGoodbye, rest, Lock
<1>1. TypeOK'
  BY DEF TypeOK, Shutdown
<1>2. ReferencesInv'
  BY DEF ReferencesInv, Past, TypeOK, Worker, IdleWorker, Shutdown, Shaking
<1>3. LiveIsReachable'
  BY DEF LiveIsReachable, Live, ConnInv, MapIsLive, TypeOK, Worker,
         IdleWorker, Shutdown
<1>4. MutexInv'
  BY DEF MutexInv, OneWriter, Writers, TypeOK, Worker, IdleWorker, Shutdown
<1>5. OneWriter'
  BY DEF MutexInv, OneWriter, Writers, TypeOK, Worker, IdleWorker, Shutdown
<1>6. RevokedIsCutOff'
  BY DEF RevokedIsCutOff, HandshakeInv, LiveIsReachable, Live, Shaking,
         TypeOK, Shutdown
<1>7. ConnInv' /\ MapIsLive' /\ TokensExact' /\ HandshakeInv'
  BY DEF ConnInv, MapIsLive, TokensExact, Holders, HandshakeInv
<1>. QED  BY <1>1, <1>2, <1>3, <1>4, <1>5, <1>6, <1>7

LEMMA SaidGoodbyeStep ==
    ASSUME IInv, SaidGoodbye
    PROVE  IInv'
<1>. USE DEF IInv, SaidGoodbye, rest, Unlock
<1>1. TypeOK'
  BY DEF TypeOK, Shutdown
<1>2. ReferencesInv'
  BY DEF ReferencesInv, Past, TypeOK, Worker, IdleWorker, Shutdown, Shaking
<1>3. LiveIsReachable'
  BY DEF LiveIsReachable, Live, ConnInv, MapIsLive, TypeOK, Worker,
         IdleWorker, Shutdown
<1>4. MutexInv'
  BY DEF MutexInv, OneWriter, Writers, TypeOK, Worker, IdleWorker, Shutdown
<1>5. OneWriter'
  BY DEF MutexInv, OneWriter, Writers, TypeOK, Worker, IdleWorker, Shutdown
<1>6. RevokedIsCutOff'
  BY DEF RevokedIsCutOff, HandshakeInv, LiveIsReachable, Live, Shaking,
         TypeOK, Shutdown
<1>7. ConnInv' /\ MapIsLive' /\ TokensExact' /\ HandshakeInv'
  BY DEF ConnInv, MapIsLive, TokensExact, Holders, HandshakeInv
<1>. QED  BY <1>1, <1>2, <1>3, <1>4, <1>5, <1>6, <1>7

LEMMA HangupStep ==
    ASSUME IInv, Hangup
    PROVE  IInv'
<1>. USE DEF IInv, Hangup, rest, Close
<1>1. TypeOK'
  <2>1. /\ shutdown.left \ {shutdown.current} \in SUBSET Handlers
        /\ {"sweeping"} \subseteq {"running", "sweeping", "farewell", "closing",
                                  "drained", "stopped"}
    BY DEF TypeOK, Shutdown
  <2>2. shutdown' \in Shutdown
    BY <2>1 DEF Shutdown
  <2>3. conn' \in [Handlers -> {"none", "open", "closed"}]
    BY DEF TypeOK
  <2>. QED  BY <2>2, <2>3 DEF TypeOK
<1>2. ReferencesInv'
  BY DEF ReferencesInv, Past, TypeOK, Worker, IdleWorker, Shutdown, Shaking
<1>3. ConnInv'
  BY DEF ConnInv, ReferencesInv, Past, TypeOK, Worker, IdleWorker, Shutdown,
         Shaking
<1>4. LiveIsReachable'
  BY DEF LiveIsReachable, Live, ConnInv, MapIsLive, TypeOK, Worker,
         IdleWorker, Shutdown
<1>5. MutexInv'
  BY DEF MutexInv, OneWriter, Writers, TypeOK, Worker, IdleWorker, Shutdown
<1>6. OneWriter'
  BY DEF MutexInv, OneWriter, Writers, TypeOK, Worker, IdleWorker, Shutdown
<1>7. RevokedIsCutOff'
  BY DEF RevokedIsCutOff, HandshakeInv, LiveIsReachable, Live, Shaking,
         TypeOK, Shutdown
<1>8. MapIsLive' /\ TokensExact' /\ HandshakeInv'
  BY DEF MapIsLive, TokensExact, Holders, HandshakeInv
<1>. QED  BY <1>1, <1>2, <1>3, <1>4, <1>5, <1>6, <1>7, <1>8

LEMMA DrainedStep ==
    ASSUME IInv, Drained
    PROVE  IInv'
<1>. USE DEF IInv, Drained, rest
<1>1. TypeOK'
  BY DEF TypeOK, Shutdown
<1>2. ReferencesInv'
  BY DEF ReferencesInv, Past, TypeOK, Worker, IdleWorker, Shutdown, Shaking
<1>3. LiveIsReachable'
  BY DEF LiveIsReachable, Live, ConnInv, MapIsLive, TypeOK, Worker,
         IdleWorker, Shutdown
<1>4. MutexInv'
  BY DEF MutexInv, OneWriter, Writers, TypeOK, Worker, IdleWorker, Shutdown
<1>5. OneWriter'
  BY DEF MutexInv, OneWriter, Writers, TypeOK, Worker, IdleWorker, Shutdown
<1>6. RevokedIsCutOff'
  BY DEF RevokedIsCutOff, HandshakeInv, LiveIsReachable, Live, Shaking,
         TypeOK, Shutdown
<1>7. ConnInv' /\ MapIsLive' /\ TokensExact' /\ HandshakeInv'
  BY DEF ConnInv, MapIsLive, TokensExact, Holders, HandshakeInv
<1>. QED  BY <1>1, <1>2, <1>3, <1>4, <1>5, <1>6, <1>7

LEMMA StopServerStep ==
    ASSUME IInv, StopServer
    PROVE  IInv'
<1>. USE DEF IInv, StopServer, rest
<1>1. TypeOK'
  BY DEF TypeOK, Shutdown
<1>2. ReferencesInv'
  BY DEF ReferencesInv, Past, TypeOK, Worker, IdleWorker, Shutdown, Shaking
<1>3. LiveIsReachable'
  BY DEF LiveIsReachable, Live, ConnInv, MapIsLive, TypeOK, Worker,
         IdleWorker, Shutdown
<1>4. MutexInv'
  BY DEF MutexInv, OneWriter, Writers, TypeOK, Worker, IdleWorker, Shutdown
<1>5. OneWriter'
  BY DEF MutexInv, OneWriter, Writers, TypeOK, Worker, IdleWorker, Shutdown
<1>6. RevokedIsCutOff'
  BY DEF RevokedIsCutOff, HandshakeInv, LiveIsReachable, Live, Shaking,
         TypeOK, Shutdown
<1>7. ConnInv' /\ MapIsLive' /\ TokensExact' /\ HandshakeInv'
  BY DEF ConnInv, MapIsLive, TokensExact, Holders, HandshakeInv
<1>. QED  BY <1>1, <1>2, <1>3, <1>4, <1>5, <1>6, <1>7

-----------------------------------------------------------------------------
(* The inductive invariant.                                                *)

LEMMA InitInv == Init => IInv
<1>. SUFFICES ASSUME Init PROVE IInv
  OBVIOUS
<1>1. TypeOK
  BY DEF Init, TypeOK, PC, Worker, Shutdown
<1>2. TokensExact
  <2>1. Holders = {}
    BY DEF Init, Holders
  <2>. QED  BY <2>1, FS_EmptySet DEF TokensExact, Init
<1>3. ReferencesInv /\ ConnInv /\ MapIsLive /\ LiveIsReachable
  BY DEF Init, ReferencesInv, ConnInv, MapIsLive, LiveIsReachable, Live, IdleWorker
<1>4. MutexInv /\ OneWriter
  BY DEF Init, MutexInv, OneWriter, Writers, IdleWorker
<1>5. HandshakeInv /\ RevokedIsCutOff
  BY DEF Init, HandshakeInv, RevokedIsCutOff, Live, Shaking
<1>. QED  BY <1>1, <1>2, <1>3, <1>4, <1>5 DEF IInv

LEMMA StutterStep ==
    ASSUME IInv, UNCHANGED vars
    PROVE  IInv'
<1>1. TypeOK' /\ ReferencesInv' /\ ConnInv' /\ MapIsLive' /\ LiveIsReachable'
  BY DEF IInv, vars, TypeOK, ReferencesInv, ConnInv, MapIsLive, LiveIsReachable,
         Live
<1>2. TokensExact' /\ MutexInv' /\ OneWriter' /\ HandshakeInv' /\ RevokedIsCutOff'
  BY DEF IInv, vars, TokensExact, Holders, MutexInv, OneWriter, Writers,
         HandshakeInv, RevokedIsCutOff, Live
<1>. QED  BY <1>1, <1>2 DEF IInv

LEMMA NextInv == IInv /\ [Next]_vars => IInv'
<1>. SUFFICES ASSUME IInv, [Next]_vars PROVE IInv'
  OBVIOUS
<1>1. CASE \E h \in Handlers : Handle(h)
  BY <1>1, ValidateStep, AdmitStep, UpgradeStep, RegisterStep, StopReadingStep,
     UnregisterStep, ReleaseStep
     DEF Handle
<1>2. CASE \E h \in Handlers : Heartbeat(h)
  BY <1>2, TickStep, LockForPingStep, PingStep, GiveUpStep, StopStep DEF Heartbeat
<1>3. CASE \E w \in Workers : Deliver(w)
  BY <1>3, LookUpStep, LockSessionStep, WriteStep, DropSessionStep DEF Deliver
<1>4. CASE \E d \in Devices : RevokeDevice(d) \/ DisconnectDevice(d)
  BY <1>4, RevokeDeviceStep, DisconnectDeviceStep
<1>5. CASE ShutDown
  BY <1>5, SweepStep, SayGoodbyeStep, SaidGoodbyeStep, HangupStep, DrainedStep,
     StopServerStep
     DEF ShutDown
<1>. QED  BY <1>1, <1>2, <1>3, <1>4, <1>5, StutterStep DEF Next

-----------------------------------------------------------------------------
(* The theorems.                                                           *)

\* In every reachable state the map, the connections, the tokens and the mutexes
\* agree with where handlers, heartbeats, deliveries and the shutdown are.
THEOREM SocketsInvariantHolds == Spec => []IInv
<1>1. IInv /\ [Next]_vars => IInv'
  BY NextInv
<1>. QED  BY InitInv, <1>1, PTL DEF Spec

\* The variables keep their types; in particular connSem never underflows.
THEOREM SocketsTypesHold == Spec => []TypeOK
<1>1. IInv => TypeOK
  BY DEF IInv
<1>. QED  BY SocketsInvariantHolds, <1>1, PTL

\* However old and new connections, failed writes, revocations and the shutdown
\* overlap, a connection that is served can be found and closed.
THEOREM LiveStaysReachable == Spec => []LiveIsReachable
<1>1. IInv => LiveIsReachable
  BY DEF IInv
<1>. QED  BY SocketsInvariantHolds, <1>1, PTL

\* Whoever looks a device up finds a session of its own whose handler is there.
THEOREM MapStaysLive == Spec => []MapIsLive
<1>1. IInv => MapIsLive
  BY DEF IInv
<1>. QED  BY SocketsInvariantHolds, <1>1, PTL

\* connSem counts exactly the handlers under way, up to the limit.
THEOREM TokensStayExact == Spec => []TokensExact
<1>1. IInv => TokensExact
  BY DEF IInv
<1>. QED  BY SocketsInvariantHolds, <1>1, PTL

\* Two goroutines never write to one connection at a time.
THEOREM OneWriterAtATime == Spec => []OneWriter
<1>1. IInv => OneWriter
  BY DEF IInv
<1>. QED  BY SocketsInvariantHolds, <1>1, PTL

\* After a revocation only a handshake caught between its check and its
\* registration can leave the device connected.
THEOREM RevokedStaysCutOff == Spec => []RevokedIsCutOff
<1>1. IInv => RevokedIsCutOff
  BY DEF IInv
<1>. QED  BY SocketsInvariantHolds, <1>1, PTL

=============================================================================
