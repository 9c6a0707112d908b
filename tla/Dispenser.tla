------------------------------ MODULE Dispenser ------------------------------
(***************************************************************************)
(* What the prekey store promises its clients: uploads and claims are       *)
(* atomic.  A claim takes, of each kind, the unused one-time prekey with    *)
(* the least id, or none if the device has run out, together with the       *)
(* signed prekeys of the moment, and only from a device in service.  No    *)
(* prekey is handed out twice and none is lost.                             *)
(***************************************************************************)
EXTENDS Integers, FiniteSets

CONSTANTS
    Devices,
    Kinds,          \* "curve" and "pq"
    KeyIds,         \* of one-time prekeys, chosen by the clients
    Claims,
    Uploads,
    Batches,        \* the sets of one-time prekeys an upload may bring
    Limit,          \* one-time prekeys of a kind per device, used ones included
    None

VARIABLES
    stored,         \* the one-time prekeys ever uploaded
    consumed,       \* those handed out
    signed,         \* per device and kind, the upload of the signed prekey
    active,         \* the devices in service
    issued          \* per claim, its bundle

promised == <<stored, consumed, signed, active, issued>>

Key == [device: Devices, kind: Kinds, id: KeyIds]

Bundle == [device: Devices, keys: SUBSET Key,
           signed: [Kinds -> Uploads \cup {None}]]

Unused(d, kind) == {k \in stored \ consumed : k.device = d /\ k.kind = kind}

Next1(d, kind) == {k \in Unused(d, kind) : \A j \in Unused(d, kind) : k.id <= j.id}

Opened ==
    /\ stored = {}
    /\ consumed = {}
    /\ signed = [d \in Devices |-> [kind \in Kinds |-> None]]
    /\ active = {}
    /\ issued = [c \in Claims |-> None]

-----------------------------------------------------------------------------

\* An upload replaces signed prekeys and adds one-time prekeys, all or nothing.
Supply(u, d, kinds, keys) ==
    /\ stored' = stored \cup keys
    /\ \A k \in keys : k.device = d
    /\ \A k \in keys :
           Cardinality({j \in stored \cup keys : j.device = d /\ j.kind = k.kind})
               <= Limit
    /\ signed' = [signed EXCEPT ![d] =
                     [kind \in Kinds |-> IF kind \in kinds THEN u ELSE @[kind]]]
    /\ UNCHANGED <<consumed, active, issued>>

Issue(c, d) ==
    LET keys == UNION {Next1(d, kind) : kind \in Kinds}
    IN  /\ d \in active
        /\ issued[c] = None
        /\ consumed' = consumed \cup keys
        /\ issued' = [issued EXCEPT ![c] =
                         [device |-> d, keys |-> keys, signed |-> signed[d]]]
        /\ UNCHANGED <<stored, signed, active>>

\* Devices enter and leave service.
Enroll(d) ==
    /\ active' = active \cup {d}
    /\ UNCHANGED <<stored, consumed, signed, issued>>

Retire(d) ==
    /\ active' = active \ {d}
    /\ UNCHANGED <<stored, consumed, signed, issued>>

Promise ==
    \/ \E u \in Uploads, d \in Devices, kinds \in SUBSET Kinds,
          keys \in Batches : Supply(u, d, kinds, keys)
    \/ \E c \in Claims, d \in Devices : Issue(c, d)
    \/ \E d \in Devices : Enroll(d) \/ Retire(d)

Spec == Opened /\ [][Promise]_promised

=============================================================================
