------------------------------ MODULE MCPrekeys ------------------------------
(* Instances of Prekeys for TLC.                                           *)
EXTENDS Prekeys, TLC

CONSTANTS alice, bob, phone, laptop, retry, r1, r2, r3

TwoUsers == {alice, bob}
TwoDevices == {phone, laptop}
OneDevice == {phone}
OwnerOf == [d \in Devices |-> bob]
BothKinds == {"curve", "pq"}
ThreeIds == 1 .. 3
OneRetry == {retry}
ThreeRequests == {r1, r2, r3}

OneTime(kind, id) == [device |-> phone, kind |-> kind, id |-> id]

UploadOf(kinds, keys) ==
    [op |-> "upload", uid |-> bob, device |-> phone, signed |-> kinds,
     keys |-> keys]

ClaimOf(d, idKey) ==
    [op |-> "claim", uid |-> alice, device |-> d, name |-> bob, idKey |-> idKey]

\* Two batches that fit one at a time, and claims with and without a key.
SomeCalls ==
    {UploadOf(BothKinds, {OneTime("curve", 2), OneTime("pq", 1)}),
     UploadOf({"pq"}, {OneTime("curve", 1), OneTime("curve", 3)}),
     ClaimOf(phone, None), ClaimOf(phone, retry), ClaimOf(laptop, retry)}

\* Requests are interchangeable.
RequestSymmetry == Permutations(Requests)

=============================================================================
