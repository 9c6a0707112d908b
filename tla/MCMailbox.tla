------------------------------ MODULE MCMailbox ------------------------------
(* Instances of Mailbox for TLC.                                           *)
EXTENDS MailboxInvariant, TLC

CONSTANTS alice, bob, phone, laptop, tablet, m1, m2, short, long,
          r1, r2, r3, r4

TwoUsers == {alice, bob}

\* A device of the sender, two of the recipient.
OneDevice == {phone}
TwoDevices == {phone, laptop}
ThreeDevices == {phone, laptop, tablet}
OwnerOf == [d \in Devices |-> IF d = phone THEN alice ELSE bob]

TwoIds == {m1, m2}
OneUser == {alice}
OneId == {m1}
OnePayload == {short}
TwoPayloads == {short, long}
SizeOf == [p \in Payloads |-> IF p = short THEN 1 ELSE 2]

TwoRequests == {r1, r2}
FourRequests == {r1, r2, r3, r4}

Envelope(from, to, mid, payload) ==
    [version |-> 2, uid |-> alice, from |-> from, to |-> to,
     mid |-> mid, payload |-> payload]

Broadcast(from, to, payload) ==
    [version |-> 1, uid |-> alice, from |-> from, to |-> to,
     mid |-> None, payload |-> payload]

Envelopes ==
    {Envelope(phone, laptop, mid, payload) :
        mid \in MessageIds, payload \in Payloads}

\* Two envelopes with one id, a third, and a copy for each device of the other.
AnyCall ==
    {Envelope(phone, laptop, m1, short), Envelope(phone, laptop, m1, long),
     Envelope(phone, laptop, m2, short), Broadcast(phone, bob, long)}

\* A user with one device, who writes to it with both versions.
ToMyself == {Envelope(phone, phone, m1, short), Broadcast(phone, alice, short)}

\* Requests are interchangeable.
RequestSymmetry == Permutations(Requests)

=============================================================================
