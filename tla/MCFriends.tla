------------------------------ MODULE MCFriends ------------------------------
(* Instances of Friends for TLC.                                           *)
EXTENDS Friends, TLC

CONSTANTS alice, bob, c1, c2

TwoUsers == {alice, bob}
TwoClients == {c1, c2}

\* Everything the two can ask of each other, and two calls that end at once.
Ask(op, u, v) == [op |-> op, uid |-> u, target |-> v]
EachOther ==
    {Ask(op, alice, bob) : op \in {"add", "accept", "cancel", "remove"}}
    \cup {Ask(op, bob, alice) : op \in {"add", "accept", "decline"}}
    \cup {Ask("add", alice, alice), Ask("remove", bob, None)}

=============================================================================
