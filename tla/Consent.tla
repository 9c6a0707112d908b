------------------------------- MODULE Consent -------------------------------
(***************************************************************************)
(* What friendships promise their users.  A user may want another one as a  *)
(* friend; two who want each other are friends, a one-sided wish is a       *)
(* friend request.  Only a user's own call can express a wish, and either   *)
(* of the two can end what there is between them.                           *)
(***************************************************************************)
CONSTANTS Users, Nobody

VARIABLES
    wants,      \* who wants whom
    actor       \* whose call the last change was

Start == wants = {} /\ actor = Nobody

Wish(u, v) ==
    /\ u # v
    /\ <<u, v>> \notin wants
    /\ wants' = wants \cup {<<u, v>>}
    /\ actor' = u

Part(u, v) ==
    /\ {<<u, v>>, <<v, u>>} \cap wants # {}
    /\ wants' = wants \ {<<u, v>>, <<v, u>>}
    /\ actor' = u

Spec == Start /\ [][\E u, v \in Users : Wish(u, v) \/ Part(u, v)]_<<wants, actor>>

=============================================================================
