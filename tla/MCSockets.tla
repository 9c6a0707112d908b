------------------------------ MODULE MCSockets ------------------------------
(***************************************************************************)
(* Instances of Sockets for TLC.                                            *)
(***************************************************************************)
EXTENDS SocketsInvariant, TLC

\* Handshakes, and deliveries, are interchangeable.
Symmetry == Permutations(Handlers) \cup Permutations(Workers)

=============================================================================
