----------------------------- MODULE MCDelivery -----------------------------
(* Instances of Delivery for TLC.                                          *)
EXTENDS DeliveryInvariant, TLC

CONSTANTS m1, m2, d1, s1, s2, s3

OneItem == {m1}
TwoItems == {m1, m2}
OneDevice == {d1}
ToOneDevice == [i \in Items |-> d1]
OneSlot == {s1}
TwoSlots == {s1, s2}
ThreeSlots == {s1, s2, s3}

\* The goroutines of a row are interchangeable.
SlotSymmetry == Permutations(Slots)

=============================================================================
