---------------------------- MODULE MCRateLimiter ----------------------------
(* Instances of RateLimiter for TLC.                                       *)
EXTENDS RateLimiter, TLC

CONSTANTS k1, k2, g1, g2, g3, s1

TwoKeys == {k1, k2}
OneShard == {s1}
AllInOne == [k \in Keys |-> s1]
ThreeGoroutines == {g1, g2, g3}

\* Goroutines and addresses are interchangeable.
Symmetry == Permutations(Goroutines) \cup Permutations(Keys)

=============================================================================
