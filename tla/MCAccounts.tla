----------------------------- MODULE MCAccounts -----------------------------
(* Instances of Accounts for TLC.                                          *)
EXTENDS Accounts, TLC

CONSTANTS n1, p1, p2, t1, r1, r2, r3

OneName == {n1}
TwoPasswords == {p1, p2}
OneToken == {t1}
ThreeRequests == {r1, r2, r3}

\* Requests, tokens and passwords are interchangeable.
Symmetry == Permutations(Requests) \cup Permutations(Tokens) \cup Permutations(Passwords)

=============================================================================
