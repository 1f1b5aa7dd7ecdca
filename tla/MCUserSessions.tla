---------------------------- MODULE MCUserSessions ----------------------------
EXTENDS UserSessions, TLC

\* Users are alike, and so are addresses.
Symmetry == Permutations(Users) \cup Permutations(Addresses)
================================================================================
