------------------------- MODULE ResidentAdmissionsMC -------------------------
EXTENDS ResidentAdmissions, TLC

\* No action tells one attempt, one digest or one drain from another.
Symmetric == Permutations(Ids) \union Permutations(Keys) \union Permutations(Drainers)
=============================================================================
