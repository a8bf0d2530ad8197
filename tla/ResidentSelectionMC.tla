------------------------- MODULE ResidentSelectionMC -------------------------
EXTENDS ResidentSelection, TLC

CONSTANTS m1, m2, f1, c1, c2, c3, i1, i2

\* Managed launchers are alike, and so are inodes, and so are configurations of
\* which none is told apart from another.
Managed == Launchers \ Foreground
Alike == Permutations(Inodes) \union Permutations(Managed) \union Permutations(Configs)
NobodyApart == {}
OldAndNew == {<<c1, c2>>, <<c2, c1>>}
=============================================================================
