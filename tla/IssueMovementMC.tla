--------------------------- MODULE IssueMovementMC ---------------------------
(* Small instances of IssueMovement; see the configurations.               *)
EXTENDS IssueMovement, TLC

CONSTANT Child \* what may be created in the second kind of start

\* Two calls by themselves, nobody having edits left, or one call beside others.
Alone == INSTANCE IssueMovement WITH edits <- MaxEdits - edits
Among == INSTANCE IssueMovement WITH Spare <- Child
EitherInit == (edits = MaxEdits /\ Alone!Init) \/ Among!Init
EitherSpec == EitherInit /\ [][Next]_vars

\* Bounds: the last edit is kept to tell the two apart, and one call is enough
\* beside somebody who edits or creates issues.
KeepsAnEdit == edits' # edits => edits' < MaxEdits
OneAmongOthers == edits < MaxEdits => \E m \in Movers : \A o \in Movers \ {m} : pc[o] = "start"

\* Child is named at the start only: no step tells it from the other issues.
Alike == Permutations(Movers) \union Permutations(Issues)
=============================================================================
