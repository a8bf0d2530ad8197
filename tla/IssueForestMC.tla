---------------------------- MODULE IssueForestMC ----------------------------
(* Two small instances of IssueMovement in one run, told apart by the calls *)
(* there are: calls beside each other, and one call beside somebody who     *)
(* edits and creates issues.                                                *)
EXTENDS IssueMovement, TLC

CONSTANTS Single, \* the call of the second instance
          Child   \* the issue that may be created in it

Beside == INSTANCE IssueMovement WITH
  Movers <- Single, Spare <- Child, Home <- Projects, Stale <- Issues \ Child,
  MaxEdits <- 1, MaxTasks <- 2

EitherInit == Init \/ Beside!Init
EitherNext == (DOMAIN pc = Movers /\ Next) \/ (DOMAIN pc = Single /\ Beside!Next)
EitherSpec == EitherInit /\ [][EitherNext]_vars

\* Child is named at the start only: no step tells it from the others.
Alike == Permutations(Movers) \union Permutations(Issues)
=============================================================================
