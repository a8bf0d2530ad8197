---------------------------- MODULE IssueForest ----------------------------
(***************************************************************************)
(* What a caller of move_issue may rely on, whatever the moves that run    *)
(* beside it: the issues of a workspace are a forest, and it changes by    *)
(* whole moves only.  A move puts one issue under a new parent, or at the  *)
(* top of a project, and takes exactly the issues below it along; the new  *)
(* parent is never one of them.                                            *)
(*                                                                         *)
(* IssueMovement implements this with reads spread over time and one       *)
(* conditional batch.                                                      *)
(***************************************************************************)
CONSTANTS Issues, Projects, NoParent, Nowhere

VARIABLES
  attachedTo,     \* per issue, its parent; Nowhere for one not created yet
  space           \* per issue, its project

forest == <<attachedTo, space>>

\* The issues below r, and r: the least set with r and its members' children.
Closed(S) == \A c \in Issues : attachedTo[c] \in S => c \in S
Tree(r) == {i \in Issues : \A S \in SUBSET Issues : r \in S /\ Closed(S) => i \in S}

\* The workspace stays a forest: no issue is its own ancestor: following attachedTo leaves every set.
Acyclic == \A S \in SUBSET Issues : S # {} => \E i \in S : attachedTo[i] \notin S

\* A child is in its parent's project.
TogetherWithParent ==
  \A i \in Issues : attachedTo[i] \in Issues => space[i] = space[attachedTo[i]]

\* Whatever is attached exists, and so does what it is attached to.
Existing ==
  \A i \in Issues : /\ attachedTo[i] = Nowhere <=> space[i] = Nowhere
                    /\ attachedTo[i] \in Issues => attachedTo[attachedTo[i]] # Nowhere

Typed ==
  /\ attachedTo \in [Issues -> Issues \union {NoParent, Nowhere}]
  /\ space \in [Issues -> Projects \union {Nowhere}]

Init == Typed /\ Existing /\ Acyclic /\ TogetherWithParent

Move(r, p, d) ==
  /\ attachedTo[r] # Nowhere
  /\ attachedTo' = [attachedTo EXCEPT ![r] = p]
  /\ p # NoParent => attachedTo[p] # Nowhere /\ space[p] = d /\ p \notin Tree(r)
  /\ space' = [i \in Issues |-> IF i \in Tree(r) THEN d ELSE space[i]]

Create(i, p) ==
  /\ attachedTo[i] = Nowhere /\ attachedTo[p] # Nowhere
  /\ attachedTo' = [attachedTo EXCEPT ![i] = p]
  /\ space' = [space EXCEPT ![i] = space[p]]

Next ==
  \/ \E r \in Issues, p \in Issues \union {NoParent}, d \in Projects : Move(r, p, d)
  \/ \E i \in Issues, p \in Issues : Create(i, p)

Spec == Init /\ [][Next]_forest
=============================================================================
