------------------------- MODULE IssueMovement_proofs -------------------------
(***************************************************************************)
(* On a server that checks and applies a batch in one step, any number of  *)
(* concurrent calls of move_issue changes the forest by whole moves only.  *)
(* On any server, a call's report is true and no number is drawn unseen or *)
(* given to two issues.                                                    *)
(*                                                                         *)
(* The forest.                                                             *)
(* A batch is planned from reads made at different times.  What survives   *)
(* until it is applied is a relation between the fields of the request:    *)
(* its tasks hang together below the root by the rows it names (Fits).     *)
(* The conditions of the batch turn that relation into one about the       *)
(* issues as they are now, where the tasks are then the whole tree of the  *)
(* root.                                                                   *)
(*                                                                         *)
(* Derived data.  The rows of a plan hold every ancestor and list all that *)
(* is below each (Trusted), and none is newer than the issue (Current); so *)
(* what a batch writes from them is what it makes true (XInv).             *)
(*                                                                         *)
(* Types and reports.  What a call holds is of the type its control point  *)
(* takes it for (TInv), and its evidence allows no outcome but those that  *)
(* are true of what it has sent and seen (Reports).                        *)
(*                                                                         *)
(* Numbers.  A number is claimed from the moment the sequence gives it, by *)
(* an answer, evidence, a plan, a batch or a row; one step makes a claim   *)
(* (NextNumber), and the others pass claims on or drop them.               *)
(***************************************************************************)
EXTENDS IssueMovement, FiniteSetTheorems, TLAPS

\* The rows of S hang together below r: a set that holds r and, with an issue,
\* its children by these rows holds all of S.
HangTogether(S, rows, r) ==
  /\ r \in S /\ S \subseteq Issues
  /\ \A i \in S : i # r => rows[i].attachedTo \in S
  /\ \A T \in SUBSET Issues :
       r \in T /\ (\A c \in S : rows[c].attachedTo \in T => c \in T) => S \subseteq T

Fits(r, parent, dest, S, rows) ==
  /\ HangTogether(S, rows, r)
  /\ S \subseteq DOMAIN rows
  /\ parent \in Issues \union {NoParent} /\ dest \in Projects
  /\ parent # NoParent => parent \in DOMAIN rows \ S /\ rows[parent].space = dest

SelectedOk(m) ==
  pc[m] \notin {"start", "done"} =>
    /\ Root(m) \in Issues /\ Source(m) \in Projects /\ Dest(m) \in Projects
    /\ sel[m].parent \in Issues \union {NoParent}
    /\ sel[m].parent # NoParent => sel[m].parentRow.space = Dest(m)

WalkOk(m) ==
  pc[m] \in {"target", "tree"} =>
    /\ HangTogether(DOMAIN tree[m], tree[m], Root(m))
    /\ frontier[m] \subseteq DOMAIN tree[m]

PlanOk(m) ==
  pc[m] = "commit" =>
    Fits(Root(m), sel[m].parent, Dest(m), plan[m].tasks, plan[m].rows)

BatchOk(w) ==
  /\ Fits(w.root, w.parent, w.dest, w.tasks, w.rows)
  /\ w.source \in Projects
  /\ \A t \in w.tasks : w.final[t].attachedTo = IF t = w.root THEN w.parent ELSE w.rows[t].attachedTo

RequestOk(m) == ~Asks(m, "admitted") /\ (Asks(m, "batch") => BatchOk(net[m].write))

CallOk(m) == SelectedOk(m) /\ WalkOk(m) /\ PlanOk(m) /\ RequestOk(m)

\* Every row has its fields, and what is attached exists.
Fields == {"attachedTo", "space", "modifiedOn", "subIssues", "number", "parents", "childInfo"}
RowShape(r) ==
  /\ DOMAIN r = Fields
  /\ r.attachedTo \in Issues \union {NoParent, Nowhere}
  /\ r.space \in Projects \union {Nowhere}
  /\ r.attachedTo = Nowhere <=> r.space = Nowhere

IssuesOk ==
  /\ issue = [i \in Issues |-> issue[i]]
  /\ \A i \in Issues : RowShape(issue[i])
  /\ \A i \in Issues : issue[i].attachedTo \in Issues => issue[issue[i].attachedTo].space # Nowhere

Domains ==
  /\ DOMAIN pc = Movers /\ DOMAIN sel = Movers /\ DOMAIN tree = Movers
  /\ DOMAIN frontier = Movers /\ DOMAIN plan = Movers /\ DOMAIN net = Movers

IInv == IssuesOk /\ Domains /\ \A m \in Movers : CallOk(m)

-----------------------------------------------------------------------------
(* The batch.                                                               *)

\* A row that a batch leaves where it is, and a row that it moves.
LEMMA TaskRow ==
  ASSUME NEW w, NEW t \in Issues, RowShape(issue[t])
  PROVE  /\ TaskAfter(w, t).attachedTo = w.final[t].attachedTo
         /\ TaskAfter(w, t).space = w.dest
         /\ DOMAIN TaskAfter(w, t) = Fields
  BY DEF TaskAfter, RowShape, Fields

\* The row of an ancestor of the move, whose issue stays where it is.
LEMMA AncestorRow ==
  ASSUME NEW w, NEW a \in Issues, RowShape(issue[a])
  PROVE  /\ AncestorAfter(w, a).attachedTo = issue[a].attachedTo
         /\ AncestorAfter(w, a).space = issue[a].space
         /\ DOMAIN AncestorAfter(w, a) = Fields
  BY DEF AncestorAfter, RowShape, Fields

\* When the conditions of a batch hold, its tasks are the tree of its root now.
LEMMA TasksAreTheTree ==
  ASSUME NEW w, BatchOk(w), BatchHolds(w)
  PROVE  w.tasks = Forest!Tree(w.root)
<1>1. w.root \in w.tasks /\ w.tasks \subseteq Issues
  BY DEF BatchOk, Fits, HangTogether
<1>2. ASSUME NEW i \in Forest!Tree(w.root) PROVE i \in w.tasks
  <2>1. Forest!Closed(w.tasks)
    BY DEF BatchHolds, NoChildOutside, Forest!Closed
  <2> QED
    BY <1>1, <1>2, <2>1 DEF Forest!Tree
<1>3. ASSUME NEW i \in w.tasks, NEW T \in SUBSET Issues, w.root \in T, Forest!Closed(T)
      PROVE  i \in T
  <2>1. \A c \in w.tasks : w.rows[c].attachedTo \in T => c \in T
    BY <1>1, <1>3 DEF BatchHolds, TasksUnchanged, Forest!Closed
  <2> QED
    BY <1>3, <2>1 DEF BatchOk, Fits, HangTogether
<1>4. \A i \in w.tasks : i \in Forest!Tree(w.root)
  BY <1>1, <1>3 DEF Forest!Tree
<1>5. Forest!Tree(w.root) \subseteq Issues
  BY DEF Forest!Tree
<1> QED
  BY <1>2, <1>4, <1>5

\* The parent of a batch whose conditions hold is in its project, and stays.
LEMMA ParentThere ==
  ASSUME NEW w, BatchOk(w), BatchHolds(w), w.parent # NoParent
  PROVE  w.parent \in Issues \ w.tasks /\ issue[w.parent].space = w.dest
  BY DEF BatchOk, Fits, BatchHolds, AncestorsUnchanged

\* It moves the tree of its root under its parent, and nothing else.
LEMMA BatchIsMove ==
  ASSUME IssuesOk, NEW w, BatchOk(w), BatchHolds(w), issue' = BatchApplied(w)
  PROVE  /\ w.root \in Issues /\ w.parent \in Issues \union {NoParent} /\ w.dest \in Projects
         /\ Forest!Move(w.root, w.parent, w.dest)
<1>1. w.root \in w.tasks /\ w.tasks \subseteq Issues /\ w.tasks = Forest!Tree(w.root)
  BY TasksAreTheTree DEF BatchOk, Fits, HangTogether
<1>2. \A t \in w.tasks : /\ issue'[t].attachedTo = w.final[t].attachedTo
                         /\ issue'[t].space = w.dest
  BY <1>1, TaskRow DEF BatchApplied, IssuesOk
<1>3. \A a \in Issues \ w.tasks : /\ issue'[a].attachedTo = issue[a].attachedTo
                                  /\ issue'[a].space = issue[a].space
  BY AncestorRow DEF BatchApplied, IssuesOk
<1>4. \A t \in w.tasks : w.final[t].attachedTo = IF t = w.root THEN w.parent ELSE issue[t].attachedTo
  BY DEF BatchOk, BatchHolds, TasksUnchanged
<1>5. issue[w.root].attachedTo # Nowhere
  <2>1. issue[w.root].space = w.source /\ w.source \in Projects
    BY <1>1 DEF BatchOk, BatchHolds, TasksUnchanged
  <2> QED
    BY <1>1, <2>1, ConstantsAssumption DEF IssuesOk, RowShape
<1>6. w.parent = NoParent \/ (w.parent \in Issues \ w.tasks /\ issue[w.parent].space = w.dest
                               /\ issue[w.parent].attachedTo # Nowhere)
  <2> SUFFICES ASSUME w.parent # NoParent
               PROVE  w.parent \in Issues \ w.tasks /\ issue[w.parent].space = w.dest
                        /\ issue[w.parent].attachedTo # Nowhere
    OBVIOUS
  <2>1. w.parent \in Issues \ w.tasks /\ issue[w.parent].space = w.dest
    BY ParentThere
  <2>2. w.dest \in Projects
    BY DEF BatchOk, Fits
  <2> QED
    BY <2>1, <2>2, ConstantsAssumption DEF IssuesOk, RowShape
<1>7. [i \in Issues |-> issue[i].attachedTo]' =
        [[i \in Issues |-> issue[i].attachedTo] EXCEPT ![w.root] = w.parent]
  <2>1. \A i \in Issues : issue'[i].attachedTo = IF i = w.root THEN w.parent ELSE issue[i].attachedTo
    BY <1>1, <1>2, <1>3, <1>4
  <2> QED
    BY <2>1
<1>8. [i \in Issues |-> issue[i].space]' =
        [i \in Issues |-> IF i \in w.tasks THEN w.dest ELSE [j \in Issues |-> issue[j].space][i]]
  BY <1>1, <1>2, <1>3
<1>9. w.root \in Issues /\ w.parent \in Issues \union {NoParent} /\ w.dest \in Projects
  BY DEF BatchOk, Fits, HangTogether
<1> QED
  BY <1>1, <1>5, <1>6, <1>7, <1>8, <1>9 DEF Forest!Move

\* And it leaves every row with its fields, and what is attached existing.
LEMMA BatchKeepsIssues ==
  ASSUME IssuesOk, NEW w, BatchOk(w), BatchHolds(w), issue' = BatchApplied(w)
  PROVE  IssuesOk'
<1>1. w.root \in w.tasks /\ w.tasks \subseteq Issues /\ w.dest \in Projects
  BY DEF BatchOk, Fits, HangTogether
<1>2. issue' = [i \in Issues |-> issue'[i]]
  BY DEF BatchApplied
<1>3. \A a \in Issues \ w.tasks : /\ issue'[a].attachedTo = issue[a].attachedTo
                                  /\ issue'[a].space = issue[a].space
                                  /\ DOMAIN issue'[a] = Fields
  BY AncestorRow DEF BatchApplied, IssuesOk
<1>4. \A t \in w.tasks :
        /\ issue'[t].attachedTo = IF t = w.root THEN w.parent ELSE issue[t].attachedTo
        /\ issue'[t].space = w.dest /\ DOMAIN issue'[t] = Fields
  <2>1. \A t \in w.tasks : w.final[t].attachedTo = IF t = w.root THEN w.parent ELSE issue[t].attachedTo
    BY DEF BatchOk, BatchHolds, TasksUnchanged
  <2> QED
    BY <1>1, <2>1, TaskRow DEF BatchApplied, IssuesOk
<1>5. w.dest # Nowhere /\ NoParent # Nowhere
  BY <1>1, ConstantsAssumption
<1>6. \A t \in w.tasks : issue[t].attachedTo # Nowhere
  <2>1. \A t \in w.tasks : issue[t].space = w.source /\ w.source # Nowhere
    BY ConstantsAssumption DEF BatchOk, BatchHolds, TasksUnchanged
  <2> QED
    BY <1>1, <2>1 DEF IssuesOk, RowShape
<1>7. w.parent \in Issues \union {NoParent}
  BY DEF BatchOk, Fits
<1>8. w.parent \in Issues => w.parent \notin w.tasks /\ issue[w.parent].space = w.dest
  BY ParentThere, ConstantsAssumption
<1>9. \A i \in Issues : RowShape(issue'[i])
  <2>1. \A t \in w.tasks : RowShape(issue'[t])
    <3> SUFFICES ASSUME NEW t \in w.tasks PROVE RowShape(issue'[t])
      OBVIOUS
    <3>1. issue'[t].attachedTo # Nowhere /\ issue'[t].space \in Projects /\ issue'[t].space # Nowhere
      BY <1>1, <1>4, <1>5, <1>6, <1>7, ConstantsAssumption
    <3>2. issue'[t].attachedTo \in Issues \union {NoParent, Nowhere}
      BY <1>1, <1>4, <1>7 DEF IssuesOk, RowShape
    <3> QED
      BY <1>4, <3>1, <3>2 DEF RowShape
  <2>2. \A a \in Issues \ w.tasks : RowShape(issue'[a])
    BY <1>3 DEF IssuesOk, RowShape
  <2> QED
    BY <2>1, <2>2
<1>10. \A i \in Issues : issue[i].space # Nowhere => issue'[i].space # Nowhere
  BY <1>3, <1>4, <1>5
<1>11. \A i \in Issues : issue'[i].attachedTo \in Issues => issue'[issue'[i].attachedTo].space # Nowhere
  <2>1. w.parent \in Issues => issue[w.parent].space # Nowhere
    BY <1>5, <1>8
  <2>2. \A i \in Issues : issue'[i].attachedTo \in {issue[i].attachedTo, w.parent}
    BY <1>3, <1>4
  <2> QED
    BY <1>10, <2>1, <2>2 DEF IssuesOk
<1> QED
  BY <1>2, <1>9, <1>11 DEF IssuesOk

-----------------------------------------------------------------------------
(* The other steps of the server.                                           *)

\* A child created meanwhile is a step of the forest.
LEMMA CreateIsCreate ==
  ASSUME IssuesOk, NEW i \in Issues, NEW p \in Issues, CreateChild(i, p)
  PROVE  IssuesOk' /\ Forest!Create(i, p)
<1>1. i # p /\ issue[i].attachedTo = Nowhere /\ issue[i].space = Nowhere
  BY DEF CreateChild, Exists, IssuesOk, RowShape
<1>2. issue[p].attachedTo # Nowhere /\ issue[p].space \in Projects
  BY DEF CreateChild, Exists, IssuesOk, RowShape
<1>3. PICK n, ps : issue' = [issue EXCEPT ![p].subIssues = @ + 1,
         ![i] = [[issue[i] EXCEPT !.attachedTo = p, !.space = issue[p].space, !.number = n]
                   EXCEPT !.parents = ps]]
  BY DEF CreateChild
<1>4. /\ issue'[i].attachedTo = p /\ issue'[i].space = issue[p].space /\ DOMAIN issue'[i] = Fields
  BY <1>1, <1>3 DEF IssuesOk, RowShape, Fields
<1>5. \A j \in Issues \ {i} : /\ issue'[j].attachedTo = issue[j].attachedTo
                              /\ issue'[j].space = issue[j].space /\ DOMAIN issue'[j] = Fields
  BY <1>1, <1>3 DEF IssuesOk, RowShape, Fields
<1>6. IssuesOk'
  <2>1. issue' = [j \in Issues |-> issue'[j]]
    BY <1>3 DEF IssuesOk
  <2>2. \A j \in Issues : RowShape(issue'[j])
    BY <1>2, <1>4, <1>5, ConstantsAssumption DEF IssuesOk, RowShape
  <2>3. \A j \in Issues : issue[j].space # Nowhere => issue'[j].space # Nowhere
    BY <1>1, <1>5
  <2>4. issue[p].space # Nowhere
    BY <1>2, ConstantsAssumption
  <2>5. \A j \in Issues : issue'[j].attachedTo \in Issues => issue'[issue'[j].attachedTo].space # Nowhere
    BY <1>4, <1>5, <2>3, <2>4 DEF IssuesOk
  <2> QED
    BY <2>1, <2>2, <2>5 DEF IssuesOk
<1>7. [j \in Issues |-> issue[j].attachedTo]' = [[j \in Issues |-> issue[j].attachedTo] EXCEPT ![i] = p]
  <2>1. \A j \in Issues : issue'[j].attachedTo = IF j = i THEN p ELSE issue[j].attachedTo
    BY <1>4, <1>5
  <2> QED
    BY <2>1
<1>8. [j \in Issues |-> issue[j].space]' =
        [[j \in Issues |-> issue[j].space] EXCEPT ![i] = [j \in Issues |-> issue[j].space][p]]
  <2>1. \A j \in Issues : issue'[j].space = IF j = i THEN issue[p].space ELSE issue[j].space
    BY <1>4, <1>5
  <2> QED
    BY <2>1
<1> QED
  BY <1>1, <1>2, <1>6, <1>7, <1>8 DEF Forest!Create

\* An edit and a refreshed aggregate leave every issue where it is.
LEMMA EditKeepsForest ==
  ASSUME IssuesOk, NEW i \in Issues, Edit(i) \/ RefreshInformation(i)
  PROVE  IssuesOk' /\ UNCHANGED Forest!forest
<1>1. \A j \in Issues : /\ issue'[j].attachedTo = issue[j].attachedTo
                        /\ issue'[j].space = issue[j].space /\ DOMAIN issue'[j] = Fields
  BY DEF Edit, RefreshInformation, IssuesOk, RowShape, Fields
<1>2. issue' = [j \in Issues |-> issue'[j]]
  BY DEF Edit, RefreshInformation, IssuesOk
<1>3. IssuesOk'
  BY <1>1, <1>2 DEF IssuesOk, RowShape
<1> QED
  BY <1>1, <1>3 DEF Forest!forest

-----------------------------------------------------------------------------
(* The calls.  A step of one is no step of another, and most return, start  *)
(* another pass over the issues or go on to wait.                           *)

Untouched(m) ==
  /\ Domains'
  /\ \A n \in Movers \ {m} : /\ pc'[n] = pc[n] /\ sel'[n] = sel[n] /\ tree'[n] = tree[n]
                             /\ frontier'[n] = frontier[n] /\ plan'[n] = plan[n] /\ net'[n] = net[n]

StepOk(m) == issue' = issue /\ Untouched(m) /\ CallOk(m)'

\* What is true of a call stays true while another one takes a step.
LEMMA OthersOk ==
  ASSUME NEW m \in Movers, NEW n \in Movers \ {m}, CallOk(n), Untouched(m)
  PROVE  CallOk(n)'
<1>1. SelectedOk(n)'
  BY DEF CallOk, SelectedOk, Untouched, Root, Source, Dest
<1>2. WalkOk(n)'
  BY DEF CallOk, WalkOk, Untouched, Root
<1>3. PlanOk(n)'
  BY DEF CallOk, PlanOk, Untouched, Root, Dest
<1>4. RequestOk(n)'
  BY DEF CallOk, RequestOk, Untouched, Asks
<1> QED
  BY <1>1, <1>2, <1>3, <1>4 DEF CallOk

\* A call that answers promises nothing more.
LEMMA Returns ==
  ASSUME Domains, NEW m \in Movers, CallOk(m), NEW what, Return(m, what), issue' = issue, net' = net
  PROVE  StepOk(m)
<1>1. Untouched(m) /\ pc'[m] = "done"
  BY DEF Domains, Untouched, Return, Goto, ClearReads
<1>2. SelectedOk(m)' /\ WalkOk(m)' /\ PlanOk(m)'
  BY <1>1 DEF SelectedOk, WalkOk, PlanOk
<1>3. RequestOk(m)'
  BY DEF CallOk, RequestOk, Asks
<1> QED
  BY <1>1, <1>2, <1>3 DEF StepOk, CallOk

\* A pass that starts has read nothing yet.
LEMMA StartsPass ==
  ASSUME Domains, NEW m \in Movers, CallOk(m), pc[m] \notin {"start", "done"}, NEW which,
         StartPass(m, which), issue' = issue, sel' = sel, plan' = plan, net' = net
  PROVE  StepOk(m)
<1>1. Untouched(m) /\ pc'[m] = "source"
  BY DEF Domains, Untouched, StartPass, Goto, ClearReads
<1>2. SelectedOk(m)'
  BY DEF CallOk, SelectedOk, Root, Source, Dest
<1>3. WalkOk(m)' /\ PlanOk(m)'
  BY <1>1 DEF WalkOk, PlanOk
<1>4. RequestOk(m)'
  BY DEF CallOk, RequestOk, Asks
<1> QED
  BY <1>1, <1>2, <1>3, <1>4 DEF StepOk, CallOk

\* A call that goes on to a place that plans nothing keeps what it promised.
LEMMA GoesOn ==
  ASSUME Domains, NEW m \in Movers, CallOk(m), pc[m] \notin {"start", "done"},
         NEW where \in {"allocate", "allocating", "hierarchy", "tasks", "verified", "committing"},
         Goto(m, where), DOMAIN tree' = Movers, DOMAIN frontier' = Movers, DOMAIN net' = Movers,
         \A n \in Movers \ {m} : tree'[n] = tree[n] /\ frontier'[n] = frontier[n] /\ net'[n] = net[n],
         RequestOk(m)', issue' = issue, sel' = sel, plan' = plan
  PROVE  StepOk(m)
<1>1. Untouched(m) /\ pc'[m] = where
  BY DEF Domains, Untouched, Goto
<1>2. SelectedOk(m)'
  BY DEF CallOk, SelectedOk, Root, Source, Dest
<1>3. WalkOk(m)' /\ PlanOk(m)'
  BY <1>1 DEF WalkOk, PlanOk
<1> QED
  BY <1>1, <1>2, <1>3 DEF StepOk, CallOk

\* An inspection without conflict has read a tree that fits its parent.
LEMMA CleanFits ==
  ASSUME NEW m \in Movers, SelectedOk(m), WalkOk(m), pc[m] = "tree", InspectionClean(m)
  PROVE  Fits(Root(m), sel[m].parent, Dest(m), Inspected(m).tasks, Inspected(m).rows)
<1> DEFINE S == DOMAIN tree[m]
           rows == Inspected(m).rows
<1>1. Inspected(m).tasks = S /\ rows = [i \in RelatedIds(m) |-> ById(hier[m])[i]]
  BY DEF Inspected
<1>2. S \subseteq RelatedIds(m)
  BY DEF RelatedIds
<1>3. \A i \in S : rows[i] = tree[m][i]
  BY <1>1, <1>2 DEF InspectionClean, RowsAgree
<1>4. HangTogether(S, tree[m], Root(m))
  BY DEF WalkOk
<1>5. HangTogether(S, rows, Root(m))
  BY <1>3, <1>4 DEF HangTogether
<1>6. sel[m].parent \in Issues \union {NoParent} /\ Dest(m) \in Projects
  BY DEF SelectedOk
<1>7. sel[m].parent # NoParent => sel[m].parent \in RelatedIds(m) \ S /\ rows[sel[m].parent].space = Dest(m)
  <2> SUFFICES ASSUME sel[m].parent # NoParent
               PROVE  sel[m].parent \in RelatedIds(m) \ S /\ rows[sel[m].parent].space = Dest(m)
    OBVIOUS
  <2>1. sel[m].parent \in RelatedIds(m)
    BY DEF RelatedIds
  <2>2. sel[m].parent \notin S
    BY DEF InspectionClean
  <2>3. rows[sel[m].parent] = sel[m].parentRow
    BY <1>1, <2>1 DEF InspectionClean, RowsAgree
  <2>4. sel[m].parentRow.space = Dest(m)
    BY DEF SelectedOk
  <2> QED
    BY <2>1, <2>2, <2>3, <2>4
<1> QED
  BY <1>1, <1>2, <1>5, <1>6, <1>7 DEF Fits

\* The rows read next hang together with the ones read so far.
LEMMA LevelHangs ==
  ASSUME IssuesOk, NEW m \in Movers, WalkOk(m), Domains, ReadLevel(m)
  PROVE  HangTogether(DOMAIN tree'[m], tree'[m], Root(m)) /\ frontier'[m] \subseteq DOMAIN tree'[m]
<1> DEFINE new == {i \in Issues : issue[i].attachedTo \in frontier[m]} \ DOMAIN tree[m]
           S == DOMAIN tree[m]
           more == tree'[m]
<1>1. HangTogether(S, tree[m], Root(m)) /\ frontier[m] \subseteq S
  BY DEF WalkOk, ReadLevel
<1>2. more = [i \in S \union new |-> IF i \in new THEN issue[i] ELSE tree[m][i]] /\ frontier'[m] = new
  BY DEF ReadLevel, Domains
<1>3. DOMAIN more = S \union new /\ S \union new \subseteq Issues /\ Root(m) \in S
  BY <1>1, <1>2 DEF HangTogether
<1>4. \A i \in S : more[i] = tree[m][i]
  BY <1>2
<1>5. \A i \in new : more[i].attachedTo \in S
  BY <1>1, <1>2
<1>6. \A i \in S \union new : i # Root(m) => more[i].attachedTo \in S \union new
  BY <1>1, <1>4, <1>5 DEF HangTogether
<1>7. ASSUME NEW T \in SUBSET Issues, Root(m) \in T,
             \A c \in S \union new : more[c].attachedTo \in T => c \in T
      PROVE  S \union new \subseteq T
  <2>1. S \subseteq T
    BY <1>1, <1>4, <1>7 DEF HangTogether
  <2> QED
    BY <1>5, <1>7, <2>1
<1> QED
  BY <1>2, <1>3, <1>6, <1>7 DEF HangTogether

\* The reads of a pass: the source, the target, one level of the tree.
LEMMA ReadingOk ==
  ASSUME IssuesOk, Domains, NEW m \in Movers, CallOk(m),
         ReadSource(m) \/ ReadTarget(m) \/ ReadLevel(m)
  PROVE  StepOk(m)
<1>1. Untouched(m) /\ issue' = issue
  BY DEF Domains, Untouched, ReadSource, ReadTarget, ReadLevel, Goto, server, wire
<1>2. SelectedOk(m)'
  BY DEF CallOk, SelectedOk, Root, Source, Dest, ReadSource, ReadTarget, ReadLevel
<1>3. PlanOk(m)'
  BY DEF Domains, CallOk, PlanOk, ReadSource, ReadTarget, ReadLevel, Goto
<1>4. RequestOk(m)'
  BY DEF CallOk, RequestOk, Asks, ReadSource, ReadTarget, ReadLevel, wire
<1>5. WalkOk(m)'
  <2>1. CASE ReadSource(m)
    <3>1. tree'[m] = [i \in {Root(m)} |-> sel[m].rootRow] /\ frontier'[m] = {Root(m)} /\ sel' = sel
      BY <2>1 DEF ReadSource, Domains
    <3>2. Root(m) \in Issues
      BY <2>1 DEF ReadSource, CallOk, SelectedOk
    <3> QED
      BY <3>1, <3>2 DEF WalkOk, HangTogether, Root
  <2>2. CASE ReadTarget(m)
    BY <2>2 DEF ReadTarget, CallOk, WalkOk, Root
  <2>3. CASE ReadLevel(m)
    BY <2>3, LevelHangs DEF CallOk, WalkOk, Root, ReadLevel
  <2> QED
    BY <2>1, <2>2, <2>3
<1> QED
  BY <1>1, <1>2, <1>3, <1>4, <1>5 DEF StepOk, CallOk

\* A call begins with its own arguments.
LEMMA BeginOk ==
  ASSUME IssuesOk, Domains, NEW m \in Movers, CallOk(m), Begin(m)
  PROVE  StepOk(m)
<1>1. Untouched(m) /\ issue' = issue /\ pc'[m] = "source"
  BY DEF Domains, Untouched, Begin, StartPass, ClearReads, Goto, server, wire
<1>2. SelectedOk(m)'
  <2>1. PICK r \in {i \in Issues : Exists(i)}, p \in {i \in Issues : Exists(i)} \union {NoParent}, d \in Projects :
          /\ p # NoParent => d = issue[p].space
          /\ sel' = [sel EXCEPT ![m] = [root |-> r, parent |-> p, dest |-> d, rootRow |-> issue[r],
                                        parentRow |-> IF p = NoParent THEN None ELSE issue[p]]]
    BY DEF Begin
  <2>2. issue[r].space \in Projects
    BY DEF Exists, IssuesOk, RowShape
  <2>3. sel'[m] = [root |-> r, parent |-> p, dest |-> d, rootRow |-> issue[r],
                   parentRow |-> IF p = NoParent THEN None ELSE issue[p]]
    BY <2>1 DEF Domains
  <2> QED
    BY <2>1, <2>2, <2>3 DEF SelectedOk, Root, Source, Dest
<1>3. WalkOk(m)' /\ PlanOk(m)'
  BY <1>1 DEF WalkOk, PlanOk
<1>4. RequestOk(m)'
  BY DEF CallOk, RequestOk, Asks, Begin, wire
<1> QED
  BY <1>1, <1>2, <1>3, <1>4 DEF StepOk, CallOk

\* A call goes to send its batch only right after an inspection that found
\* what was planned.
LEMMA GoesToCommit ==
  ASSUME Domains, NEW m \in Movers, CallOk(m), pc[m] = "tree", Unchanged(m),
         Goto(m, "commit"), ClearReads(m), issue' = issue, sel' = sel, plan' = plan, net' = net
  PROVE  StepOk(m)
<1>1. Untouched(m) /\ pc'[m] = "commit"
  BY DEF Domains, Untouched, Goto, ClearReads
<1>2. Fits(Root(m), sel[m].parent, Dest(m), plan[m].tasks, plan[m].rows)
  BY CleanFits DEF CallOk, Unchanged
<1>3. PlanOk(m)'
  BY <1>2 DEF PlanOk, Root, Dest
<1>4. SelectedOk(m)'
  BY DEF CallOk, SelectedOk, Root, Source, Dest
<1>5. WalkOk(m)'
  BY <1>1 DEF WalkOk
<1>6. RequestOk(m)'
  BY DEF CallOk, RequestOk, Asks
<1> QED
  BY <1>1, <1>3, <1>4, <1>5, <1>6 DEF StepOk, CallOk

\* The batch a call sends is the one it has planned.
LEMMA SendOk ==
  ASSUME Domains, NEW m \in Movers, CallOk(m), Send(m)
  PROVE  StepOk(m)
<1>1. net'[m] = [kind |-> "batch", write |-> Write(m)]
  BY DEF Send, Domains
<1>2. BatchOk(Write(m))
  <2>1. Fits(Root(m), sel[m].parent, Dest(m), plan[m].tasks, plan[m].rows)
    BY DEF CallOk, PlanOk, Send
  <2>2. Source(m) \in Projects
    BY DEF CallOk, SelectedOk, Send
  <2>3. /\ Write(m).root = Root(m) /\ Write(m).parent = sel[m].parent /\ Write(m).dest = Dest(m)
        /\ Write(m).tasks = plan[m].tasks /\ Write(m).rows = plan[m].rows /\ Write(m).source = Source(m)
    BY DEF Write, Tasks
  <2>4. \A t \in plan[m].tasks : Write(m).final[t].attachedTo = FinalParent(m, t)
    BY DEF Write, Tasks
  <2> QED
    BY <2>1, <2>2, <2>3, <2>4 DEF BatchOk, FinalParent
<1>3. RequestOk(m)'
  BY <1>1, <1>2 DEF RequestOk, Asks
<1> QED
  BY <1>3, GoesOn DEF Send, Goto, Domains, server, reads

\* Every step of a call.
LEMMA CallStep ==
  ASSUME IssuesOk, Domains, NEW m \in Movers, CallOk(m), Call(m)
  PROVE  StepOk(m)
<1>1. CASE Begin(m)
  BY <1>1, BeginOk
<1>2. CASE ReadSource(m) \/ ReadTarget(m) \/ ReadLevel(m)
  BY <1>2, ReadingOk
<1>3. CASE Conflicting(m) \/ NotAdmitted(m)
  BY <1>3, Returns DEF Conflicting, NotAdmitted, server, wire
<1>4. CASE ReadFails(m)
  BY <1>4, Returns DEF ReadFails, server, wire
<1>5. CASE NumberUnsent(m)
  BY <1>5, Returns DEF NumberUnsent, server, wire
<1>6. CASE NumberLost(m) \/ Observed(m) \/ Verified(m)
  BY <1>6, Returns DEF NumberLost, Observed, Verified, server, wire
<1>7. CASE VerificationFails(m)
  BY <1>7, Returns DEF VerificationFails, server, wire
<1>8. CASE Deadline(m)
  BY <1>8, Returns DEF Deadline, server, wire
<1>9. CASE Prepared(m)
  <2>1. StartPass(m, "reinspect") /\ pc[m] = "tree" /\ issue' = issue /\ sel' = sel /\ net' = net
    BY <1>9 DEF Prepared, server, wire
  <2>2. plan' = [plan EXCEPT ![m] = Inspected(m)]
    BY <1>9 DEF Prepared
  <2>3. Untouched(m) /\ pc'[m] = "source"
    BY <2>1, <2>2 DEF Domains, Untouched, StartPass, Goto, ClearReads
  <2>4. SelectedOk(m)'
    BY <2>1 DEF CallOk, SelectedOk, Root, Source, Dest
  <2>5. WalkOk(m)' /\ PlanOk(m)'
    BY <2>3 DEF WalkOk, PlanOk
  <2>6. RequestOk(m)'
    BY <2>1 DEF CallOk, RequestOk, Asks
  <2> QED
    BY <2>1, <2>3, <2>4, <2>5, <2>6 DEF StepOk, CallOk
<1>10. CASE Reinspected(m)
  <2>1. /\ pc[m] = "tree" /\ Unchanged(m) /\ issue' = issue /\ sel' = sel /\ plan' = plan /\ net' = net
    BY <1>10 DEF Reinspected, server, wire
  <2>2. CASE StartPass(m, "verify")
    BY <2>1, <2>2, StartsPass
  <2>3. CASE Goto(m, "commit") /\ ClearReads(m)
    BY <2>1, <2>3, GoesToCommit
  <2>4. CASE Goto(m, "allocate") /\ ClearReads(m)
    BY <2>1, <2>4, GoesOn DEF ClearReads, Domains, CallOk, RequestOk, Asks
  <2> QED
    BY <1>10, <2>2, <2>3, <2>4 DEF Reinspected
<1>11. CASE Presend(m)
  <2>1. /\ pc[m] = "tree" /\ issue' = issue /\ sel' = sel /\ plan' = plan /\ net' = net
    BY <1>11 DEF Presend, server, wire
  <2>2. CASE StartPass(m, "verify")
    BY <2>1, <2>2, StartsPass
  <2>3. CASE Unchanged(m) /\ Goto(m, "commit") /\ ClearReads(m)
    BY <2>1, <2>3, GoesToCommit
  <2> QED
    BY <1>11, <2>2, <2>3 DEF Presend
<1>12. CASE \E t \in Issues : AskNumber(m, t)
  <2>1. /\ pc[m] = "allocate" /\ Goto(m, "allocating") /\ issue' = issue /\ sel' = sel /\ plan' = plan
        /\ tree' = tree /\ frontier' = frontier
    BY <1>12 DEF AskNumber, server, reads
  <2>2. net' = [net EXCEPT ![m] = [kind |-> "allocate", write |-> Dest(m)]]
    BY <1>12 DEF AskNumber
  <2>3. RequestOk(m)'
    BY <2>2 DEF RequestOk, Asks, Domains
  <2> QED
    BY <2>1, <2>2, <2>3, GoesOn DEF Domains
<1>13. CASE NumberArrives(m)
  <2>1. /\ pc[m] = "allocating" /\ issue' = issue /\ sel' = sel /\ plan' = plan /\ net' = net
    BY <1>13 DEF NumberArrives, server
  <2>2. CASE StartPass(m, "presend")
    BY <2>1, <2>2, StartsPass
  <2>3. CASE Goto(m, "allocate") /\ UNCHANGED <<pass, reads>>
    BY <2>1, <2>3, GoesOn DEF reads, Domains, CallOk, RequestOk, Asks
  <2> QED
    BY <1>13, <2>2, <2>3 DEF NumberArrives
<1>14. CASE Send(m)
  BY <1>14, SendOk
<1>15. CASE CommitUnsent(m) \/ CommitUnparsable(m) \/ CommitLost(m)
  BY <1>15, StartsPass DEF CommitUnsent, CommitUnparsable, CommitLost, server, wire
<1>16. CASE CommitRefused(m) \/ CommitApplied(m)
  BY <1>16, StartsPass DEF CommitRefused, CommitApplied, server
<1>17. CASE VerifyAgain(m)
  BY <1>17, StartsPass DEF VerifyAgain, server, wire
<1>18. CASE VerifyHierarchy(m)
  BY <1>18, GoesOn DEF VerifyHierarchy, server, wire, Domains, CallOk, RequestOk, Asks
<1>19. CASE VerifyTasks(m)
  <2>1. /\ pc[m] = "tasks" /\ Goto(m, "verified") /\ issue' = issue /\ sel' = sel /\ plan' = plan
        /\ net' = net /\ tree' = tree /\ frontier' = frontier
    BY <1>19 DEF VerifyTasks, server, wire
  <2> QED
    BY <2>1, GoesOn DEF Domains, CallOk, RequestOk, Asks
<1> QED
  BY <1>1, <1>2, <1>3, <1>4, <1>5, <1>6, <1>7, <1>8, <1>9, <1>10, <1>11, <1>12, <1>13, <1>14, <1>15,
     <1>16, <1>17, <1>18, <1>19 DEF Call

-----------------------------------------------------------------------------
(* The server, and any step.                                                *)

\* The server handles a request: it is gone, and no call has moved.
LEMMA HandledOk ==
  ASSUME Domains, NEW m \in Movers, CallOk(m), UNCHANGED calls, net' = [net EXCEPT ![m] = None]
  PROVE  Untouched(m) /\ CallOk(m)'
<1>1. Untouched(m)
  BY DEF calls, reads, Domains, Untouched
<1>2. SelectedOk(m)' /\ WalkOk(m)' /\ PlanOk(m)'
  BY DEF calls, reads, CallOk, SelectedOk, WalkOk, PlanOk, Root, Source, Dest
<1>3. RequestOk(m)'
  BY DEF RequestOk, Asks, Domains
<1> QED
  BY <1>1, <1>2, <1>3 DEF CallOk

\* With every call as it was, only the issues matter.
LEMMA CallsStay ==
  ASSUME Domains, \A m \in Movers : CallOk(m), UNCHANGED calls, UNCHANGED net
  PROVE  Domains' /\ \A m \in Movers : CallOk(m)'
  BY DEF calls, reads, Domains, CallOk, SelectedOk, WalkOk, PlanOk, RequestOk, Asks, Root, Source, Dest

\* Only a batch that is applied changes the forest, and it is one whole move.
LEMMA ServerStep ==
  ASSUME Isolated, IInv, Server
  PROVE  IInv' /\ (Forest!Next \/ UNCHANGED Forest!forest)
<1>1. ASSUME NEW m \in Movers, GiveNumber(m) \/ RefuseBatch(m) \/ ApplyBatch(m)
      PROVE  Domains' /\ \A n \in Movers : CallOk(n)'
  <2>1. net' = [net EXCEPT ![m] = None] /\ UNCHANGED calls
    BY <1>1 DEF GiveNumber, RefuseBatch, ApplyBatch, Answer
  <2>2. Untouched(m) /\ CallOk(m)'
    BY <2>1, HandledOk DEF IInv
  <2>3. \A n \in Movers \ {m} : CallOk(n)'
    BY <2>2, OthersOk DEF IInv
  <2> QED
    BY <2>2, <2>3 DEF Untouched
<1>2. ASSUME NEW m \in Movers, GiveNumber(m) \/ RefuseBatch(m) PROVE IInv' /\ UNCHANGED Forest!forest
  <2>1. issue' = issue
    BY <1>2 DEF GiveNumber, RefuseBatch, server
  <2> QED
    BY <1>1, <1>2, <2>1 DEF IInv, IssuesOk, RowShape, Forest!forest
<1>3. ASSUME NEW m \in Movers, ApplyBatch(m) PROVE IInv' /\ Forest!Next
  <2> DEFINE w == net[m].write
  <2>1. BatchOk(w) /\ BatchHolds(w) /\ issue' = BatchApplied(w)
    BY <1>3 DEF ApplyBatch, IInv, CallOk, RequestOk
  <2>2. IssuesOk'
    BY <2>1, BatchKeepsIssues DEF IInv
  <2>3. Forest!Next
    BY <2>1, BatchIsMove DEF IInv, Forest!Next
  <2> QED
    BY <1>1, <1>3, <2>2, <2>3 DEF IInv
<1>4. ASSUME NEW m \in Movers, AdmitBatch(m) PROVE FALSE
  BY <1>4 DEF AdmitBatch
<1>5. ASSUME NEW i \in Issues, Edit(i) \/ RefreshInformation(i) PROVE IInv' /\ UNCHANGED Forest!forest
  BY <1>5, EditKeepsForest, CallsStay DEF IInv, Edit, RefreshInformation, wire
<1>6. ASSUME NEW i \in Issues, NEW p \in Issues, CreateChild(i, p) PROVE IInv' /\ Forest!Next
  <2>1. IssuesOk' /\ Forest!Create(i, p)
    BY <1>6, CreateIsCreate DEF IInv
  <2>2. Domains' /\ \A m \in Movers : CallOk(m)'
    BY <1>6, CallsStay DEF IInv, CreateChild, wire
  <2> QED
    BY <2>1, <2>2 DEF IInv, Forest!Next
<1> QED
  BY <1>2, <1>3, <1>4, <1>5, <1>6 DEF Server

\* Every step keeps the invariant, and is a whole move or leaves the forest alone.
LEMMA AnyStep ==
  ASSUME Isolated, IInv, [Next]_vars
  PROVE  IInv' /\ (Forest!Next \/ UNCHANGED Forest!forest)
<1>1. CASE Server
  BY <1>1, ServerStep
<1>2. ASSUME NEW m \in Movers, Call(m) PROVE IInv' /\ UNCHANGED Forest!forest
  <2>1. StepOk(m)
    BY <1>2, CallStep DEF IInv
  <2>2. \A n \in Movers \ {m} : CallOk(n)'
    BY <2>1, OthersOk DEF IInv, StepOk
  <2>3. IssuesOk' /\ UNCHANGED Forest!forest
    BY <2>1 DEF StepOk, IInv, IssuesOk, RowShape, Forest!forest
  <2> QED
    BY <2>1, <2>2, <2>3 DEF IInv, StepOk, Untouched
<1>3. CASE UNCHANGED vars
  <2>1. issue' = issue /\ UNCHANGED calls /\ UNCHANGED net
    BY <1>3 DEF vars, server, wire
  <2>2. Domains' /\ \A m \in Movers : CallOk(m)'
    BY <2>1, CallsStay DEF IInv
  <2> QED
    BY <2>1, <2>2 DEF IInv, IssuesOk, RowShape, Forest!forest
<1> QED
  BY <1>1, <1>2, <1>3 DEF Next

\* The workspace the calls find is a forest.
LEMMA StartsAsForest ==
  ASSUME Init
  PROVE  IInv /\ Forest!Init
<1>1. PICK f \in Forests, where \in [Issues -> Home \union {Nowhere}], wrong \in SUBSET Stale :
        /\ \A i \in Issues : /\ f[i] = Nowhere <=> where[i] = Nowhere
                             /\ f[i] \in Issues => where[i] = where[f[i]]
        /\ issue = [i \in Issues |-> IF i \in wrong THEN [Settled(f, where)[i] EXCEPT !.parents = {}]
                                                    ELSE Settled(f, where)[i]]
  BY DEF Init
<1>2. \A i \in Issues : /\ issue[i].attachedTo = f[i] /\ issue[i].space = where[i]
                        /\ DOMAIN issue[i] = Fields
  BY <1>1 DEF Settled, Fields
<1>3. f \in [Issues -> Issues \union {NoParent, Nowhere}]
  BY DEF Forests
<1>4. \A i \in Issues : f[i] \in Issues => f[f[i]] # Nowhere
  BY DEF Forests
<1>5. IssuesOk
  BY <1>1, <1>2, <1>3, <1>4, ConstantsAssumption DEF IssuesOk, RowShape
<1>6. Domains /\ \A m \in Movers : CallOk(m)
  BY DEF Init, Domains, CallOk, SelectedOk, WalkOk, PlanOk, RequestOk, Asks
<1>7. Forest!Init
  <2>1. Forest!Typed
    BY <1>5 DEF Forest!Typed, IssuesOk, RowShape
  <2>2. Forest!Existing
    BY <1>1, <1>2, <1>3, <1>4 DEF Forest!Existing
  <2>3. Forest!Acyclic
    <3> SUFFICES ASSUME NEW S \in SUBSET Issues, S # {} PROVE \E i \in S : f[i] \notin S
      BY <1>2 DEF Forest!Acyclic
    <3>1. PICK i : i \in S
      OBVIOUS
    <3> QED
      BY <3>1 DEF Forests
  <2>4. Forest!TogetherWithParent
    BY <1>1, <1>2, <1>3 DEF Forest!TogetherWithParent
  <2> QED
    BY <2>1, <2>2, <2>3, <2>4 DEF Forest!Init
<1> QED
  BY <1>5, <1>6, <1>7 DEF IInv

-----------------------------------------------------------------------------
(* Whole moves keep a forest a forest.                                      *)

Up == [i \in Issues |-> issue[i].attachedTo]
Sp == [i \in Issues |-> issue[i].space]
Sound == Forest!Typed /\ Forest!Existing /\ Forest!Acyclic /\ Forest!TogetherWithParent

\* A tree holds its root and is closed under children.
\* The lemma's proofs read Up and Sp in the state.
USE DEF Up, Sp

\* A tree holds its root, and the children of whatever it holds.
LEMMA TreeIsClosed ==
  ASSUME NEW r \in Issues
  PROVE  /\ r \in Forest!Tree(r)
         /\ Forest!Tree(r) \subseteq Issues
         /\ \A c \in Issues : Up[c] \in Forest!Tree(r) => c \in Forest!Tree(r)
  BY DEF Forest!Tree, Forest!Closed

\* The parent of a member other than the root is a member.
LEMMA ParentInTree ==
  ASSUME NEW r \in Issues, NEW i \in Forest!Tree(r), i # r
  PROVE  Up[i] \in Forest!Tree(r)
<1> SUFFICES ASSUME Up[i] \notin Forest!Tree(r) PROVE FALSE
  OBVIOUS
<1> DEFINE S == {j \in Forest!Tree(r) : j = r \/ Up[j] \in Forest!Tree(r)}
<1>1. S \in SUBSET Issues /\ r \in S
  BY TreeIsClosed
<1>2. Forest!Closed(S)
  BY TreeIsClosed DEF Forest!Closed
<1>3. i \in S
  BY <1>1, <1>2 DEF Forest!Tree
<1> QED
  BY <1>3

\* Moving r under an issue outside its tree makes no cycle: a set that is
\* closed under Up afterwards has a part outside the tree that was
\* closed before.
LEMMA MoveKeepsAcyclic ==
  ASSUME Forest!Typed, Forest!Acyclic, NEW r \in Issues, NEW p \in Issues \union {NoParent},
         p = NoParent \/ p \notin Forest!Tree(r),
         Up' = [Up EXCEPT ![r] = p]
  PROVE  Forest!Acyclic'
<1> SUFFICES ASSUME NEW S \in SUBSET Issues, S # {}, \A i \in S : Up'[i] \in S
             PROVE  FALSE
  BY DEF Forest!Acyclic
<1>1. CASE r \notin S
  <2>1. \A i \in S : Up[i] \in S
    BY <1>1, ZenonT(60) DEF Forest!Typed
  <2> QED
    BY <2>1 DEF Forest!Acyclic
<1>2. CASE r \in S
  <2> DEFINE R == S \ Forest!Tree(r)
  <2>1. p \in S
    BY <1>2 DEF Forest!Typed
  <2>2. p \in R
    BY <2>1, ConstantsAssumption
  <2>3. \A i \in R : Up[i] \in R
    <3> SUFFICES ASSUME NEW i \in R PROVE Up[i] \in R
      OBVIOUS
    <3>1. i # r
      BY TreeIsClosed
    <3>2. Up[i] \in S
      BY <3>1 DEF Forest!Typed
    <3> QED
      BY <3>2, TreeIsClosed
  <2> QED
    BY <2>2, <2>3 DEF Forest!Acyclic
<1> QED
  BY <1>1, <1>2

\* After a whole move every child is still in the project of its parent.
LEMMA MoveKeepsTogether ==
  ASSUME Forest!Typed, Forest!TogetherWithParent, NEW r \in Issues, NEW p \in Issues \union {NoParent}, NEW d \in Projects,
         p = NoParent \/ (p \notin Forest!Tree(r) /\ Sp[p] = d),
         Up' = [Up EXCEPT ![r] = p],
         Sp' = [i \in Issues |-> IF i \in Forest!Tree(r) THEN d ELSE Sp[i]]
  PROVE  Forest!TogetherWithParent'
<1> SUFFICES ASSUME NEW i \in Issues, Up'[i] \in Issues
             PROVE  Sp'[i] = Sp'[Up'[i]]
  BY DEF Forest!TogetherWithParent
<1>1. CASE i = r
  BY <1>1, TreeIsClosed, ConstantsAssumption DEF Forest!Typed
<1>2. CASE i # r
  <2>1. Up'[i] = Up[i]
    BY <1>2 DEF Forest!Typed
  <2>2. i \in Forest!Tree(r) <=> Up[i] \in Forest!Tree(r)
    BY <1>2, <2>1, TreeIsClosed, ParentInTree
  <2>3. Sp[i] = Sp[Up[i]]
    BY <2>1 DEF Forest!TogetherWithParent
  <2>4. Up[i] \in Issues
    BY <2>1
  <2> HIDE DEF Up, Sp
  <2> QED
    BY <2>1, <2>2, <2>3, <2>4
<1> QED
  BY <1>1, <1>2

\* Every step of the forest keeps it sound.
LEMMA SoundStep == ASSUME Sound, [Forest!Next]_(Forest!forest) PROVE Sound'
<1>1. ASSUME NEW r \in Issues, NEW p \in Issues \union {NoParent}, NEW d \in Projects, Forest!Move(r, p, d)
      PROVE  Sound'
  <2>1. Forest!Typed'
    BY <1>1 DEF Sound, Forest!Typed, Forest!Move
  <2>0. /\ Up' = [Up EXCEPT ![r] = p]
        /\ Sp' = [i \in Issues |-> IF i \in Forest!Tree(r) THEN d ELSE Sp[i]]
        /\ p = NoParent \/ (p \notin Forest!Tree(r) /\ Sp[p] = d)
        /\ Up[r] # Nowhere
    BY <1>1 DEF Forest!Move
  <2>a. /\ Up \in [Issues -> Issues \union {NoParent, Nowhere}]
        /\ Sp \in [Issues -> Projects \union {Nowhere}]
        /\ \A i \in Issues : /\ Up[i] = Nowhere <=> Sp[i] = Nowhere
                             /\ Up[i] \in Issues => Up[Up[i]] # Nowhere
    BY DEF Sound, Forest!Typed, Forest!Existing
  <2>b. p # NoParent => Up[p] # Nowhere
    BY <1>1 DEF Forest!Move
  <2> HIDE DEF Up, Sp
  <2>2. Forest!Acyclic'
    BY <2>0, MoveKeepsAcyclic DEF Sound
  <2>3. Forest!TogetherWithParent'
    BY <2>0, MoveKeepsTogether DEF Sound
  <2>4. Forest!Existing'
    <3>1. \A i \in Forest!Tree(r) : Up[i] # Nowhere
      BY <2>0, <2>a, ParentInTree, TreeIsClosed, ConstantsAssumption
    <3>2. \A i \in Issues : Up'[i] = Nowhere <=> Up[i] = Nowhere
      BY <2>0, <2>a, ConstantsAssumption
    <3>3. \A i \in Issues : Sp'[i] = Nowhere <=> Sp[i] = Nowhere
      BY <2>0, <2>a, <3>1, TreeIsClosed, ConstantsAssumption
    <3>4. \A i \in Issues : Up'[i] \in Issues => Up[Up'[i]] # Nowhere
      BY <2>0, <2>a, <2>b, ConstantsAssumption
    <3>5. \A i \in Issues : /\ Up'[i] = Nowhere <=> Sp'[i] = Nowhere
                            /\ Up'[i] \in Issues => Up'[Up'[i]] # Nowhere
      BY <2>a, <3>2, <3>3, <3>4
    <3> QED
      BY <3>5 DEF Forest!Existing, Up, Sp
  <2> QED
    BY <2>1, <2>2, <2>3, <2>4 DEF Sound
<1>2. ASSUME NEW i \in Issues, NEW p \in Issues, Forest!Create(i, p)
      PROVE  Sound'
  <2>1. i # p /\ Up' = [Up EXCEPT ![i] = p] /\ Sp' = [Sp EXCEPT ![i] = Sp[p]]
    BY <1>2 DEF Forest!Create
  <2>2. \A c \in Issues : Up[c] # i
    BY <1>2 DEF Forest!Create, Sound, Forest!Existing
  <2>3. Forest!Typed'
    BY <2>1 DEF Sound, Forest!Typed
  <2>4. Forest!Acyclic'
    <3>1. i \in Forest!Tree(i) /\ p \notin Forest!Tree(i)
      <4>1. Forest!Closed({i})
        BY <2>2 DEF Forest!Closed
      <4> QED
        BY <4>1, <2>1 DEF Forest!Tree
    <3> QED
      BY <2>1, <3>1, MoveKeepsAcyclic DEF Sound
  <2>a. /\ Up \in [Issues -> Issues \union {NoParent, Nowhere}]
        /\ Sp \in [Issues -> Projects \union {Nowhere}]
        /\ \A c \in Issues : /\ Up[c] = Nowhere <=> Sp[c] = Nowhere
                             /\ Up[c] \in Issues => Up[Up[c]] # Nowhere /\ Sp[c] = Sp[Up[c]]
        /\ Up[p] # Nowhere
    BY <1>2 DEF Sound, Forest!Typed, Forest!Existing, Forest!TogetherWithParent, Forest!Create
  <2> HIDE DEF Up, Sp
  <2>b. \A c \in Issues : /\ Up'[c] = Nowhere <=> Sp'[c] = Nowhere
                          /\ Up'[c] \in Issues => Up'[Up'[c]] # Nowhere /\ Sp'[c] = Sp'[Up'[c]]
    BY <2>1, <2>2, <2>a, ConstantsAssumption
  <2>5. Forest!TogetherWithParent'
    BY <2>b DEF Forest!TogetherWithParent, Up, Sp
  <2>6. Forest!Existing'
    BY <2>b DEF Forest!Existing, Up, Sp
  <2> QED
    BY <2>3, <2>4, <2>5, <2>6 DEF Sound
<1>3. CASE UNCHANGED Forest!forest
  BY <1>3, ZenonT(60) DEF Sound, Forest!Typed, Forest!Existing, Forest!Acyclic, Forest!TogetherWithParent, Forest!forest
<1> QED
  BY <1>1, <1>2, <1>3 DEF Forest!Next

-----------------------------------------------------------------------------
\* Whatever reads a call planned its batch from, and however many calls run
\* beside it, what the workspace goes through is whole moves of trees to
\* parents outside them.
THEOREM MovesImplementForest == Isolated => (Spec => ImplementsForest)
<1> SUFFICES ASSUME Isolated PROVE Spec => ImplementsForest
  OBVIOUS
<1>1. Init => IInv /\ Forest!Init
  BY StartsAsForest
<1>2. IInv /\ [Next]_vars => IInv' /\ [Forest!Next]_(Forest!forest)
  BY AnyStep
<1> QED
  BY <1>1, <1>2, PTL DEF Spec, ImplementsForest, Forest!Spec

\* No issue ever becomes its own ancestor and no child is ever in another project
\* than its parent, whatever moves race: they are whole moves, and whole moves
\* keep a forest a forest.
THEOREM MovesKeepForest == Isolated => (Spec => []StaysForest)
<1> SUFFICES ASSUME Isolated PROVE Spec => []StaysForest
  OBVIOUS
<1>1. Init => IInv /\ Sound
  BY StartsAsForest DEF Forest!Init, Sound
<1>2. IInv /\ Sound /\ [Next]_vars => (IInv /\ Sound)'
  BY AnyStep, SoundStep
<1>3. IInv /\ Sound => StaysForest
  BY DEF Sound, StaysForest
<1> QED
  BY <1>1, <1>2, <1>3, PTL DEF Spec

-----------------------------------------------------------------------------
(* What each variable holds, on any server.                                 *)

\* The issue a row is attached to exists.
Linked(r) == r.attachedTo \in Issues => Exists(r.attachedTo)
LinkedMap(f) == \A i \in DOMAIN f : Linked(f[i])

\* Where a call stands tells what it holds.
CallTyped(m) ==
  /\ pc[m] \notin {"start", "done"} =>
       SelectionTyped(sel[m]) /\ (sel[m].parent \in Issues => Exists(sel[m].parent))
  /\ pc[m] \in {"target", "tree", "hierarchy", "tasks", "verified"} =>
       MapsTyped(hier[m]) /\ LinkedMap(hier[m].source) /\ LinkedMap(hier[m].target)
  /\ pc[m] = "target" => DOMAIN hier[m] = {"source", "target"}
  /\ pc[m] \in {"target", "tree"} => IsMap(tree[m], Found)
  /\ pc[m] \in {"allocate", "allocating", "commit", "committing", "hierarchy", "tasks", "verified"} =>
       pass[m] # "prepare"
  /\ pc[m] \notin {"start", "done"} /\ pass[m] # "prepare" => PlanTyped(plan[m]) /\ LinkedMap(plan[m].rows)
  /\ pc[m] = "allocating" => exec[m] # None
  /\ (pc[m] = "commit" \/ (pass[m] = "presend" /\ pc[m] \in {"source", "target", "tree"})) /\ ~SameProject(m) =>
       exec[m] # None /\ DOMAIN exec[m].confirmed = Tasks(m)
  /\ Asks(m, "batch") => DOMAIN net[m] = {"kind", "write"}
  /\ BatchUnderWay(m) => \A t \in net[m].write.tasks : Linked(net[m].write.final[t])

\* Every record is kept per call.
Tables ==
  /\ DOMAIN net = Movers /\ DOMAIN reply = Movers /\ DOMAIN sel = Movers /\ DOMAIN hier = Movers
  /\ DOMAIN tree = Movers /\ DOMAIN plan = Movers /\ DOMAIN exec = Movers

\* What is attached exists, and so does what it is attached to.
Attached ==
  \A i \in Issues : (issue[i].attachedTo = Nowhere <=> issue[i].space = Nowhere) /\ Linked(issue[i])

TInv == TypeOK /\ Tables /\ Attached /\ \A m \in Movers : CallTyped(m)

\* A step of call m leaves the other calls alone.
Alone(m) ==
  /\ Tables'
  /\ \A n \in Movers \ {m} :
       /\ pc'[n] = pc[n] /\ pass'[n] = pass[n] /\ sel'[n] = sel[n] /\ hier'[n] = hier[n]
       /\ tree'[n] = tree[n] /\ plan'[n] = plan[n] /\ exec'[n] = exec[n]
       /\ net'[n] = net[n] /\ reply'[n] = reply[n]

\* Issues are never deleted.
Lasting == \A i \in Issues : Exists(i) => Exists(i)'

\* What another call holds keeps its type.
LEMMA OthersTyped ==
  ASSUME NEW m \in Movers, NEW n \in Movers \ {m}, Alone(m), Lasting, RecordsTyped(n), CallTyped(n)
  PROVE  RecordsTyped(n)' /\ CallTyped(n)'
<1>1. RecordsTyped(n)'
  BY DEF Alone, RecordsTyped, RequestTyped, SelectionTyped, MapsTyped, PlanTyped, EvidenceTyped
<1>2. CallTyped(n)'
  <2>1. \A r : Linked(r) => Linked(r)'
    BY DEF Lasting, Linked
  <2>2. \A f : LinkedMap(f) => LinkedMap(f)'
    BY <2>1 DEF LinkedMap
  <2> QED BY <2>1, <2>2 DEF Alone, Lasting, CallTyped, SelectionTyped, MapsTyped, PlanTyped, SameProject, Dest, Source,
        Tasks, Asks, BatchUnderWay
<1> QED BY <1>1, <1>2

\* What one step of call m has to show.
Mine(m) == StepsTyped' /\ RecordsTyped(m)' /\ CallTyped(m)' /\ Alone(m)

\* What call m knows of its writes may change in a step of its own.
ExecStep(m) == /\ DOMAIN exec' = Movers /\ \A n \in Movers \ {m} : exec'[n] = exec[n]
               /\ exec'[m] # None => EvidenceTyped(exec'[m])

\* What call m knew of its writes may stay.
LEMMA ExecStays ==
  ASSUME TInv, NEW m \in Movers, exec' = exec PROVE ExecStep(m)
  BY DEF TInv, Tables, TypeOK, RecordsTyped, ExecStep, EvidenceTyped

\* Any evidence it records is typed.
LEMMA ExecRecorded ==
  ASSUME TInv, NEW m \in Movers, NEW c, NEW u, NEW phase \in Phases, NEW commit \in Commits,
         IsMap(c, Nat), u \subseteq Issues,
         Record(m, [phase |-> phase, commit |-> commit, confirmed |-> c, uncertain |-> u])
  PROVE  /\ ExecStep(m)
         /\ exec'[m] = [phase |-> phase, commit |-> commit, confirmed |-> c, uncertain |-> u]
         /\ exec'[m] # None
<1>1. [phase |-> phase, commit |-> commit, confirmed |-> c, uncertain |-> u] \in Evidence
  BY DEF IsMap, Evidence
<1>2. None \notin Evidence
  BY NoneAssumption
<1> QED BY <1>1, <1>2 DEF TInv, Tables, Record, ExecStep, EvidenceTyped

\* The numbers confirmed so far are a map from tasks to numbers.
LEMMA ConfirmedTyped ==
  ASSUME TInv, NEW m \in Movers PROVE IsMap(Confirmed(m), Nat)
<1>1. CASE exec[m] = None
  BY <1>1 DEF Confirmed, Now, IsMap
<1>2. CASE exec[m] # None
  BY <1>2 DEF TInv, TypeOK, RecordsTyped, EvidenceTyped, Confirmed
<1> QED BY <1>1, <1>2

\* Returning keeps the types.
LEMMA ReturnTyped ==
  ASSUME TInv, NEW m \in Movers, NEW what \in Outcomes, Return(m, what), ExecStep(m),
         UNCHANGED <<issue, wire, discrepancy>>
  PROVE  Mine(m)
<1> USE DEF TInv, TypeOK, Return, Goto, ClearReads, wire
<1>1. StepsTyped'
  BY ConstantsAssumption DEF StepsTyped
<1>2. /\ pc'[m] = "done" /\ pass'[m] = "prepare" /\ sel'[m] = None /\ hier'[m] = None /\ tree'[m] = None
      /\ plan'[m] = None /\ net'[m] = net[m] /\ reply'[m] = reply[m]
  BY DEF StepsTyped, Tables
<1>3. RecordsTyped(m)'
  BY <1>2 DEF RecordsTyped, ExecStep, RequestTyped, EvidenceTyped
<1>4. CallTyped(m)'
  BY <1>2 DEF CallTyped, Asks, BatchUnderWay, Linked, Exists
<1>5. Alone(m)
  BY DEF Alone, Tables, StepsTyped, ExecStep
<1> QED BY <1>1, <1>3, <1>4, <1>5 DEF Mine

\* So does starting a pass, when what it inspects with is there.
LEMMA PassTyped ==
  ASSUME TInv, NEW m \in Movers, pc[m] \notin {"start", "done"},
         NEW which \in {"reinspect", "presend", "verify"}, StartPass(m, which),
         DOMAIN plan' = Movers, \A n \in Movers \ {m} : plan'[n] = plan[n],
         PlanTyped(plan'[m]), LinkedMap(plan'[m].rows),
         ExecStep(m),
         which = "presend" /\ ~SameProject(m) => exec'[m] # None /\ DOMAIN exec'[m].confirmed = plan'[m].tasks,
         after' \in [Movers -> {None, "incomplete", "indeterminate"}], tries' \in [Movers -> 0..(MaxTries - 1)],
         DOMAIN reply' = Movers, \A n \in Movers \ {m} : reply'[n] = reply[n],
         reply'[m] = reply[m] \/ reply'[m] = None,
         UNCHANGED <<issue, net, drawn, landed, facts, discrepancy, sel, outcome>>
  PROVE  Mine(m)
<1> USE DEF TInv, TypeOK, StartPass, Goto, ClearReads
<1>1. StepsTyped'
  BY DEF StepsTyped
<1>2. /\ pc'[m] = "source" /\ pass'[m] = which /\ sel'[m] = sel[m] /\ hier'[m] = None /\ tree'[m] = None
      /\ net'[m] = net[m]
  BY DEF StepsTyped, Tables
<1>3. RecordsTyped(m)'
  BY <1>2 DEF RecordsTyped, ExecStep, RequestTyped, EvidenceTyped, SelectionTyped, PlanTyped
<1>4. CallTyped(m)'
  <2>1. (SelectionTyped(sel[m]) /\ (sel[m].parent \in Issues => Exists(sel[m].parent)))'
    <3>1. SelectionTyped(sel[m]) /\ (sel[m].parent \in Issues => Exists(sel[m].parent))
      BY DEF CallTyped
    <3> QED BY <1>2, <3>1 DEF Exists, SelectionTyped
  <2>2. LinkedMap(plan[m].rows)'
    BY DEF LinkedMap, Linked, Exists
  <2>3. Asks(m, "batch")' => DOMAIN net'[m] = {"kind", "write"}
    BY <1>2 DEF CallTyped, Asks
  <2>4. BatchUnderWay(m)' => (\A t \in net[m].write.tasks : Linked(net[m].write.final[t]))'
    BY <1>2 DEF CallTyped, Asks, BatchUnderWay, Linked, Exists
  <2> QED BY <1>2, <2>1, <2>2, <2>3, <2>4 DEF CallTyped, SameProject, Dest, Source, Tasks, SelectionTyped, PlanTyped
<1>5. Alone(m)
  BY DEF Alone, Tables, StepsTyped, ExecStep
<1> QED BY <1>1, <1>3, <1>4, <1>5 DEF Mine

\* Rows read now are rows of issues that exist.
LEMMA NowTyped ==
  ASSUME TInv, NEW S \in SUBSET Issues, \A i \in S : Exists(i)
  PROVE  IsMap(Now(S), Found) /\ LinkedMap(Now(S)) /\ DOMAIN Now(S) = S
<1>1. \A i \in S : issue[i] \in Found /\ Linked(issue[i])
  BY DEF TInv, TypeOK, Attached, Found, Exists
<1> QED BY <1>1 DEF Now, IsMap, LinkedMap

\* A selected issue is in a project.
LEMMA SelectionThere ==
  ASSUME TInv, NEW m \in Movers, pc[m] \notin {"start", "done"}
  PROVE  SelectionTyped(sel[m]) /\ Source(m) \in Projects /\ Dest(m) \in Projects /\ Root(m) \in Issues
<1>1. SelectionTyped(sel[m])
  BY DEF TInv, CallTyped
<1> QED BY <1>1 DEF SelectionTyped, Found, Rows, Source, Dest, Root

\* The inventory a call holds has a row for each issue it knows.
LEMMA ByIdTyped ==
  ASSUME NEW h, MapsTyped(h), LinkedMap(h.source), LinkedMap(h.target)
  PROVE  /\ IsMap(ById(h), Found) /\ DOMAIN ById(h) = Known(h) /\ Known(h) \subseteq Issues
         /\ LinkedMap(ById(h))
<1>1. \A i \in Known(h) : ById(h)[i] \in Found /\ Linked(ById(h)[i])
  BY DEF MapsTyped, IsMap, LinkedMap, Known, ById
<1>2. DOMAIN ById(h) = Known(h) /\ Known(h) \subseteq Issues
  BY DEF MapsTyped, IsMap, Known, ById
<1>3. ById(h) \in [Known(h) -> Found]
  BY <1>1 DEF ById
<1> QED BY <1>1, <1>2, <1>3 DEF IsMap, LinkedMap

\* What a clean inspection found can be planned from.
LEMMA InspectedTyped ==
  ASSUME TInv, NEW m \in Movers, pc[m] = "tree", InspectionClean(m)
  PROVE  PlanTyped(Inspected(m)) /\ LinkedMap(Inspected(m).rows)
<1> DEFINE rows == ById(hier[m])
<1>1. MapsTyped(hier[m]) /\ LinkedMap(hier[m].source) /\ LinkedMap(hier[m].target)
  BY DEF TInv, CallTyped
<1>2. RelatedIds(m) \subseteq DOMAIN rows /\ DOMAIN tree[m] \subseteq RelatedIds(m)
  BY DEF InspectionClean, RowsAgree, RelatedIds
<1>3. DOMAIN rows \subseteq Issues /\ \A i \in DOMAIN rows : rows[i] \in Found /\ Linked(rows[i])
  BY <1>1, ByIdTyped DEF IsMap, LinkedMap
<1> HIDE DEF rows
<1>4. Inspected(m).tasks = DOMAIN tree[m] /\ Inspected(m).rows = [i \in RelatedIds(m) |-> rows[i]]
  BY DEF Inspected, rows
<1> QED BY <1>2, <1>3, <1>4 DEF PlanTyped, IsMap, LinkedMap

\* The arguments a call begins with.
LEMMA BeginTyped ==
  ASSUME TInv, NEW m \in Movers, Begin(m) PROVE Mine(m)
<1>1. PICK r \in {i \in Issues : Exists(i)}, p \in {i \in Issues : Exists(i)} \union {NoParent}, d \in Projects :
        sel' = [sel EXCEPT ![m] = [root |-> r, parent |-> p, dest |-> d, rootRow |-> issue[r],
                                   parentRow |-> IF p = NoParent THEN None ELSE issue[p]]]
  BY DEF Begin
<1>2. sel'[m] = [root |-> r, parent |-> p, dest |-> d, rootRow |-> issue[r],
                 parentRow |-> IF p = NoParent THEN None ELSE issue[p]]
  BY <1>1 DEF TInv, Tables
<1>3. issue[r] \in Found /\ (p # NoParent => issue[p] \in Found)
  BY DEF TInv, TypeOK, Attached, Found, Exists
<1>4. SelectionTyped(sel'[m])
  BY <1>2, <1>3 DEF SelectionTyped
<1>5. /\ pc'[m] = "source" /\ pass'[m] = "prepare" /\ hier'[m] = None /\ tree'[m] = None
      /\ UNCHANGED <<issue, net, reply, exec, plan>>
  BY DEF TInv, TypeOK, Tables, Begin, StartPass, Goto, ClearReads, server, wire, StepsTyped
<1>6. StepsTyped'
  BY DEF TInv, TypeOK, Begin, StartPass, Goto, ClearReads, proof, wire, StepsTyped
<1>7. RecordsTyped(m)'
  BY <1>4, <1>5 DEF TInv, TypeOK, RecordsTyped, SelectionTyped, RequestTyped, PlanTyped, EvidenceTyped
<1>8. CallTyped(m)'
  <2>1. (SelectionTyped(sel[m]) /\ (sel[m].parent \in Issues => Exists(sel[m].parent)))'
    BY <1>2, <1>4, <1>5, ConstantsAssumption DEF SelectionTyped, Exists
  <2>2. Asks(m, "batch")' => DOMAIN net'[m] = {"kind", "write"}
    BY <1>5 DEF TInv, CallTyped, Asks
  <2>3. BatchUnderWay(m)' => (\A t \in net[m].write.tasks : Linked(net[m].write.final[t]))'
    BY <1>5 DEF TInv, CallTyped, Asks, BatchUnderWay, Linked, Exists
  <2> QED BY <1>5, <2>1, <2>2, <2>3 DEF CallTyped
<1>9. Alone(m)
  BY <1>1, <1>5 DEF TInv, TypeOK, Alone, Tables, StepsTyped, Begin, StartPass, Goto, ClearReads
<1> QED BY <1>6, <1>7, <1>8, <1>9 DEF Mine

\* A call that takes a step with its request and its arguments as they were keeps
\* what the request and the plan hold.
LEMMA HeldTyped ==
  ASSUME TInv, NEW m \in Movers, issue' = issue, net'[m] = net[m], sel'[m] = sel[m], plan'[m] = plan[m],
         pc[m] \notin {"start", "done"}
  PROVE  /\ (SelectionTyped(sel[m]) /\ (sel[m].parent \in Issues => Exists(sel[m].parent)))'
         /\ pass[m] # "prepare" => (PlanTyped(plan[m]) /\ LinkedMap(plan[m].rows))'
         /\ Asks(m, "batch")' => DOMAIN net'[m] = {"kind", "write"}
         /\ BatchUnderWay(m)' => (\A t \in net[m].write.tasks : Linked(net[m].write.final[t]))'
         /\ net'[m] # None => RequestTyped(net'[m])
         /\ plan'[m] # None => PlanTyped(plan'[m])
<1>0. CallTyped(m) /\ RecordsTyped(m)
  BY DEF TInv, TypeOK
<1>1. (SelectionTyped(sel[m]) /\ (sel[m].parent \in Issues => Exists(sel[m].parent)))'
  BY <1>0 DEF CallTyped, SelectionTyped, Exists
<1>2. pass[m] # "prepare" => (PlanTyped(plan[m]) /\ LinkedMap(plan[m].rows))'
  BY <1>0 DEF CallTyped, PlanTyped, LinkedMap, Linked, Exists
<1>3. Asks(m, "batch")' => DOMAIN net'[m] = {"kind", "write"}
  BY <1>0 DEF CallTyped, Asks
<1>4. BatchUnderWay(m)' => (\A t \in net[m].write.tasks : Linked(net[m].write.final[t]))'
  BY <1>0 DEF CallTyped, Asks, BatchUnderWay, Linked, Exists
<1> QED BY <1>0, <1>1, <1>2, <1>3, <1>4 DEF RecordsTyped, RequestTyped, PlanTyped

\* Reading a project or a level of the tree.
LEMMA ReadTyped ==
  ASSUME TInv, NEW m \in Movers, ReadSource(m) \/ ReadTarget(m) \/ ReadLevel(m) PROVE Mine(m)
<1>0. /\ pc[m] \in {"source", "target", "tree"} /\ UNCHANGED <<issue, net, reply, sel, plan, exec, pass>>
      /\ UNCHANGED <<outcome, after, tries, facts, drawn, landed, discrepancy>>
  BY DEF ReadSource, ReadTarget, ReadLevel, server, wire, proof
<1>1. SelectionTyped(sel[m]) /\ Source(m) \in Projects /\ Dest(m) \in Projects /\ Root(m) \in Issues
  BY <1>0, SelectionThere
<1>2. StepsTyped'
  <2>0. StepsTyped
    BY DEF TInv, TypeOK
  <2>1. CASE ReadSource(m)
    <3>1. /\ broken' = broken /\ frontier' = [frontier EXCEPT ![m] = {Root(m)}]
          /\ \E where \in {"target", "hierarchy", "tree"} : pc' = [pc EXCEPT ![m] = where]
      BY <2>1 DEF ReadSource, Goto
    <3> QED BY <1>0, <1>1, <2>0, <3>1 DEF StepsTyped
  <2>2. CASE ReadTarget(m)
    <3>1. /\ broken' = broken /\ frontier' = frontier
          /\ \E where \in {"hierarchy", "tree"} : pc' = [pc EXCEPT ![m] = where]
      BY <2>2 DEF ReadTarget, Goto
    <3> QED BY <1>0, <2>0, <3>1 DEF StepsTyped
  <2>3. CASE ReadLevel(m)
    <3>1. /\ pc' = pc
          /\ \E new \in SUBSET Issues : frontier' = [frontier EXCEPT ![m] = new]
          /\ \E b \in BOOLEAN : broken' = [broken EXCEPT ![m] = b]
      BY <2>3 DEF ReadLevel
    <3> QED BY <1>0, <2>0, <3>1 DEF StepsTyped
  <2> QED BY <2>1, <2>2, <2>3
<1>3. Alone(m)
  BY <1>0 DEF TInv, TypeOK, StepsTyped, Tables, Alone, ReadSource, ReadTarget, ReadLevel, Goto
<1>4. /\ pc'[m] \in {"target", "tree", "hierarchy"} /\ (pc'[m] = "hierarchy" => pass[m] = "verify")
      /\ (pc'[m] = "target" => ReadSource(m))
  BY <1>0 DEF TInv, TypeOK, StepsTyped, ReadSource, ReadTarget, ReadLevel, Goto
<1>5. ASSUME NEW p \in Projects
      PROVE  LET N == Now({i \in Issues : issue[i].space = p}) IN IsMap(N, Found) /\ LinkedMap(N)
  <2>1. \A i \in {j \in Issues : issue[j].space = p} : Exists(i)
    BY ConstantsAssumption DEF Exists
  <2> QED BY <2>1, NowTyped
<1>6. /\ MapsTyped(hier'[m]) /\ LinkedMap(hier'[m].source) /\ LinkedMap(hier'[m].target)
      /\ pc'[m] = "target" => DOMAIN hier'[m] = {"source", "target"}
  <2>1. CASE ReadSource(m)
    <3>1. hier'[m] = [source |-> Now({i \in Issues : issue[i].space = Source(m)}), target |-> Now({})]
      BY <2>1 DEF ReadSource, TInv, Tables
    <3>2. IsMap(Now({}), Found) /\ LinkedMap(Now({}))
      BY NowTyped
    <3> QED BY <1>1, <1>5, <3>1, <3>2 DEF MapsTyped
  <2>2. CASE ReadTarget(m)
    <3>1. /\ MapsTyped(hier[m]) /\ LinkedMap(hier[m].source) /\ LinkedMap(hier[m].target)
          /\ DOMAIN hier[m] = {"source", "target"}
      BY <2>2 DEF ReadTarget, TInv, CallTyped
    <3>2. hier'[m] = [hier[m] EXCEPT !.target = Now({i \in Issues : issue[i].space = Dest(m)})]
      BY <2>2 DEF ReadTarget, TInv, Tables
    <3>3. /\ hier'[m].source = hier[m].source /\ DOMAIN hier'[m] = {"source", "target"}
          /\ hier'[m].target = Now({i \in Issues : issue[i].space = Dest(m)})
      BY <3>1, <3>2
    <3> QED BY <1>1, <1>5, <3>1, <3>3 DEF MapsTyped
  <2>3. CASE ReadLevel(m)
    BY <1>0, <1>4, <2>3 DEF ReadLevel, TInv, CallTyped, MapsTyped
  <2> QED BY <2>1, <2>2, <2>3
<1>7. IsMap(tree'[m], Found)
  <2>1. CASE ReadSource(m)
    <3>1. tree'[m] = [i \in {Root(m)} |-> sel[m].rootRow]
      BY <2>1 DEF ReadSource, TInv, Tables
    <3> QED BY <1>1, <3>1 DEF SelectionTyped, IsMap
  <2>2. CASE ReadTarget(m)
    BY <2>2 DEF ReadTarget, TInv, CallTyped
  <2>3. CASE ReadLevel(m)
    <3> DEFINE new == {i \in Issues : issue[i].attachedTo \in frontier[m]} \ DOMAIN tree[m]
    <3>1. tree'[m] = [i \in DOMAIN tree[m] \union new |-> IF i \in new THEN issue[i] ELSE tree[m][i]]
      BY <2>3 DEF ReadLevel, TInv, Tables
    <3>2. IsMap(tree[m], Found) /\ frontier[m] \subseteq Issues
      BY <2>3 DEF ReadLevel, TInv, CallTyped, TypeOK, StepsTyped
    <3>3. \A i \in new : issue[i] \in Found
      BY <3>2, ConstantsAssumption DEF TInv, TypeOK, Attached, Found
    <3> HIDE DEF new
    <3>4. new \subseteq Issues
      BY DEF new
    <3> QED BY <3>1, <3>2, <3>3, <3>4 DEF IsMap
  <2> QED BY <2>1, <2>2, <2>3
<1>8. /\ sel'[m] = sel[m] /\ plan'[m] = plan[m] /\ exec'[m] = exec[m] /\ net'[m] = net[m]
      /\ reply'[m] = reply[m] /\ pass'[m] = pass[m]
  BY <1>0
<1>9. RecordsTyped(m)'
  BY <1>0, <1>6, <1>7, <1>8, HeldTyped DEF TInv, TypeOK, RecordsTyped, EvidenceTyped, MapsTyped, SelectionTyped
<1>10. (LinkedMap(hier[m].source) /\ LinkedMap(hier[m].target))'
  BY <1>0, <1>6 DEF LinkedMap, Linked, Exists
<1>11. pass[m] = "presend" /\ ~SameProject(m) => exec[m] # None /\ DOMAIN exec[m].confirmed = Tasks(m)
  BY <1>0 DEF TInv, CallTyped
<1>12. CallTyped(m)'
  BY <1>0, <1>4, <1>6, <1>7, <1>8, <1>10, <1>11, HeldTyped DEF CallTyped, SameProject, Dest, Source, Tasks
<1> QED BY <1>2, <1>3, <1>9, <1>12 DEF Mine

\* What a number or a commit leaves in the evidence.
LEMMA AllocatingTyped ==
  ASSUME TInv, NEW m \in Movers, NEW c, NEW u, IsMap(c, Nat), u \subseteq Issues, Record(m, Allocating(c, u))
  PROVE  ExecStep(m) /\ exec'[m] # None /\ exec'[m] = Allocating(c, u)
<1>1. Record(m, [phase |-> "allocation", commit |-> "not-sent", confirmed |-> c, uncertain |-> u])
  BY DEF Allocating
<1>2. "allocation" \in Phases /\ "not-sent" \in Commits
  BY DEF Phases, Commits
<1> QED BY <1>1, <1>2, ExecRecorded DEF Allocating

LEMMA CommittingTyped ==
  ASSUME TInv, NEW m \in Movers, NEW what \in Commits, Record(m, Committing(m, what))
  PROVE  ExecStep(m) /\ exec'[m] # None /\ exec'[m] = Committing(m, what)
<1>1. Record(m, [phase |-> "commit", commit |-> what, confirmed |-> Confirmed(m), uncertain |-> {}])
  BY DEF Committing
<1>2. "commit" \in Phases /\ {} \subseteq Issues
  BY DEF Phases
<1> QED BY <1>1, <1>2, ConfirmedTyped, ExecRecorded DEF Committing


\* Every outcome and every project it is decided from is one.
LEMMA Stopped ==
  ASSUME NEW m, NEW e, NEW what \in Outcomes PROVE StoppedResult(m, e, what) \in Outcomes
  BY DEF StoppedResult, Outcomes

\* The steps by which a call returns.
LEMMA ReturningTyped ==
  ASSUME TInv, NEW m \in Movers,
         \/ Conflicting(m) \/ NotAdmitted(m) \/ ReadFails(m) \/ NumberUnsent(m) \/ NumberLost(m)
         \/ Observed(m) \/ Verified(m) \/ VerificationFails(m) \/ Deadline(m)
  PROVE  Mine(m)
<1>0. "blocked" \in Outcomes /\ "indeterminate" \in Outcomes /\ "incomplete" \in Outcomes
  BY DEF Outcomes
<1>1. CASE Conflicting(m) \/ NotAdmitted(m)
  BY <1>0, <1>1, ReturnTyped, ExecStays DEF Conflicting, NotAdmitted, server, wire
<1>2. CASE ReadFails(m)
  BY <1>0, <1>2, ReturnTyped, ExecStays, Stopped DEF ReadFails, server, wire
<1>3. CASE NumberUnsent(m)
  <2> DEFINE known == IF DOMAIN Confirmed(m) = {} THEN None ELSE Allocating(Confirmed(m), {})
  <2>1. Record(m, known) /\ Return(m, StoppedResult(m, known, "incomplete")) /\ UNCHANGED <<issue, wire, discrepancy>>
    BY <1>3 DEF NumberUnsent, server, wire
  <2>2. ExecStep(m)
    <3>1. CASE known = None
      BY <2>1, <3>1 DEF TInv, Tables, Record, ExecStep
    <3>2. CASE known = Allocating(Confirmed(m), {})
      <4>1. Record(m, Allocating(Confirmed(m), {})) /\ {} \subseteq Issues
        BY <2>1, <3>2
      <4> QED BY <4>1, ConfirmedTyped, AllocatingTyped
    <3> QED BY <3>1, <3>2
  <2> QED BY <1>0, <2>1, <2>2, ReturnTyped, Stopped
<1>4. CASE NumberLost(m)
  BY <1>0, <1>4, ReturnTyped, ExecStays, Stopped DEF NumberLost, server, wire
<1>5. CASE Observed(m)
  <2>1. after[m] \in Outcomes
    BY <1>0, <1>5 DEF Observed, TInv, TypeOK, StepsTyped
  <2> QED BY <1>5, <2>1, ReturnTyped, ExecStays, Stopped DEF Observed, server, wire
<1>6. CASE Verified(m)
  <2>1. VerifiedResult(m, facts[m]) \in Outcomes
    BY <1>0, Stopped DEF VerifiedResult, Outcomes
  <2> QED BY <1>6, <2>1, ReturnTyped, ExecStays DEF Verified, server, wire
<1>7. CASE VerificationFails(m)
  <2>1. after[m] # None => after[m] \in Outcomes
    BY <1>0 DEF TInv, TypeOK, StepsTyped
  <2> QED BY <1>0, <1>7, <2>1, ReturnTyped, ExecStays, Stopped DEF VerificationFails, server, wire
<1>8. CASE Deadline(m)
  BY <1>0, <1>8, ReturnTyped, ExecStays, Stopped DEF Deadline, server, wire
<1> QED BY <1>1, <1>2, <1>3, <1>4, <1>5, <1>6, <1>7, <1>8

\* Going on within a pass, with the arguments and the plan as they were.
LEMMA GoTyped ==
  ASSUME TInv, NEW m \in Movers, pc[m] \notin {"start", "done"}, pass[m] # "prepare", StepsTyped', pass' = pass,
         NEW where \in {"allocate", "allocating", "commit", "committing", "tasks", "verified"}, Goto(m, where),
         UNCHANGED <<issue, sel, plan>>,
         DOMAIN hier' = Movers, DOMAIN tree' = Movers, DOMAIN net' = Movers, DOMAIN reply' = Movers,
         \A n \in Movers \ {m} : /\ hier'[n] = hier[n] /\ tree'[n] = tree[n]
                                 /\ net'[n] = net[n] /\ reply'[n] = reply[n],
         hier'[m] = None \/ hier'[m] = hier[m], tree'[m] = None \/ tree'[m] = tree[m],
         where \in {"tasks", "verified"} => hier'[m] = hier[m] /\ pc[m] \in {"hierarchy", "tasks"},
         reply'[m] = None \/ reply'[m] = reply[m],
         net'[m] # None => RequestTyped(net'[m]),
         Asks(m, "batch")' => DOMAIN net'[m] = {"kind", "write"},
         BatchUnderWay(m)' => (\A t \in net[m].write.tasks : Linked(net[m].write.final[t]))',
         ExecStep(m), where = "allocating" => exec'[m] # None,
         where = "commit" /\ ~SameProject(m) => exec'[m] # None /\ DOMAIN exec'[m].confirmed = Tasks(m)
  PROVE  Mine(m)
<1>0. pc'[m] = where /\ CallTyped(m) /\ RecordsTyped(m)
  BY DEF Goto, TInv, TypeOK, StepsTyped
<1>1. Alone(m)
  BY DEF Alone, Tables, TInv, TypeOK, StepsTyped, Goto, ExecStep
<1>2. (SelectionTyped(sel[m]) /\ (sel[m].parent \in Issues => Exists(sel[m].parent)))'
  BY <1>0 DEF CallTyped, SelectionTyped, Exists
<1>3. (PlanTyped(plan[m]) /\ LinkedMap(plan[m].rows))'
  BY <1>0 DEF CallTyped, PlanTyped, LinkedMap, Linked, Exists
<1>4. hier'[m] # None => MapsTyped(hier'[m])
  BY <1>0 DEF RecordsTyped, MapsTyped
<1>5. where \in {"tasks", "verified"} =>
        (MapsTyped(hier[m]) /\ LinkedMap(hier[m].source) /\ LinkedMap(hier[m].target))'
  BY <1>0 DEF CallTyped, MapsTyped, LinkedMap, Linked, Exists
<1>6. RecordsTyped(m)'
  BY <1>0, <1>2, <1>3, <1>4 DEF RecordsTyped, ExecStep, EvidenceTyped, SelectionTyped, PlanTyped, RequestTyped
<1>7. CallTyped(m)'
  BY <1>0, <1>2, <1>3, <1>5 DEF CallTyped, SameProject, Dest, Source, Tasks
<1> QED BY <1>1, <1>6, <1>7 DEF Mine
\* The steps that start another pass.
LEMMA PassingTyped ==
  ASSUME TInv, NEW m \in Movers,
         \/ Prepared(m) \/ CommitUnsent(m) \/ CommitUnparsable(m) \/ CommitLost(m)
         \/ CommitRefused(m) \/ CommitApplied(m) \/ VerifyAgain(m)
  PROVE  Mine(m)
<1>0. CallTyped(m) /\ StepsTyped /\ Tables
  BY DEF TInv, TypeOK
<1>1. CASE Prepared(m)
  <2>1. plan'[m] = Inspected(m) /\ DOMAIN plan' = Movers /\ \A n \in Movers \ {m} : plan'[n] = plan[n]
    BY <1>0, <1>1 DEF Prepared, Tables
  <2>2. PlanTyped(plan'[m]) /\ LinkedMap(plan'[m].rows)
    BY <1>1, <2>1, InspectedTyped DEF Prepared
  <2> QED BY <1>0, <1>1, <2>1, <2>2, PassTyped, ExecStays
          DEF Prepared, server, wire, proof, StepsTyped, Tables
<1>2. ASSUME pc[m] \in {"commit", "committing", "verified"}
      PROVE  PlanTyped(plan[m]) /\ LinkedMap(plan[m].rows)
  BY <1>0, <1>2 DEF CallTyped
<1>3. CASE CommitUnsent(m)
  <2>1. ExecStep(m)
    <3> DEFINE known == IF DOMAIN Confirmed(m) = {} THEN None ELSE Allocating(Confirmed(m), {})
    <3>1. Record(m, known)
      BY <1>3 DEF CommitUnsent
    <3>2. CASE known = None
      BY <1>0, <3>1, <3>2 DEF Tables, Record, ExecStep
    <3>3. CASE known = Allocating(Confirmed(m), {})
      BY <3>1, <3>3, ConfirmedTyped, AllocatingTyped
    <3> QED BY <3>2, <3>3
  <2> QED BY <1>0, <1>2, <1>3, <2>1, PassTyped DEF CommitUnsent, server, wire, proof, StepsTyped, Tables
<1>4. CASE CommitUnparsable(m)
  <2>1. ExecStep(m)
    BY <1>4, CommittingTyped DEF CommitUnparsable, Commits
  <2> QED BY <1>0, <1>2, <1>4, <2>1, PassTyped DEF CommitUnparsable, server, wire, proof, StepsTyped, Tables
<1>5. CASE CommitLost(m)
  <2>1. ExecStep(m)
    BY <1>5, CommittingTyped DEF CommitLost, Commits
  <2> QED BY <1>0, <1>2, <1>5, <2>1, PassTyped DEF CommitLost, server, wire, proof, StepsTyped, Tables
<1>6. CASE CommitRefused(m)
  <2>1. ExecStep(m)
    BY <1>6, CommittingTyped DEF CommitRefused, Commits
  <2> QED BY <1>0, <1>2, <1>6, <2>1, PassTyped DEF CommitRefused, server, wire, proof, StepsTyped, Tables
<1>7. CASE CommitApplied(m)
  <2>1. ExecStep(m)
    <3>1. [Committing(m, "acknowledged") EXCEPT !.phase = "verification"]
             = [phase |-> "verification", commit |-> "acknowledged", confirmed |-> Confirmed(m), uncertain |-> {}]
      BY DEF Committing
    <3>2. Record(m, [phase |-> "verification", commit |-> "acknowledged", confirmed |-> Confirmed(m), uncertain |-> {}])
      BY <1>7, <3>1 DEF CommitApplied
    <3>3. "verification" \in Phases /\ "acknowledged" \in Commits /\ {} \subseteq Issues
      BY DEF Phases, Commits
    <3> QED BY <3>2, <3>3, ConfirmedTyped, ExecRecorded
  <2> QED BY <1>0, <1>2, <1>7, <2>1, PassTyped DEF CommitApplied, server, wire, proof, StepsTyped, Tables
<1>8. CASE VerifyAgain(m)
  <2>1. tries' \in [Movers -> 0..(MaxTries - 1)]
    BY <1>0, <1>8, ConstantsAssumption DEF VerifyAgain, StepsTyped
  <2> QED BY <1>0, <1>2, <1>8, <2>1, PassTyped, ExecStays DEF VerifyAgain, server, wire, StepsTyped, Tables
<1> QED BY <1>1, <1>3, <1>4, <1>5, <1>6, <1>7, <1>8

\* An ancestry is read off rows of issues that are in a project.
LEMMA AncestryTyped ==
  ASSUME NEW rows, NEW i, DOMAIN rows \subseteq Issues,
         \A a \in DOMAIN rows : rows[a].space \in Projects /\ rows[a].number \in Numbers
  PROVE  Ancestry(rows, i) \subseteq Ancestors
<1>1. Above(rows, rows[i].attachedTo) \subseteq DOMAIN rows
  BY DEF Above
<1> HIDE DEF Numbers
<1> QED BY <1>1 DEF Ancestry, Ancestors

\* What a call is about to send is a batch of typed rows.
LEMMA WritesTyped ==
  ASSUME TInv, NEW m \in Movers, pc[m] = "commit"
  PROVE  WriteTyped(Write(m)) /\ \A t \in Write(m).tasks : Linked(Write(m).final[t])
<1>1. /\ SelectionTyped(sel[m]) /\ Source(m) \in Projects /\ Dest(m) \in Projects /\ Root(m) \in Issues
      /\ sel[m].parent \in Issues => Exists(sel[m].parent)
  BY SelectionThere DEF TInv, CallTyped
<1>2. PlanTyped(plan[m]) /\ LinkedMap(plan[m].rows)
  BY DEF TInv, CallTyped
<1>3. \A i \in DOMAIN plan[m].rows :
        /\ i \in Issues /\ plan[m].rows[i] \in Found /\ plan[m].rows[i].attachedTo \in Issues \union {NoParent}
        /\ plan[m].rows[i].space \in Projects /\ plan[m].rows[i].number \in Numbers /\ Linked(plan[m].rows[i])
  BY <1>2 DEF PlanTyped, IsMap, LinkedMap, Found, Rows
<1>4. Tasks(m) \subseteq DOMAIN plan[m].rows
  BY <1>2 DEF PlanTyped, Tasks
<1>5. ASSUME NEW t \in Tasks(m)
      PROVE  /\ FinalParent(m, t) \in Issues \union {NoParent} /\ FinalNumber(m, t) \in Numbers
             /\ FinalParent(m, t) \in Issues => Exists(FinalParent(m, t))
  <2>1. FinalParent(m, t) \in Issues \union {NoParent} /\ (FinalParent(m, t) \in Issues => Exists(FinalParent(m, t)))
    BY <1>1, <1>3, <1>4 DEF FinalParent, SelectionTyped, Linked
  <2>2. CASE SameProject(m)
    BY <1>3, <1>4, <2>1, <2>2 DEF FinalNumber
  <2>3. CASE ~SameProject(m)
    <3>1. exec[m] # None /\ DOMAIN exec[m].confirmed = Tasks(m) /\ IsMap(exec[m].confirmed, Nat)
      BY <2>3 DEF TInv, TypeOK, CallTyped, RecordsTyped, EvidenceTyped
    <3>2. exec[m].confirmed[t] \in Nat
      BY <3>1 DEF IsMap
    <3> QED BY <2>1, <2>3, <3>2 DEF FinalNumber, Numbers
  <2> QED BY <2>2, <2>3
<1>6. /\ DOMAIN Planned(m) \subseteq Issues
      /\ \A a \in DOMAIN Planned(m) : Planned(m)[a].space \in Projects /\ Planned(m)[a].number \in Numbers
  <2>1. DOMAIN Planned(m) = DOMAIN plan[m].rows
    BY DEF Planned
  <2>2. ASSUME NEW a \in DOMAIN plan[m].rows
        PROVE  Planned(m)[a].space \in Projects /\ Planned(m)[a].number \in Numbers
    <3>1. CASE a \notin Tasks(m)
      BY <1>3, <3>1 DEF Planned
    <3>2. CASE a \in Tasks(m)
      <4>1. Planned(m)[a] = [plan[m].rows[a] EXCEPT !.attachedTo = FinalParent(m, a), !.space = Dest(m),
                                                    !.number = FinalNumber(m, a)]
        BY <3>2 DEF Planned
      <4>2. plan[m].rows[a] \in Rows
        BY <1>3 DEF Found
      <4>3. FinalNumber(m, a) \in Numbers
        BY <1>5, <3>2
      <4> HIDE DEF Numbers
      <4> QED BY <1>1, <4>1, <4>2, <4>3 DEF Rows
    <3> QED BY <3>1, <3>2
  <2> QED BY <1>3, <2>1, <2>2
<1>7. \A t \in Tasks(m) : Ancestry(Planned(m), t) \subseteq Ancestors
  BY <1>6, AncestryTyped
<1>8. \A t \in Tasks(m) : Write(m).final[t] = [attachedTo |-> FinalParent(m, t), number |-> FinalNumber(m, t),
                                               parents |-> Ancestry(Planned(m), t)]
  BY DEF Write
<1>9. Write(m).final \in [Tasks(m) -> [attachedTo : Issues \union {NoParent}, number : Numbers,
                                       parents : SUBSET Ancestors]]
  BY <1>5, <1>7 DEF Write
<1>10. /\ Write(m).root = Root(m) /\ Write(m).parent = sel[m].parent /\ Write(m).source = Source(m)
       /\ Write(m).dest = Dest(m) /\ Write(m).tasks = Tasks(m) /\ Write(m).rows = plan[m].rows
  BY DEF Write
<1>11. WriteTyped(Write(m))
  BY <1>1, <1>2, <1>4, <1>9, <1>10 DEF WriteTyped, PlanTyped, SelectionTyped
<1>12. ASSUME NEW t \in Tasks(m) PROVE Linked(Write(m).final[t])
  <2>1. Write(m).final[t].attachedTo = FinalParent(m, t)
    BY DEF Write
  <2> QED BY <1>5, <2>1 DEF Linked
<1> QED BY <1>10, <1>11, <1>12

\* After the second and the third inspection.
LEMMA AdmittedTyped ==
  ASSUME TInv, NEW m \in Movers, Reinspected(m) \/ Presend(m) PROVE Mine(m)
<1>0. CallTyped(m) /\ StepsTyped /\ Tables /\ ExecStep(m)
  BY ExecStays DEF TInv, TypeOK, Reinspected, Presend
<1>1. /\ pc[m] = "tree" /\ pass[m] \in {"reinspect", "presend"} /\ UNCHANGED <<server, wire, proof, sel, plan, exec, outcome>>
      /\ PlanTyped(plan[m]) /\ LinkedMap(plan[m].rows)
  BY <1>0 DEF Reinspected, Presend, CallTyped
<1>2. CASE StartPass(m, "verify")
  <2>1. after' \in [Movers -> {None, "incomplete", "indeterminate"}]
    BY <1>0 DEF Reinspected, Presend, StepsTyped
  <2> QED BY <1>0, <1>1, <1>2, <2>1, PassTyped DEF server, wire, proof, StepsTyped, Tables
<1>3. CASE /\ \E where \in {"allocate", "commit"} :
                 /\ Goto(m, where)
                 /\ where = "commit" /\ ~SameProject(m) => pass[m] = "presend"
           /\ ClearReads(m) /\ pass' = pass /\ after' = after
  <2>1. PICK where \in {"allocate", "commit"} :
          Goto(m, where) /\ (where = "commit" /\ ~SameProject(m) => pass[m] = "presend")
    BY <1>3
  <2>2. StepsTyped'
    BY <1>0, <1>1, <1>3, <2>1 DEF StepsTyped, Goto, ClearReads, wire, proof
  <2>3. where = "commit" /\ ~SameProject(m) => exec'[m] # None /\ DOMAIN exec'[m].confirmed = Tasks(m)
    BY <1>0, <1>1, <2>1 DEF CallTyped
  <2>4. /\ net'[m] # None => RequestTyped(net'[m])
        /\ Asks(m, "batch")' => DOMAIN net'[m] = {"kind", "write"}
        /\ BatchUnderWay(m)' => (\A t \in net[m].write.tasks : Linked(net[m].write.final[t]))'
    BY <1>1, HeldTyped DEF server, wire
  <2> QED BY <1>0, <1>1, <1>3, <2>1, <2>2, <2>3, <2>4, GoTyped DEF ClearReads, server, wire, Tables
<1>4. CASE Reinspected(m)
  BY <1>2, <1>3, <1>4 DEF Reinspected
<1>5. CASE Presend(m)
  BY <1>2, <1>3, <1>5 DEF Presend
<1> QED BY <1>4, <1>5

\* Asking for a number and for the batch.
LEMMA AskTyped ==
  ASSUME TInv, NEW m \in Movers, NEW t \in Issues, AskNumber(m, t) PROVE Mine(m)
<1>0. CallTyped(m) /\ StepsTyped /\ Tables /\ pass[m] # "prepare" /\ pc[m] = "allocate"
  BY DEF TInv, TypeOK, AskNumber, CallTyped
<1>1. ExecStep(m) /\ exec'[m] # None
  <2>1. Record(m, Allocating(Confirmed(m), {t})) /\ {t} \subseteq Issues
    BY DEF AskNumber
  <2> QED BY <2>1, ConfirmedTyped, AllocatingTyped
<1>2. StepsTyped'
  BY <1>0 DEF StepsTyped, AskNumber, Goto, reads, proof
<1>3. net'[m] = [kind |-> "allocate", write |-> Dest(m)] /\ Dest(m) \in Projects
  BY <1>0, SelectionThere DEF AskNumber, Tables
<1>4. RequestTyped(net'[m]) /\ ~Asks(m, "batch")' /\ ~BatchUnderWay(m)'
  BY <1>3 DEF RequestTyped, Asks, BatchUnderWay
<1> QED BY <1>0, <1>1, <1>2, <1>4, GoTyped DEF AskNumber, server, reads, Tables

LEMMA SendTyped ==
  ASSUME TInv, NEW m \in Movers, Send(m) PROVE Mine(m)
<1>0. CallTyped(m) /\ StepsTyped /\ Tables /\ pass[m] # "prepare" /\ pc[m] = "commit"
  BY DEF TInv, TypeOK, Send, CallTyped
<1>1. ExecStep(m) /\ exec'[m] # None
  BY CommittingTyped DEF Send, Commits
<1>2. StepsTyped'
  BY <1>0 DEF StepsTyped, Send, Goto, reads, proof
<1>3. net'[m] = [kind |-> "batch", write |-> Write(m)] /\ issue' = issue
  BY <1>0 DEF Send, Tables, server
<1>4. WriteTyped(Write(m)) /\ \A t \in Write(m).tasks : Linked(Write(m).final[t])
  BY <1>0, WritesTyped
<1> HIDE DEF Write
<1>5. RequestTyped(net'[m]) /\ DOMAIN net'[m] = {"kind", "write"}
  BY <1>3, <1>4 DEF RequestTyped
<1>6. (\A t \in net[m].write.tasks : Linked(net[m].write.final[t]))'
  BY <1>3, <1>4 DEF Linked, Exists
<1> QED BY <1>0, <1>1, <1>2, <1>5, <1>6, GoTyped DEF Send, server, reads, Tables

LEMMA ArrivesTyped ==
  ASSUME TInv, NEW m \in Movers, NumberArrives(m) PROVE Mine(m)
<1> DEFINE known == [u \in DOMAIN Confirmed(m) \union exec[m].uncertain |->
                       IF u \in exec[m].uncertain THEN reply[m].value ELSE Confirmed(m)[u]]
<1>0. CallTyped(m) /\ RecordsTyped(m) /\ StepsTyped /\ Tables /\ pc[m] = "allocating" /\ reply[m] # None
  BY DEF TInv, TypeOK, NumberArrives
<1>1. pass[m] # "prepare" /\ exec[m] # None /\ EvidenceTyped(exec[m]) /\ reply[m].value \in Nat
      /\ PlanTyped(plan[m]) /\ LinkedMap(plan[m].rows)
  BY <1>0 DEF CallTyped, RecordsTyped
<1>2. IsMap(known, Nat)
  BY <1>1, ConfirmedTyped DEF IsMap, EvidenceTyped
<1>3. /\ Record(m, Allocating(known, {}))
      /\ IF DOMAIN known = Tasks(m) THEN StartPass(m, "presend") ELSE Goto(m, "allocate") /\ UNCHANGED <<pass, reads>>
  BY DEF NumberArrives
<1> HIDE DEF known
<1>4. ExecStep(m) /\ exec'[m] # None /\ exec'[m] = Allocating(known, {})
  <2>1. {} \subseteq Issues
    OBVIOUS
  <2> QED BY <1>2, <1>3, <2>1, AllocatingTyped
<1>5. /\ UNCHANGED <<server, net, drawn, landed, proof, sel, plan, after, outcome>>
      /\ DOMAIN reply' = Movers /\ reply'[m] = None /\ \A n \in Movers \ {m} : reply'[n] = reply[n]
  BY <1>0 DEF NumberArrives, Tables
<1>6. CASE DOMAIN known = Tasks(m)
  <2>1. DOMAIN exec'[m].confirmed = plan'[m].tasks
    BY <1>4, <1>5, <1>6 DEF Allocating, Tasks
  <2> QED BY <1>0, <1>1, <1>3, <1>4, <1>5, <1>6, <2>1, PassTyped DEF server, proof, StepsTyped, Tables
<1>7. CASE DOMAIN known # Tasks(m)
  <2>1. StepsTyped' /\ pass' = pass /\ Goto(m, "allocate")
    BY <1>0, <1>3, <1>5, <1>7 DEF StepsTyped, Goto, reads, proof
  <2>2. /\ net'[m] # None => RequestTyped(net'[m])
        /\ Asks(m, "batch")' => DOMAIN net'[m] = {"kind", "write"}
        /\ BatchUnderWay(m)' => (\A t \in net[m].write.tasks : Linked(net[m].write.final[t]))'
    BY <1>0, <1>5, HeldTyped DEF server
  <2>3. DOMAIN net' = Movers /\ \A n \in Movers \ {m} : net'[n] = net[n]
    BY <1>0, <1>5 DEF Tables
  <2>4. UNCHANGED <<hier, tree>>
    BY <1>3, <1>7 DEF reads
  <2> QED BY <1>0, <1>1, <1>4, <1>5, <2>1, <2>2, <2>3, <2>4, GoTyped DEF server, Tables
<1> QED BY <1>6, <1>7

\* Looking at the result.
LEMMA LookTyped ==
  ASSUME TInv, NEW m \in Movers, VerifyHierarchy(m) \/ VerifyTasks(m) PROVE Mine(m)
<1>0. CallTyped(m) /\ StepsTyped /\ Tables /\ ExecStep(m) /\ pass[m] # "prepare" /\ pc[m] \in {"hierarchy", "tasks"}
  BY ExecStays DEF TInv, TypeOK, VerifyHierarchy, VerifyTasks, CallTyped
<1>1. UNCHANGED <<server, wire, hier, tree, frontier, tries, pass, sel, plan, exec, after, outcome>>
  BY DEF VerifyHierarchy, VerifyTasks
<1>2. ASSUME NEW p \in BOOLEAN, NEW c \in BOOLEAN PROVE Merged(m, p, c) \in Facts
  BY DEF Merged, Facts
<1>3. PICK where \in {"tasks", "verified"} : Goto(m, where)
  BY DEF VerifyHierarchy, VerifyTasks
<1>4. /\ \E f \in Facts : facts' = [facts EXCEPT ![m] = f]
      /\ \E d \in BOOLEAN : discrepancy' = [discrepancy EXCEPT ![m] = d]
      /\ \E b \in BOOLEAN : broken' = [broken EXCEPT ![m] = b]
  <2>1. CASE VerifyHierarchy(m)
    <3>1. HierarchyProblemAfterMove(m) \in BOOLEAN
      BY DEF HierarchyProblemAfterMove
    <3>2. Merged(m, HierarchyProblemAfterMove(m), FALSE) \in Facts
      BY <1>2, <3>1
    <3> QED BY <1>0, <2>1, <3>1, <3>2 DEF VerifyHierarchy, StepsTyped
  <2>2. CASE VerifyTasks(m)
    <3> DEFINE S == DOMAIN plan[m].rows
               Complete(lost) == ~lost /\ ClosureCounted(hier[m], S)
               Problem(lost, missed) ==
                 \/ broken[m]
                 \/ ~(lost /\ missed) /\ (TaskProblem(m) \/ (ClosureCounted(hier[m], S) /\ ~ClosureMatches(hier[m], S)))
    <3>1. PICK lost \in BOOLEAN, missed \in BOOLEAN :
            /\ facts' = [facts EXCEPT ![m] = Merged(m, Problem(lost, missed), Complete(lost))]
            /\ discrepancy' = [discrepancy EXCEPT ![m] = Problem(lost, missed) \/ (@ /\ ~Complete(lost))]
            /\ broken' = [broken EXCEPT ![m] = Problem(lost, missed) \/ ~Complete(lost)]
      BY <2>2 DEF VerifyTasks
    <3>2. Problem(lost, missed) \in BOOLEAN /\ Complete(lost) \in BOOLEAN
      BY <1>0 DEF StepsTyped
    <3> HIDE DEF Problem, Complete
    <3>3. Merged(m, Problem(lost, missed), Complete(lost)) \in Facts
      BY <1>2, <3>2
    <3>4. (Problem(lost, missed) \/ (discrepancy[m] /\ ~Complete(lost))) \in BOOLEAN
          /\ (Problem(lost, missed) \/ ~Complete(lost)) \in BOOLEAN
      OBVIOUS
    <3> QED BY <3>1, <3>3, <3>4
  <2> QED BY <2>1, <2>2
<1>5. StepsTyped'
  BY <1>0, <1>1, <1>3, <1>4 DEF StepsTyped, Goto, wire
<1>6. /\ net'[m] # None => RequestTyped(net'[m])
      /\ Asks(m, "batch")' => DOMAIN net'[m] = {"kind", "write"}
      /\ BatchUnderWay(m)' => (\A t \in net[m].write.tasks : Linked(net[m].write.final[t]))'
  BY <1>0, <1>1, HeldTyped DEF server, wire
<1> QED BY <1>0, <1>1, <1>3, <1>5, <1>6, GoTyped DEF server, wire, Tables

\* Every step of a call.
LEMMA TypedCall ==
  ASSUME TInv, NEW m \in Movers, Call(m) PROVE Mine(m)
BY BeginTyped, ReadTyped, ReturningTyped, PassingTyped, AdmittedTyped, AskTyped, SendTyped, ArrivesTyped, LookTyped
   DEF Call

\* An ancestry in a workspace names issues of its projects.
LEMMA IssueAncestryTyped ==
  ASSUME NEW rows, DOMAIN rows = Issues,
         \A a \in Issues : /\ rows[a].space \in Projects \union {Nowhere} /\ rows[a].number \in Numbers
                           /\ rows[a].attachedTo \in Issues => rows[rows[a].attachedTo].space # Nowhere,
         NEW i \in Issues
  PROVE  Ancestry(rows, i) \subseteq Ancestors
<1> DEFINE E == {a \in Issues : rows[a].space # Nowhere}
<1>1. \A s \in E : rows[s].attachedTo \in Issues => rows[s].attachedTo \in E
  OBVIOUS
<1>2. Above(rows, rows[i].attachedTo) \subseteq E
  <2>1. CASE rows[i].attachedTo \in Issues
    <3>1. E \in SUBSET DOMAIN rows /\ rows[i].attachedTo \in E
      BY <2>1
    <3> HIDE DEF E
    <3> QED BY <1>1, <3>1 DEF Above
  <2>2. CASE rows[i].attachedTo \notin Issues
    BY <2>2 DEF Above
  <2> QED BY <2>1, <2>2
<1>3. \A a \in Above(rows, rows[i].attachedTo) :
        a \in Issues /\ rows[a].space \in Projects /\ rows[a].number \in Numbers
  BY <1>2
<1> HIDE DEF E, Numbers
<1> QED BY <1>3 DEF Ancestry, Ancestors

\* What the server does to the rows leaves what the calls hold well typed.
LEMMA HeldThroughServer ==
  ASSUME TInv, NEW m \in Movers, Lasting, UNCHANGED <<pc, pass, sel, hier, tree, plan, exec>>,
         net'[m] = net[m] \/ net'[m] = None \/ (Asks(m, "batch") /\ net'[m] = [net[m] EXCEPT !.kind = "admitted"]),
         reply'[m] = reply[m] \/ (\E kind \in {"number", "refused", "applied"}, value \in Nat :
                                    reply'[m] = [kind |-> kind, value |-> value])
  PROVE  RecordsTyped(m)' /\ CallTyped(m)'
<1>0. CallTyped(m) /\ RecordsTyped(m)
  BY DEF TInv, TypeOK
<1>1. net'[m] # None => /\ net[m] # None /\ net'[m].write = net[m].write
                        /\ net'[m].kind = net[m].kind \/ (net[m].kind = "batch" /\ net'[m].kind = "admitted")
                        /\ DOMAIN net'[m] = DOMAIN net[m]
  <2>1. CASE net'[m] = net[m]
    BY <2>1
  <2>2. CASE net'[m] = None
    BY <2>2
  <2>3. CASE Asks(m, "batch") /\ net'[m] = [net[m] EXCEPT !.kind = "admitted"]
    <3>1. DOMAIN net[m] = {"kind", "write"} /\ net[m] # None /\ net[m].kind = "batch"
      BY <1>0, <2>3 DEF CallTyped, Asks
    <3> QED BY <2>3, <3>1
  <2> QED BY <2>1, <2>2, <2>3
<1>2. RecordsTyped(m)'
  <2>1. net'[m] # None => RequestTyped(net'[m])
    BY <1>0, <1>1 DEF RecordsTyped, RequestTyped
  <2>2. reply'[m] # None => reply'[m].kind \in {"number", "refused", "applied"} /\ reply'[m].value \in Nat
    <3>1. CASE reply'[m] = reply[m]
      BY <1>0, <3>1 DEF RecordsTyped
    <3>2. ASSUME NEW kind \in {"number", "refused", "applied"}, NEW value \in Nat,
                 reply'[m] = [kind |-> kind, value |-> value]
          PROVE  reply'[m].kind \in {"number", "refused", "applied"} /\ reply'[m].value \in Nat
      BY <3>2
    <3> QED BY <3>1, <3>2
  <2> QED BY <1>0, <2>1, <2>2 DEF RecordsTyped, SelectionTyped, MapsTyped, PlanTyped, EvidenceTyped, RequestTyped
<1>3. \A r : Linked(r) => Linked(r)'
  BY DEF Lasting, Linked
<1>4. \A f : LinkedMap(f) => LinkedMap(f)'
  BY <1>3 DEF LinkedMap
<1>5. Asks(m, "batch")' => DOMAIN net'[m] = {"kind", "write"}
  BY <1>0, <1>1 DEF CallTyped, Asks
<1>6. BatchUnderWay(m)' => (\A t \in net[m].write.tasks : Linked(net[m].write.final[t]))'
  BY <1>0, <1>1, <1>3 DEF CallTyped, Asks, BatchUnderWay
<1>7. (SelectionTyped(sel[m]) /\ (sel[m].parent \in Issues => Exists(sel[m].parent)))'
        \/ pc[m] \in {"start", "done"}
  BY <1>0 DEF CallTyped, SelectionTyped, Lasting
<1> QED BY <1>0, <1>2, <1>4, <1>5, <1>6, <1>7
        DEF CallTyped, MapsTyped, PlanTyped, SameProject, Dest, Source, Tasks

\* What a step of the server has to show.
Served == /\ issue' \in [Issues -> Rows] /\ sequence' \in [Projects -> Nat] /\ edits' \in 0..MaxEdits
          /\ rewritten' \subseteq Issues /\ Attached' /\ Lasting

\* A row that keeps its place keeps what is attached.
LEMMA KeptInPlace ==
  ASSUME TInv, \A i \in Issues : issue'[i].attachedTo = issue[i].attachedTo /\ issue'[i].space = issue[i].space
  PROVE  Attached' /\ Lasting
  BY DEF TInv, Attached, Lasting, Linked, Exists

LEMMA EditServed ==
  ASSUME TInv, NEW i \in Issues, Edit(i) PROVE Served
<1>1. issue[i] \in Rows /\ issue' = [issue EXCEPT ![i].modifiedOn = @ + 1]
  BY DEF Edit, TInv, TypeOK
<1>2. [issue[i] EXCEPT !.modifiedOn = @ + 1] \in Rows
  BY <1>1 DEF Rows
<1>3. issue' \in [Issues -> Rows]
  BY <1>1, <1>2 DEF TInv, TypeOK
<1>4. \A j \in Issues : issue'[j].attachedTo = issue[j].attachedTo /\ issue'[j].space = issue[j].space
  BY <1>1 DEF TInv, TypeOK, Rows
<1>5. sequence' = sequence /\ rewritten' = rewritten /\ edits' = edits + 1 /\ edits < MaxEdits
  BY DEF Edit
<1> QED BY <1>3, <1>4, <1>5, KeptInPlace, ConstantsAssumption DEF Served, TInv, TypeOK

LEMMA RefreshServed ==
  ASSUME TInv, NEW a \in Issues, RefreshInformation(a) PROVE Served
<1>1. issue[a] \in Rows /\ issue' = [issue EXCEPT ![a].childInfo = Below(issue, a) \ {a}] /\ DOMAIN issue = Issues
  BY DEF RefreshInformation, TInv, TypeOK
<1>2. Below(issue, a) \ {a} \subseteq Issues
  BY <1>1 DEF Below
<1>3. [issue[a] EXCEPT !.childInfo = Below(issue, a) \ {a}] \in Rows
  BY <1>1, <1>2 DEF Rows
<1>4. issue' \in [Issues -> Rows]
  BY <1>1, <1>3 DEF TInv, TypeOK
<1>5. \A j \in Issues : issue'[j].attachedTo = issue[j].attachedTo /\ issue'[j].space = issue[j].space
  BY <1>1 DEF TInv, TypeOK, Rows
<1>6. UNCHANGED <<sequence, edits, rewritten>>
  BY DEF RefreshInformation
<1> QED BY <1>4, <1>5, <1>6, KeptInPlace DEF Served, TInv, TypeOK

LEMMA CreateServed ==
  ASSUME TInv, NEW i \in Issues, NEW p \in Issues, CreateChild(i, p) PROVE Served
<1> DEFINE n == sequence[issue[p].space] + 1
           born == [issue[i] EXCEPT !.attachedTo = p, !.space = issue[p].space, !.number = n]
           with == [issue EXCEPT ![i] = born]
<1>1. /\ issue \in [Issues -> Rows] /\ sequence \in [Projects -> Nat] /\ ~Exists(i) /\ Exists(p) /\ i # p
      /\ issue[i] \in Rows /\ issue[p] \in Rows
      /\ issue[p].space \in Projects /\ UNCHANGED <<edits, rewritten>>
      /\ sequence' = [sequence EXCEPT ![issue[p].space] = n]
      /\ issue' = [issue EXCEPT ![p].subIssues = @ + 1, ![i] = [born EXCEPT !.parents = Ancestry(with, i)]]
  BY DEF CreateChild, TInv, TypeOK, Exists, Rows
<1>2. n \in Nat
  BY <1>1
<1>3. born \in Rows /\ born.attachedTo = p /\ born.space = issue[p].space
  BY <1>1, <1>2 DEF Rows, Numbers
<1>4. Ancestry(with, i) \subseteq Ancestors
  <2>1. with \in [Issues -> Rows] /\ with[i] = born
    BY <1>1, <1>3
  <2>2. ASSUME NEW s \in Issues, with[s].attachedTo \in Issues PROVE with[with[s].attachedTo].space # Nowhere
    <3>1. CASE s = i
      BY <1>1, <1>3, <2>1, <2>2, <3>1 DEF Exists
    <3>2. CASE s # i
      <4>1. with[s] = issue[s] /\ Exists(issue[s].attachedTo)
        BY <1>1, <2>2, <3>2 DEF TInv, Attached, Linked
      <4>2. issue[s].attachedTo # i
        BY <1>1, <4>1
      <4> QED BY <1>1, <2>2, <4>1, <4>2 DEF Exists
    <3> QED BY <3>1, <3>2
  <2> HIDE DEF with
  <2>3. DOMAIN with = Issues /\ \A s \in Issues : with[s].space \in Projects \union {Nowhere} /\ with[s].number \in Numbers
    BY <2>1 DEF Rows
  <2> QED BY <2>2, <2>3, IssueAncestryTyped
<1> HIDE DEF with, born, n
<1>5. [born EXCEPT !.parents = Ancestry(with, i)] \in Rows
  BY <1>3, <1>4 DEF Rows
<1>6. [issue[p] EXCEPT !.subIssues = @ + 1] \in Rows
  BY <1>1 DEF Rows
<1>7. /\ issue'[i] = [born EXCEPT !.parents = Ancestry(with, i)]
      /\ issue'[p] = [issue[p] EXCEPT !.subIssues = @ + 1]
      /\ \A j \in Issues \ {i, p} : issue'[j] = issue[j]
      /\ DOMAIN issue' = Issues
  BY <1>1
<1>8. issue' \in [Issues -> Rows]
  <2>1. \A j \in Issues : issue'[j] \in Rows
    BY <1>1, <1>5, <1>6, <1>7
  <2>2. issue' = [j \in Issues |-> issue'[j]]
    BY <1>1
  <2> QED BY <2>1, <2>2
<1>9. sequence' \in [Projects -> Nat]
  BY <1>1, <1>2
<1>10. /\ issue'[i].attachedTo = p /\ issue'[i].space = issue[p].space
       /\ \A j \in Issues \ {i} : issue'[j].attachedTo = issue[j].attachedTo /\ issue'[j].space = issue[j].space
  <2>1. issue'[i].attachedTo = p /\ issue'[i].space = issue[p].space
    BY <1>3, <1>7 DEF Rows
  <2>2. issue'[p].attachedTo = issue[p].attachedTo /\ issue'[p].space = issue[p].space
    BY <1>1, <1>7 DEF Rows
  <2> QED BY <1>7, <2>1, <2>2
<1>11. Lasting
  BY <1>1, <1>10 DEF Lasting, Exists
<1>12. Attached'
  <2>1. p # Nowhere /\ issue[p].space # Nowhere
    BY <1>1, ConstantsAssumption
  <2>2. \A j \in Issues : (issue'[j].attachedTo = Nowhere <=> issue'[j].space = Nowhere)
    BY <1>1, <1>10, <2>1 DEF TInv, Attached
  <2>3. \A j \in Issues : issue'[j].attachedTo \in Issues => issue'[issue'[j].attachedTo].space # Nowhere
    <3>1. Exists(p)'
      BY <1>1, <1>11 DEF Lasting
    <3>2. \A j \in Issues \ {i} : issue[j].attachedTo \in Issues => issue'[issue[j].attachedTo].space # Nowhere
      BY <1>11 DEF Lasting, TInv, Attached, Linked, Exists
    <3> QED BY <1>10, <3>1, <3>2 DEF Exists
  <2> QED BY <2>2, <2>3 DEF Attached, Linked, Exists
<1> QED BY <1>1, <1>8, <1>9, <1>11, <1>12 DEF Served, TInv, TypeOK

\* A batch leaves every row typed and in a place that exists.
LEMMA BatchServed ==
  ASSUME TInv, NEW m \in Movers, ApplyBatch(m) PROVE Served
<1> DEFINE w == net[m].write
<1>1. BatchUnderWay(m)
  BY DEF ApplyBatch, BatchUnderWay
<1>2. WriteTyped(w) /\ \A t \in w.tasks : Linked(w.final[t])
  <2>1. RequestTyped(net[m])
    BY <1>1 DEF TInv, TypeOK, RecordsTyped, BatchUnderWay, Asks
  <2>2. net[m].kind \in {"batch", "admitted"}
    BY <1>1 DEF BatchUnderWay, Asks
  <2> QED BY <1>1, <2>1, <2>2 DEF RequestTyped, TInv, CallTyped
<1>3. issue' = BatchApplied(w) /\ UNCHANGED <<sequence, edits>> /\ rewritten' = rewritten \union w.tasks
  BY DEF ApplyBatch
<1> HIDE DEF w
<1>4. \A t \in w.tasks : /\ t \in Issues /\ w.final[t].attachedTo \in Issues \union {NoParent}
                         /\ w.final[t].number \in Numbers /\ w.final[t].parents \subseteq Ancestors
  <2>1. w.tasks \subseteq Issues
    BY <1>2 DEF WriteTyped, IsMap
  <2> HIDE DEF Numbers
  <2> QED BY <1>2, <2>1 DEF WriteTyped
<1>5. \A i \in Issues : issue[i] \in Rows /\ CountAfter(w, i) \in Int
  BY DEF TInv, TypeOK, Rows, CountAfter
<1>6. ASSUME NEW i \in Issues
      PROVE  /\ issue'[i] \in Rows
             /\ i \in w.tasks => issue'[i].attachedTo = w.final[i].attachedTo /\ issue'[i].space = w.dest
             /\ i \notin w.tasks => issue'[i].attachedTo = issue[i].attachedTo /\ issue'[i].space = issue[i].space
  <2>1. CASE i \in w.tasks
    <3>1. issue'[i] = TaskAfter(w, i)
      BY <1>3, <2>1 DEF BatchApplied
    <3>2. w.dest \in Projects
      BY <1>2 DEF WriteTyped
    <3> DEFINE a == w.final[i].attachedTo
               n == w.final[i].number
               up == w.final[i].parents
               c == CountAfter(w, i)
               k == issue[i].modifiedOn + 1
    <3>3. issue'[i] = [issue[i] EXCEPT !.attachedTo = a, !.space = w.dest, !.number = n, !.parents = up,
                                       !.subIssues = c, !.modifiedOn = k]
      BY <3>1 DEF TaskAfter
    <3>4. /\ a \in Issues \union {NoParent} /\ n \in Numbers /\ up \in SUBSET Ancestors
          /\ c \in Int /\ k \in Nat /\ issue[i] \in Rows
      BY <1>4, <1>5, <2>1 DEF Rows
    <3> HIDE DEF a, n, up, c, k
    <3>5. issue'[i] \in Rows /\ issue'[i].attachedTo = a /\ issue'[i].space = w.dest
      BY <3>2, <3>3, <3>4 DEF Rows
    <3> QED BY <2>1, <3>5 DEF a
  <2>2. CASE i \notin w.tasks
    <3>1. issue'[i] = AncestorAfter(w, i)
      BY <1>3, <2>2 DEF BatchApplied
    <3> DEFINE k == IF i \in {w.parent, w.rows[w.root].attachedTo} \/ RemovedInformation(w, i) # {}
                    THEN issue[i].modifiedOn + 1 ELSE issue[i].modifiedOn
               c == CountAfter(w, i)
               below == issue[i].childInfo \ RemovedInformation(w, i)
    <3>2. issue'[i] = [issue[i] EXCEPT !.subIssues = c, !.childInfo = below, !.modifiedOn = k]
      BY <3>1 DEF AncestorAfter
    <3>3. k \in Nat /\ below \in SUBSET Issues /\ c \in Int /\ issue[i] \in Rows
      BY <1>5 DEF Rows
    <3> HIDE DEF k, c, below
    <3> QED BY <2>2, <3>2, <3>3 DEF Rows
  <2> QED BY <2>1, <2>2
<1>7. issue' \in [Issues -> Rows]
  <2>1. issue' = [i \in Issues |-> issue'[i]]
    BY <1>3 DEF BatchApplied
  <2> QED BY <1>6, <2>1
<1>8. w.dest # Nowhere /\ NoParent # Nowhere /\ Nowhere \notin Issues
  BY <1>2, ConstantsAssumption DEF WriteTyped
<1>9. Lasting
  BY <1>6, <1>8 DEF Lasting, Exists
<1>10. Attached'
  <2>1. \A i \in Issues : issue'[i].attachedTo = Nowhere <=> issue'[i].space = Nowhere
    BY <1>4, <1>6, <1>8 DEF TInv, Attached
  <2>2. ASSUME NEW i \in Issues, issue'[i].attachedTo \in Issues PROVE issue'[issue'[i].attachedTo].space # Nowhere
    <3>1. issue[issue'[i].attachedTo].space # Nowhere
      <4>1. CASE i \in w.tasks
        BY <1>2, <1>6, <2>2, <4>1 DEF Linked, Exists
      <4>2. CASE i \notin w.tasks
        BY <1>6, <2>2, <4>2 DEF TInv, Attached, Linked, Exists
      <4> QED BY <4>1, <4>2
    <3> QED BY <1>6, <1>8, <2>2, <3>1
  <2> QED BY <2>1, <2>2 DEF Attached, Linked, Exists
<1>11. w.tasks \subseteq Issues
  BY <1>4
<1> QED BY <1>3, <1>7, <1>9, <1>10, <1>11 DEF Served, TInv, TypeOK

\* Every step of the server.
LEMMA TypedServer ==
  ASSUME TInv, Server PROVE TInv'
<1>0. TypeOK /\ Tables /\ Attached /\ StepsTyped
  BY DEF TInv, TypeOK
<1>1. ASSUME Served, UNCHANGED <<wire, calls>> PROVE TInv'
  <2>1. \A m \in Movers : RecordsTyped(m)' /\ CallTyped(m)'
    BY <1>1, HeldThroughServer DEF Served, wire, calls, reads
  <2>2. StepsTyped' /\ Tables'
    BY <1>0, <1>1 DEF StepsTyped, Tables, wire, calls, reads, proof
  <2> QED BY <1>1, <2>1, <2>2 DEF Served, TInv, TypeOK
<1>2. ASSUME NEW m \in Movers, UNCHANGED calls, drawn' \in [Movers -> SUBSET Nat], landed' \in [Movers -> Nat], Served,
             DOMAIN net' = Movers, DOMAIN reply' = Movers,
             \A n \in Movers \ {m} : net'[n] = net[n] /\ reply'[n] = reply[n],
             net'[m] = None \/ (Asks(m, "batch") /\ net'[m] = [net[m] EXCEPT !.kind = "admitted"]),
             NEW kind \in {"number", "refused", "applied"}, NEW value \in Nat,
             reply'[m] = reply[m] \/ reply'[m] = [kind |-> kind, value |-> value]
      PROVE  TInv'
  <2>1. ASSUME NEW n \in Movers PROVE RecordsTyped(n)' /\ CallTyped(n)'
    BY <1>2, HeldThroughServer DEF Served, calls, reads
  <2>2. StepsTyped' /\ Tables'
    BY <1>0, <1>2 DEF StepsTyped, Tables, calls, reads, proof
  <2> QED BY <1>2, <2>1, <2>2 DEF Served, TInv, TypeOK
<1>3. ASSUME UNCHANGED server PROVE Served
  BY <1>0, <1>3 DEF Served, TypeOK, server, Attached, Lasting, Linked, Exists
<1>4. ASSUME NEW m \in Movers, NEW kind \in {"number", "refused", "applied"}, NEW value \in Nat,
             Answer(m, kind, value), Served, UNCHANGED calls,
             drawn' \in [Movers -> SUBSET Nat], landed' \in [Movers -> Nat]
      PROVE  TInv'
  <2>1. /\ DOMAIN net' = Movers /\ DOMAIN reply' = Movers
        /\ \A n \in Movers \ {m} : net'[n] = net[n] /\ reply'[n] = reply[n]
        /\ net'[m] = None /\ (reply'[m] = reply[m] \/ reply'[m] = [kind |-> kind, value |-> value])
    BY <1>0, <1>4 DEF Answer, Tables
  <2> QED BY <1>2, <1>4, <2>1
<1>5. ASSUME NEW m \in Movers, GiveNumber(m) PROVE TInv'
  <2> DEFINE project == net[m].write
             v == sequence[project] + 1
  <2>1. project \in Projects
    BY <1>0, <1>5 DEF TypeOK, RecordsTyped, RequestTyped, GiveNumber, Asks
  <2>2. v \in Nat /\ sequence' = [sequence EXCEPT ![project] = v] /\ drawn' = [drawn EXCEPT ![m] = @ \union {v}]
        /\ Answer(m, "number", v) /\ UNCHANGED <<issue, edits, rewritten, landed, calls>>
    BY <1>0, <1>5, <2>1 DEF TypeOK, GiveNumber
  <2> HIDE DEF v, project
  <2>3. sequence' \in [Projects -> Nat] /\ drawn' \in [Movers -> SUBSET Nat] /\ landed' \in [Movers -> Nat]
    BY <1>0, <2>1, <2>2 DEF TypeOK, StepsTyped
  <2>4. Served
    BY <1>0, <2>2, <2>3 DEF Served, TypeOK, Attached, Lasting, Linked, Exists
  <2> QED BY <1>4, <2>2, <2>3, <2>4
<1>6. ASSUME NEW m \in Movers, RefuseBatch(m) PROVE TInv'
  <2>1. UNCHANGED <<server, drawn, landed, calls>> /\ Answer(m, "refused", 0)
    BY <1>6 DEF RefuseBatch
  <2>2. drawn' \in [Movers -> SUBSET Nat] /\ landed' \in [Movers -> Nat] /\ Served
    BY <1>0, <1>3, <2>1 DEF StepsTyped
  <2> QED BY <1>4, <2>1, <2>2
<1>7. ASSUME NEW m \in Movers, AdmitBatch(m) PROVE TInv'
  BY <1>0, <1>2, <1>3, <1>7 DEF AdmitBatch, StepsTyped, Tables
<1>8. ASSUME NEW m \in Movers, ApplyBatch(m) PROVE TInv'
  <2>1. landed' \in [Movers -> Nat] /\ drawn' = drawn /\ UNCHANGED calls /\ Answer(m, "applied", 0)
    BY <1>0, <1>8 DEF ApplyBatch, StepsTyped
  <2>2. Served
    BY <1>8, BatchServed
  <2> QED BY <1>0, <1>4, <2>1, <2>2 DEF StepsTyped
<1>9. ASSUME NEW i \in Issues, NEW p \in Issues, Edit(i) \/ RefreshInformation(i) \/ CreateChild(i, p) PROVE TInv'
  BY <1>1, <1>9, EditServed, RefreshServed, CreateServed DEF Edit, RefreshInformation, CreateChild
<1> QED BY <1>5, <1>6, <1>7, <1>8, <1>9 DEF Server

\* The workspace at the start.
LEMMA TypedAtStart == Init => TInv
<1> SUFFICES ASSUME Init PROVE TInv
  OBVIOUS
<1>1. PICK f \in Forests, where \in [Issues -> Home \union {Nowhere}], wrong \in SUBSET Stale :
        /\ \A i \in Issues : /\ f[i] = Nowhere <=> where[i] = Nowhere
                             /\ f[i] \in Issues => where[i] = where[f[i]]
        /\ issue = [i \in Issues |-> IF i \in wrong THEN [Settled(f, where)[i] EXCEPT !.parents = {}]
                                                    ELSE Settled(f, where)[i]]
  BY DEF Init
<1>2. /\ f \in [Issues -> Issues \union {NoParent, Nowhere}] /\ where \in [Issues -> Projects \union {Nowhere}]
      /\ \A i \in Issues : f[i] \in Issues => where[f[i]] # Nowhere
  BY <1>1, ConstantsAssumption DEF Forests
<1> DEFINE bare == [i \in Issues |-> [attachedTo |-> f[i], space |-> where[i], number |-> i]]
<1>3. ASSUME NEW i \in Issues
      PROVE  Settled(f, where)[i] \in Rows /\ Settled(f, where)[i].attachedTo = f[i] /\ Settled(f, where)[i].space = where[i]
  <2>1. Cardinality({c \in Issues : f[c] = i}) \in Int
    <3>1. IsFiniteSet({c \in Issues : f[c] = i})
      BY IssuesAssumption, FS_Subset
    <3> QED BY <3>1, FS_CardinalityType
  <2>2. Ancestry(bare, i) \subseteq Ancestors
    <3>1. \A a \in Issues : /\ bare[a].space \in Projects \union {Nowhere} /\ bare[a].number \in Numbers
                            /\ bare[a].attachedTo \in Issues => bare[bare[a].attachedTo].space # Nowhere
      BY <1>2 DEF Numbers
    <3>2. DOMAIN bare = Issues
      OBVIOUS
    <3> HIDE DEF bare
    <3> QED BY <3>1, <3>2, IssueAncestryTyped
  <2>3. Below(bare, i) \ {i} \subseteq Issues
    <3>1. DOMAIN bare = Issues
      OBVIOUS
    <3> HIDE DEF bare
    <3> QED BY <3>1 DEF Below
  <2>4. Settled(f, where)[i] =
          [attachedTo |-> f[i], space |-> where[i], modifiedOn |-> 0,
           subIssues |-> Cardinality({c \in Issues : f[c] = i}), number |-> i,
           parents |-> Ancestry(bare, i), childInfo |-> Below(bare, i) \ {i}]
    BY DEF Settled
  <2>5. i \in Numbers
    BY DEF Numbers
  <2> HIDE DEF bare, Numbers
  <2> QED BY <1>2, <2>1, <2>2, <2>3, <2>4, <2>5 DEF Rows
<1>4. \A i \in Issues : issue[i] \in Rows /\ issue[i].attachedTo = f[i] /\ issue[i].space = where[i]
  <2> HIDE DEF bare
  <2>1. ASSUME NEW i \in Issues, i \in wrong
        PROVE  issue[i] \in Rows /\ issue[i].attachedTo = f[i] /\ issue[i].space = where[i]
    <3>1. issue[i] = [Settled(f, where)[i] EXCEPT !.parents = {}]
      BY <1>1, <2>1
    <3> QED BY <1>3, <3>1 DEF Rows
  <2>2. ASSUME NEW i \in Issues, i \notin wrong PROVE issue[i] = Settled(f, where)[i]
    BY <1>1, <2>2
  <2> QED BY <1>3, <2>1, <2>2
<1>5. issue \in [Issues -> Rows]
  <2>1. issue = [i \in Issues |-> issue[i]]
    BY <1>1
  <2> QED BY <1>4, <2>1
<1>6. Attached
  <2>1. \A i \in Issues : issue[i].attachedTo \in Issues => issue[issue[i].attachedTo].space # Nowhere
    BY <1>2, <1>4
  <2> QED BY <1>1, <1>4, <2>1, ZenonT(60) DEF Attached, Linked, Exists
<1>7. StepsTyped /\ Tables
  BY ConstantsAssumption DEF Init, StepsTyped, Tables
<1>8. ASSUME NEW m \in Movers PROVE RecordsTyped(m) /\ CallTyped(m)
  BY DEF Init, RecordsTyped, CallTyped, Asks, BatchUnderWay
<1>9. sequence \in [Projects -> Nat] /\ edits \in 0..MaxEdits /\ rewritten \subseteq Issues
  BY ConstantsAssumption DEF Init
<1> QED BY <1>5, <1>6, <1>7, <1>8, <1>9 DEF TInv, TypeOK

\* A step keeps the types, whoever takes it.
LEMMA TypedStep == ASSUME TInv, [Next]_vars PROVE TInv'
<1>1. CASE Server
  BY <1>1, TypedServer
<1>2. ASSUME NEW m \in Movers, Call(m) PROVE TInv'
  <2>1. Mine(m)
    BY <1>2, TypedCall
  <2>2. UNCHANGED server
    BY <1>2 DEF Call, Begin, ReadSource, ReadTarget, ReadLevel, Prepared, Conflicting, Reinspected, NotAdmitted, Presend,
         ReadFails, AskNumber, NumberUnsent, NumberArrives, NumberLost, Send, CommitUnsent, CommitUnparsable, CommitLost,
         CommitRefused, CommitApplied, VerifyHierarchy, VerifyTasks, Observed, VerifyAgain, Verified, VerificationFails,
         Deadline
  <2>3. Lasting /\ Attached'
    BY <2>2 DEF TInv, server, Lasting, Attached, Linked, Exists
  <2>4. \A n \in Movers : RecordsTyped(n)' /\ CallTyped(n)'
    BY <2>1, <2>3, OthersTyped DEF Mine, TInv, TypeOK
  <2> QED BY <2>1, <2>2, <2>3, <2>4 DEF Mine, Alone, TInv, TypeOK, server
<1>3. CASE UNCHANGED vars
  <2>1. UNCHANGED server /\ UNCHANGED wire /\ UNCHANGED calls /\ UNCHANGED reads /\ UNCHANGED proof
    BY <1>3 DEF vars, calls
  <2>2. ASSUME NEW m \in Movers PROVE RecordsTyped(m)' /\ CallTyped(m)'
    <3>1. RecordsTyped(m)'
      BY <2>1 DEF TInv, TypeOK, wire, calls, reads, RecordsTyped, RequestTyped, SelectionTyped, MapsTyped, PlanTyped, EvidenceTyped
    <3>2. CallTyped(m)'
      BY <2>1 DEF TInv, CallTyped, server, wire, calls, reads, Linked, LinkedMap, Exists, SelectionTyped, MapsTyped, PlanTyped,
           EvidenceTyped, SameProject, Dest, Source, Tasks, Asks, BatchUnderWay
    <3> QED BY <3>1, <3>2
  <2>3. Tables' /\ Attached' /\ StepsTyped'
    BY <2>1 DEF TInv, TypeOK, Tables, Attached, StepsTyped, server, wire, calls, reads, proof, Linked, Exists
  <2> QED BY <2>1, <2>2, <2>3 DEF TInv, TypeOK, server, proof
<1> QED BY <1>1, <1>2, <1>3 DEF Next

\* Whatever fails and however calls and server steps interleave, on any server,
\* every record a call holds or has on the wire is of the type the next step of
\* the call takes it for.
THEOREM Typed == Spec => []TypeOK
<1>1. Init => TInv
  BY TypedAtStart
<1>2. TInv /\ [Next]_vars => TInv'
  BY TypedStep
<1>3. TInv => TypeOK
  BY DEF TInv
<1> QED BY <1>1, <1>2, <1>3, PTL DEF Spec

-----------------------------------------------------------------------------
(* What a call reports, on any server.                                      *)

Inspecting(m) == pc[m] \in {"source", "target", "tree"}
NothingWritten(m) == drawn[m] = {} /\ landed[m] = 0 /\ net[m] = None

\* The evidence, whatever the call is doing: without any, nothing was asked of the
\* server; a batch said to be not sent or refused is not under way and has not landed.
EvidenceHolds(m) ==
  /\ exec[m] = None => NothingWritten(m)
  /\ exec[m] # None /\ exec[m].commit \in {"not-sent", "refused"} => landed[m] = 0 /\ ~BatchUnderWay(m)
  /\ exec[m] # None /\ exec[m].commit = "acknowledged" => landed[m] = 1 /\ ~BatchUnderWay(m)
  /\ landed[m] <= 1 /\ (BatchUnderWay(m) => landed[m] = 0)

\* Before the batch nothing is on the wire but the one number asked for, and an
\* answer that waits for the call is the one to its last request.
BeforeBatch(m) ==
  /\ pc[m] = "start" \/ (Inspecting(m) /\ pass[m] \in {"prepare", "reinspect"}) => exec[m] = None
  /\ pc[m] \in {"start", "allocate", "commit"} \/ (Inspecting(m) /\ pass[m] # "verify") =>
       /\ net[m] = None /\ reply[m] = None /\ landed[m] = 0
       /\ exec[m] # None => /\ exec[m].phase = "allocation" /\ exec[m].commit = "not-sent"
                            /\ DOMAIN exec[m].confirmed # {}
  /\ pc[m] = "allocating" =>
       /\ exec[m] # None /\ exec[m].phase = "allocation" /\ exec[m].commit = "not-sent"
       /\ exec[m].uncertain # {} /\ landed[m] = 0
       /\ net[m] # None => net[m].kind = "allocate" /\ reply[m] = None
  /\ pc[m] = "committing" =>
       /\ exec[m] # None /\ exec[m].phase = "commit" /\ exec[m].commit = "sent"
       /\ net[m] # None => reply[m] = None
       /\ reply[m] # None /\ reply[m].kind = "refused" => landed[m] = 0
       /\ reply[m] # None /\ reply[m].kind = "applied" => landed[m] = 1

\* A call that writes had something to write, and one that looks at the result
\* either found nothing to write, was acknowledged, or knows what to report.
Purpose(m) ==
  /\ pc[m] \in {"allocate", "allocating"} => pass[m] = "reinspect"
  /\ pc[m] \in {"commit", "committing"} => pass[m] \in {"reinspect", "presend"}
  /\ pc[m] \in {"hierarchy", "tasks", "verified"} => pass[m] = "verify"
  /\ after[m] # None => pc[m] # "start" /\ pass[m] = "verify"
  /\ pc[m] \in {"allocate", "allocating", "commit", "committing"} \/ (Inspecting(m) /\ pass[m] = "presend") =>
       ~Satisfied(m)
  /\ pc[m] \notin {"start", "done"} /\ pass[m] = "verify" =>
       IF after[m] # None THEN exec[m] # None => exec[m].phase # "verification"
       ELSE \/ Satisfied(m) /\ exec[m] = None
            \/ ~Satisfied(m) /\ exec[m] # None /\ exec[m].commit = "acknowledged"

\* A discrepancy is in the facts until the call returns, and in what it returns.
Discrepant(m) ==
  /\ pc[m] # "done" => outcome[m] = None /\ (discrepancy[m] => Inconsistent(facts[m]))
  /\ outcome[m] \in {"blocked", "no-op"} => exec[m] = None
  /\ outcome[m] = "completed" => exec[m] # None /\ exec[m].commit = "acknowledged"
  /\ pc[m] = "done" /\ discrepancy[m] =>
       /\ outcome[m] \notin {"completed", "no-op"}
       /\ exec[m] # None /\ exec[m].phase = "verification" => outcome[m] = "incomplete"

Reports(m) == EvidenceHolds(m) /\ BeforeBatch(m) /\ Purpose(m) /\ Discrepant(m)

RInv == TInv /\ \A m \in Movers : Reports(m)

\* Whether there was something to write depends on the evidence only when the tree
\* changes project, and then there always is.
LEMMA SatisfiedStays ==
  ASSUME NEW m, sel'[m] = sel[m], plan'[m] = plan[m] PROVE Satisfied(m)' <=> Satisfied(m)
<1>1. SameProject(m)' <=> SameProject(m)
  BY DEF SameProject, Dest, Source
<1>2. ASSUME SameProject(m) PROVE Planned(m)' = Planned(m)
  <2>1. \A t : FinalNumber(m, t)' = FinalNumber(m, t) /\ FinalParent(m, t)' = FinalParent(m, t)
    BY <1>1, <1>2 DEF FinalNumber, FinalParent, Root
  <2> QED BY <2>1 DEF Planned, Tasks, Dest
<1> QED BY <1>1, <1>2 DEF Satisfied, Root, Tasks

\* A call keeps its report while nothing of what it rests on changes.
LEMMA ReportStays ==
  ASSUME NEW n, Reports(n),
         pc'[n] = pc[n], pass'[n] = pass[n], sel'[n] = sel[n], plan'[n] = plan[n], exec'[n] = exec[n],
         net'[n] = net[n], reply'[n] = reply[n], drawn'[n] = drawn[n], landed'[n] = landed[n],
         after'[n] = after[n], facts'[n] = facts[n], discrepancy'[n] = discrepancy[n], outcome'[n] = outcome[n]
  PROVE  Reports(n)'
<1>1. Satisfied(n)' <=> Satisfied(n)
  BY SatisfiedStays
<1> QED BY <1>1 DEF Reports, EvidenceHolds, NothingWritten, BatchUnderWay, Asks, BeforeBatch, Inspecting, Purpose,
      Discrepant, Inconsistent

\* Returning: what is reported must fit the evidence and what was seen.
LEMMA ReturnReports ==
  ASSUME TInv, NEW m \in Movers, NEW what, Return(m, what), discrepancy' = discrepancy, EvidenceHolds(m)',
         what \in {"blocked", "no-op"} => exec'[m] = None,
         what = "completed" => exec'[m] # None /\ exec'[m].commit = "acknowledged",
         discrepancy[m] => /\ what \notin {"completed", "no-op"}
                           /\ exec'[m] # None /\ exec'[m].phase = "verification" => what = "incomplete"
  PROVE  Reports(m)'
<1>1. pc'[m] = "done" /\ outcome'[m] = what /\ after'[m] = None
  BY DEF TInv, TypeOK, StepsTyped, Return, Goto
<1> QED BY <1>1 DEF Reports, BeforeBatch, Inspecting, Purpose, Discrepant

\* The evidence says what it said.
LEMMA EvidenceStays ==
  ASSUME NEW m, EvidenceHolds(m), exec'[m] = exec[m], UNCHANGED wire PROVE EvidenceHolds(m)'
  BY DEF EvidenceHolds, NothingWritten, BatchUnderWay, Asks, wire

\* What a failed request for a number or for the batch leaves of the evidence.
LEMMA UnsentEvidence ==
  ASSUME TInv, NEW m \in Movers, Reports(m), pc[m] \in {"allocate", "commit"}, UNCHANGED wire,
         Record(m, IF DOMAIN Confirmed(m) = {} THEN None ELSE Allocating(Confirmed(m), {}))
  PROVE  /\ EvidenceHolds(m)'
         /\ exec'[m] = IF DOMAIN Confirmed(m) = {} THEN None ELSE Allocating(Confirmed(m), {})
         /\ exec'[m] # None => exec'[m].phase = "allocation"
<1>1. exec'[m] = IF DOMAIN Confirmed(m) = {} THEN None ELSE Allocating(Confirmed(m), {})
  BY DEF TInv, Tables, Record
<1>2. CASE exec[m] = None
  <2>1. exec'[m] = None
    BY <1>1, <1>2 DEF Confirmed, Now
  <2> QED BY <1>1, <1>2, <2>1 DEF Reports, EvidenceHolds, NothingWritten, BatchUnderWay, Asks, wire
<1>3. CASE exec[m] # None
  <2>1. DOMAIN Confirmed(m) # {} /\ exec[m].commit = "not-sent"
    BY <1>3 DEF Reports, BeforeBatch, Confirmed
  <2>2. exec'[m] = Allocating(Confirmed(m), {})
    BY <1>1, <2>1
  <2>3. exec'[m].commit = "not-sent" /\ exec'[m].phase = "allocation"
    BY <2>2 DEF Allocating
  <2>4. exec'[m] # None
    <3>1. IsMap(Confirmed(m), Nat)
      BY ConfirmedTyped
    <3>2. Allocating(Confirmed(m), {}) \in Evidence
      BY <3>1 DEF Allocating, Evidence, IsMap, Phases, Commits
    <3> QED BY <2>2, <3>2, NoneAssumption
  <2> QED BY <1>1, <1>3, <2>1, <2>3, <2>4 DEF Reports, EvidenceHolds, NothingWritten, BatchUnderWay, Asks, wire
<1> QED BY <1>2, <1>3

LEMMA ReturningReports ==
  ASSUME TInv, NEW m \in Movers, Reports(m),
         \/ Conflicting(m) \/ NotAdmitted(m) \/ ReadFails(m) \/ NumberUnsent(m) \/ NumberLost(m)
         \/ Observed(m) \/ Verified(m) \/ VerificationFails(m) \/ Deadline(m)
  PROVE  Reports(m)'
<1>0. /\ pass[m] \in {"prepare", "reinspect", "presend", "verify"} /\ after[m] \in {None, "incomplete", "indeterminate"}
      /\ EvidenceHolds(m) /\ BeforeBatch(m) /\ Purpose(m) /\ Discrepant(m)
      /\ None \notin {"blocked", "incomplete", "indeterminate", "completed", "no-op"}
  BY NoneAssumption DEF TInv, TypeOK, StepsTyped, Reports, Outcomes
<1>1. ASSUME exec' = exec, UNCHANGED wire PROVE EvidenceHolds(m)'
  BY <1>0, <1>1, EvidenceStays
<1>2. ASSUME NEW what \in {"incomplete", "indeterminate"}
      PROVE  StoppedResult(m, exec[m], what) = IF exec[m] = None THEN "blocked" ELSE what
  BY DEF StoppedResult
<1>3. CASE Conflicting(m) \/ NotAdmitted(m)
  <2>1. exec[m] = None /\ exec' = exec /\ UNCHANGED wire /\ Return(m, "blocked") /\ discrepancy' = discrepancy
    BY <1>0, <1>3 DEF Conflicting, NotAdmitted, BeforeBatch, Inspecting
  <2> QED BY <1>1, <2>1, ReturnReports
<1>4. CASE ReadFails(m)
  <2>1. exec' = exec /\ UNCHANGED wire /\ discrepancy' = discrepancy /\ Inspecting(m) /\ pass[m] # "verify"
        /\ Return(m, IF pass[m] = "presend" THEN StoppedResult(m, exec[m], "indeterminate") ELSE "blocked")
    BY <1>4 DEF ReadFails, Inspecting
  <2>2. exec[m] # None => exec[m].phase = "allocation"
    BY <1>0, <2>1 DEF BeforeBatch
  <2>3. pass[m] # "presend" => exec[m] = None
    BY <1>0, <2>1 DEF BeforeBatch
  <2> QED BY <1>1, <1>2, <2>1, <2>2, <2>3, ReturnReports
<1>5. CASE NumberUnsent(m)
  <2> DEFINE known == IF DOMAIN Confirmed(m) = {} THEN None ELSE Allocating(Confirmed(m), {})
  <2>1. /\ pc[m] = "allocate" /\ Record(m, known) /\ Return(m, StoppedResult(m, known, "incomplete"))
        /\ UNCHANGED wire /\ discrepancy' = discrepancy
    BY <1>5 DEF NumberUnsent
  <2>2. EvidenceHolds(m)' /\ exec'[m] = known /\ (exec'[m] # None => exec'[m].phase = "allocation")
    BY <2>1, UnsentEvidence
  <2> HIDE DEF known
  <2>3. StoppedResult(m, known, "incomplete") = IF known = None THEN "blocked" ELSE "incomplete"
    BY DEF StoppedResult
  <2> QED BY <2>1, <2>2, <2>3, ReturnReports
<1>6. CASE NumberLost(m)
  <2>1. /\ exec' = exec /\ UNCHANGED wire /\ discrepancy' = discrepancy
        /\ exec[m] # None /\ exec[m].phase = "allocation" /\ Return(m, StoppedResult(m, exec[m], "indeterminate"))
    BY <1>0, <1>6 DEF NumberLost, BeforeBatch
  <2> QED BY <1>1, <1>2, <2>1, ReturnReports
<1>7. CASE Observed(m)
  <2>1. /\ exec' = exec /\ UNCHANGED wire /\ discrepancy' = discrepancy
        /\ after[m] \in {"incomplete", "indeterminate"} /\ Return(m, StoppedResult(m, exec[m], after[m]))
        /\ exec[m] # None => exec[m].phase # "verification"
    BY <1>0, <1>7 DEF Observed, Purpose
  <2> QED BY <1>1, <1>2, <2>1, ReturnReports
<1>8. CASE Verified(m)
  <2>1. /\ exec' = exec /\ UNCHANGED wire /\ discrepancy' = discrepancy /\ Return(m, VerifiedResult(m, facts[m]))
        /\ \/ Satisfied(m) /\ exec[m] = None
           \/ ~Satisfied(m) /\ exec[m] # None /\ exec[m].commit = "acknowledged"
        /\ discrepancy[m] => Inconsistent(facts[m])
    BY <1>0, <1>8 DEF Verified, Purpose, Discrepant
  <2> DEFINE what == VerifiedResult(m, facts[m])
  <2>2. /\ what \in {"blocked", "no-op"} => exec[m] = None
        /\ what = "completed" => exec[m] # None /\ exec[m].commit = "acknowledged"
        /\ discrepancy[m] => what \notin {"completed", "no-op"} /\ (exec[m] # None => what = "incomplete")
    BY <1>2, <2>1 DEF VerifiedResult
  <2> HIDE DEF what
  <2> QED BY <1>1, <2>1, <2>2, ReturnReports DEF what
<1>9. CASE VerificationFails(m)
  <2> DEFINE what == IF after[m] # None THEN StoppedResult(m, exec[m], after[m])
                     ELSE StoppedResult(m, exec[m], IF Inconsistent(facts[m]) THEN "incomplete" ELSE "indeterminate")
  <2>1. /\ exec' = exec /\ UNCHANGED wire /\ discrepancy' = discrepancy /\ Return(m, what)
        /\ after[m] # None => (exec[m] # None => exec[m].phase # "verification")
        /\ discrepancy[m] => Inconsistent(facts[m])
    BY <1>0, <1>9 DEF VerificationFails, Purpose, Discrepant
  <2>2. /\ what \in {"blocked", "no-op"} => exec[m] = None
        /\ what # "completed" /\ what # "no-op"
        /\ discrepancy[m] => (exec[m] # None /\ exec[m].phase = "verification" => what = "incomplete")
    BY <1>0, <1>2, <2>1
  <2> HIDE DEF what
  <2> QED BY <1>1, <2>1, <2>2, ReturnReports
<1>10. CASE Deadline(m)
  <2> DEFINE seen == exec[m] # None /\ exec[m].phase = "verification" /\ Inconsistent(facts[m])
             what == StoppedResult(m, exec[m], IF seen THEN "incomplete" ELSE "indeterminate")
  <2>1. /\ exec' = exec /\ UNCHANGED wire /\ discrepancy' = discrepancy /\ Return(m, what)
        /\ discrepancy[m] => Inconsistent(facts[m])
    BY <1>0, <1>10 DEF Deadline, Discrepant
  <2>2. /\ what \in {"blocked", "no-op"} => exec[m] = None
        /\ what # "completed" /\ what # "no-op"
        /\ discrepancy[m] => (exec[m] # None /\ exec[m].phase = "verification" => what = "incomplete")
    BY <1>0, <1>2, <2>1
  <2> HIDE DEF what, seen
  <2> QED BY <1>1, <2>1, <2>2, ReturnReports
<1> QED BY <1>3, <1>4, <1>5, <1>6, <1>7, <1>8, <1>9, <1>10

\* What was seen stays seen.
LEMMA DiscrepantStays ==
  ASSUME NEW m, Discrepant(m), pc[m] # "done", pc'[m] # "done", UNCHANGED <<facts, discrepancy, outcome>>
  PROVE  Discrepant(m)'
<1>1. outcome[m] = None /\ (discrepancy[m] => Inconsistent(facts[m]))
  BY DEF Discrepant
<1>2. outcome'[m] = None /\ (discrepancy'[m] => Inconsistent(facts[m])')
  BY <1>1 DEF Inconsistent
<1>3. None \notin {"blocked", "no-op", "completed"}
  BY NoneAssumption DEF Outcomes
<1> QED BY <1>2, <1>3 DEF Discrepant

\* Starting a pass: after the batch the call must know why it looks.
LEMMA PassReports ==
  ASSUME TInv, NEW m \in Movers, Reports(m), NEW which \in {"reinspect", "presend", "verify"}, StartPass(m, which),
         EvidenceHolds(m)', outcome' = outcome, UNCHANGED <<facts, discrepancy>>, pc[m] # "done",
         after'[m] # None => which = "verify",
         which = "reinspect" => exec'[m] = None,
         which # "verify" =>
           /\ net'[m] = None /\ reply'[m] = None /\ landed'[m] = 0
           /\ exec'[m] # None => /\ exec'[m].phase = "allocation" /\ exec'[m].commit = "not-sent"
                                 /\ DOMAIN exec'[m].confirmed # {},
         which = "presend" => ~Satisfied(m)',
         which = "verify" =>
           IF after'[m] # None THEN exec'[m] # None => exec'[m].phase # "verification"
           ELSE \/ Satisfied(m)' /\ exec'[m] = None
                \/ ~Satisfied(m)' /\ exec'[m] # None /\ exec'[m].commit = "acknowledged"
  PROVE  Reports(m)'
<1>1. pc'[m] = "source" /\ pass'[m] = which
  BY DEF TInv, TypeOK, StepsTyped, StartPass, Goto
<1>2. BeforeBatch(m)'
  BY <1>1 DEF BeforeBatch, Inspecting
<1>3. Purpose(m)'
  BY <1>1 DEF Purpose, Inspecting
<1>4. Discrepant(m)'
  BY <1>1, DiscrepantStays DEF Reports
<1> QED BY <1>2, <1>3, <1>4 DEF Reports

\* The steps of a call before it asks for anything.
LEMMA PreparingReports ==
  ASSUME TInv, NEW m \in Movers, Reports(m), Begin(m) \/ Prepared(m)
  PROVE  Reports(m)'
<1>1. UNCHANGED <<exec, wire, facts, discrepancy, after, outcome>>
  BY DEF Begin, Prepared, proof
<1>2. EvidenceHolds(m)'
  BY <1>1, EvidenceStays DEF Reports
<1>3. CASE Begin(m)
  <2>1. pc[m] = "start" /\ pc'[m] = "source" /\ pass'[m] = "prepare"
    BY <1>3 DEF TInv, TypeOK, StepsTyped, Begin, StartPass, Goto
  <2>2. after[m] = None
    BY <2>1 DEF Reports, Purpose
  <2> QED BY <1>1, <1>2, <2>1, <2>2 DEF Reports, BeforeBatch, Inspecting, Purpose, Discrepant, Inconsistent, wire
<1>4. CASE Prepared(m)
  <2>1. pc[m] = "tree" /\ pass[m] = "prepare" /\ StartPass(m, "reinspect")
    BY <1>4 DEF Prepared
  <2>2. exec[m] = None /\ after[m] = None /\ net[m] = None /\ reply[m] = None /\ landed[m] = 0
    BY <2>1 DEF Reports, BeforeBatch, Purpose, Inspecting
  <2> QED BY <1>1, <1>2, <2>1, <2>2, PassReports DEF wire
<1> QED BY <1>3, <1>4

\* Reading says nothing new.
LEMMA ReadReports ==
  ASSUME TInv, NEW m \in Movers, Reports(m), ReadSource(m) \/ ReadTarget(m) \/ ReadLevel(m)
  PROVE  Reports(m)'
<1>1. UNCHANGED <<exec, wire, facts, discrepancy, after, outcome, sel, plan, pass>>
  BY DEF ReadSource, ReadTarget, ReadLevel, proof
<1>2. /\ pc[m] \in {"source", "target", "tree"} /\ pc'[m] \in {"target", "tree", "hierarchy"}
      /\ pc'[m] = "hierarchy" => pass[m] = "verify"
  BY DEF TInv, TypeOK, StepsTyped, ReadSource, ReadTarget, ReadLevel, Goto
<1>3. EvidenceHolds(m)' /\ (Satisfied(m)' <=> Satisfied(m))
  BY <1>1, EvidenceStays, SatisfiedStays DEF Reports
<1> QED BY <1>1, <1>2, <1>3 DEF Reports, BeforeBatch, Inspecting, Purpose, Discrepant, Inconsistent, wire

\* The second and the third inspection.
LEMMA AdmittedReports ==
  ASSUME TInv, NEW m \in Movers, Reports(m), Reinspected(m) \/ Presend(m)
  PROVE  Reports(m)'
<1>1. UNCHANGED <<exec, wire, facts, discrepancy, outcome, sel, plan>> /\ Inspecting(m) /\ pass[m] \in {"reinspect", "presend"}
  BY DEF Reinspected, Presend, proof, Inspecting
<1>2. EvidenceHolds(m)' /\ (Satisfied(m)' <=> Satisfied(m))
  BY <1>1, EvidenceStays, SatisfiedStays DEF Reports
<1>3. /\ net[m] = None /\ reply[m] = None /\ landed[m] = 0 /\ after[m] = None
      /\ exec[m] # None => /\ exec[m].phase = "allocation" /\ exec[m].commit = "not-sent" /\ DOMAIN exec[m].confirmed # {}
      /\ pass[m] = "reinspect" => exec[m] = None
      /\ pass[m] = "presend" => ~Satisfied(m)
  BY <1>1 DEF Reports, BeforeBatch, Purpose
<1>4. pc[m] = "tree"
  BY DEF Reinspected, Presend
<1>5. CASE /\ Goto(m, "commit") \/ (Goto(m, "allocate") /\ pass[m] = "reinspect")
           /\ pass' = pass /\ after' = after /\ ~Satisfied(m)
  <2>1. pc'[m] = "commit" \/ (pc'[m] = "allocate" /\ pass[m] = "reinspect")
    BY <1>5 DEF TInv, TypeOK, StepsTyped, Goto
  <2> QED BY <1>1, <1>2, <1>3, <1>4, <1>5, <2>1
          DEF Reports, BeforeBatch, Inspecting, Purpose, Discrepant, Inconsistent, wire
<1>6. CASE Reinspected(m) /\ Satisfied(m)
  <2>1. StartPass(m, "verify") /\ after' = after /\ pass[m] = "reinspect"
    BY <1>6 DEF Reinspected, Satisfied
  <2> QED BY <1>1, <1>2, <1>3, <1>4, <1>6, <2>1, PassReports
<1>7. CASE Presend(m) /\ ~Unchanged(m)
  <2>1. StartPass(m, "verify") /\ after'[m] = "incomplete"
    BY <1>7 DEF Presend, TInv, TypeOK, StepsTyped
  <2>2. "incomplete" # None
    BY NoneAssumption DEF Outcomes
  <2> QED BY <1>1, <1>2, <1>3, <1>4, <2>1, <2>2, PassReports
<1> QED BY <1>3, <1>5, <1>6, <1>7 DEF Reinspected, Presend

\* A number is asked for, and arrives.
LEMMA AskReports ==
  ASSUME TInv, NEW m \in Movers, NEW t \in Issues, Reports(m), AskNumber(m, t) PROVE Reports(m)'
<1>1. /\ UNCHANGED <<facts, discrepancy, after, outcome, sel, plan, pass, landed, drawn, reply>>
      /\ pc[m] = "allocate" /\ pc'[m] = "allocating" /\ net'[m] = [kind |-> "allocate", write |-> Dest(m)]
  BY DEF AskNumber, Goto, proof, TInv, TypeOK, StepsTyped, Tables
<1>2. exec'[m] # None /\ exec'[m] = Allocating(Confirmed(m), {t})
  <2>1. Record(m, Allocating(Confirmed(m), {t})) /\ {t} \subseteq Issues
    BY DEF AskNumber
  <2> QED BY <2>1, ConfirmedTyped, AllocatingTyped
<1>3. exec'[m].phase = "allocation" /\ exec'[m].commit = "not-sent" /\ exec'[m].uncertain # {}
  BY <1>2 DEF Allocating
<1>4. reply[m] = None /\ landed[m] = 0
  BY <1>1 DEF Reports, BeforeBatch
<1>5. EvidenceHolds(m)'
  BY <1>1, <1>2, <1>3, <1>4 DEF EvidenceHolds, BatchUnderWay, Asks
<1>6. Satisfied(m)' <=> Satisfied(m)
  BY <1>1, SatisfiedStays
<1>7. BeforeBatch(m)'
  BY <1>1, <1>2, <1>3, <1>4 DEF BeforeBatch, Inspecting
<1>8. Purpose(m)'
  BY <1>1, <1>6 DEF Reports, Purpose, Inspecting
<1>9. Discrepant(m)'
  BY <1>1, DiscrepantStays DEF Reports
<1> QED BY <1>5, <1>7, <1>8, <1>9 DEF Reports

LEMMA ArrivesReports ==
  ASSUME TInv, NEW m \in Movers, Reports(m), NumberArrives(m) PROVE Reports(m)'
<1> DEFINE known == [u \in DOMAIN Confirmed(m) \union exec[m].uncertain |->
                       IF u \in exec[m].uncertain THEN reply[m].value ELSE Confirmed(m)[u]]
<1>1. /\ UNCHANGED <<facts, discrepancy, after, outcome, sel, plan, landed, drawn, net>>
      /\ pc[m] = "allocating" /\ reply[m] # None /\ reply'[m] = None /\ Record(m, Allocating(known, {}))
      /\ IF DOMAIN known = Tasks(m) THEN StartPass(m, "presend") ELSE Goto(m, "allocate") /\ UNCHANGED <<pass, reads>>
  BY DEF NumberArrives, proof, TInv, Tables
<1>2. net[m] = None /\ landed[m] = 0 /\ ~Satisfied(m) /\ pass[m] = "reinspect" /\ after[m] = None
      /\ exec[m] # None /\ exec[m].uncertain # {} /\ exec[m].uncertain \subseteq Issues
  BY <1>1 DEF Reports, BeforeBatch, Purpose, TInv, TypeOK, RecordsTyped, EvidenceTyped
<1>3. DOMAIN known # {} /\ IsMap(known, Nat)
  <2>1. reply[m].value \in Nat /\ IsMap(Confirmed(m), Nat)
    BY <1>1, ConfirmedTyped DEF TInv, TypeOK, RecordsTyped
  <2> QED BY <1>2, <2>1 DEF IsMap
<1> HIDE DEF known
<1>4. exec'[m] # None /\ exec'[m] = Allocating(known, {})
  <2>1. {} \subseteq Issues
    OBVIOUS
  <2> QED BY <1>1, <1>3, <2>1, AllocatingTyped
<1>5. exec'[m].phase = "allocation" /\ exec'[m].commit = "not-sent" /\ DOMAIN exec'[m].confirmed # {}
  BY <1>3, <1>4 DEF Allocating
<1>6. EvidenceHolds(m)' /\ (Satisfied(m)' <=> Satisfied(m))
  BY <1>1, <1>2, <1>4, <1>5, SatisfiedStays DEF EvidenceHolds, BatchUnderWay, Asks
<1>7. CASE StartPass(m, "presend")
  BY <1>1, <1>2, <1>4, <1>5, <1>6, <1>7, PassReports
<1>8. CASE Goto(m, "allocate") /\ pass' = pass
  <2>1. pc'[m] = "allocate" /\ pass'[m] = "reinspect"
    BY <1>2, <1>8 DEF TInv, TypeOK, StepsTyped, Goto
  <2> QED BY <1>1, <1>2, <1>4, <1>5, <1>6, <2>1 DEF Reports, BeforeBatch, Inspecting, Purpose, Discrepant, Inconsistent
<1> QED BY <1>1, <1>7, <1>8

\* The batch is sent.
LEMMA SendReports ==
  ASSUME TInv, NEW m \in Movers, Reports(m), Send(m) PROVE Reports(m)'
<1>1. /\ UNCHANGED <<facts, discrepancy, after, outcome, sel, plan, pass, landed, drawn, reply>>
      /\ pc[m] = "commit" /\ pc'[m] = "committing" /\ net'[m] = [kind |-> "batch", write |-> Write(m)]
  BY DEF Send, Goto, proof, TInv, TypeOK, StepsTyped, Tables
<1>2. exec'[m] # None /\ exec'[m] = Committing(m, "sent")
  BY CommittingTyped DEF Send, Commits
<1>3. exec'[m].phase = "commit" /\ exec'[m].commit = "sent"
  BY <1>2 DEF Committing
<1>4. reply[m] = None /\ landed[m] = 0
  BY <1>1 DEF Reports, BeforeBatch
<1>5. EvidenceHolds(m)'
  BY <1>1, <1>2, <1>3, <1>4 DEF EvidenceHolds
<1>6. Satisfied(m)' <=> Satisfied(m)
  BY <1>1, SatisfiedStays
<1>7. BeforeBatch(m)'
  BY <1>1, <1>2, <1>3, <1>4 DEF BeforeBatch, Inspecting
<1>8. Purpose(m)'
  BY <1>1, <1>6 DEF Reports, Purpose, Inspecting
<1>9. Discrepant(m)'
  BY <1>1, DiscrepantStays DEF Reports
<1> QED BY <1>5, <1>7, <1>8, <1>9 DEF Reports

\* It ends, in one of five ways; after each the call looks at the result.
LEMMA EndedReports ==
  ASSUME TInv, NEW m \in Movers, Reports(m),
         CommitUnsent(m) \/ CommitUnparsable(m) \/ CommitLost(m) \/ CommitRefused(m) \/ CommitApplied(m)
  PROVE  Reports(m)'
<1>1. /\ UNCHANGED <<facts, discrepancy, outcome, sel, plan, landed, drawn, net>> /\ StartPass(m, "verify")
      /\ pc[m] \in {"commit", "committing"}
  BY DEF CommitUnsent, CommitUnparsable, CommitLost, CommitRefused, CommitApplied, proof, wire
<1>2. EvidenceHolds(m) /\ BeforeBatch(m) /\ Purpose(m) /\ Discrepant(m)
  BY DEF Reports
<1>3. ~Satisfied(m) /\ ~Satisfied(m)' /\ after[m] = None
  <2>1. Satisfied(m)' <=> Satisfied(m)
    BY <1>1, SatisfiedStays
  <2> QED BY <1>1, <1>2, <2>1 DEF Purpose
<1>4. "incomplete" # None /\ "indeterminate" # None
  BY NoneAssumption DEF Outcomes
<1>5. ASSUME after'[m] # None, exec'[m] # None => exec'[m].phase # "verification", EvidenceHolds(m)' PROVE Reports(m)'
  BY <1>1, <1>5, PassReports
<1>6. ASSUME NEW what, after' = [after EXCEPT ![m] = what] PROVE after'[m] = what
  BY <1>6 DEF TInv, TypeOK, StepsTyped
<1>7. CASE CommitUnsent(m)
  <2>1. EvidenceHolds(m)' /\ (exec'[m] # None => exec'[m].phase = "allocation")
    BY <1>7, UnsentEvidence DEF CommitUnsent
  <2>2. after'[m] = "incomplete"
    BY <1>6, <1>7 DEF CommitUnsent
  <2> QED BY <1>4, <1>5, <2>1, <2>2
<1>8. CASE CommitUnparsable(m) \/ CommitLost(m)
  <2>1. exec'[m] # None /\ exec'[m] = Committing(m, "reply-lost") /\ after'[m] = "indeterminate"
    BY <1>6, <1>8, CommittingTyped DEF CommitUnparsable, CommitLost, Commits
  <2>2. exec'[m].phase = "commit" /\ exec'[m].commit = "reply-lost"
    BY <2>1 DEF Committing
  <2>3. EvidenceHolds(m)'
    BY <1>1, <1>2, <2>1, <2>2 DEF EvidenceHolds, BatchUnderWay, Asks
  <2> QED BY <1>4, <1>5, <2>1, <2>2, <2>3
<1>9. CASE CommitRefused(m)
  <2>1. exec'[m] # None /\ exec'[m] = Committing(m, "refused") /\ after'[m] = "incomplete"
    BY <1>6, <1>9, CommittingTyped DEF CommitRefused, Commits
  <2>2. exec'[m].phase = "commit" /\ exec'[m].commit = "refused"
    BY <2>1 DEF Committing
  <2>3. net[m] = None /\ landed[m] = 0
    BY <1>2, <1>9 DEF CommitRefused, BeforeBatch
  <2>4. EvidenceHolds(m)'
    BY <1>1, <1>2, <2>1, <2>2, <2>3 DEF EvidenceHolds, BatchUnderWay, Asks
  <2> QED BY <1>4, <1>5, <2>1, <2>2, <2>4
<1>10. CASE CommitApplied(m)
  <2>1. [Committing(m, "acknowledged") EXCEPT !.phase = "verification"]
          = [phase |-> "verification", commit |-> "acknowledged", confirmed |-> Confirmed(m), uncertain |-> {}]
    BY DEF Committing
  <2>2. Record(m, [phase |-> "verification", commit |-> "acknowledged", confirmed |-> Confirmed(m), uncertain |-> {}])
        /\ after' = after
    BY <1>10, <2>1 DEF CommitApplied
  <2>3. "verification" \in Phases /\ "acknowledged" \in Commits /\ {} \subseteq Issues
    BY DEF Phases, Commits
  <2>4. exec'[m] # None /\ exec'[m].commit = "acknowledged"
    BY <2>2, <2>3, ConfirmedTyped, ExecRecorded
  <2>5. net[m] = None /\ landed[m] = 1
    BY <1>2, <1>10 DEF CommitApplied, BeforeBatch
  <2>6. EvidenceHolds(m)'
    BY <1>1, <1>2, <2>4, <2>5 DEF EvidenceHolds, BatchUnderWay, Asks
  <2> QED BY <1>1, <1>3, <2>2, <2>4, <2>6, PassReports
<1> QED BY <1>7, <1>8, <1>9, <1>10

\* The result is looked at.
LEMMA LookReports ==
  ASSUME TInv, NEW m \in Movers, Reports(m), VerifyHierarchy(m) \/ VerifyTasks(m) \/ VerifyAgain(m)
  PROVE  Reports(m)'
<1>1. /\ UNCHANGED <<exec, wire, outcome, sel, plan, after>>
      /\ pc[m] \in {"hierarchy", "tasks", "verified"} /\ pass[m] = "verify"
  BY DEF VerifyHierarchy, VerifyTasks, VerifyAgain, Reports, Purpose
<1>2. EvidenceHolds(m)' /\ (Satisfied(m)' <=> Satisfied(m))
  BY <1>1, EvidenceStays, SatisfiedStays DEF Reports
<1>3. CASE VerifyAgain(m)
  BY <1>1, <1>2, <1>3, PassReports DEF VerifyAgain, Reports, Purpose
<1>4. CASE VerifyHierarchy(m) \/ VerifyTasks(m)
  <2>1. pass' = pass /\ pc'[m] \in {"tasks", "verified"}
    BY <1>4 DEF VerifyHierarchy, VerifyTasks, Goto, TInv, TypeOK, StepsTyped
  <2>2. outcome[m] = None /\ (discrepancy[m] => Inconsistent(facts[m]))
    BY <1>1 DEF Reports, Discrepant
  <2>3. discrepancy'[m] => Inconsistent(facts[m])'
    <3>0. StepsTyped
      BY DEF TInv, TypeOK
    <3>1. ASSUME NEW problem \in BOOLEAN, NEW complete \in BOOLEAN, facts' = [facts EXCEPT ![m] = Merged(m, problem, complete)]
          PROVE  /\ problem => Inconsistent(facts[m])'
                 /\ Inconsistent(facts[m]) /\ ~complete => Inconsistent(facts[m])'
      <4>1. facts'[m] = Merged(m, problem, complete) /\ Merged(m, problem, complete) \in Facts
        BY <3>0, <3>1 DEF StepsTyped, Merged, Facts
      <4>2. facts'[m] # None
        BY <4>1, NoneAssumption
      <4>3. Merged(m, problem, complete).inconsistent
              = (problem \/ (~complete /\ facts[m] # None /\ facts[m].inconsistent))
        BY DEF Merged
      <4>4. Inconsistent(facts[m])' <=> Merged(m, problem, complete).inconsistent
        BY <4>1, <4>2 DEF Inconsistent
      <4> QED BY <4>3, <4>4 DEF Inconsistent
    <3>2. CASE VerifyHierarchy(m)
      <4>1. HierarchyProblemAfterMove(m) \in BOOLEAN
        BY DEF HierarchyProblemAfterMove
      <4>2. /\ facts' = [facts EXCEPT ![m] = Merged(m, HierarchyProblemAfterMove(m), FALSE)]
            /\ discrepancy'[m] = (discrepancy[m] \/ HierarchyProblemAfterMove(m))
        BY <3>0, <3>2 DEF VerifyHierarchy, StepsTyped
      <4> QED BY <2>2, <3>1, <4>1, <4>2
    <3>3. CASE VerifyTasks(m)
      <4>1. PICK problem \in BOOLEAN, complete \in BOOLEAN :
              /\ facts' = [facts EXCEPT ![m] = Merged(m, problem, complete)]
              /\ discrepancy' = [discrepancy EXCEPT ![m] = problem \/ (@ /\ ~complete)]
        <5> DEFINE S == DOMAIN plan[m].rows
                   Complete(lost) == ~lost /\ ClosureCounted(hier[m], S)
                   Problem(lost, missed) ==
                     \/ broken[m]
                     \/ ~(lost /\ missed) /\ (TaskProblem(m) \/ (ClosureCounted(hier[m], S) /\ ~ClosureMatches(hier[m], S)))
        <5>1. PICK lost \in BOOLEAN, missed \in BOOLEAN :
                /\ facts' = [facts EXCEPT ![m] = Merged(m, Problem(lost, missed), Complete(lost))]
                /\ discrepancy' = [discrepancy EXCEPT ![m] = Problem(lost, missed) \/ (@ /\ ~Complete(lost))]
          BY <3>3 DEF VerifyTasks
        <5>2. Problem(lost, missed) \in BOOLEAN /\ Complete(lost) \in BOOLEAN
          BY <3>0 DEF StepsTyped
        <5> HIDE DEF Problem, Complete
        <5> QED BY <5>1, <5>2
      <4>2. discrepancy'[m] = (problem \/ (discrepancy[m] /\ ~complete))
        BY <3>0, <4>1 DEF StepsTyped
      <4> QED BY <2>2, <3>1, <4>1, <4>2
    <3> QED BY <1>4, <3>2, <3>3
  <2>4. None \notin {"blocked", "no-op", "completed"}
    BY NoneAssumption DEF Outcomes
  <2>5. Discrepant(m)'
    BY <1>1, <2>1, <2>2, <2>3, <2>4 DEF Discrepant
  <2>6. BeforeBatch(m)'
    BY <1>1, <2>1 DEF BeforeBatch, Inspecting
  <2>7. Purpose(m)'
    BY <1>1, <1>2, <2>1 DEF Reports, Purpose, Inspecting
  <2> QED BY <1>2, <2>5, <2>6, <2>7 DEF Reports
<1> QED BY <1>3, <1>4

\* A step of the call keeps its own report.
LEMMA OwnReport ==
  ASSUME TInv, NEW m \in Movers, Reports(m), Call(m) PROVE Reports(m)'
BY ReturningReports, PreparingReports, ReadReports, AdmittedReports, AskReports, ArrivesReports, SendReports,
   EndedReports, LookReports DEF Call

\* And leaves what the others report from alone.
LEMMA CallLeaves ==
  ASSUME TInv, NEW m \in Movers, Call(m)
  PROVE  /\ UNCHANGED <<drawn, landed>>
         /\ \A n \in Movers \ {m} : /\ after'[n] = after[n] /\ facts'[n] = facts[n]
                                    /\ discrepancy'[n] = discrepancy[n] /\ outcome'[n] = outcome[n]
<1> USE DEF TInv, TypeOK, StepsTyped
<1>1. CASE Conflicting(m) \/ NotAdmitted(m) \/ ReadFails(m) \/ NumberUnsent(m) \/ NumberLost(m)
           \/ Observed(m) \/ Verified(m) \/ VerificationFails(m) \/ Deadline(m)
  <2>1. (\E what : Return(m, what)) /\ discrepancy' = discrepancy /\ UNCHANGED wire
    BY <1>1 DEF Conflicting, NotAdmitted, ReadFails, NumberUnsent, NumberLost, Observed, Verified, VerificationFails, Deadline
  <2> QED BY <2>1 DEF Return, wire
<1>2. CASE Begin(m) \/ Prepared(m) \/ ReadSource(m) \/ ReadTarget(m) \/ ReadLevel(m) \/ Reinspected(m) \/ Presend(m)
  BY <1>2 DEF Begin, Prepared, ReadSource, ReadTarget, ReadLevel, Reinspected, Presend, wire, proof
<1>3. CASE (\E t \in Issues : AskNumber(m, t)) \/ NumberArrives(m) \/ Send(m)
  BY <1>3 DEF AskNumber, NumberArrives, Send, proof
<1>4. CASE CommitUnsent(m) \/ CommitUnparsable(m) \/ CommitLost(m) \/ CommitRefused(m) \/ CommitApplied(m)
  BY <1>4 DEF CommitUnsent, CommitUnparsable, CommitLost, CommitRefused, CommitApplied, proof, wire
<1>5. CASE VerifyHierarchy(m) \/ VerifyTasks(m) \/ VerifyAgain(m)
  BY <1>5 DEF VerifyHierarchy, VerifyTasks, VerifyAgain, wire
<1> QED BY <1>1, <1>2, <1>3, <1>4, <1>5 DEF Call

\* Handling a request of call m, or of nobody, keeps every report.
LEMMA ServerReports ==
  ASSUME RInv, Server PROVE \A m \in Movers : Reports(m)'
<1>0. TInv /\ StepsTyped /\ Tables
  BY DEF RInv, TInv, TypeOK
<1>1. ASSUME UNCHANGED <<wire, calls>> PROVE \A m \in Movers : Reports(m)'
  BY <1>1, ReportStays DEF RInv, wire, calls, reads, proof
<1>2. ASSUME NEW m \in Movers, UNCHANGED calls,
             \A n \in Movers \ {m} : /\ net'[n] = net[n] /\ reply'[n] = reply[n]
                                     /\ drawn'[n] = drawn[n] /\ landed'[n] = landed[n],
             EvidenceHolds(m)', BeforeBatch(m)'
      PROVE  \A n \in Movers : Reports(n)'
  <2>1. ASSUME NEW n \in Movers \ {m} PROVE Reports(n)'
    BY <1>2, <2>1, ReportStays DEF RInv, calls, reads, proof
  <2>2. Satisfied(m)' <=> Satisfied(m)
    BY <1>2, SatisfiedStays DEF calls
  <2>3. Reports(m)
    BY DEF RInv
  <2>4. Purpose(m)' /\ Discrepant(m)'
    BY <1>2, <2>2, <2>3 DEF Reports, Purpose, Discrepant, Inspecting, Inconsistent, calls, proof
  <2> QED BY <1>2, <2>1, <2>4 DEF Reports
<1>3. ASSUME NEW m \in Movers, NEW kind \in {"number", "refused", "applied"}, NEW value, Answer(m, kind, value)
      PROVE  /\ net'[m] = None /\ \A n \in Movers \ {m} : net'[n] = net[n] /\ reply'[n] = reply[n]
             /\ pc[m] \in {"allocating", "committing"} /\ reply'[m] # None => reply'[m].kind = kind
             /\ pc[m] \notin {"allocating", "committing"} => reply'[m] = reply[m]
  BY <1>0, <1>3 DEF Answer, Tables
<1>4. ASSUME NEW m \in Movers, GiveNumber(m) PROVE \A n \in Movers : Reports(n)'
  <2>1. /\ UNCHANGED <<landed, calls>> /\ net[m] # None /\ net[m].kind = "allocate"
        /\ \E v : Answer(m, "number", v)
        /\ \A n \in Movers \ {m} : drawn'[n] = drawn[n]
    BY <1>0, <1>4 DEF GiveNumber, Asks, StepsTyped
  <2>2. /\ net'[m] = None /\ \A n \in Movers \ {m} : net'[n] = net[n] /\ reply'[n] = reply[n]
        /\ pc[m] \in {"allocating", "committing"} /\ reply'[m] # None => reply'[m].kind = "number"
        /\ pc[m] \notin {"allocating", "committing"} => reply'[m] = reply[m]
    BY <1>3, <2>1
  <2>3. Reports(m) /\ ~BatchUnderWay(m)
    BY <2>1 DEF RInv, BatchUnderWay, Asks
  <2>4. EvidenceHolds(m)'
    BY <2>1, <2>2, <2>3 DEF Reports, EvidenceHolds, NothingWritten, BatchUnderWay, Asks, calls
  <2>5. BeforeBatch(m)'
    BY <2>1, <2>2, <2>3 DEF Reports, BeforeBatch, Inspecting, calls
  <2> QED BY <1>2, <2>1, <2>2, <2>4, <2>5
<1>5. ASSUME NEW m \in Movers, RefuseBatch(m) PROVE \A n \in Movers : Reports(n)'
  <2>1. UNCHANGED <<landed, drawn, calls>> /\ net[m] # None /\ BatchUnderWay(m) /\ net[m].kind = "batch" /\ Answer(m, "refused", 0)
    BY <1>5 DEF RefuseBatch, Asks, BatchUnderWay
  <2>2. /\ net'[m] = None /\ \A n \in Movers \ {m} : net'[n] = net[n] /\ reply'[n] = reply[n]
        /\ pc[m] \in {"allocating", "committing"} /\ reply'[m] # None => reply'[m].kind = "refused"
        /\ pc[m] \notin {"allocating", "committing"} => reply'[m] = reply[m]
    BY <1>3, <2>1
  <2>3. Reports(m) /\ landed[m] = 0
    BY <2>1 DEF RInv, Reports, EvidenceHolds
  <2>4. EvidenceHolds(m)'
    BY <2>1, <2>2, <2>3 DEF Reports, EvidenceHolds, NothingWritten, BatchUnderWay, Asks, calls
  <2>5. BeforeBatch(m)'
    BY <2>1, <2>2, <2>3 DEF Reports, BeforeBatch, Inspecting, calls
  <2> QED BY <1>2, <2>1, <2>2, <2>4, <2>5
<1>6. ASSUME NEW m \in Movers, AdmitBatch(m) PROVE \A n \in Movers : Reports(n)'
  <2>1. /\ UNCHANGED <<landed, drawn, reply, calls>> /\ net[m] # None /\ net[m].kind = "batch" /\ BatchUnderWay(m)
        /\ \A n \in Movers \ {m} : net'[n] = net[n]
    BY <1>0, <1>6 DEF AdmitBatch, Asks, BatchUnderWay, Tables
  <2>2. Reports(m) /\ landed[m] = 0
    BY <2>1 DEF RInv, Reports, EvidenceHolds
  <2>3. exec[m] # None /\ exec[m].commit \notin {"not-sent", "refused", "acknowledged"}
    BY <2>1, <2>2 DEF Reports, EvidenceHolds, NothingWritten
  <2>4. EvidenceHolds(m)'
    BY <2>1, <2>2, <2>3 DEF EvidenceHolds, calls
  <2>5. BeforeBatch(m)'
    BY <2>1, <2>2, <2>3 DEF Reports, BeforeBatch, Inspecting, calls
  <2> QED BY <1>2, <2>1, <2>4, <2>5
<1>7. ASSUME NEW m \in Movers, ApplyBatch(m) PROVE \A n \in Movers : Reports(n)'
  <2>1. /\ UNCHANGED <<drawn, calls>> /\ net[m] # None /\ BatchUnderWay(m) /\ net[m].kind # "allocate"
        /\ Answer(m, "applied", 0)
        /\ landed'[m] = landed[m] + 1 /\ \A n \in Movers \ {m} : landed'[n] = landed[n]
    BY <1>0, <1>7 DEF ApplyBatch, Asks, BatchUnderWay, StepsTyped
  <2>2. /\ net'[m] = None /\ \A n \in Movers \ {m} : net'[n] = net[n] /\ reply'[n] = reply[n]
        /\ pc[m] \in {"allocating", "committing"} /\ reply'[m] # None => reply'[m].kind = "applied"
        /\ pc[m] \notin {"allocating", "committing"} => reply'[m] = reply[m]
    BY <1>3, <2>1
  <2>3. Reports(m) /\ landed[m] = 0 /\ landed'[m] = 1
    BY <2>1 DEF RInv, Reports, EvidenceHolds
  <2>4. exec[m] # None /\ exec[m].commit \notin {"not-sent", "refused", "acknowledged"}
    BY <2>1, <2>3 DEF Reports, EvidenceHolds, NothingWritten
  <2>5. EvidenceHolds(m)'
    BY <2>1, <2>2, <2>3, <2>4 DEF Reports, EvidenceHolds, NothingWritten, BatchUnderWay, Asks, calls
  <2>6. BeforeBatch(m)'
    BY <2>1, <2>2, <2>3, <2>4 DEF Reports, BeforeBatch, Inspecting, calls
  <2> QED BY <1>2, <2>1, <2>2, <2>5, <2>6
<1>8. ASSUME NEW i \in Issues, NEW p \in Issues, Edit(i) \/ RefreshInformation(i) \/ CreateChild(i, p)
      PROVE  \A n \in Movers : Reports(n)'
  BY <1>1, <1>8 DEF Edit, RefreshInformation, CreateChild
<1> QED BY <1>4, <1>5, <1>6, <1>7, <1>8 DEF Server

LEMMA ReportsStep == ASSUME RInv, [Next]_vars PROVE RInv'
<1>0. TInv'
  BY TypedStep DEF RInv
<1>1. CASE Server
  BY <1>0, <1>1, ServerReports DEF RInv
<1>2. ASSUME NEW m \in Movers, Call(m) PROVE RInv'
  <2>1. Alone(m)
    BY <1>2, TypedCall DEF RInv, Mine
  <2>2. ASSUME NEW n \in Movers \ {m} PROVE Reports(n)'
    BY <1>2, <2>1, CallLeaves, ReportStays DEF RInv, Alone
  <2>3. Reports(m)'
    BY <1>2, OwnReport DEF RInv
  <2> QED BY <1>0, <2>2, <2>3 DEF RInv
<1>3. CASE UNCHANGED vars
  BY <1>0, <1>3, ReportStays DEF RInv, vars, wire, calls, reads, proof
<1> QED BY <1>1, <1>2, <1>3 DEF Next

LEMMA ReportsAtStart == Init => RInv
<1> SUFFICES ASSUME Init PROVE RInv
  OBVIOUS
<1>1. TInv
  BY TypedAtStart
<1>2. ASSUME NEW m \in Movers PROVE Reports(m)
  <2>1. EvidenceHolds(m) /\ BeforeBatch(m) /\ Purpose(m)
    BY DEF Init, EvidenceHolds, NothingWritten, BatchUnderWay, Asks, BeforeBatch, Inspecting, Purpose
  <2>2. None \notin {"blocked", "no-op", "completed"}
    BY NoneAssumption DEF Outcomes
  <2>3. Discrepant(m)
    BY <2>2 DEF Init, Discrepant
  <2> QED BY <2>1, <2>3 DEF Reports
<1> QED BY <1>1, <1>2 DEF RInv

\* On any server, with any faults and whatever runs beside a call: what the call
\* reports of its writes is and stays true, and a discrepancy it saw is reported.
THEOREM ReportsAreTrue == Spec => []ReportIsTrue
<1>1. Init => RInv
  BY ReportsAtStart
<1>2. RInv /\ [Next]_vars => RInv'
  BY ReportsStep
<1>3. RInv => ReportIsTrue
  <2> SUFFICES ASSUME RInv PROVE ReportIsTrue
    OBVIOUS
  <2>1. ASSUME NEW m \in Movers
        PROVE  /\ outcome[m] \in {"blocked", "no-op"} => drawn[m] = {} /\ landed[m] = 0 /\ net[m] = None
               /\ exec[m] # None /\ exec[m].commit \in {"not-sent", "refused"} => landed[m] = 0 /\ ~BatchUnderWay(m)
               /\ outcome[m] = "completed" => landed[m] = 1
               /\ landed[m] + (IF BatchUnderWay(m) THEN 1 ELSE 0) <= 1
    <3>1. EvidenceHolds(m) /\ Discrepant(m) /\ landed[m] \in Nat
      BY DEF RInv, Reports, TInv, TypeOK, StepsTyped
    <3> QED BY <3>1 DEF EvidenceHolds, NothingWritten, Discrepant
  <2>2. DiscrepancyReported
    BY DEF RInv, Reports, Discrepant, DiscrepancyReported
  <2> QED BY <2>1, <2>2 DEF ReportIsTrue, EvidenceIsTrue
<1> QED BY <1>1, <1>2, <1>3, PTL DEF Spec

-----------------------------------------------------------------------------
(* The numbers a call takes from a project, and whose they are.             *)

KnownNumbers(m) == {Confirmed(m)[t] : t \in DOMAIN Confirmed(m)}
Undecided(m) == exec[m] # None /\ exec[m].uncertain # {}

\* Every number the server gave for a call is in its evidence, except one at most:
\* that of the task whose number it asked for last.
Accounted(m) ==
  /\ KnownNumbers(m) \subseteq drawn[m]
  /\ ~Undecided(m) => drawn[m] = KnownNumbers(m)
  /\ Undecided(m) => /\ pc[m] \in {"allocating", "done"} /\ \E t \in Issues \ DOMAIN exec[m].confirmed : exec[m].uncertain = {t}
                     /\ \E v \in Nat : drawn[m] \subseteq KnownNumbers(m) \union {v}
  /\ Asks(m, "allocate") => /\ Undecided(m) /\ drawn[m] = KnownNumbers(m)
                            /\ pc[m] = "allocating" => net[m].write = Dest(m)
  /\ pc[m] = "allocating" /\ reply[m] # None => drawn[m] = KnownNumbers(m) \union {reply[m].value}

\* What a call has read is of the two projects it moves between.
Placed(m) ==
  /\ pc[m] \in {"target", "tree", "hierarchy", "tasks", "verified"} =>
       /\ \A i \in DOMAIN hier[m].source : hier[m].source[i].space = Source(m)
       /\ \A i \in DOMAIN hier[m].target : hier[m].target[i].space = Dest(m)
  /\ pc[m] \notin {"start", "done"} /\ pass[m] # "prepare" =>
       \A i \in DOMAIN plan[m].rows : plan[m].rows[i].space \in {Source(m), Dest(m)}

\* Issue i is number n of project p: by its row, or by what a call has read, was
\* given or has sent, any of which may become its row.
ListClaims(f, p, n, i) == i \in DOMAIN f /\ f[i].space = p /\ f[i].number = n
ReadClaims(m, p, n, i) ==
  /\ pc[m] \in {"target", "tree", "hierarchy", "tasks", "verified"}
  /\ ListClaims(hier[m].source, p, n, i) \/ ListClaims(hier[m].target, p, n, i)
PlanClaims(m, p, n, i) ==
  pc[m] \notin {"start", "done"} /\ pass[m] # "prepare" /\ ListClaims(plan[m].rows, p, n, i)
GivenClaims(m, p, n, i) ==
  /\ pc[m] \notin {"start", "done"} /\ Dest(m) = p
  /\ i \in DOMAIN Confirmed(m) /\ Confirmed(m)[i] = n
AnswerClaims(m, p, n, i) ==
  /\ pc[m] = "allocating" /\ Dest(m) = p
  /\ reply[m] # None /\ i \in exec[m].uncertain /\ reply[m].value = n
SentClaims(m, p, n, i) ==
  /\ BatchUnderWay(m) /\ net[m].write.dest = p
  /\ i \in net[m].write.tasks /\ net[m].write.final[i].number = n
CallClaims(m, p, n, i) ==
  \/ ReadClaims(m, p, n, i) \/ PlanClaims(m, p, n, i) \/ GivenClaims(m, p, n, i)
  \/ AnswerClaims(m, p, n, i) \/ SentClaims(m, p, n, i)
RowClaims(p, n, i) == issue[i].space = p /\ issue[i].number = n
Claims(p, n, i) == RowClaims(p, n, i) \/ \E m \in Movers : CallClaims(m, p, n, i)

\* A number is of one issue, and was there at the start or came from the sequence.
Unique == \A p \in Projects, n \in Numbers, i, j \in Issues : Claims(p, n, i) /\ Claims(p, n, j) => i = j
Bounded == \A p \in Projects, n \in Numbers, i \in Issues : Claims(p, n, i) => n = i \/ (n \in Nat /\ n <= sequence[p])

NInv == RInv /\ (\A m \in Movers : Accounted(m) /\ Placed(m)) /\ Unique /\ Bounded

\* A step that claims the next number of a sequence for one issue, and nothing else
\* that is new, leaves every number with one issue.
LEMMA NextNumber ==
  ASSUME Unique, Bounded, NEW q \in Projects, NEW w \in Issues, sequence \in [Projects -> Nat],
         sequence' = [sequence EXCEPT ![q] = @ + 1],
         \A p \in Projects, n \in Numbers, i \in Issues :
           Claims(p, n, i)' => Claims(p, n, i) \/ (p = q /\ n = sequence[q] + 1 /\ i = w)
  PROVE  Unique' /\ Bounded'
<1>1. \A p \in Projects : sequence[p] \in Nat /\ sequence'[p] = IF p = q THEN sequence[p] + 1 ELSE sequence[p]
  OBVIOUS
<1>2. Bounded'
  BY <1>1 DEF Bounded
<1>3. ASSUME NEW j \in Issues PROVE ~Claims(q, sequence[q] + 1, j)
  <2>1. sequence[q] + 1 \in Nat /\ sequence[q] + 1 \in Numbers /\ ~(sequence[q] + 1 <= sequence[q])
    BY <1>1 DEF Numbers
  <2>2. sequence[q] + 1 # j
    BY <2>1, NumbersAssumption
  <2> QED BY <2>1, <2>2 DEF Bounded
<1>4. Unique'
  BY <1>3 DEF Unique
<1> QED BY <1>2, <1>4

\* What a step of call m shows for its own numbers.
NumbersOk(m) == /\ Accounted(m)' /\ Placed(m)'
                /\ \A p, n, i : CallClaims(m, p, n, i)' => Claims(p, n, i)

SameNumbers(m) == /\ DOMAIN Confirmed(m)' = DOMAIN Confirmed(m)
                  /\ \A i \in DOMAIN Confirmed(m) : Confirmed(m)'[i] = Confirmed(m)[i]

LEMMA NumbersKept ==
  ASSUME NEW m,
         \/ exec'[m] = exec[m]
         \/ exec'[m] # None /\ exec'[m].confirmed = Confirmed(m)
         \/ exec'[m] = None /\ DOMAIN Confirmed(m) = {}
  PROVE  SameNumbers(m) /\ KnownNumbers(m)' = KnownNumbers(m)
<1>1. SameNumbers(m)
  <2>1. CASE exec'[m] = exec[m]
    BY <2>1 DEF SameNumbers, Confirmed, Now
  <2>2. CASE exec'[m] # None /\ exec'[m].confirmed = Confirmed(m)
    BY <2>2 DEF SameNumbers, Confirmed
  <2>3. CASE exec'[m] = None /\ DOMAIN Confirmed(m) = {}
    BY <2>3 DEF SameNumbers, Confirmed, Now
  <2> QED BY <2>1, <2>2, <2>3
<1>2. KnownNumbers(m)' = KnownNumbers(m)
  BY <1>1 DEF SameNumbers, KnownNumbers
<1> QED BY <1>1, <1>2

\* What a call holds it holds on to while none of it changes.
LEMMA NumbersStay ==
  ASSUME NEW n, Accounted(n), Placed(n),
         pc'[n] = pc[n], pass'[n] = pass[n], sel'[n] = sel[n], hier'[n] = hier[n], plan'[n] = plan[n],
         exec'[n] = exec[n], net'[n] = net[n], reply'[n] = reply[n], drawn'[n] = drawn[n]
  PROVE  Accounted(n)' /\ Placed(n)' /\ \A p, k, i : CallClaims(n, p, k, i)' => CallClaims(n, p, k, i)
<1>1. SameNumbers(n) /\ KnownNumbers(n)' = KnownNumbers(n)
  BY NumbersKept
<1>2. Accounted(n)'
  BY <1>1 DEF Accounted, Undecided, Asks, Dest
<1>3. Placed(n)'
  BY DEF Placed, Source, Dest
<1>4. \A p, k, i : GivenClaims(n, p, k, i)' => GivenClaims(n, p, k, i)
  BY <1>1 DEF GivenClaims, SameNumbers, Dest
<1>5. \A p, k, i : CallClaims(n, p, k, i)' => CallClaims(n, p, k, i)
  BY <1>4 DEF CallClaims, ReadClaims, PlanClaims, AnswerClaims, SentClaims, ListClaims, Dest, BatchUnderWay, Asks
<1> QED BY <1>2, <1>3, <1>5

\* A step that reads nothing and asks for nothing.
LEMMA GoingOnNumbers ==
  ASSUME NInv, NEW m \in Movers, pc[m] \notin {"start", "done"}, drawn'[m] = drawn[m], net'[m] = net[m],
         pc'[m] # "done" => /\ sel'[m] = sel[m] /\ plan'[m] = plan[m] /\ pass[m] # "prepare"
                            /\ ~Undecided(m)' /\ ~Asks(m, "allocate"),
         pc'[m] \notin {"start", "allocating"},
         pc'[m] \in {"target", "tree", "hierarchy", "tasks", "verified"} =>
           hier'[m] = hier[m] /\ pc[m] \in {"target", "tree", "hierarchy", "tasks", "verified"},
         Undecided(m)' => exec'[m] = exec[m],
         Asks(m, "allocate") => exec'[m] = exec[m],
         Undecided(m) /\ ~Undecided(m)' => drawn[m] = KnownNumbers(m),
         SameNumbers(m), KnownNumbers(m)' = KnownNumbers(m)
  PROVE  NumbersOk(m)
<1>0. Accounted(m) /\ Placed(m)
  BY DEF NInv
<1>1. Accounted(m)'
  BY <1>0 DEF Accounted, Undecided, Asks
<1>2. Placed(m)'
  BY <1>0 DEF Placed, Source, Dest
<1>3. ASSUME NEW p, NEW n, NEW i, CallClaims(m, p, n, i)' PROVE CallClaims(m, p, n, i)
  <2>1. ReadClaims(m, p, n, i)' => ReadClaims(m, p, n, i)
    BY DEF ReadClaims, ListClaims
  <2>2. PlanClaims(m, p, n, i)' => PlanClaims(m, p, n, i)
    BY DEF PlanClaims, ListClaims
  <2>3. GivenClaims(m, p, n, i)' => GivenClaims(m, p, n, i)
    BY DEF GivenClaims, SameNumbers, Dest
  <2>4. ~AnswerClaims(m, p, n, i)'
    BY DEF AnswerClaims
  <2>5. SentClaims(m, p, n, i)' => SentClaims(m, p, n, i)
    BY DEF SentClaims, BatchUnderWay, Asks
  <2> QED BY <1>3, <2>1, <2>2, <2>3, <2>4, <2>5 DEF CallClaims
<1> QED BY <1>1, <1>2, <1>3 DEF NumbersOk, Claims

LEMMA ReturningNumbers ==
  ASSUME NInv, NEW m \in Movers,
         \/ Conflicting(m) \/ NotAdmitted(m) \/ ReadFails(m) \/ NumberUnsent(m) \/ NumberLost(m)
         \/ Observed(m) \/ Verified(m) \/ VerificationFails(m) \/ Deadline(m)
  PROVE  NumbersOk(m)
<1>0. TInv /\ StepsTyped /\ Reports(m) /\ Accounted(m)
  BY DEF NInv, RInv, TInv, TypeOK
<1>1. pc[m] \notin {"start", "done"} /\ (\E what : Return(m, what)) /\ UNCHANGED wire
  BY DEF Conflicting, NotAdmitted, ReadFails, NumberUnsent, NumberLost, Observed, Verified, VerificationFails, Deadline
<1>2. pc'[m] = "done" /\ drawn'[m] = drawn[m] /\ net'[m] = net[m]
  BY <1>0, <1>1 DEF Return, Goto, StepsTyped, wire
<1>3. CASE exec' = exec
  <2>1. SameNumbers(m) /\ KnownNumbers(m)' = KnownNumbers(m) /\ (Undecided(m)' <=> Undecided(m))
    BY <1>3, NumbersKept DEF Undecided
  <2> QED BY <1>1, <1>2, <1>3, <2>1, GoingOnNumbers
<1>4. CASE NumberUnsent(m)
  <2> DEFINE known == IF DOMAIN Confirmed(m) = {} THEN None ELSE Allocating(Confirmed(m), {})
  <2>1. pc[m] = "allocate" /\ Record(m, known)
    BY <1>4 DEF NumberUnsent
  <2>2. exec'[m] = known
    BY <1>0, <1>1, <2>1, UnsentEvidence
  <2>3. net[m] = None /\ ~Undecided(m) /\ ~Asks(m, "allocate")
    BY <1>0, <2>1 DEF Reports, BeforeBatch, Accounted, Asks
  <2>4. exec'[m] # None => exec'[m].confirmed = Confirmed(m) /\ exec'[m].uncertain = {}
    BY <2>2 DEF Allocating
  <2>5. exec'[m] = None => DOMAIN Confirmed(m) = {}
    <3>1. IsMap(Confirmed(m), Nat)
      BY <1>0, ConfirmedTyped
    <3>2. Allocating(Confirmed(m), {}) \in Evidence
      BY <3>1 DEF Allocating, Evidence, IsMap, Phases, Commits
    <3> QED BY <2>2, <3>2, NoneAssumption
  <2>6. SameNumbers(m) /\ KnownNumbers(m)' = KnownNumbers(m) /\ ~Undecided(m)'
    BY <2>4, <2>5, NumbersKept DEF Undecided
  <2> QED BY <1>1, <1>2, <2>3, <2>6, GoingOnNumbers
<1> QED BY <1>3, <1>4 DEF Conflicting, NotAdmitted, ReadFails, NumberLost, Observed, Verified, VerificationFails, Deadline

\* The evidence of a call that commits holds the numbers it had.
LEMMA LaterNumbers ==
  ASSUME NInv, NEW m \in Movers,
         \/ CommitUnsent(m) \/ CommitUnparsable(m) \/ CommitLost(m) \/ CommitRefused(m) \/ CommitApplied(m)
         \/ VerifyAgain(m) \/ Reinspected(m) \/ Presend(m) \/ VerifyHierarchy(m) \/ VerifyTasks(m)
  PROVE  NumbersOk(m)
<1>0. TInv /\ StepsTyped /\ Tables /\ Reports(m) /\ Accounted(m)
  BY DEF NInv, RInv, TInv, TypeOK
<1>1. /\ pc[m] \in {"commit", "committing", "tree", "hierarchy", "tasks", "verified"} /\ pass[m] # "prepare"
      /\ UNCHANGED <<sel, plan, drawn, net>>
  BY <1>0 DEF CommitUnsent, CommitUnparsable, CommitLost, CommitRefused, CommitApplied, VerifyAgain, Reinspected, Presend,
       VerifyHierarchy, VerifyTasks, wire, Reports, Purpose
<1>2. ~Undecided(m) /\ ~Asks(m, "allocate")
  BY <1>0, <1>1 DEF Accounted
<1>3. /\ pc'[m] \in {"source", "allocate", "commit", "tasks", "verified"}
      /\ pc'[m] \in {"tasks", "verified"} => hier'[m] = hier[m] /\ pc[m] \in {"hierarchy", "tasks"}
  BY <1>0 DEF CommitUnsent, CommitUnparsable, CommitLost, CommitRefused, CommitApplied, VerifyAgain, Reinspected, Presend,
       VerifyHierarchy, VerifyTasks, StartPass, Goto, StepsTyped
<1>4. \/ exec'[m] = exec[m]
      \/ exec'[m] # None /\ exec'[m].confirmed = Confirmed(m) /\ exec'[m].uncertain = {}
      \/ exec'[m] = None /\ DOMAIN Confirmed(m) = {}
  <2>1. CASE CommitUnsent(m)
    <3>1. exec'[m] = IF DOMAIN Confirmed(m) = {} THEN None ELSE Allocating(Confirmed(m), {})
      BY <1>0, <2>1, UnsentEvidence DEF CommitUnsent
    <3>2. IsMap(Confirmed(m), Nat)
      BY <1>0, ConfirmedTyped
    <3>3. Allocating(Confirmed(m), {}) \in Evidence
      BY <3>2 DEF Allocating, Evidence, IsMap, Phases, Commits
    <3>4. Allocating(Confirmed(m), {}) # None
      BY <3>3, NoneAssumption
    <3>5. Allocating(Confirmed(m), {}).confirmed = Confirmed(m) /\ Allocating(Confirmed(m), {}).uncertain = {}
      BY DEF Allocating
    <3> QED BY <3>1, <3>4, <3>5
  <2>2. ASSUME NEW what \in Commits, Record(m, Committing(m, what))
        PROVE  exec'[m] # None /\ exec'[m].confirmed = Confirmed(m) /\ exec'[m].uncertain = {}
    <3>1. exec'[m] # None /\ exec'[m] = Committing(m, what)
      BY <1>0, <2>2, CommittingTyped
    <3> QED BY <3>1 DEF Committing
  <2>3. CASE CommitUnparsable(m) \/ CommitLost(m) \/ CommitRefused(m)
    BY <2>2, <2>3 DEF CommitUnparsable, CommitLost, CommitRefused, Commits
  <2>4. CASE CommitApplied(m)
    <3>1. [Committing(m, "acknowledged") EXCEPT !.phase = "verification"]
            = [phase |-> "verification", commit |-> "acknowledged", confirmed |-> Confirmed(m), uncertain |-> {}]
      BY DEF Committing
    <3>2. Record(m, [phase |-> "verification", commit |-> "acknowledged", confirmed |-> Confirmed(m), uncertain |-> {}])
      BY <2>4, <3>1 DEF CommitApplied
    <3>3. "verification" \in Phases /\ "acknowledged" \in Commits /\ {} \subseteq Issues
      BY DEF Phases, Commits
    <3>4. exec'[m] # None /\ exec'[m] = [phase |-> "verification", commit |-> "acknowledged",
                                         confirmed |-> Confirmed(m), uncertain |-> {}]
      BY <1>0, <3>2, <3>3, ConfirmedTyped, ExecRecorded
    <3> QED BY <3>4
  <2>5. CASE VerifyAgain(m) \/ Reinspected(m) \/ Presend(m) \/ VerifyHierarchy(m) \/ VerifyTasks(m)
    BY <2>5 DEF VerifyAgain, Reinspected, Presend, VerifyHierarchy, VerifyTasks
  <2> QED BY <2>1, <2>3, <2>4, <2>5
<1>5. SameNumbers(m) /\ KnownNumbers(m)' = KnownNumbers(m)
  BY <1>4, NumbersKept
<1>6. ~Undecided(m)'
  BY <1>2, <1>4 DEF Undecided
<1> QED BY <1>1, <1>2, <1>3, <1>5, <1>6, GoingOnNumbers

\* Reading: what is read is a row.
LEMMA ReadNumbers ==
  ASSUME NInv, NEW m \in Movers, Begin(m) \/ ReadSource(m) \/ ReadTarget(m) \/ ReadLevel(m) \/ Prepared(m)
  PROVE  NumbersOk(m)
<1>0. TInv /\ StepsTyped /\ Tables /\ Reports(m) /\ Accounted(m) /\ Placed(m) /\ CallTyped(m)
  BY DEF NInv, RInv, TInv, TypeOK
<1>1. pc[m] \in {"start", "source", "target", "tree"} /\ UNCHANGED <<exec, drawn, net, reply>>
  BY DEF Begin, ReadSource, ReadTarget, ReadLevel, Prepared, wire
<1>2. ~Undecided(m) /\ ~Undecided(m)' /\ ~Asks(m, "allocate")' /\ SameNumbers(m) /\ KnownNumbers(m)' = KnownNumbers(m)
  BY <1>0, <1>1, NumbersKept DEF Accounted, Undecided, Asks
<1>3. pc'[m] \in {"source", "target", "tree", "hierarchy"}
  BY <1>0 DEF Begin, ReadSource, ReadTarget, ReadLevel, Prepared, StartPass, Goto, StepsTyped
<1>4. Accounted(m)'
  BY <1>0, <1>1, <1>2, <1>3 DEF Accounted
<1>5. \A p, n, i : ~AnswerClaims(m, p, n, i)' /\ (SentClaims(m, p, n, i)' => SentClaims(m, p, n, i))
  BY <1>1, <1>3 DEF AnswerClaims, SentClaims, BatchUnderWay, Asks
<1>6. CASE Begin(m)
  <2>1. pc[m] = "start" /\ pass'[m] = "prepare" /\ pc'[m] = "source"
    BY <1>0, <1>6 DEF Begin, StartPass, Goto, StepsTyped
  <2>2. exec[m] = None
    BY <1>0, <2>1 DEF Reports, BeforeBatch
  <2>3. DOMAIN Confirmed(m)' = {}
    BY <1>1, <2>2 DEF Confirmed, Now
  <2>4. Placed(m)' /\ \A p, n, i : ~ReadClaims(m, p, n, i)' /\ ~PlanClaims(m, p, n, i)' /\ ~GivenClaims(m, p, n, i)'
    BY <2>1, <2>3 DEF Placed, ReadClaims, PlanClaims, GivenClaims
  <2> QED BY <1>4, <1>5, <2>4 DEF NumbersOk, CallClaims, Claims
<1>7. CASE ReadSource(m) \/ ReadTarget(m) \/ ReadLevel(m)
  <2>1. UNCHANGED <<sel, plan, pass>> /\ pc[m] \in {"source", "target", "tree"}
    BY <1>7 DEF ReadSource, ReadTarget, ReadLevel
  <2> DEFINE Inventory(p) == Now({i \in Issues : issue[i].space = p})
  <2>2. \/ hier'[m].source = Inventory(Source(m)) /\ hier'[m].target = Now({})
        \/ pc[m] = "target" /\ hier'[m].source = hier[m].source /\ hier'[m].target = Inventory(Dest(m))
        \/ pc[m] = "tree" /\ hier'[m] = hier[m]
    <3>1. CASE ReadTarget(m)
      <4>1. DOMAIN hier[m] = {"source", "target"} /\ pc[m] = "target"
        BY <1>0, <3>1 DEF ReadTarget, CallTyped
      <4>2. hier'[m] = [hier[m] EXCEPT !.target = Inventory(Dest(m))]
        BY <1>0, <3>1 DEF ReadTarget, Tables
      <4> QED BY <4>1, <4>2
    <3>2. CASE ReadSource(m)
      <4>1. hier'[m] = [source |-> Inventory(Source(m)), target |-> Now({})]
        BY <1>0, <3>2 DEF ReadSource, Tables
      <4> QED BY <4>1
    <3>3. CASE ReadLevel(m)
      BY <3>3 DEF ReadLevel
    <3> QED BY <1>7, <3>1, <3>2, <3>3
  <2>3. ASSUME NEW p
        PROVE  /\ \A i \in DOMAIN Inventory(p) : Inventory(p)[i].space = p
               /\ \A q, n, i : ListClaims(Inventory(p), q, n, i) => RowClaims(q, n, i)
    BY DEF Now, ListClaims, RowClaims
  <2>4. DOMAIN Now({}) = {}
    BY DEF Now
  <2> HIDE DEF Inventory
  <2>5. Placed(m)'
    <3>1. (Source(m))' = Source(m) /\ (Dest(m))' = Dest(m)
      BY <2>1 DEF Source, Dest
    <3>2. pc[m] \in {"target", "tree"} => /\ \A i \in DOMAIN hier[m].source : hier[m].source[i].space = Source(m)
                                         /\ \A i \in DOMAIN hier[m].target : hier[m].target[i].space = Dest(m)
      BY <1>0 DEF Placed
    <3>3. /\ \A i \in DOMAIN hier'[m].source : hier'[m].source[i].space = Source(m)
          /\ \A i \in DOMAIN hier'[m].target : hier'[m].target[i].space = Dest(m)
      BY <2>2, <2>3, <2>4, <3>2
    <3> QED BY <1>0, <2>1, <3>1, <3>3 DEF Placed
  <2>6. \A p, n, i : ReadClaims(m, p, n, i)' => RowClaims(p, n, i) \/ ReadClaims(m, p, n, i)
    <3>1. \A p, n, i : /\ ListClaims(hier'[m].source, p, n, i) => RowClaims(p, n, i) \/ ReadClaims(m, p, n, i)
                       /\ ListClaims(hier'[m].target, p, n, i) => RowClaims(p, n, i) \/ ReadClaims(m, p, n, i)
      <4>1. \A p, n, i : ~ListClaims(Now({}), p, n, i)
        BY <2>4 DEF ListClaims
      <4> QED BY <2>2, <2>3, <4>1 DEF ReadClaims
    <3> QED BY <3>1 DEF ReadClaims, ListClaims
  <2>7. \A p, n, i : /\ PlanClaims(m, p, n, i)' => PlanClaims(m, p, n, i)
                     /\ GivenClaims(m, p, n, i)' => GivenClaims(m, p, n, i)
    BY <1>2, <2>1 DEF PlanClaims, GivenClaims, ListClaims, SameNumbers, Dest
  <2> QED BY <1>4, <1>5, <2>5, <2>6, <2>7 DEF NumbersOk, CallClaims, Claims
<1>8. CASE Prepared(m)
  <2>1. pc[m] = "tree" /\ pc'[m] = "source" /\ InspectionClean(m) /\ sel' = sel /\ plan'[m] = Inspected(m)
    BY <1>0, <1>8 DEF Prepared, StartPass, Goto, StepsTyped, Tables
  <2> DEFINE rows == ById(hier[m])
  <2>2. MapsTyped(hier[m]) /\ LinkedMap(hier[m].source) /\ LinkedMap(hier[m].target)
    BY <1>0, <2>1 DEF CallTyped
  <2>3. DOMAIN rows = DOMAIN hier[m].target \union DOMAIN hier[m].source
        /\ \A i \in DOMAIN rows : rows[i] = IF i \in DOMAIN hier[m].target THEN hier[m].target[i] ELSE hier[m].source[i]
    BY DEF ById, Known
  <2>4. \A i \in DOMAIN rows : rows[i].space \in {Source(m), Dest(m)}
    BY <1>0, <2>1, <2>3 DEF Placed
  <2>5. \A p, n, i : ListClaims(rows, p, n, i) => ReadClaims(m, p, n, i)
    BY <2>1, <2>3 DEF ListClaims, ReadClaims
  <2>6. RelatedIds(m) \subseteq DOMAIN rows
    BY <2>1 DEF InspectionClean, RowsAgree
  <2>7. plan'[m].rows = [i \in RelatedIds(m) |-> rows[i]]
    BY <2>1 DEF Inspected
  <2> HIDE DEF rows
  <2>8. Placed(m)'
    BY <2>1, <2>4, <2>6, <2>7 DEF Placed, Source, Dest
  <2>9. \A p, n, i : /\ ~ReadClaims(m, p, n, i)' /\ (PlanClaims(m, p, n, i)' => ReadClaims(m, p, n, i))
                     /\ GivenClaims(m, p, n, i)' => GivenClaims(m, p, n, i)
    BY <1>2, <2>1, <2>5, <2>6, <2>7 DEF ReadClaims, PlanClaims, GivenClaims, ListClaims, SameNumbers, Dest
  <2> QED BY <1>4, <1>5, <2>8, <2>9 DEF NumbersOk, CallClaims, Claims
<1> QED BY <1>6, <1>7, <1>8

\* A number is asked for: from now on the evidence names the task it is for.
LEMMA AskNumbers ==
  ASSUME NInv, NEW m \in Movers, NEW t \in Issues, AskNumber(m, t) PROVE NumbersOk(m)
<1>0. TInv /\ StepsTyped /\ Tables /\ Reports(m) /\ Accounted(m) /\ Placed(m)
  BY DEF NInv, RInv, TInv, TypeOK
<1>1. /\ pc[m] = "allocate" /\ pc'[m] = "allocating" /\ UNCHANGED <<sel, plan, pass, drawn, reply>>
      /\ net'[m] = [kind |-> "allocate", write |-> Dest(m)] /\ t \notin DOMAIN Confirmed(m)
  BY <1>0 DEF AskNumber, Goto, StepsTyped, Tables
<1>2. exec'[m] # None /\ exec'[m] = Allocating(Confirmed(m), {t})
  <2>1. Record(m, Allocating(Confirmed(m), {t})) /\ {t} \subseteq Issues
    BY DEF AskNumber
  <2> QED BY <1>0, <2>1, ConfirmedTyped, AllocatingTyped
<1>3. exec'[m].confirmed = Confirmed(m) /\ exec'[m].uncertain = {t}
  BY <1>2 DEF Allocating
<1>4. SameNumbers(m) /\ KnownNumbers(m)' = KnownNumbers(m)
  BY <1>2, <1>3, NumbersKept
<1>5. reply[m] = None /\ drawn[m] = KnownNumbers(m)
  BY <1>0, <1>1 DEF Reports, BeforeBatch, Accounted
<1>6. Accounted(m)'
  <2>1. Undecided(m)' /\ drawn'[m] = KnownNumbers(m)' /\ (KnownNumbers(m) \subseteq KnownNumbers(m) \union {0})
    BY <1>1, <1>2, <1>3, <1>4, <1>5 DEF Undecided
  <2>2. net'[m].write = Dest(m)' /\ reply'[m] = None
    BY <1>1, <1>5 DEF Dest
  <2>3. \E v \in Nat : drawn'[m] \subseteq KnownNumbers(m)' \union {v}
    BY <2>1
  <2> QED BY <1>1, <1>3, <2>1, <2>2, <2>3 DEF Accounted
<1>7. Placed(m)'
  BY <1>0, <1>1 DEF Placed, Source, Dest
<1>8. ASSUME NEW p, NEW n, NEW i, CallClaims(m, p, n, i)' PROVE CallClaims(m, p, n, i)
  <2>1. ~ReadClaims(m, p, n, i)' /\ ~AnswerClaims(m, p, n, i)' /\ ~SentClaims(m, p, n, i)'
    BY <1>1, <1>5 DEF ReadClaims, AnswerClaims, SentClaims, BatchUnderWay, Asks
  <2>2. PlanClaims(m, p, n, i)' => PlanClaims(m, p, n, i)
    BY <1>1 DEF PlanClaims, ListClaims
  <2>3. GivenClaims(m, p, n, i)' => GivenClaims(m, p, n, i)
    BY <1>1, <1>4 DEF GivenClaims, SameNumbers, Dest
  <2> QED BY <1>8, <2>1, <2>2, <2>3 DEF CallClaims
<1> QED BY <1>6, <1>7, <1>8 DEF NumbersOk, Claims

\* It arrives, and is the number of that task.
LEMMA ArrivedNumbers ==
  ASSUME NInv, NEW m \in Movers, NumberArrives(m) PROVE NumbersOk(m)
<1> DEFINE known == [u \in DOMAIN Confirmed(m) \union exec[m].uncertain |->
                       IF u \in exec[m].uncertain THEN reply[m].value ELSE Confirmed(m)[u]]
<1>0. TInv /\ StepsTyped /\ Tables /\ Reports(m) /\ Accounted(m) /\ Placed(m) /\ RecordsTyped(m)
  BY DEF NInv, RInv, TInv, TypeOK
<1>1. /\ UNCHANGED <<sel, plan, drawn, net>>
      /\ pc[m] = "allocating" /\ reply[m] # None /\ Record(m, Allocating(known, {}))
      /\ IF DOMAIN known = Tasks(m) THEN StartPass(m, "presend") ELSE Goto(m, "allocate") /\ UNCHANGED <<pass, reads>>
  BY DEF NumberArrives
<1>2. /\ net[m] = None /\ pass[m] = "reinspect" /\ exec[m] # None /\ exec[m].uncertain # {}
      /\ pc'[m] \in {"source", "allocate"} /\ pass'[m] \in {"presend", "reinspect"}
  BY <1>0, <1>1 DEF Reports, BeforeBatch, Purpose, StartPass, Goto, StepsTyped
<1>3. PICK t \in Issues \ DOMAIN exec[m].confirmed : exec[m].uncertain = {t}
  BY <1>0, <1>2 DEF Accounted, Undecided
<1>4. Confirmed(m) = exec[m].confirmed /\ IsMap(Confirmed(m), Nat) /\ reply[m].value \in Nat
  BY <1>0, <1>1, <1>2, ConfirmedTyped DEF Confirmed, RecordsTyped
<1>5. /\ DOMAIN known = DOMAIN Confirmed(m) \union {t} /\ t \notin DOMAIN Confirmed(m)
      /\ known[t] = reply[m].value /\ \A u \in DOMAIN Confirmed(m) : known[u] = Confirmed(m)[u]
  BY <1>3, <1>4
<1>6. IsMap(known, Nat)
  BY <1>3, <1>4 DEF IsMap
<1> HIDE DEF known
<1>7. exec'[m] # None /\ exec'[m] = Allocating(known, {})
  <2>1. {} \subseteq Issues
    OBVIOUS
  <2> QED BY <1>0, <1>1, <1>6, <2>1, AllocatingTyped
<1>8. exec'[m].confirmed = known /\ exec'[m].uncertain = {}
  BY <1>7 DEF Allocating
<1>9. Confirmed(m)' = known /\ ~Undecided(m)'
  BY <1>7, <1>8 DEF Confirmed, Undecided
<1>10. drawn[m] = KnownNumbers(m) \union {reply[m].value}
  BY <1>0, <1>1 DEF Accounted
<1>11. KnownNumbers(m)' = KnownNumbers(m) \union {reply[m].value}
  BY <1>5, <1>9 DEF KnownNumbers
<1>12. Accounted(m)'
  BY <1>1, <1>2, <1>9, <1>10, <1>11 DEF Accounted, Asks
<1>13. Placed(m)'
  BY <1>0, <1>1, <1>2 DEF Placed, Source, Dest
<1>14. ASSUME NEW p, NEW n, NEW i, CallClaims(m, p, n, i)' PROVE CallClaims(m, p, n, i)
  <2>1. ~ReadClaims(m, p, n, i)' /\ ~AnswerClaims(m, p, n, i)' /\ ~SentClaims(m, p, n, i)'
    BY <1>1, <1>2 DEF ReadClaims, AnswerClaims, SentClaims, BatchUnderWay, Asks
  <2>2. PlanClaims(m, p, n, i)' => PlanClaims(m, p, n, i)
    BY <1>1, <1>2 DEF PlanClaims, ListClaims
  <2>3. GivenClaims(m, p, n, i)' => GivenClaims(m, p, n, i) \/ AnswerClaims(m, p, n, i)
    BY <1>1, <1>2, <1>3, <1>5, <1>9 DEF GivenClaims, AnswerClaims, Dest
  <2> QED BY <1>14, <2>1, <2>2, <2>3 DEF CallClaims
<1> QED BY <1>12, <1>13, <1>14 DEF NumbersOk, Claims

\* The batch takes over the numbers that were read or given.
LEMMA SendNumbers ==
  ASSUME NInv, NEW m \in Movers, Send(m) PROVE NumbersOk(m)
<1>0. TInv /\ StepsTyped /\ Tables /\ Reports(m) /\ Accounted(m) /\ Placed(m) /\ CallTyped(m)
  BY DEF NInv, RInv, TInv, TypeOK
<1>1. /\ UNCHANGED <<sel, plan, pass, drawn, reply>> /\ pc[m] = "commit" /\ pc'[m] = "committing"
      /\ net'[m] = [kind |-> "batch", write |-> Write(m)] /\ pass[m] # "prepare"
  BY <1>0 DEF Send, Goto, StepsTyped, Tables, CallTyped
<1>2. exec'[m] # None /\ exec'[m] = Committing(m, "sent")
  BY <1>0, CommittingTyped DEF Send, Commits
<1>3. exec'[m].confirmed = Confirmed(m) /\ exec'[m].uncertain = {}
  BY <1>2 DEF Committing
<1>4. SameNumbers(m) /\ KnownNumbers(m)' = KnownNumbers(m) /\ ~Undecided(m)'
  BY <1>2, <1>3, NumbersKept DEF Undecided
<1>5. ~Undecided(m)
  BY <1>0, <1>1 DEF Accounted
<1>6. Accounted(m)'
  BY <1>0, <1>1, <1>4, <1>5 DEF Accounted, Asks
<1>7. Placed(m)'
  BY <1>0, <1>1 DEF Placed, Source, Dest
<1>8. ASSUME NEW t \in Tasks(m)
      PROVE  PlanClaims(m, Dest(m), FinalNumber(m, t), t) \/ GivenClaims(m, Dest(m), FinalNumber(m, t), t)
  <2>1. CASE SameProject(m)
    <3>1. t \in DOMAIN plan[m].rows
      BY <1>0, <1>1 DEF CallTyped, PlanTyped, Tasks
    <3>2. plan[m].rows[t].space = Dest(m)
      BY <1>0, <1>1, <2>1, <3>1 DEF Placed, SameProject
    <3> QED BY <1>1, <2>1, <3>1, <3>2 DEF PlanClaims, ListClaims, FinalNumber
  <2>2. CASE ~SameProject(m)
    <3>1. exec[m] # None /\ DOMAIN exec[m].confirmed = Tasks(m)
      BY <1>0, <1>1, <2>2 DEF CallTyped
    <3> QED BY <1>1, <2>2, <3>1 DEF GivenClaims, Confirmed, FinalNumber
  <2> QED BY <2>1, <2>2
<1>9. /\ Write(m).dest = Dest(m) /\ Write(m).tasks = Tasks(m)
      /\ \A t \in Tasks(m) : Write(m).final[t].number = FinalNumber(m, t)
  BY DEF Write
<1> HIDE DEF Write
<1>10. ASSUME NEW p, NEW n, NEW i, CallClaims(m, p, n, i)' PROVE CallClaims(m, p, n, i)
  <2>1. ~ReadClaims(m, p, n, i)' /\ ~AnswerClaims(m, p, n, i)'
    BY <1>1 DEF ReadClaims, AnswerClaims
  <2>2. PlanClaims(m, p, n, i)' => PlanClaims(m, p, n, i)
    BY <1>1 DEF PlanClaims, ListClaims
  <2>3. GivenClaims(m, p, n, i)' => GivenClaims(m, p, n, i)
    BY <1>1, <1>4 DEF GivenClaims, SameNumbers, Dest
  <2>4. SentClaims(m, p, n, i)' => PlanClaims(m, p, n, i) \/ GivenClaims(m, p, n, i)
    BY <1>1, <1>8, <1>9 DEF SentClaims
  <2> QED BY <1>10, <2>1, <2>2, <2>3, <2>4 DEF CallClaims
<1> QED BY <1>6, <1>7, <1>10 DEF NumbersOk, Claims

\* Every step of a call.
LEMMA CallNumbers ==
  ASSUME NInv, NEW m \in Movers, Call(m) PROVE NumbersOk(m)
BY ReturningNumbers, LaterNumbers, ReadNumbers, AskNumbers, ArrivedNumbers, SendNumbers DEF Call

\* Rows that keep their number, or take one that was sent for them.
LEMMA RowsOfBatch ==
  ASSUME TInv, NEW m \in Movers, ApplyBatch(m), NEW p \in Projects, NEW n, NEW i \in Issues, RowClaims(p, n, i)'
  PROVE  RowClaims(p, n, i) \/ SentClaims(m, p, n, i)
<1> DEFINE w == net[m].write
<1>1. BatchUnderWay(m) /\ issue' = BatchApplied(w) /\ issue[i] \in Rows
  BY DEF ApplyBatch, BatchUnderWay, TInv, TypeOK
<1>2. CASE i \in w.tasks
  <2>1. issue'[i] = TaskAfter(w, i)
    BY <1>1, <1>2 DEF BatchApplied
  <2>2. issue'[i].space = w.dest /\ issue'[i].number = w.final[i].number
    BY <1>1, <2>1 DEF TaskAfter, Rows
  <2> QED BY <1>1, <1>2, <2>2 DEF RowClaims, SentClaims
<1>3. CASE i \notin w.tasks
  <2>1. issue'[i] = AncestorAfter(w, i)
    BY <1>1, <1>3 DEF BatchApplied
  <2>2. issue'[i].space = issue[i].space /\ issue'[i].number = issue[i].number
    BY <1>1, <2>1 DEF AncestorAfter, Rows
  <2> QED BY <2>2 DEF RowClaims
<1> QED BY <1>2, <1>3

\* Steps of the server: only the sequence gives new numbers, each to one issue.
LEMMA ServerNumbers ==
  ASSUME NInv, Server PROVE (\A n \in Movers : Accounted(n)' /\ Placed(n)') /\ Unique' /\ Bounded'
<1>0. TInv /\ StepsTyped /\ Tables /\ Unique /\ Bounded /\ sequence \in [Projects -> Nat] /\ issue \in [Issues -> Rows]
      /\ \A n \in Movers : Reports(n) /\ Accounted(n) /\ Placed(n)
  BY DEF NInv, RInv, TInv, TypeOK
<1>1. ASSUME UNCHANGED calls, NEW n \in Movers, net'[n] = net[n], reply'[n] = reply[n], drawn'[n] = drawn[n]
      PROVE  Accounted(n)' /\ Placed(n)' /\ \A p, k, i : CallClaims(n, p, k, i)' => CallClaims(n, p, k, i)
  BY <1>0, <1>1, NumbersStay DEF calls, reads
<1>2. ASSUME NEW i \in Issues, Edit(i) \/ RefreshInformation(i)
      PROVE  (\A n \in Movers : Accounted(n)' /\ Placed(n)') /\ Unique' /\ Bounded'
  <2>1. UNCHANGED <<wire, calls>> /\ sequence' = sequence
    BY <1>2 DEF Edit, RefreshInformation
  <2>2. \A j \in Issues : issue'[j].space = issue[j].space /\ issue'[j].number = issue[j].number
    BY <1>0, <1>2 DEF Edit, RefreshInformation, Rows
  <2>3. ASSUME NEW n \in Movers
        PROVE  Accounted(n)' /\ Placed(n)' /\ \A p, k, j : CallClaims(n, p, k, j)' => CallClaims(n, p, k, j)
    BY <1>1, <2>1 DEF wire
  <2>4. \A p \in Projects, k \in Numbers, j \in Issues : Claims(p, k, j)' => Claims(p, k, j)
    BY <2>2, <2>3 DEF Claims, RowClaims
  <2>5. Unique' /\ Bounded'
    BY <1>0, <2>1, <2>4 DEF Unique, Bounded
  <2> QED BY <2>3, <2>5
<1>3. ASSUME NEW i \in Issues, NEW p \in Issues, CreateChild(i, p)
      PROVE  (\A n \in Movers : Accounted(n)' /\ Placed(n)') /\ Unique' /\ Bounded'
  <2> DEFINE q == issue[p].space
             born == [issue[i] EXCEPT !.attachedTo = p, !.space = q, !.number = sequence[q] + 1]
             up == Ancestry([issue EXCEPT ![i] = born], i)
  <2>1. /\ UNCHANGED <<wire, calls>> /\ q \in Projects /\ i # p /\ sequence' = [sequence EXCEPT ![q] = @ + 1]
        /\ issue' = [issue EXCEPT ![p].subIssues = @ + 1, ![i] = [born EXCEPT !.parents = up]]
    BY <1>0, <1>3 DEF CreateChild, Exists, Rows
  <2> HIDE DEF up
  <2>2. /\ issue'[i].space = q /\ issue'[i].number = sequence[q] + 1
        /\ \A j \in Issues \ {i} : issue'[j].space = issue[j].space /\ issue'[j].number = issue[j].number
    BY <1>0, <2>1 DEF Rows
  <2> HIDE DEF q, born
  <2>3. ASSUME NEW n \in Movers
        PROVE  Accounted(n)' /\ Placed(n)' /\ \A r, k, j : CallClaims(n, r, k, j)' => CallClaims(n, r, k, j)
    BY <1>1, <2>1 DEF wire
  <2>4. \A r \in Projects, k \in Numbers, j \in Issues :
          Claims(r, k, j)' => Claims(r, k, j) \/ (r = q /\ k = sequence[q] + 1 /\ j = i)
    BY <2>2, <2>3 DEF Claims, RowClaims
  <2>5. q \in Projects /\ sequence' = [sequence EXCEPT ![q] = @ + 1]
    BY <2>1
  <2>6. Unique /\ Bounded /\ sequence \in [Projects -> Nat]
    BY <1>0
  <2>7. Unique' /\ Bounded'
    BY <2>4, <2>5, <2>6, NextNumber
  <2> QED BY <2>3, <2>7
<1>4. ASSUME NEW m \in Movers, GiveNumber(m)
      PROVE  (\A n \in Movers : Accounted(n)' /\ Placed(n)') /\ Unique' /\ Bounded'
  <2> DEFINE q == net[m].write
             v == sequence[q] + 1
  <2>1. net[m] # None /\ net[m].kind = "allocate" /\ q \in Projects
    BY <1>0, <1>4 DEF GiveNumber, Asks, TInv, TypeOK, RecordsTyped, RequestTyped
  <2>2. /\ UNCHANGED <<issue, calls>> /\ sequence' = [sequence EXCEPT ![q] = @ + 1] /\ v \in Nat
        /\ drawn'[m] = drawn[m] \union {v} /\ net'[m] = None
        /\ reply'[m] = IF pc[m] \in {"allocating", "committing"} THEN [kind |-> "number", value |-> v] ELSE reply[m]
        /\ \A n \in Movers \ {m} : net'[n] = net[n] /\ reply'[n] = reply[n] /\ drawn'[n] = drawn[n]
    BY <1>0, <1>4, <2>1 DEF GiveNumber, Answer, StepsTyped, Tables
  <2>3. /\ Undecided(m) /\ drawn[m] = KnownNumbers(m) /\ pc[m] \in {"allocating", "done"}
        /\ pc[m] = "allocating" => q = Dest(m)
    BY <1>0, <2>1 DEF Accounted, Asks
  <2>4. PICK t \in Issues \ DOMAIN exec[m].confirmed : exec[m].uncertain = {t}
    BY <1>0, <2>3 DEF Accounted
  <2> HIDE DEF q, v
  <2>5. SameNumbers(m) /\ KnownNumbers(m)' = KnownNumbers(m) /\ Undecided(m)' /\ UNCHANGED <<pc, pass, sel, hier, plan, exec>>
    <3>1. UNCHANGED <<pc, pass, sel, hier, plan, exec>>
      BY <2>2 DEF calls, reads
    <3> QED BY <2>3, <3>1, NumbersKept DEF Undecided
  <2>6. Accounted(m)'
    <3>1. drawn'[m] = KnownNumbers(m)' \union {v} /\ (pc'[m] = "allocating" => reply'[m].value = v)
      BY <2>2, <2>3, <2>5
    <3>2. \E x \in Nat : drawn'[m] \subseteq KnownNumbers(m)' \union {x}
      BY <2>2, <3>1
    <3> QED BY <2>2, <2>3, <2>4, <2>5, <3>1, <3>2 DEF Accounted, Asks
  <2>7. Placed(m)'
    BY <1>0, <2>5 DEF Placed, Source, Dest
  <2>8. \A r, k, j : CallClaims(m, r, k, j)' => CallClaims(m, r, k, j) \/ (r = q /\ k = v /\ j = t)
    <3>1. \A r, k, j : AnswerClaims(m, r, k, j)' => r = q /\ k = v /\ j = t
      BY <2>2, <2>3, <2>4, <2>5 DEF AnswerClaims, Dest
    <3>2. \A r, k, j : ~SentClaims(m, r, k, j)'
      BY <2>2 DEF SentClaims, BatchUnderWay, Asks
    <3>3. \A r, k, j : /\ ReadClaims(m, r, k, j)' => ReadClaims(m, r, k, j)
                       /\ PlanClaims(m, r, k, j)' => PlanClaims(m, r, k, j)
                       /\ GivenClaims(m, r, k, j)' => GivenClaims(m, r, k, j)
      BY <2>5 DEF ReadClaims, PlanClaims, GivenClaims, ListClaims, SameNumbers, Dest
    <3> QED BY <3>1, <3>2, <3>3 DEF CallClaims
  <2>9. ASSUME NEW n \in Movers \ {m}
        PROVE  Accounted(n)' /\ Placed(n)' /\ \A r, k, j : CallClaims(n, r, k, j)' => CallClaims(n, r, k, j)
    BY <1>1, <2>2
  <2>10. \A r \in Projects, k \in Numbers, j \in Issues :
           Claims(r, k, j)' => Claims(r, k, j) \/ (r = q /\ k = sequence[q] + 1 /\ j = t)
    BY <2>2, <2>8, <2>9 DEF Claims, RowClaims, v
  <2>11. q \in Projects /\ t \in Issues /\ sequence' = [sequence EXCEPT ![q] = @ + 1]
    BY <2>1, <2>2, <2>4
  <2>12. Unique /\ Bounded /\ sequence \in [Projects -> Nat]
    BY <1>0
  <2>13. Unique' /\ Bounded'
    <3>1. ASSUME NEW x \in Projects, x = q, NEW w \in Issues, w = t PROVE Unique' /\ Bounded'
      <4>1. sequence' = [sequence EXCEPT ![x] = @ + 1]
        BY <2>11, <3>1
      <4>2. \A r \in Projects, k \in Numbers, j \in Issues :
              Claims(r, k, j)' => Claims(r, k, j) \/ (r = x /\ k = sequence[x] + 1 /\ j = w)
        BY <2>10, <3>1
      <4> QED BY <2>12, <4>1, <4>2, NextNumber
    <3> QED BY <2>11, <3>1
  <2> QED BY <2>6, <2>7, <2>9, <2>13
<1>5. ASSUME NEW m \in Movers, RefuseBatch(m) \/ AdmitBatch(m) \/ ApplyBatch(m)
      PROVE  (\A n \in Movers : Accounted(n)' /\ Placed(n)') /\ Unique' /\ Bounded'
  <2>1. /\ UNCHANGED <<sequence, drawn, calls>> /\ BatchUnderWay(m) /\ net[m].kind # "allocate"
        /\ \A n \in Movers \ {m} : net'[n] = net[n] /\ reply'[n] = reply[n]
    BY <1>0, <1>5 DEF RefuseBatch, AdmitBatch, ApplyBatch, Answer, Tables, server, BatchUnderWay, Asks
  <2>2. net'[m] = None \/ (net'[m].write = net[m].write /\ net'[m].kind # "allocate")
    <3>1. CASE AdmitBatch(m)
      <4>1. DOMAIN net[m] = {"kind", "write"}
        BY <1>0, <3>1 DEF AdmitBatch, TInv, CallTyped
      <4>2. net'[m] = [net[m] EXCEPT !.kind = "admitted"]
        BY <1>0, <3>1 DEF AdmitBatch, Tables
      <4> QED BY <4>1, <4>2
    <3>2. CASE RefuseBatch(m) \/ ApplyBatch(m)
      BY <1>0, <3>2 DEF RefuseBatch, ApplyBatch, Answer, Tables
    <3> QED BY <1>5, <3>1, <3>2
  <2>3. pc[m] # "allocating" /\ ~Asks(m, "allocate")
    BY <1>0, <2>1 DEF Reports, BeforeBatch, BatchUnderWay, Asks
  <2>4. UNCHANGED <<pc, pass, sel, hier, plan, exec>>
    BY <2>1 DEF calls, reads
  <2>5. SameNumbers(m) /\ KnownNumbers(m)' = KnownNumbers(m) /\ (Undecided(m)' <=> Undecided(m))
    BY <2>4, NumbersKept DEF Undecided
  <2>6. Accounted(m)'
    <3>1. Accounted(m)
      BY <1>0
    <3>2. ~Asks(m, "allocate")'
      BY <2>2 DEF Asks
    <3> QED BY <2>1, <2>3, <2>4, <2>5, <3>1, <3>2 DEF Accounted
  <2>7. Placed(m)'
    BY <1>0, <2>4 DEF Placed, Source, Dest
  <2>8. \A r, k, j : CallClaims(m, r, k, j)' => CallClaims(m, r, k, j)
    <3>1. \A r, k, j : ~AnswerClaims(m, r, k, j)'
      BY <2>3, <2>4 DEF AnswerClaims
    <3>2. \A r, k, j : SentClaims(m, r, k, j)' => SentClaims(m, r, k, j)
      BY <2>1, <2>2 DEF SentClaims, BatchUnderWay, Asks
    <3>3. \A r, k, j : /\ ReadClaims(m, r, k, j)' => ReadClaims(m, r, k, j)
                       /\ PlanClaims(m, r, k, j)' => PlanClaims(m, r, k, j)
                       /\ GivenClaims(m, r, k, j)' => GivenClaims(m, r, k, j)
      BY <2>4, <2>5 DEF ReadClaims, PlanClaims, GivenClaims, ListClaims, SameNumbers, Dest
    <3> QED BY <3>1, <3>2, <3>3 DEF CallClaims
  <2>9. ASSUME NEW n \in Movers \ {m}
        PROVE  Accounted(n)' /\ Placed(n)' /\ \A r, k, j : CallClaims(n, r, k, j)' => CallClaims(n, r, k, j)
    BY <1>1, <2>1
  <2>10. ASSUME NEW p \in Projects, NEW k, NEW j \in Issues, RowClaims(p, k, j)'
         PROVE  RowClaims(p, k, j) \/ SentClaims(m, p, k, j)
    <3>1. CASE ApplyBatch(m)
      BY <1>0, <2>10, <3>1, RowsOfBatch
    <3>2. CASE RefuseBatch(m) \/ AdmitBatch(m)
      BY <2>10, <3>2 DEF RefuseBatch, AdmitBatch, server, RowClaims
    <3> QED BY <1>5, <3>1, <3>2
  <2>11. \A p \in Projects, k \in Numbers, j \in Issues : Claims(p, k, j)' => Claims(p, k, j)
    BY <2>8, <2>9, <2>10 DEF Claims, CallClaims
  <2>12. Unique' /\ Bounded'
    BY <1>0, <2>1, <2>11 DEF Unique, Bounded
  <2> QED BY <2>6, <2>7, <2>9, <2>12
<1> QED BY <1>2, <1>3, <1>4, <1>5 DEF Server

LEMMA NumbersStep == ASSUME NInv, [Next]_vars PROVE NInv'
<1>0. RInv' /\ TInv /\ \A n \in Movers : Accounted(n) /\ Placed(n)
  BY ReportsStep DEF NInv, RInv
<1>1. CASE Server
  BY <1>0, <1>1, ServerNumbers DEF NInv
<1>2. ASSUME NEW m \in Movers, Call(m) PROVE NInv'
  <2>1. Alone(m) /\ drawn' = drawn /\ NumbersOk(m)
    BY <1>0, <1>2, TypedCall, CallLeaves, CallNumbers DEF Mine
  <2>2. UNCHANGED <<issue, sequence>>
    BY <1>2 DEF Call, Begin, ReadSource, ReadTarget, ReadLevel, Prepared, Conflicting, Reinspected, NotAdmitted, Presend,
         ReadFails, AskNumber, NumberUnsent, NumberArrives, NumberLost, Send, CommitUnsent, CommitUnparsable, CommitLost,
         CommitRefused, CommitApplied, VerifyHierarchy, VerifyTasks, Observed, VerifyAgain, Verified, VerificationFails,
         Deadline, server
  <2>3. ASSUME NEW n \in Movers \ {m}
        PROVE  Accounted(n)' /\ Placed(n)' /\ \A p, k, i : CallClaims(n, p, k, i)' => CallClaims(n, p, k, i)
    BY <1>0, <2>1, NumbersStay DEF Alone
  <2>4. \A p, k, i : Claims(p, k, i)' => Claims(p, k, i)
    BY <2>1, <2>2, <2>3 DEF NumbersOk, Claims, RowClaims
  <2>5. Unique' /\ Bounded'
    BY <2>2, <2>4 DEF NInv, Unique, Bounded
  <2> QED BY <1>0, <2>1, <2>3, <2>5 DEF NumbersOk, NInv
<1>3. CASE UNCHANGED vars
  <2>1. UNCHANGED <<issue, sequence, pc, pass, sel, hier, plan, exec, net, reply, drawn>>
    BY <1>3 DEF vars, server, wire, calls, reads
  <2>2. ASSUME NEW n \in Movers
        PROVE  Accounted(n)' /\ Placed(n)' /\ \A p, k, i : CallClaims(n, p, k, i)' => CallClaims(n, p, k, i)
    BY <1>0, <2>1, NumbersStay
  <2>3. \A p, k, i : Claims(p, k, i)' => Claims(p, k, i)
    BY <2>1, <2>2 DEF Claims, RowClaims
  <2>4. Unique' /\ Bounded'
    BY <2>1, <2>3 DEF NInv, Unique, Bounded
  <2> QED BY <1>0, <2>2, <2>4 DEF NInv
<1> QED BY <1>1, <1>2, <1>3 DEF Next

LEMMA NumbersAtStart == Init => NInv
<1> SUFFICES ASSUME Init PROVE NInv
  OBVIOUS
<1>1. RInv
  BY ReportsAtStart
<1>2. ASSUME NEW m \in Movers
      PROVE  Accounted(m) /\ Placed(m) /\ \A p, n, i : ~CallClaims(m, p, n, i)
  <2>1. exec[m] = None /\ drawn[m] = {} /\ net[m] = None /\ pc[m] = "start" /\ pass[m] = "prepare"
    BY DEF Init
  <2>2. KnownNumbers(m) = {} /\ ~Undecided(m)
    BY <2>1 DEF KnownNumbers, Confirmed, Now, Undecided
  <2> QED BY <2>1, <2>2 DEF Accounted, Asks, Placed, CallClaims, ReadClaims, PlanClaims, GivenClaims, AnswerClaims,
            SentClaims, BatchUnderWay
<1>3. \A i \in Issues : issue[i].number = i
  <2>1. PICK f \in Forests, where \in [Issues -> Home \union {Nowhere}], wrong \in SUBSET Stale :
          issue = [i \in Issues |-> IF i \in wrong THEN [Settled(f, where)[i] EXCEPT !.parents = {}]
                                    ELSE Settled(f, where)[i]]
    BY DEF Init
  <2>2. ASSUME NEW i \in Issues PROVE issue[i].number = i
    <3> DEFINE bare == [j \in Issues |-> [attachedTo |-> f[j], space |-> where[j], number |-> j]]
               up == Ancestry(bare, i)
               below == Below(bare, i) \ {i}
               children == Cardinality({c \in Issues : f[c] = i})
    <3>1. Settled(f, where)[i] = [attachedTo |-> f[i], space |-> where[i], modifiedOn |-> 0, subIssues |-> children,
                                  number |-> i, parents |-> up, childInfo |-> below]
      BY DEF Settled
    <3> HIDE DEF up, below, children
    <3>2. issue[i] = Settled(f, where)[i] \/ issue[i] = [Settled(f, where)[i] EXCEPT !.parents = {}]
      BY <2>1
    <3> QED BY <3>1, <3>2
  <2> QED BY <2>2
<1>4. \A p, n, i : Claims(p, n, i) => RowClaims(p, n, i)
  BY <1>2 DEF Claims
<1>5. Unique /\ Bounded
  BY <1>3, <1>4 DEF Unique, Bounded, RowClaims
<1> QED BY <1>1, <1>2, <1>5 DEF NInv

\* On any server, with any faults and whatever runs beside a call: no number that was
\* taken from a project is lost from the evidence, and no two issues of a project
\* ever have the same one.
THEOREM EveryNumberAccounted == Spec => []NumbersAccounted
<1>1. Init => NInv
  BY NumbersAtStart
<1>2. NInv /\ [Next]_vars => NInv'
  BY NumbersStep
<1>3. NInv => NumbersAccounted
  <2> SUFFICES ASSUME NInv PROVE NumbersAccounted
    OBVIOUS
  <2>1. ASSUME NEW m \in Movers
        PROVE  /\ KnownNumbers(m) \subseteq drawn[m]
               /\ Cardinality(drawn[m] \ KnownNumbers(m)) <= (IF exec[m] = None THEN 0 ELSE Cardinality(exec[m].uncertain))
    <3>1. Accounted(m)
      BY DEF NInv
    <3>2. IsFiniteSet({}) /\ Cardinality({}) = 0
      BY FS_EmptySet
    <3>3. CASE Undecided(m)
      <4>1. PICK t \in Issues : exec[m].uncertain = {t}
        BY <3>1, <3>3 DEF Accounted
      <4>2. PICK v \in Nat : drawn[m] \ KnownNumbers(m) \subseteq {v}
        BY <3>1, <3>3 DEF Accounted
      <4>3. Cardinality({t}) = 1 /\ Cardinality({v}) = 1 /\ IsFiniteSet({v})
        BY FS_Singleton
      <4>4. Cardinality(drawn[m] \ KnownNumbers(m)) <= Cardinality({v})
        BY <4>2, <4>3, FS_Subset
      <4> QED BY <3>1, <3>3, <4>1, <4>3, <4>4 DEF Accounted, Undecided
    <3>4. CASE ~Undecided(m)
      <4>1. drawn[m] = KnownNumbers(m)
        BY <3>1, <3>4 DEF Accounted
      <4>2. drawn[m] \ KnownNumbers(m) = {}
        BY <4>1
      <4>3. exec[m] # None => exec[m].uncertain = {}
        BY <3>4 DEF Undecided
      <4> QED BY <3>2, <4>1, <4>2, <4>3
    <3> QED BY <3>3, <3>4
  <2>2. ASSUME NEW i \in Issues, NEW j \in Issues, i # j, Exists(i), issue[i].space = issue[j].space
        PROVE  issue[i].number # issue[j].number
    <3>1. issue[i] \in Rows
      BY DEF NInv, RInv, TInv, TypeOK
    <3>2. issue[i].space \in Projects /\ issue[i].number \in Numbers
      BY <2>2, <3>1 DEF Rows, Exists
    <3>3. Claims(issue[i].space, issue[i].number, i)
      BY DEF Claims, RowClaims
    <3>4. issue[i].number = issue[j].number => Claims(issue[i].space, issue[i].number, j)
      BY <2>2 DEF Claims, RowClaims
    <3> QED BY <2>2, <3>2, <3>3, <3>4 DEF NInv, Unique
  <2> QED BY <2>1, <2>2 DEF NumbersAccounted, KnownNumbers
<1> QED BY <1>1, <1>2, <1>3, PTL DEF Spec

-----------------------------------------------------------------------------
(* What rows cache of other rows, on a server that checks and applies a     *)
(* batch in one step.                                                       *)

\* A row somebody holds is not newer than the issue, and no older without it showing.
Current(r, i) ==
  /\ Exists(i) /\ r.modifiedOn <= issue[i].modifiedOn
  /\ r.modifiedOn = issue[i].modifiedOn => r.number = issue[i].number
CurrentMap(f) == \A i \in DOMAIN f : Current(f[i], i)

\* Rows to plan from: they hold every ancestor, and list what is below each.
ReachesUp(rows) == \A i \in DOMAIN rows : rows[i].attachedTo \in DOMAIN rows \union {NoParent}
ListsBelow(rows) == \A a \in DOMAIN rows : Below(rows, a) \ {a} \subseteq rows[a].childInfo
Trusted(rows) == CurrentMap(rows) /\ ReachesUp(rows) /\ ListsBelow(rows)

\* The rows a batch plans, read off the batch itself.
PlannedBy(w) ==
  [i \in DOMAIN w.rows |->
     IF i \notin w.tasks THEN w.rows[i]
     ELSE [w.rows[i] EXCEPT !.attachedTo = w.final[i].attachedTo, !.space = w.dest,
                            !.number = w.final[i].number]]

BatchExact(w) ==
  Trusted(w.rows) /\ \A t \in w.tasks : w.final[t].parents = Ancestry(PlannedBy(w), t)

\* What a call has read, plans and asks for.
CallExact(m) ==
  /\ pc[m] \in {"target", "tree"} => CurrentMap(hier[m].source) /\ CurrentMap(hier[m].target)
  /\ pc[m] \notin {"start", "done"} /\ pass[m] # "prepare" => Trusted(plan[m].rows)
  /\ Asks(m, "batch") => BatchExact(net[m].write)

Children(i) == {c \in Issues : issue[c].attachedTo = i}
CountsExact == \A i \in Issues : issue[i].subIssues = Cardinality(Children(i))
AncestryExact == \A i \in rewritten : Exists(i) /\ issue[i].parents = Ancestry(issue, i)
AggregatesSound == \A i \in Issues : issue[i].childInfo \subseteq Below(issue, i)

ServerExact == CountsExact /\ AncestryExact /\ AggregatesSound
XInv == IInv /\ Sound /\ TInv /\ ServerExact /\ \A m \in Movers : CallExact(m)

\* The way up from an issue of a set that holds the parents of its own stays inside.
LEMMA AboveWithin ==
  ASSUME NEW f, NEW D \in SUBSET DOMAIN f, NEW p \in D,
         \A d \in D : f[d].attachedTo \in DOMAIN f => f[d].attachedTo \in D
  PROVE  Above(f, p) \subseteq D
  BY DEF Above

\* Two maps that agree on such a set agree on every way up inside it.
LEMMA AboveAgrees ==
  ASSUME NEW f, NEW g, NEW D \in SUBSET (DOMAIN f \intersect DOMAIN g), NEW p \in D,
         \A d \in D : /\ g[d].attachedTo = f[d].attachedTo
                      /\ f[d].attachedTo \in DOMAIN f \union DOMAIN g => f[d].attachedTo \in D
  PROVE  Above(f, p) \subseteq Above(g, p)
<1> SUFFICES ASSUME NEW a \in Above(f, p) PROVE a \in Above(g, p)
  OBVIOUS
<1>1. a \in D
  BY AboveWithin
<1> SUFFICES ASSUME NEW T \in SUBSET DOMAIN g, p \in T,
                    \A s \in T : g[s].attachedTo \in DOMAIN g => g[s].attachedTo \in T
             PROVE  a \in T
  BY <1>1 DEF Above
<1> DEFINE S == T \intersect D
<1>2. S \in SUBSET DOMAIN f /\ p \in S
  OBVIOUS
<1>3. \A s \in S : f[s].attachedTo \in DOMAIN f => f[s].attachedTo \in S
  OBVIOUS
<1> HIDE DEF S
<1>4. a \in S
  BY <1>2, <1>3 DEF Above
<1> QED BY <1>4 DEF S

\* And so on the ancestry they give an issue of it.
LEMMA AncestryAgrees ==
  ASSUME NEW f, NEW g, NEW D \in SUBSET (DOMAIN f \intersect DOMAIN g), NEW i \in D,
         \A d \in D : /\ g[d].attachedTo = f[d].attachedTo /\ g[d].space = f[d].space
                      /\ g[d].number = f[d].number
                      /\ f[d].attachedTo \in DOMAIN f \union DOMAIN g => f[d].attachedTo \in D
  PROVE  Ancestry(f, i) = Ancestry(g, i) /\ Above(f, f[i].attachedTo) = Above(g, g[i].attachedTo)
<1> DEFINE p == f[i].attachedTo
<1>1. g[i].attachedTo = p
  OBVIOUS
<1>2. Above(f, p) = Above(g, p) /\ Above(f, p) \subseteq D
  <2>1. CASE p \in D
    <3> HIDE DEF p
    <3>1. Above(f, p) \subseteq Above(g, p)
      BY <2>1, AboveAgrees
    <3>2. Above(g, p) \subseteq Above(f, p)
      BY <2>1, AboveAgrees
    <3>3. Above(f, p) \subseteq D
      BY <2>1, AboveWithin
    <3> QED BY <3>1, <3>2, <3>3
  <2>2. CASE p \notin D
    <3>1. p \notin DOMAIN f /\ p \notin DOMAIN g
      BY <2>2
    <3> QED BY <3>1 DEF Above
  <2> QED BY <2>1, <2>2
<1> HIDE DEF p
<1>3. \A a \in Above(f, p) : f[a].space = g[a].space /\ f[a].number = g[a].number
  BY <1>2
<1>4. {[id |-> a, space |-> f[a].space, number |-> f[a].number] : a \in Above(f, p)}
        = {[id |-> a, space |-> g[a].space, number |-> g[a].number] : a \in Above(g, p)}
  BY <1>2, <1>3
<1> QED BY <1>1, <1>2, <1>4 DEF Ancestry, p

\* The way up includes the parent of everything on it.
LEMMA AboveCloses ==
  ASSUME NEW f, NEW p, NEW a \in Above(f, p), f[a].attachedTo \in DOMAIN f
  PROVE  f[a].attachedTo \in Above(f, p)
  BY DEF Above

\* What is above an issue has it below.
LEMMA BelowOfAbove ==
  ASSUME NEW rows, NEW t \in DOMAIN rows, NEW a \in Above(rows, rows[t].attachedTo)
  PROVE  t \in Below(rows, a)
<1> SUFFICES ASSUME NEW S \in SUBSET DOMAIN rows, a \in S, t \notin S,
                    \A c \in DOMAIN rows : rows[c].attachedTo \in S => c \in S
             PROVE  FALSE
  BY DEF Below
<1> DEFINE U == DOMAIN rows \ S
<1>1. U \in SUBSET DOMAIN rows /\ rows[t].attachedTo \in U
  BY DEF Above
<1>2. \A s \in U : rows[s].attachedTo \in DOMAIN rows => rows[s].attachedTo \in U
  OBVIOUS
<1> HIDE DEF U
<1>3. a \in U
  BY <1>1, <1>2, AboveWithin
<1> QED BY <1>3 DEF U

\* More attachments below, or the same, put no less below an issue.
LEMMA BelowGrows ==
  ASSUME NEW f, NEW g, DOMAIN f = DOMAIN g, NEW a,
         \A c \in DOMAIN f : f[c].attachedTo \in DOMAIN f => g[c].attachedTo = f[c].attachedTo
  PROVE  Below(f, a) \subseteq Below(g, a)
<1> SUFFICES ASSUME NEW d \in Below(f, a), NEW S \in SUBSET DOMAIN g, a \in S,
                    \A c \in DOMAIN g : g[c].attachedTo \in S => c \in S
             PROVE  d \in S
  BY DEF Below
<1>1. \A c \in DOMAIN f : f[c].attachedTo \in S => c \in S
  OBVIOUS
<1> QED BY <1>1 DEF Below

\* A clean inspection reads rows that can be planned from.
LEMMA CleanIsTrusted ==
  ASSUME IInv, TInv, NEW m \in Movers, CallExact(m), pc[m] = "tree", InspectionClean(m)
  PROVE  Trusted(Inspected(m).rows)
<1> DEFINE R == ById(hier[m])
           rel == RelatedIds(m)
           rows == Inspected(m).rows
           up == Above(R, sel[m].rootRow.attachedTo)
           over == Above(R, sel[m].parentRow.attachedTo)
<1>1. rows = [i \in rel |-> R[i]] /\ rel \subseteq DOMAIN R
  BY DEF Inspected, InspectionClean, RowsAgree
<1>2. MapsTyped(hier[m])
  BY DEF TInv, CallTyped
<1>3. CurrentMap(rows)
  <2>1. CurrentMap(hier[m].source) /\ CurrentMap(hier[m].target)
    BY DEF CallExact
  <2>2. \A i \in DOMAIN R : Current(R[i], i)
    BY <2>1 DEF CurrentMap, ById, Known
  <2> HIDE DEF R, rel, rows
  <2> QED BY <1>1, <2>2 DEF CurrentMap
<1>4. \A i \in rel : R[i].attachedTo = NoParent \/ R[i].attachedTo \in DOMAIN R
  <2>1. \A i \in rel : ChainReachesTop(R, i)
    BY DEF InspectionClean, Orderly
  <2> QED BY <2>1 DEF ChainReachesTop, Above
<1>5. ASSUME NEW i \in rel, R[i].attachedTo \in DOMAIN R PROVE R[i].attachedTo \in rel
  <2>1. CASE i \in DOMAIN tree[m] /\ i # Root(m)
    <3>1. HangTogether(DOMAIN tree[m], tree[m], Root(m))
      BY DEF IInv, CallOk, WalkOk
    <3>2. tree[m][i].attachedTo \in DOMAIN tree[m] /\ R[i] = tree[m][i]
      BY <2>1, <3>1 DEF HangTogether, InspectionClean, RowsAgree
    <3> QED BY <3>2 DEF RelatedIds
  <2>2. CASE i = Root(m)
    <3>1. R[i] = sel[m].rootRow
      BY <2>2 DEF InspectionClean, RowsAgree
    <3>2. R[i].attachedTo \in up
      BY <1>5, <3>1 DEF Above
    <3> QED BY <3>2 DEF RelatedIds
  <2>3. CASE i \in up
    <3>1. R[i].attachedTo \in up
      BY <1>5, <2>3, AboveCloses
    <3> QED BY <3>1 DEF RelatedIds
  <2>4. CASE sel[m].parent # NoParent /\ i = sel[m].parent
    <3>1. R[i] = sel[m].parentRow
      BY <2>4 DEF InspectionClean, RowsAgree
    <3>2. R[i].attachedTo \in over
      BY <1>5, <3>1 DEF Above
    <3> QED BY <2>4, <3>2 DEF RelatedIds
  <2>5. CASE sel[m].parent # NoParent /\ i \in over
    <3>1. R[i].attachedTo \in over
      BY <1>5, <2>5, AboveCloses
    <3> QED BY <2>5, <3>1 DEF RelatedIds
  <2> QED BY <2>1, <2>2, <2>3, <2>4, <2>5 DEF RelatedIds
<1>6. ReachesUp(rows)
  <2> HIDE DEF R, rel, rows
  <2> QED BY <1>1, <1>4, <1>5 DEF ReachesUp
<1>7. ListsBelow(rows)
  <2>1. \A a \in rel : R[a].childInfo = Below(R, a) \ {a}
    BY DEF InspectionClean, Orderly
  <2> HIDE DEF R, rel, rows
  <2>2. ASSUME NEW a \in rel PROVE Below(rows, a) \subseteq Below(R, a)
    <3> SUFFICES ASSUME NEW d \in Below(rows, a), NEW S \in SUBSET DOMAIN R, a \in S,
                        \A c \in DOMAIN R : R[c].attachedTo \in S => c \in S
                 PROVE  d \in S
      BY <1>1 DEF Below
    <3> DEFINE T == S \intersect rel
    <3>1. T \in SUBSET DOMAIN rows /\ a \in T /\ \A c \in DOMAIN rows : rows[c].attachedTo \in T => c \in T
      BY <1>1
    <3> HIDE DEF T
    <3>2. d \in T
      BY <3>1 DEF Below
    <3> QED BY <3>2 DEF T
  <2> QED BY <1>1, <2>1, <2>2 DEF ListsBelow
<1> QED BY <1>3, <1>6, <1>7 DEF Trusted

\* The batch a call sends plans what the call has planned.
LEMMA WriteIsExact ==
  ASSUME IInv, TInv, NEW m \in Movers, CallExact(m), pc[m] = "commit"
  PROVE  BatchExact(Write(m))
<1>1. pass[m] # "prepare"
  BY DEF TInv, CallTyped
<1>2. Trusted(plan[m].rows)
  BY <1>1 DEF CallExact
<1>3. /\ Write(m).rows = plan[m].rows /\ Write(m).tasks = Tasks(m) /\ Write(m).dest = Dest(m)
      /\ \A t \in Tasks(m) : /\ Write(m).final[t].attachedTo = FinalParent(m, t)
                             /\ Write(m).final[t].number = FinalNumber(m, t)
                             /\ Write(m).final[t].parents = Ancestry(Planned(m), t)
  BY DEF Write
<1>4. PlannedBy(Write(m)) = Planned(m)
  BY <1>3 DEF PlannedBy, Planned
<1> QED BY <1>2, <1>3, <1>4 DEF BatchExact

\* A step of a call that reads no inventory, plans nothing and sends no batch.
Quiet(m) ==
  /\ pc'[m] \in {"target", "tree"} => pc[m] \in {"target", "tree"} /\ hier'[m] = hier[m]
  /\ pc'[m] \notin {"start", "done"} /\ pass'[m] # "prepare" =>
       pc[m] \notin {"start", "done"} /\ pass[m] # "prepare" /\ plan'[m] = plan[m]
  /\ (Asks(m, "batch"))' => Asks(m, "batch") /\ net'[m] = net[m]

LEMMA QuietIsExact ==
  ASSUME NEW m \in Movers, CallExact(m), Quiet(m), issue' = issue
  PROVE  CallExact(m)'
<1>1. \A f : CurrentMap(f) => CurrentMap(f)'
  BY DEF CurrentMap, Current, Exists
<1>2. \A rows : Trusted(rows) => Trusted(rows)'
  BY <1>1 DEF Trusted, ReachesUp, ListsBelow
<1>3. (Asks(m, "batch"))' => (BatchExact(net[m].write))'
  <2> SUFFICES ASSUME (Asks(m, "batch"))' PROVE (BatchExact(net[m].write))'
    OBVIOUS
  <2>1. BatchExact(net[m].write) /\ net'[m] = net[m]
    BY DEF Quiet, CallExact
  <2> QED BY <1>2, <2>1 DEF BatchExact, PlannedBy
<1>4. pc'[m] \in {"target", "tree"} => (CurrentMap(hier[m].source) /\ CurrentMap(hier[m].target))'
  BY <1>1 DEF Quiet, CallExact
<1>5. pc'[m] \notin {"start", "done"} /\ pass'[m] # "prepare" => (Trusted(plan[m].rows))'
  BY <1>2 DEF Quiet, CallExact
<1> QED BY <1>3, <1>4, <1>5 DEF CallExact

\* Answering is quiet, and so is a pass that starts once something is planned.
LEMMA ReturnIsQuiet ==
  ASSUME TInv, NEW m \in Movers, NEW what, Return(m, what), net' = net PROVE Quiet(m)
  BY DEF TInv, TypeOK, StepsTyped, Return, Goto, Quiet, Asks

LEMMA PassIsQuiet ==
  ASSUME TInv, NEW m \in Movers, NEW which, StartPass(m, which), plan' = plan, net' = net,
         pc[m] \notin {"start", "done"}, pass[m] # "prepare"
  PROVE  Quiet(m)
  BY DEF TInv, TypeOK, StepsTyped, StartPass, Goto, Quiet, Asks

\* Going on elsewhere is quiet too.
LEMMA GoIsQuiet ==
  ASSUME TInv, NEW m \in Movers, NEW where, Goto(m, where), where \notin {"target", "tree"},
         pass' = pass, plan' = plan, pc[m] \notin {"start", "done"},
         (Asks(m, "batch"))' => Asks(m, "batch") /\ net'[m] = net[m]
  PROVE  Quiet(m)
  BY DEF TInv, TypeOK, StepsTyped, Goto, Quiet

\* Rows read now are as the issues are.
LEMMA NowIsCurrent ==
  ASSUME TInv, NEW S \in SUBSET Issues, \A i \in S : Exists(i)
  PROVE  CurrentMap(Now(S))
<1>1. \A i \in S : issue[i].modifiedOn \in Nat
  BY DEF TInv, TypeOK, Rows
<1> QED BY <1>1 DEF CurrentMap, Current, Now, Exists

\* Reading the two inventories of an inspection.
LEMMA ReadIsExact ==
  ASSUME TInv, NEW m \in Movers, CallExact(m), ReadSource(m) \/ ReadTarget(m)
  PROVE  CallExact(m)'
<1>1. /\ Source(m) \in Projects /\ Dest(m) \in Projects /\ Nowhere \notin Projects /\ pc[m] \notin {"start", "done"}
  BY SelectionThere, ConstantsAssumption DEF ReadSource, ReadTarget
<1>2. issue' = issue /\ UNCHANGED <<pass, plan, net>>
  BY DEF ReadSource, ReadTarget, server, wire
<1>3. \A f : CurrentMap(f) => CurrentMap(f)'
  BY <1>2 DEF CurrentMap, Current, Exists
<1>4. \A rows : Trusted(rows) => Trusted(rows)'
  BY <1>3 DEF Trusted, ReachesUp, ListsBelow
<1>5. (Asks(m, "batch"))' => (BatchExact(net[m].write))'
  BY <1>2, <1>4 DEF CallExact, Asks, BatchExact, PlannedBy
<1>6. pc'[m] \notin {"start", "done"} /\ pass'[m] # "prepare" => (Trusted(plan[m].rows))'
  BY <1>1, <1>2, <1>4 DEF CallExact
<1>7. CurrentMap(hier'[m].source) /\ CurrentMap(hier'[m].target)
  <2> DEFINE A == {i \in Issues : issue[i].space = Source(m)}
             B == {i \in Issues : issue[i].space = Dest(m)}
  <2>1. CurrentMap(Now(A)) /\ CurrentMap(Now(B)) /\ CurrentMap(Now({}))
    <3>1. A \in SUBSET Issues /\ (\A i \in A : Exists(i)) /\ B \in SUBSET Issues /\ (\A i \in B : Exists(i))
      BY <1>1 DEF Exists
    <3> HIDE DEF A, B
    <3> QED BY <3>1, NowIsCurrent
  <2>2. CASE ReadSource(m)
    <3>1. hier'[m].source = Now(A) /\ hier'[m].target = Now({})
      BY <2>2 DEF ReadSource, TInv, Tables
    <3> HIDE DEF A, B
    <3> QED BY <2>1, <3>1
  <2>3. CASE ReadTarget(m)
    <3>1. pc[m] = "target" /\ DOMAIN hier[m] = {"source", "target"}
      BY <2>3 DEF ReadTarget, TInv, CallTyped
    <3>2. hier'[m].source = hier[m].source /\ hier'[m].target = Now(B)
      BY <2>3, <3>1 DEF ReadTarget, TInv, Tables
    <3>3. CurrentMap(hier[m].source)
      BY <3>1 DEF CallExact
    <3> HIDE DEF A, B
    <3> QED BY <2>1, <3>2, <3>3
  <2> QED BY <2>2, <2>3
<1>8. (CurrentMap(hier[m].source) /\ CurrentMap(hier[m].target))'
  BY <1>2, <1>7 DEF CurrentMap, Current, Exists
<1> QED BY <1>5, <1>6, <1>8 DEF CallExact

\* The plan a call takes over is what a clean inspection read.
LEMMA PreparedIsExact ==
  ASSUME IInv, TInv, NEW m \in Movers, CallExact(m), Prepared(m)
  PROVE  CallExact(m)'
<1>1. /\ pc'[m] = "source" /\ plan'[m] = Inspected(m) /\ issue' = issue /\ net' = net
  BY DEF Prepared, StartPass, Goto, TInv, TypeOK, StepsTyped, Tables, server, wire
<1>2. Trusted(Inspected(m).rows)
  BY CleanIsTrusted DEF Prepared
<1>3. \A f : CurrentMap(f) => CurrentMap(f)'
  BY <1>1 DEF CurrentMap, Current, Exists
<1>4. \A rows : Trusted(rows) => Trusted(rows)'
  BY <1>3 DEF Trusted, ReachesUp, ListsBelow
<1>5. (Asks(m, "batch"))' => (BatchExact(net[m].write))'
  BY <1>1, <1>4 DEF CallExact, Asks, BatchExact, PlannedBy
<1> QED BY <1>1, <1>2, <1>4, <1>5 DEF CallExact

\* So is the batch it sends.
LEMMA SendIsExact ==
  ASSUME IInv, TInv, NEW m \in Movers, CallExact(m), Send(m)
  PROVE  CallExact(m)'
<1>1. /\ pc[m] = "commit" /\ pc'[m] = "committing" /\ net'[m] = [kind |-> "batch", write |-> Write(m)]
      /\ issue' = issue /\ pass' = pass /\ plan' = plan
  BY DEF Send, Goto, TInv, TypeOK, StepsTyped, Tables, server
<1>2. BatchExact(Write(m))
  BY <1>1, WriteIsExact
<1>3. \A f : CurrentMap(f) => CurrentMap(f)'
  BY <1>1 DEF CurrentMap, Current, Exists
<1>4. \A rows : Trusted(rows) => Trusted(rows)'
  BY <1>3 DEF Trusted, ReachesUp, ListsBelow
<1>5. BatchExact(net'[m].write)
  BY <1>1, <1>2
<1>6. (BatchExact(net[m].write))'
  BY <1>1, <1>5 DEF BatchExact, Trusted, CurrentMap, Current, Exists, ReachesUp, ListsBelow, PlannedBy
<1> QED BY <1>1, <1>4, <1>6 DEF CallExact

\* Every step of a call.
LEMMA CallIsExact ==
  ASSUME IInv, TInv, NEW m \in Movers, CallExact(m), Call(m)
  PROVE  CallExact(m)'
<1>0. CallTyped(m)
  BY DEF TInv
<1>1. CASE Begin(m)
  <2>1. /\ pc'[m] = "source" /\ pass'[m] = "prepare" /\ issue' = issue /\ net' = net
    BY <1>1 DEF Begin, StartPass, Goto, TInv, TypeOK, StepsTyped, server, wire
  <2>2. Quiet(m)
    BY <2>1 DEF Quiet, Asks
  <2> QED BY <2>1, <2>2, QuietIsExact
<1>2. CASE ReadSource(m) \/ ReadTarget(m)
  BY <1>2, ReadIsExact
<1>3. CASE ReadLevel(m)
  <2>1. Quiet(m) /\ issue' = issue
    BY <1>3 DEF ReadLevel, Quiet, Asks, server, wire
  <2> QED BY <2>1, QuietIsExact
<1>4. CASE Prepared(m)
  BY <1>4, PreparedIsExact
<1>5. CASE Conflicting(m) \/ NotAdmitted(m) \/ ReadFails(m)
  BY <1>5, ReturnIsQuiet, QuietIsExact DEF Conflicting, NotAdmitted, ReadFails, server, wire
<1>6. CASE NumberUnsent(m) \/ NumberLost(m) \/ Observed(m) \/ Verified(m)
  BY <1>6, ReturnIsQuiet, QuietIsExact DEF NumberUnsent, NumberLost, Observed, Verified, server, wire
<1>7. CASE VerificationFails(m) \/ Deadline(m)
  BY <1>7, ReturnIsQuiet, QuietIsExact DEF VerificationFails, Deadline, server, wire
<1>8. CASE Reinspected(m)
  <2>1. /\ pc[m] = "tree" /\ pass[m] = "reinspect" /\ issue' = issue /\ plan' = plan /\ net' = net
    BY <1>8 DEF Reinspected, server, wire
  <2>2. CASE StartPass(m, "verify")
    BY <2>1, <2>2, PassIsQuiet, QuietIsExact
  <2>3. ASSUME NEW where \in {"commit", "allocate"}, Goto(m, where), pass' = pass PROVE CallExact(m)'
    BY <2>1, <2>3, GoIsQuiet, QuietIsExact DEF Asks
  <2> QED BY <1>8, <2>2, <2>3 DEF Reinspected
<1>9. CASE Presend(m)
  <2>1. /\ pc[m] = "tree" /\ pass[m] = "presend" /\ issue' = issue /\ plan' = plan /\ net' = net
    BY <1>9 DEF Presend, server, wire
  <2>2. CASE StartPass(m, "verify")
    BY <2>1, <2>2, PassIsQuiet, QuietIsExact
  <2>3. CASE Goto(m, "commit") /\ pass' = pass
    BY <2>1, <2>3, GoIsQuiet, QuietIsExact DEF Asks
  <2> QED BY <1>9, <2>2, <2>3 DEF Presend
<1>10. ASSUME NEW t \in Issues, AskNumber(m, t) PROVE CallExact(m)'
  <2>1. /\ pc[m] = "allocate" /\ Goto(m, "allocating") /\ issue' = issue /\ plan' = plan /\ pass' = pass
        /\ net' = [net EXCEPT ![m] = [kind |-> "allocate", write |-> Dest(m)]]
    BY <1>10 DEF AskNumber, server
  <2>2. ~(Asks(m, "batch"))'
    BY <2>1 DEF Asks, TInv, Tables
  <2> QED BY <2>1, <2>2, GoIsQuiet, QuietIsExact
<1>11. CASE NumberArrives(m)
  <2>1. /\ pc[m] = "allocating" /\ issue' = issue /\ plan' = plan /\ net' = net
    BY <1>11 DEF NumberArrives, server
  <2>2. CASE StartPass(m, "presend")
    BY <1>0, <2>1, <2>2, PassIsQuiet, QuietIsExact DEF CallTyped
  <2>3. CASE Goto(m, "allocate") /\ pass' = pass
    BY <2>1, <2>3, GoIsQuiet, QuietIsExact DEF Asks
  <2> QED BY <1>11, <2>2, <2>3 DEF NumberArrives
<1>12. CASE Send(m)
  BY <1>12, SendIsExact
<1>13. CASE CommitUnsent(m) \/ CommitUnparsable(m) \/ CommitLost(m)
  BY <1>0, <1>13, PassIsQuiet, QuietIsExact DEF CommitUnsent, CommitUnparsable, CommitLost, CallTyped, server, wire
<1>14. CASE CommitRefused(m) \/ CommitApplied(m) \/ VerifyAgain(m)
  BY <1>0, <1>14, PassIsQuiet, QuietIsExact DEF CommitRefused, CommitApplied, VerifyAgain, CallTyped, server, wire
<1>15. CASE VerifyHierarchy(m) \/ VerifyTasks(m)
  BY <1>15, GoIsQuiet, QuietIsExact DEF VerifyHierarchy, VerifyTasks, Asks, server, wire
<1> QED BY <1>1, <1>2, <1>3, <1>4, <1>5, <1>6, <1>7, <1>8, <1>9, <1>10, <1>11, <1>12, <1>13, <1>14, <1>15 DEF Call

\* What other calls hold stays as good while one takes a step.
LEMMA OthersExact ==
  ASSUME NEW m \in Movers, NEW n \in Movers \ {m}, Alone(m), CallExact(n), issue' = issue
  PROVE  CallExact(n)'
<1>1. Quiet(n)
  BY DEF Alone, Quiet, Asks
<1> QED BY <1>1, QuietIsExact

\* A row only ever gets newer, and a new number shows in it.
Onward ==
  \A i \in Issues : Exists(i) =>
    /\ Exists(i)' /\ issue[i].modifiedOn <= issue'[i].modifiedOn
    /\ issue[i].modifiedOn = issue'[i].modifiedOn => issue'[i].number = issue[i].number

\* What the server does leaves what calls hold good, when rows only get newer.
LEMMA HeldStaysExact ==
  ASSUME TInv, issue' \in [Issues -> Rows], NEW m \in Movers, CallExact(m), Onward, UNCHANGED calls,
         net'[m] = net[m] \/ net'[m] = None
  PROVE  CallExact(m)'
<1>0. CallTyped(m) /\ RecordsTyped(m)
  BY DEF TInv, TypeOK
<1>1. ASSUME NEW f, IsMap(f, Found), CurrentMap(f) PROVE CurrentMap(f)'
  <2> SUFFICES ASSUME NEW i \in DOMAIN f PROVE Current(f[i], i)'
    BY DEF CurrentMap
  <2>1. i \in Issues /\ f[i].modifiedOn \in Nat
    BY <1>1 DEF IsMap, Found, Rows
  <2>2. Current(f[i], i)
    BY <1>1 DEF CurrentMap
  <2>3. issue[i].modifiedOn \in Nat /\ issue'[i].modifiedOn \in Nat
    BY <2>1 DEF TInv, TypeOK, Rows
  <2> QED BY <2>1, <2>2, <2>3 DEF Current, Onward
<1>2. \A rows : IsMap(rows, Found) /\ Trusted(rows) => Trusted(rows)'
  BY <1>1 DEF Trusted, ReachesUp, ListsBelow
<1>3. (Asks(m, "batch"))' => (BatchExact(net[m].write))'
  <2> SUFFICES ASSUME (Asks(m, "batch"))' PROVE (BatchExact(net[m].write))'
    OBVIOUS
  <2>1. net'[m] = net[m] /\ Asks(m, "batch")
    BY DEF Asks
  <2>2. IsMap(net[m].write.rows, Found) /\ BatchExact(net[m].write)
    BY <1>0, <2>1 DEF RecordsTyped, RequestTyped, WriteTyped, Asks, CallExact
  <2> QED BY <1>2, <2>1, <2>2 DEF BatchExact, PlannedBy
<1>4. pc'[m] \in {"target", "tree"} => (CurrentMap(hier[m].source) /\ CurrentMap(hier[m].target))'
  BY <1>0, <1>1 DEF CallTyped, MapsTyped, CallExact, calls, reads
<1>5. pc'[m] \notin {"start", "done"} /\ pass'[m] # "prepare" => (Trusted(plan[m].rows))'
  BY <1>0, <1>2 DEF CallTyped, PlanTyped, CallExact, calls
<1> QED BY <1>3, <1>4, <1>5 DEF CallExact

\* Rows that keep their places, numbers, counts and ancestry, with aggregates that
\* list only what is below.
LEMMA KeptExact ==
  ASSUME TInv, ServerExact, DOMAIN issue' = Issues, rewritten' = rewritten,
         \A i \in Issues :
           /\ issue'[i].attachedTo = issue[i].attachedTo /\ issue'[i].space = issue[i].space
           /\ issue'[i].number = issue[i].number /\ issue'[i].subIssues = issue[i].subIssues
           /\ issue'[i].parents = issue[i].parents
           /\ issue'[i].childInfo \subseteq issue[i].childInfo \union Below(issue, i)
  PROVE  ServerExact'
<1>1. CountsExact'
  <2>1. \A i \in Issues : Children(i)' = Children(i)
    BY DEF Children
  <2> QED BY <2>1 DEF ServerExact, CountsExact
<1>2. AncestryExact'
  <2> SUFFICES ASSUME NEW i \in rewritten PROVE (Exists(i) /\ issue[i].parents = Ancestry(issue, i))'
    BY DEF AncestryExact
  <2>1. i \in Issues /\ DOMAIN issue = Issues
    BY DEF TInv, TypeOK
  <2>2. Ancestry(issue, i) = Ancestry(issue', i)
    BY <2>1, AncestryAgrees
  <2> QED BY <2>1, <2>2 DEF ServerExact, AncestryExact, Exists
<1>3. AggregatesSound'
  <2>1. DOMAIN issue = Issues
    BY DEF TInv, TypeOK
  <2>2. ASSUME NEW i \in Issues PROVE Below(issue, i) \subseteq Below(issue', i)
    BY <2>1, BelowGrows
  <2> QED BY <2>2 DEF ServerExact, AggregatesSound
<1> QED BY <1>1, <1>2, <1>3 DEF ServerExact

\* An edit and a refreshed aggregate.
LEMMA EditIsExact ==
  ASSUME TInv, ServerExact, NEW i \in Issues, Edit(i) \/ RefreshInformation(i)
  PROVE  ServerExact' /\ Onward /\ issue' \in [Issues -> Rows]
<1>1. issue \in [Issues -> Rows] /\ issue[i] \in Rows
  BY DEF TInv, TypeOK
<1>2. issue' \in [Issues -> Rows] /\ rewritten' = rewritten
  BY EditServed, RefreshServed DEF Served, Edit, RefreshInformation
<1>3. \A j \in Issues :
        /\ issue'[j].attachedTo = issue[j].attachedTo /\ issue'[j].space = issue[j].space
        /\ issue'[j].number = issue[j].number /\ issue'[j].subIssues = issue[j].subIssues
        /\ issue'[j].parents = issue[j].parents
        /\ issue[j].modifiedOn <= issue'[j].modifiedOn
  BY <1>1 DEF Edit, RefreshInformation, Rows
<1>4. \A j \in Issues : issue'[j].childInfo \subseteq issue[j].childInfo \union Below(issue, j)
  <2>1. CASE Edit(i)
    BY <1>1, <2>1 DEF Edit, Rows
  <2>2. CASE RefreshInformation(i)
    BY <1>1, <2>2 DEF RefreshInformation, Rows
  <2> QED BY <2>1, <2>2
<1>5. ServerExact'
  BY <1>2, <1>3, <1>4, KeptExact
<1>6. Onward
  BY <1>3 DEF Onward, Exists
<1> QED BY <1>2, <1>5, <1>6

\* One child more for its parent, and nothing above it or of what it caches changes.
LEMMA CreateIsExact ==
  ASSUME IInv, TInv, ServerExact, NEW i \in Issues, NEW p \in Issues, CreateChild(i, p)
  PROVE  ServerExact' /\ Onward /\ issue' \in [Issues -> Rows]
<1>1. /\ issue \in [Issues -> Rows] /\ ~Exists(i) /\ Exists(p) /\ i # p /\ rewritten' = rewritten
      /\ issue[i].attachedTo = Nowhere /\ rewritten \subseteq Issues
  BY DEF CreateChild, TInv, TypeOK, Attached, Exists
<1>2. PICK n, ps : issue' = [issue EXCEPT ![p].subIssues = @ + 1,
         ![i] = [[issue[i] EXCEPT !.attachedTo = p, !.space = issue[p].space, !.number = n]
                   EXCEPT !.parents = ps]]
  BY DEF CreateChild
<1>3. issue' \in [Issues -> Rows]
  BY CreateServed DEF Served
<1>4. /\ issue'[i].attachedTo = p /\ issue'[i].subIssues = issue[i].subIssues
      /\ issue'[i].childInfo = issue[i].childInfo
  BY <1>1, <1>2 DEF Rows
<1>5. \A j \in Issues \ {i} :
        /\ issue'[j].attachedTo = issue[j].attachedTo /\ issue'[j].space = issue[j].space
        /\ issue'[j].number = issue[j].number /\ issue'[j].parents = issue[j].parents
        /\ issue'[j].modifiedOn = issue[j].modifiedOn /\ issue'[j].childInfo = issue[j].childInfo
        /\ issue'[j].subIssues = issue[j].subIssues + (IF j = p THEN 1 ELSE 0)
  BY <1>1, <1>2 DEF Rows
<1>6. CountsExact'
  <2>1. \A j \in Issues : IsFiniteSet(Children(j))
    BY IssuesAssumption, FS_Subset DEF Children
  <2>2. i \notin Children(p) /\ Children(p)' = Children(p) \union {i}
    BY <1>1, <1>4, <1>5, ConstantsAssumption DEF Children
  <2>3. \A j \in Issues \ {p} : Children(j)' = Children(j)
    BY <1>1, <1>4, <1>5, ConstantsAssumption DEF Children
  <2>4. Cardinality(Children(p)') = Cardinality(Children(p)) + 1
    BY <2>1, <2>2, FS_AddElement
  <2>5. \A j \in Issues : issue[j].subIssues = Cardinality(Children(j))
    BY DEF ServerExact, CountsExact
  <2>6. issue'[p].subIssues = issue[p].subIssues + 1
    BY <1>1, <1>5
  <2>7. \A j \in Issues \ {p} : issue'[j].subIssues = issue[j].subIssues
    BY <1>1, <1>4, <1>5 DEF Rows
  <2>8. \A j \in Issues \ {p} : issue'[j].subIssues = Cardinality(Children(j)')
    BY <2>3, <2>5, <2>7
  <2> QED BY <2>4, <2>5, <2>6, <2>8 DEF CountsExact
<1>7. AncestryExact'
  <2> DEFINE D == {j \in Issues : Exists(j)}
  <2>1. D \in SUBSET (DOMAIN issue \intersect DOMAIN issue') /\ D \subseteq Issues \ {i}
    BY <1>1, <1>3
  <2>2. \A d \in D : issue[d].attachedTo \in DOMAIN issue \union DOMAIN issue' => issue[d].attachedTo \in D
    BY <1>1, <1>3 DEF TInv, Attached, Linked
  <2>3. \A j \in rewritten : j \in D /\ issue[j].parents = Ancestry(issue, j)
    BY <1>1 DEF ServerExact, AncestryExact
  <2> HIDE DEF D
  <2>4. \A j \in D : Ancestry(issue, j) = Ancestry(issue', j)
    BY <1>5, <2>1, <2>2, AncestryAgrees
  <2>5. \A j \in rewritten : j \in Issues \ {i} /\ issue'[j].parents = Ancestry(issue', j)
    BY <1>5, <2>1, <2>3, <2>4
  <2>6. \A j \in rewritten : Exists(j)
    BY DEF ServerExact, AncestryExact
  <2> QED BY <1>1, <1>5, <2>5, <2>6 DEF AncestryExact, Exists
<1>8. AggregatesSound'
  <2>1. DOMAIN issue = Issues /\ DOMAIN issue' = Issues
    BY <1>1, <1>3
  <2>2. \A c \in Issues : issue[c].attachedTo \in Issues => issue'[c].attachedTo = issue[c].attachedTo
    BY <1>1, <1>5, ConstantsAssumption
  <2>3. \A j \in Issues : Below(issue, j) \subseteq Below(issue', j)
    BY <2>1, <2>2, BelowGrows
  <2>4. \A j \in Issues : issue'[j].childInfo = issue[j].childInfo
    BY <1>4, <1>5
  <2> QED BY <2>3, <2>4 DEF ServerExact, AggregatesSound
<1>9. Onward
  <2>1. \A j \in Issues : Exists(j) => j # i /\ issue[j].modifiedOn \in Nat
    BY <1>1 DEF Rows
  <2> QED BY <1>5, <2>1 DEF Onward, Exists
<1> QED BY <1>3, <1>6, <1>7, <1>8, <1>9 DEF ServerExact

\* What the conditions of a batch give when it is applied: the rows it names are
\* where they are now, no task hangs below another tree's, and its rows as planned
\* are the rows as they come to be.
LEMMA BatchRows ==
  ASSUME IInv, Sound, TInv, NEW w, BatchOk(w), WriteTyped(w), BatchExact(w), BatchHolds(w),
         issue' = BatchApplied(w), issue' \in [Issues -> Rows]
  PROVE  /\ w.root \in w.tasks /\ w.tasks \subseteq DOMAIN w.rows /\ DOMAIN w.rows \subseteq Issues
         /\ \A d \in DOMAIN w.rows : issue[d].attachedTo = w.rows[d].attachedTo
         /\ issue[w.root].attachedTo \notin w.tasks
         /\ \A c \in Issues : issue'[c].attachedTo = IF c = w.root THEN w.parent ELSE issue[c].attachedTo
         /\ \A d \in DOMAIN w.rows :
              /\ PlannedBy(w)[d].attachedTo = issue'[d].attachedTo
              /\ PlannedBy(w)[d].space = issue'[d].space /\ PlannedBy(w)[d].number = issue'[d].number
              /\ PlannedBy(w)[d].attachedTo \in Issues => PlannedBy(w)[d].attachedTo \in DOMAIN w.rows
         /\ \A i \in Issues \ w.tasks :
              /\ issue'[i].space = issue[i].space /\ issue'[i].number = issue[i].number
              /\ issue'[i].parents = issue[i].parents
              /\ issue'[i].childInfo = issue[i].childInfo \ RemovedInformation(w, i)
         /\ \A t \in w.tasks : /\ issue'[t].parents = w.final[t].parents
                               /\ issue'[t].childInfo = issue[t].childInfo
         /\ \A i \in Issues : issue'[i].subIssues = CountAfter(w, i)
<1>1. /\ w.root \in w.tasks /\ w.tasks \subseteq DOMAIN w.rows /\ DOMAIN w.rows \subseteq Issues
      /\ \A c \in w.tasks : c # w.root => w.rows[c].attachedTo \in w.tasks
  BY DEF BatchOk, Fits, HangTogether, WriteTyped, IsMap
<1>2. \A d \in DOMAIN w.rows : issue[d].attachedTo = w.rows[d].attachedTo
  BY DEF BatchHolds, AncestorsUnchanged, TasksUnchanged
<1>3. issue[w.root].attachedTo \notin w.tasks
  <2> SUFFICES ASSUME issue[w.root].attachedTo \in w.tasks PROVE FALSE
    OBVIOUS
  <2>1. \A c \in w.tasks : issue[c].attachedTo \in w.tasks
    BY <1>1, <1>2
  <2>2. w.tasks # {} /\ w.tasks \in SUBSET Issues
    BY <1>1
  <2>3. \E c \in w.tasks : Up[c] \notin w.tasks
    BY <2>2 DEF Sound, Forest!Acyclic, Up
  <2> QED BY <1>1, <2>1, <2>3 DEF Up
<1>4. \A i \in Issues : issue[i] \in Rows
  BY DEF TInv, TypeOK
<1>5. ASSUME NEW t \in w.tasks
      PROVE  /\ issue'[t].attachedTo = w.final[t].attachedTo /\ issue'[t].space = w.dest
             /\ issue'[t].number = w.final[t].number /\ issue'[t].parents = w.final[t].parents
             /\ issue'[t].childInfo = issue[t].childInfo /\ issue'[t].subIssues = CountAfter(w, t)
  <2>1. issue'[t] = TaskAfter(w, t) /\ issue[t] \in Rows
    BY <1>1, <1>4 DEF BatchApplied
  <2> QED BY <2>1 DEF TaskAfter, Rows
<1>6. ASSUME NEW i \in Issues \ w.tasks
      PROVE  /\ issue'[i].attachedTo = issue[i].attachedTo /\ issue'[i].space = issue[i].space
             /\ issue'[i].number = issue[i].number /\ issue'[i].parents = issue[i].parents
             /\ issue'[i].childInfo = issue[i].childInfo \ RemovedInformation(w, i)
             /\ issue'[i].subIssues = CountAfter(w, i)
  <2>1. issue'[i] = AncestorAfter(w, i) /\ issue[i] \in Rows
    BY <1>4 DEF BatchApplied
  <2> QED BY <2>1 DEF AncestorAfter, Rows
<1>7. \A t \in w.tasks : w.final[t].attachedTo = IF t = w.root THEN w.parent ELSE issue[t].attachedTo
  BY <1>1, <1>2 DEF BatchOk
<1>8. \A c \in Issues : issue'[c].attachedTo = IF c = w.root THEN w.parent ELSE issue[c].attachedTo
  BY <1>1, <1>5, <1>6, <1>7
<1>9. w.parent \in Issues => w.parent \in DOMAIN w.rows
  BY ConstantsAssumption DEF BatchOk, Fits
<1>10. ASSUME NEW d \in DOMAIN w.rows
       PROVE  /\ PlannedBy(w)[d].attachedTo = issue'[d].attachedTo
              /\ PlannedBy(w)[d].space = issue'[d].space /\ PlannedBy(w)[d].number = issue'[d].number
              /\ PlannedBy(w)[d].attachedTo \in Issues => PlannedBy(w)[d].attachedTo \in DOMAIN w.rows
  <2>1. w.rows[d] \in Rows /\ Current(w.rows[d], d) /\ w.rows[d].attachedTo \in DOMAIN w.rows \union {NoParent}
    BY DEF WriteTyped, IsMap, Found, BatchExact, Trusted, CurrentMap, ReachesUp
  <2>2. CASE d \in w.tasks
    <3>1. PlannedBy(w)[d] = [w.rows[d] EXCEPT !.attachedTo = w.final[d].attachedTo, !.space = w.dest,
                                              !.number = w.final[d].number]
      BY <2>2 DEF PlannedBy
    <3>2. /\ PlannedBy(w)[d].attachedTo = w.final[d].attachedTo /\ PlannedBy(w)[d].space = w.dest
          /\ PlannedBy(w)[d].number = w.final[d].number
      BY <2>1, <3>1 DEF Rows
    <3>3. w.final[d].attachedTo \in Issues => w.final[d].attachedTo \in DOMAIN w.rows
      BY <1>2, <1>7, <1>9, <2>1, <2>2, ConstantsAssumption
    <3> QED BY <1>5, <2>2, <3>2, <3>3
  <2>3. CASE d \notin w.tasks
    <3>1. PlannedBy(w)[d] = w.rows[d]
      BY <2>3 DEF PlannedBy
    <3>2. /\ issue[d].space = w.rows[d].space /\ issue[d].attachedTo = w.rows[d].attachedTo
          /\ issue[d].number = w.rows[d].number
      BY <2>1, <2>3 DEF BatchHolds, AncestorsUnchanged, Current
    <3> QED BY <1>1, <1>6, <2>1, <2>3, <3>1, <3>2, ConstantsAssumption
  <2> QED BY <2>2, <2>3
<1> QED BY <1>1, <1>2, <1>3, <1>5, <1>6, <1>8, <1>10

\* The numbers of children follow the root from its parent to its next one.
LEMMA BatchCounts ==
  ASSUME IInv, Sound, TInv, CountsExact, NEW w, BatchOk(w), WriteTyped(w), BatchExact(w), BatchHolds(w),
         issue' = BatchApplied(w), issue' \in [Issues -> Rows]
  PROVE  CountsExact'
<1> DEFINE old == issue[w.root].attachedTo
<1>1. /\ w.root \in Issues /\ w.rows[w.root].attachedTo = old
      /\ \A c \in Issues : issue'[c].attachedTo = IF c = w.root THEN w.parent ELSE issue[c].attachedTo
      /\ \A i \in Issues : issue'[i].subIssues = CountAfter(w, i)
  BY BatchRows
<1>2. \A i \in Issues : IsFiniteSet(Children(i)) /\ Cardinality(Children(i)) \in Nat
                        /\ issue[i].subIssues = Cardinality(Children(i))
  BY IssuesAssumption, FS_Subset, FS_CardinalityType DEF Children, CountsExact
<1>3. \A i \in Issues : issue'[i].subIssues =
         issue[i].subIssues + (IF i = w.parent THEN 1 ELSE 0) - (IF i = old THEN 1 ELSE 0)
  BY <1>1 DEF CountAfter
<1> SUFFICES ASSUME NEW i \in Issues PROVE issue'[i].subIssues = Cardinality(Children(i)')
  BY DEF CountsExact
<1>4. CASE (i = w.parent) <=> (i = old)
  <2>1. Children(i)' = Children(i)
    BY <1>1, <1>4 DEF Children
  <2> QED BY <1>2, <1>3, <1>4, <2>1
<1>5. CASE i = w.parent /\ i # old
  <2>1. Children(i)' = Children(i) \union {w.root} /\ w.root \notin Children(i)
    BY <1>1, <1>5 DEF Children
  <2>2. Cardinality(Children(i)') = Cardinality(Children(i)) + 1
    BY <1>2, <2>1, FS_AddElement
  <2> QED BY <1>2, <1>3, <1>5, <2>2
<1>6. CASE i # w.parent /\ i = old
  <2>1. Children(i)' = Children(i) \ {w.root} /\ w.root \in Children(i)
    BY <1>1, <1>6 DEF Children
  <2>2. Cardinality(Children(i)') = Cardinality(Children(i)) - 1
    BY <1>2, <2>1, FS_RemoveElement
  <2> QED BY <1>2, <1>3, <1>6, <2>2
<1> QED BY <1>4, <1>5, <1>6

\* A task gets the ancestry of its new place; nobody outside the tree is below a task.
LEMMA BatchAncestry ==
  ASSUME IInv, Sound, TInv, AncestryExact, NEW w, BatchOk(w), WriteTyped(w), BatchExact(w), BatchHolds(w),
         issue' = BatchApplied(w), issue' \in [Issues -> Rows]
  PROVE  /\ \A t \in w.tasks : issue'[t].parents = Ancestry(issue', t) /\ w.final[t].parents = Ancestry(issue', t)
         /\ \A i \in rewritten \ w.tasks : issue'[i].parents = Ancestry(issue', i)
<1>1. DOMAIN issue = Issues /\ DOMAIN issue' = Issues /\ rewritten \subseteq Issues
  BY DEF TInv, TypeOK
<1>2. ASSUME NEW t \in w.tasks
      PROVE  issue'[t].parents = Ancestry(issue', t) /\ w.final[t].parents = Ancestry(issue', t)
  <2> DEFINE D == DOMAIN w.rows
             f == PlannedBy(w)
  <2>0. DOMAIN f = D
    BY DEF PlannedBy
  <2>1. /\ DOMAIN f = D /\ D \subseteq Issues /\ t \in D
        /\ \A d \in D : /\ issue'[d].attachedTo = f[d].attachedTo /\ issue'[d].space = f[d].space
                        /\ issue'[d].number = f[d].number /\ (f[d].attachedTo \in Issues => f[d].attachedTo \in D)
    BY <2>0, BatchRows
  <2>2. w.final[t].parents = Ancestry(f, t) /\ issue'[t].parents = w.final[t].parents
    BY BatchRows DEF BatchExact
  <2> HIDE DEF D, f
  <2>3. Ancestry(f, t) = Ancestry(issue', t)
    BY <1>1, <2>1, AncestryAgrees
  <2> QED BY <2>2, <2>3
<1>3. ASSUME NEW i \in rewritten \ w.tasks PROVE issue'[i].parents = Ancestry(issue', i)
  <2> DEFINE D == Issues \ w.tasks
  <2>1. \A d \in D : /\ issue'[d].attachedTo = issue[d].attachedTo /\ issue'[d].space = issue[d].space
                     /\ issue'[d].number = issue[d].number /\ issue'[d].parents = issue[d].parents
    BY BatchRows
  <2>2. \A d \in D : issue[d].attachedTo \in Issues => issue[d].attachedTo \in D
    BY DEF BatchHolds, NoChildOutside
  <2>3. D \subseteq Issues /\ i \in D
    BY <1>1
  <2> HIDE DEF D
  <2>4. Ancestry(issue, i) = Ancestry(issue', i)
    BY <1>1, <2>1, <2>2, <2>3, AncestryAgrees
  <2>5. issue[i].parents = Ancestry(issue, i)
    BY DEF AncestryExact
  <2> QED BY <2>1, <2>3, <2>4, <2>5
<1> QED BY <1>2, <1>3

\* Whoever has a task below it, and is none, is one of the rows of the batch and
\* is known there to have it below.
LEMMA TasksBelowAreListed ==
  ASSUME NEW w, ReachesUp(w.rows), ListsBelow(w.rows), DOMAIN issue = Issues, DOMAIN w.rows \subseteq Issues,
         \A d \in DOMAIN w.rows : issue[d].attachedTo = w.rows[d].attachedTo,
         NEW a \in Issues, NEW t \in DOMAIN w.rows, t # a, t \in Below(issue, a)
  PROVE  a \in DOMAIN w.rows /\ t \in w.rows[a].childInfo
<1> DEFINE D == DOMAIN w.rows
<1>1. ASSUME NEW S \in SUBSET D, \A c \in D : w.rows[c].attachedTo \in S => c \in S, a \in D => a \in S
      PROVE  t \in S
  <2> DEFINE T == S \union (Issues \ D)
  <2>1. T \in SUBSET Issues /\ a \in T
    BY <1>1
  <2>2. \A c \in Issues : issue[c].attachedTo \in T => c \in T
    <3> SUFFICES ASSUME NEW c \in D, issue[c].attachedTo \in T PROVE c \in S
      OBVIOUS
    <3>1. w.rows[c].attachedTo \in D
      BY <2>1, ConstantsAssumption DEF ReachesUp
    <3> QED BY <1>1, <3>1
  <2> HIDE DEF T
  <2>3. t \in T
    BY <2>1, <2>2 DEF Below
  <2> QED BY <2>3 DEF T
<1>2. a \in D
  <2> SUFFICES ASSUME a \notin D PROVE FALSE
    OBVIOUS
  <2>1. t \in {}
    BY <1>1
  <2> QED BY <2>1
<1>3. t \in Below(w.rows, a)
  BY <1>1, <1>2 DEF Below
<1> QED BY <1>2, <1>3 DEF ListsBelow

\* An aggregate keeps the tasks that are below its issue still, and no others.
LEMMA BatchAggregates ==
  ASSUME IInv, Sound, TInv, AncestryExact, AggregatesSound,
         NEW w, BatchOk(w), WriteTyped(w), BatchExact(w), BatchHolds(w),
         issue' = BatchApplied(w), issue' \in [Issues -> Rows]
  PROVE  AggregatesSound'
<1> DEFINE D == DOMAIN w.rows
<1>1. DOMAIN issue = Issues /\ DOMAIN issue' = Issues
  BY DEF TInv, TypeOK
<1>2. /\ w.root \in w.tasks /\ w.tasks \subseteq D /\ D \subseteq Issues
      /\ \A d \in D : issue[d].attachedTo = w.rows[d].attachedTo
      /\ issue[w.root].attachedTo \notin w.tasks
      /\ \A c \in Issues : issue'[c].attachedTo = IF c = w.root THEN w.parent ELSE issue[c].attachedTo
      /\ \A i \in Issues \ w.tasks : issue'[i].childInfo = issue[i].childInfo \ RemovedInformation(w, i)
      /\ \A t \in w.tasks : issue'[t].childInfo = issue[t].childInfo
  BY BatchRows
<1>3. \A c \in Issues : issue[c].attachedTo \in w.tasks => c \in w.tasks
  BY DEF BatchHolds, NoChildOutside
<1>4. \A i \in Issues : issue[i].childInfo \subseteq Below(issue, i)
  BY DEF AggregatesSound
<1> HIDE DEF D
<1>5. ASSUME NEW i \in w.tasks PROVE Below(issue, i) \subseteq Below(issue', i)
  <2> SUFFICES ASSUME NEW d \in Below(issue, i), NEW S \in SUBSET Issues, i \in S,
                      \A c \in Issues : issue'[c].attachedTo \in S => c \in S
               PROVE  d \in S
    BY <1>1 DEF Below
  <2> DEFINE T == S \intersect w.tasks
  <2>1. T \in SUBSET Issues /\ i \in T
    BY <1>5
  <2>2. \A c \in Issues : issue[c].attachedTo \in T => c \in T
    BY <1>2, <1>3
  <2> HIDE DEF T
  <2>3. d \in T
    BY <1>1, <2>1, <2>2 DEF Below
  <2> QED BY <2>3 DEF T
<1>6. ASSUME NEW i \in Issues \ w.tasks, NEW d \in Below(issue, i) \ w.tasks PROVE d \in Below(issue', i)
  <2>1. d \in Issues
    BY <1>1 DEF Below
  <2> SUFFICES ASSUME NEW S \in SUBSET Issues, i \in S,
                      \A c \in Issues : issue'[c].attachedTo \in S => c \in S
               PROVE  d \in S
    BY <1>1, <2>1 DEF Below
  <2> DEFINE T == S \union w.tasks
  <2>2. T \in SUBSET Issues /\ i \in T
    BY <1>2
  <2>3. \A c \in Issues : issue[c].attachedTo \in T => c \in T
    BY <1>2, <1>3
  <2> HIDE DEF T
  <2>4. d \in T
    BY <1>1, <2>2, <2>3 DEF Below
  <2> QED BY <1>6, <2>4 DEF T
<1>7. ASSUME NEW i \in Issues \ w.tasks, NEW d \in w.tasks, d \in issue'[i].childInfo
      PROVE  d \in Below(issue', i)
  <2>1. d \in issue[i].childInfo /\ d \notin RemovedInformation(w, i)
    BY <1>2, <1>7
  <2>2. i \in D /\ d \in w.rows[i].childInfo
    <3>1. ReachesUp(w.rows) /\ ListsBelow(w.rows)
      BY DEF BatchExact, Trusted
    <3>2. d \in Below(issue, i) /\ d # i
      BY <1>4, <1>7, <2>1
    <3> QED BY <1>1, <1>2, <3>1, <3>2, TasksBelowAreListed DEF D
  <2>3. \E e \in w.final[d].parents : e.id = i
    BY <2>1, <2>2 DEF RemovedInformation, D
  <2>4. w.final[d].parents = Ancestry(issue', d)
    BY BatchAncestry
  <2>5. i \in Above(issue', issue'[d].attachedTo)
    BY <2>3, <2>4 DEF Ancestry
  <2> QED BY <1>1, <1>2, <2>5, BelowOfAbove
<1> QED BY <1>2, <1>4, <1>5, <1>6, <1>7 DEF AggregatesSound

\* A batch leaves what rows cache of others exact.
LEMMA ApplyIsExact ==
  ASSUME Isolated, XInv, NEW m \in Movers, ApplyBatch(m)
  PROVE  ServerExact' /\ Onward /\ issue' \in [Issues -> Rows]
<1> DEFINE w == net[m].write
<1>1. BatchHolds(w) /\ Asks(m, "batch") /\ issue' = BatchApplied(w) /\ rewritten' = rewritten \union w.tasks
  BY DEF ApplyBatch, XInv, IInv, CallOk, RequestOk
<1>2. BatchOk(w) /\ BatchExact(w)
  BY <1>1 DEF XInv, IInv, CallOk, RequestOk, CallExact
<1>3. WriteTyped(w)
  BY <1>1 DEF XInv, TInv, TypeOK, RecordsTyped, RequestTyped, Asks
<1>4. issue' \in [Issues -> Rows] /\ issue \in [Issues -> Rows] /\ Lasting
  BY BatchServed DEF XInv, TInv, TypeOK, Served
<1> HIDE DEF w
<1>5. CountsExact' /\ AggregatesSound'
  BY <1>1, <1>2, <1>3, <1>4, BatchCounts, BatchAggregates DEF XInv, ServerExact
<1>6. AncestryExact'
  <2>1. \A i \in rewritten \union w.tasks : issue'[i].parents = Ancestry(issue', i)
    BY <1>1, <1>2, <1>3, <1>4, BatchAncestry DEF XInv, ServerExact
  <2>2. \A i \in rewritten \union w.tasks : Exists(i)'
    <3>1. \A i \in rewritten : i \in Issues /\ Exists(i)
      BY DEF XInv, ServerExact, AncestryExact, TInv, TypeOK
    <3>2. \A t \in w.tasks : t \in Issues /\ Exists(t)
      BY <1>1, <1>2, ConstantsAssumption
         DEF BatchHolds, TasksUnchanged, BatchOk, Fits, HangTogether, Exists
    <3> QED BY <1>4, <3>1, <3>2 DEF Lasting
  <2> QED BY <1>1, <2>1, <2>2 DEF AncestryExact
<1>7. Onward
  <2> SUFFICES ASSUME NEW i \in Issues, Exists(i)
               PROVE  /\ Exists(i)' /\ issue[i].modifiedOn <= issue'[i].modifiedOn
                      /\ issue[i].modifiedOn = issue'[i].modifiedOn => issue'[i].number = issue[i].number
    BY DEF Onward
  <2>1. issue[i] \in Rows /\ issue[i].modifiedOn \in Nat
    BY <1>4 DEF Rows
  <2>2. CASE i \in w.tasks
    <3>1. issue'[i].modifiedOn = issue[i].modifiedOn + 1
      BY <1>1, <2>1, <2>2 DEF BatchApplied, TaskAfter, Rows
    <3> QED BY <1>4, <2>1, <3>1 DEF Lasting
  <2>3. CASE i \notin w.tasks
    <3>1. /\ issue'[i].modifiedOn \in {issue[i].modifiedOn, issue[i].modifiedOn + 1}
          /\ issue'[i].number = issue[i].number
      BY <1>1, <2>1, <2>3 DEF BatchApplied, AncestorAfter, Rows
    <3> QED BY <1>4, <2>1, <3>1 DEF Lasting
  <2> QED BY <2>2, <2>3
<1> QED BY <1>4, <1>5, <1>6, <1>7 DEF ServerExact

\* Every step of the server.
LEMMA ServerIsExact ==
  ASSUME Isolated, XInv, Server
  PROVE  ServerExact' /\ \A m \in Movers : CallExact(m)'
<1>0. IInv /\ TInv /\ ServerExact /\ \A m \in Movers : CallExact(m)
  BY DEF XInv
<1>1. ASSUME ServerExact', Onward, issue' \in [Issues -> Rows], UNCHANGED calls,
             \A m \in Movers : net'[m] = net[m] \/ net'[m] = None
      PROVE  ServerExact' /\ \A m \in Movers : CallExact(m)'
  BY <1>0, <1>1, HeldStaysExact
<1>2. ASSUME NEW m \in Movers, NEW kind, NEW value, Answer(m, kind, value)
      PROVE  \A n \in Movers : net'[n] = net[n] \/ net'[n] = None
  BY <1>0, <1>2 DEF Answer, TInv, Tables
<1>3. ASSUME issue' = issue, rewritten' = rewritten
      PROVE  ServerExact' /\ Onward /\ issue' \in [Issues -> Rows]
  <2>1. ServerExact'
    BY <1>0, <1>3 DEF ServerExact, CountsExact, Children, AncestryExact, AggregatesSound, Exists
  <2>2. Onward /\ issue' \in [Issues -> Rows]
    BY <1>0, <1>3 DEF TInv, TypeOK, Onward, Exists, Rows
  <2> QED BY <2>1, <2>2
<1>4. ASSUME NEW m \in Movers, GiveNumber(m) \/ RefuseBatch(m)
      PROVE  ServerExact' /\ \A n \in Movers : CallExact(n)'
  <2>1. issue' = issue /\ rewritten' = rewritten /\ UNCHANGED calls
    BY <1>4 DEF GiveNumber, RefuseBatch, server
  <2>2. \A n \in Movers : net'[n] = net[n] \/ net'[n] = None
    BY <1>2, <1>4 DEF GiveNumber, RefuseBatch
  <2> QED BY <1>1, <1>3, <2>1, <2>2
<1>5. ASSUME NEW m \in Movers, ApplyBatch(m)
      PROVE  ServerExact' /\ \A n \in Movers : CallExact(n)'
  <2>1. ServerExact' /\ Onward /\ issue' \in [Issues -> Rows]
    BY <1>5, ApplyIsExact
  <2>2. UNCHANGED calls /\ \A n \in Movers : net'[n] = net[n] \/ net'[n] = None
    BY <1>2, <1>5 DEF ApplyBatch
  <2> QED BY <1>1, <2>1, <2>2
<1>6. ASSUME NEW i \in Issues, Edit(i) \/ RefreshInformation(i)
      PROVE  ServerExact' /\ \A n \in Movers : CallExact(n)'
  <2>1. ServerExact' /\ Onward /\ issue' \in [Issues -> Rows]
    BY <1>0, <1>6, EditIsExact
  <2>2. UNCHANGED calls /\ net' = net
    BY <1>6 DEF Edit, RefreshInformation, wire
  <2> QED BY <1>1, <2>1, <2>2
<1>7. ASSUME NEW i \in Issues, NEW p \in Issues, CreateChild(i, p)
      PROVE  ServerExact' /\ \A n \in Movers : CallExact(n)'
  <2>1. ServerExact' /\ Onward /\ issue' \in [Issues -> Rows]
    BY <1>0, <1>7, CreateIsExact
  <2>2. UNCHANGED calls /\ net' = net
    BY <1>7 DEF CreateChild, wire
  <2> QED BY <1>1, <2>1, <2>2
<1>8. ASSUME NEW m \in Movers, AdmitBatch(m) PROVE FALSE
  BY <1>8 DEF AdmitBatch
<1> QED BY <1>4, <1>5, <1>6, <1>7, <1>8 DEF Server

\* Every step of anyone.
LEMMA ExactStep == ASSUME Isolated, XInv, [Next]_vars PROVE XInv'
<1>1. IInv' /\ Sound'
  BY AnyStep, SoundStep DEF XInv
<1>2. TInv'
  BY TypedStep DEF XInv
<1>3. CASE Server
  BY <1>1, <1>2, <1>3, ServerIsExact DEF XInv
<1>4. ASSUME issue' = issue, rewritten' = rewritten PROVE ServerExact'
  BY <1>4 DEF XInv, ServerExact, CountsExact, Children, AncestryExact, AggregatesSound, Exists
<1>5. ASSUME NEW m \in Movers, Call(m) PROVE XInv'
  <2>1. Alone(m)
    BY <1>5, TypedCall DEF XInv, Mine
  <2>2. issue' = issue
    BY <1>5, CallStep DEF XInv, IInv, StepOk
  <2>3. rewritten' = rewritten
    BY <1>5 DEF Call, Begin, ReadSource, ReadTarget, ReadLevel, Prepared, Conflicting, Reinspected, NotAdmitted, Presend,
         ReadFails, AskNumber, NumberUnsent, NumberArrives, NumberLost, Send, CommitUnsent, CommitUnparsable, CommitLost,
         CommitRefused, CommitApplied, VerifyHierarchy, VerifyTasks, Observed, VerifyAgain, Verified, VerificationFails,
         Deadline, server
  <2>4. CallExact(m)'
    BY <1>5, CallIsExact DEF XInv
  <2>5. \A n \in Movers \ {m} : CallExact(n)'
    BY <2>1, <2>2, OthersExact DEF XInv
  <2> QED BY <1>1, <1>2, <1>4, <2>2, <2>3, <2>4, <2>5 DEF XInv
<1>6. CASE UNCHANGED vars
  <2>1. issue' = issue /\ rewritten' = rewritten /\ UNCHANGED calls /\ UNCHANGED net
    BY <1>6 DEF vars, server, wire
  <2>2. \A m \in Movers : Quiet(m)
    BY <2>1 DEF calls, reads, Quiet, Asks
  <2>3. \A m \in Movers : CallExact(m)'
    BY <2>1, <2>2, QuietIsExact DEF XInv
  <2> QED BY <1>1, <1>2, <1>4, <2>1, <2>3 DEF XInv
<1> QED BY <1>3, <1>5, <1>6 DEF Next

\* A workspace at the start caches what is there, except that some ancestry may be wrong.
LEMMA StartsExact == Init => XInv
<1> SUFFICES ASSUME Init PROVE XInv
  OBVIOUS
<1>1. PICK f \in Forests, where \in [Issues -> Home \union {Nowhere}], wrong \in SUBSET Stale :
        issue = [i \in Issues |-> IF i \in wrong THEN [Settled(f, where)[i] EXCEPT !.parents = {}]
                                                 ELSE Settled(f, where)[i]]
  BY DEF Init
<1> DEFINE bare == [i \in Issues |-> [attachedTo |-> f[i], space |-> where[i], number |-> i]]
<1>2. ASSUME NEW i \in Issues
      PROVE  /\ issue[i].attachedTo = f[i] /\ issue[i].subIssues = Cardinality({c \in Issues : f[c] = i})
             /\ issue[i].childInfo = Below(bare, i) \ {i}
  <2>1. Settled(f, where)[i] =
          [attachedTo |-> f[i], space |-> where[i], modifiedOn |-> 0,
           subIssues |-> Cardinality({c \in Issues : f[c] = i}), number |-> i,
           parents |-> Ancestry(bare, i), childInfo |-> Below(bare, i) \ {i}]
    BY DEF Settled
  <2> DEFINE count == Cardinality({c \in Issues : f[c] = i})
             up == Ancestry(bare, i)
             down == Below(bare, i) \ {i}
  <2> HIDE DEF bare, count, up, down
  <2>2. Settled(f, where)[i] = [attachedTo |-> f[i], space |-> where[i], modifiedOn |-> 0, subIssues |-> count,
                                number |-> i, parents |-> up, childInfo |-> down]
    BY <2>1 DEF count, up, down
  <2>3. issue[i] \in {Settled(f, where)[i], [Settled(f, where)[i] EXCEPT !.parents = {}]}
    BY <1>1
  <2>4. issue[i].attachedTo = f[i] /\ issue[i].subIssues = count /\ issue[i].childInfo = down
    BY <2>2, <2>3
  <2> QED BY <2>4 DEF count, down
<1>3. CountsExact
  <2>1. \A i \in Issues : Children(i) = {c \in Issues : f[c] = i}
    BY <1>2 DEF Children
  <2> QED BY <1>2, <2>1 DEF CountsExact
<1>4. AggregatesSound
  <2>1. DOMAIN bare = Issues /\ DOMAIN issue = Issues /\ \A c \in Issues : bare[c].attachedTo = f[c]
    BY <1>1
  <2> HIDE DEF bare
  <2>2. \A i \in Issues : Below(bare, i) \subseteq Below(issue, i)
    BY <1>2, <2>1, BelowGrows
  <2> QED BY <1>2, <2>2 DEF AggregatesSound
<1>5. AncestryExact
  BY DEF Init, AncestryExact
<1>6. \A m \in Movers : CallExact(m)
  BY DEF Init, CallExact, Asks
<1> QED BY <1>3, <1>4, <1>5, <1>6, StartsAsForest, TypedAtStart DEF XInv, ServerExact, Forest!Init, Sound

\* However many moves race, and although each writes only rows it has read before:
\* subIssues counts the children, an ancestry a batch has written stays that of the
\* issue while others move above it, and no aggregate lists an issue that has left.
THEOREM MovesKeepDerivedData == Isolated => (Spec => []DerivedDataExact)
<1> SUFFICES ASSUME Isolated PROVE Spec => []DerivedDataExact
  OBVIOUS
<1>1. Init => XInv
  BY StartsExact
<1>2. XInv /\ [Next]_vars => XInv'
  BY ExactStep
<1>3. XInv => DerivedDataExact
  BY DEF XInv, ServerExact, CountsExact, AncestryExact, AggregatesSound, Children, DerivedDataExact
<1> QED BY <1>1, <1>2, <1>3, PTL DEF Spec
=============================================================================
