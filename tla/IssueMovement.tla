---------------------------- MODULE IssueMovement ----------------------------
(***************************************************************************)
(* move_issue: concurrent calls that move trees of issues between parents  *)
(* and projects of one Huly workspace (src/huly/operations/issue-transfer* *)
(* and issue-movement*, src/huly/issue-transfer-tree-adapter.ts).          *)
(*                                                                         *)
(* A call inspects the tree twice (prepare, reinspect) and, when the tree  *)
(* changes project, takes a number for every task and inspects a third     *)
(* time (presend).  It then sends ONE batch whose conditions name what it  *)
(* read, never sends it again, and reads back until what it sees is what   *)
(* it planned.  Every read is its own step, a request may be delayed for   *)
(* ever or its reply lost, and the call may be cut off by its deadline.    *)
(*                                                                         *)
(* The server is external: a row per issue, a number sequence per project, *)
(* conditional batches, and triggers that add to the ancestors' childInfo  *)
(* some time after a move.  When Isolated, it checks the conditions of a   *)
(* batch and applies it in one step; otherwise batches of other calls may  *)
(* come between the two.                                                   *)
(***************************************************************************)
EXTENDS Integers, FiniteSets

CONSTANTS Issues, Projects, NoParent, Nowhere,
          Movers,       \* calls of move_issue
          Spare,        \* issues that somebody may create meanwhile
          Home,         \* projects that hold issues at the start
          Stale,        \* issues whose cached ancestry may be wrong at the start
          MaxEdits,     \* bound on edits of a row by somebody else
          MaxTasks,     \* MAX_TRANSFER_TASKS
          MaxTries,     \* verification passes, five in the code
          Faults,       \* what may fail: reads, sends, replies, the deadline
          Isolated,     \* BOOLEAN
          None

ASSUME ConstantsAssumption ==
  /\ NoParent \notin Issues
  /\ Nowhere \notin Issues \union Projects \union {NoParent}
  /\ None \notin Issues
  /\ Spare \subseteq Issues /\ Home \subseteq Projects /\ Stale \subseteq Issues
  /\ Isolated \in BOOLEAN /\ Faults \subseteq {"read", "unsent", "reply", "deadline"}
  /\ MaxEdits \in Nat /\ MaxTasks \in Nat /\ MaxTries \in Nat \ {0}

VARIABLES
  \* the server
  issue,          \* per issue, its row
  sequence,       \* per project, the last number given out
  net,            \* per call, its request the server has yet to handle
  reply,          \* per call, the answer it has yet to receive
  edits,
  \* the calls
  pc, pass,       \* where a call stands, and which inspection it is in
  sel,            \* what it was asked, with the rows of the root and the parent
  hier,           \* the two project inventories of this inspection
  tree,           \* the rows found by walking down from the root
  frontier,       \* those whose children are read next
  broken,         \* the walk met a row twice, another project or the limit
  plan,           \* what the first inspection prepared
  exec,           \* progress.execution, what is known of the writes
  facts,          \* progress.verificationFacts
  tries,
  after,          \* the outcome to report once the present observation is over
  outcome,
  \* what really happened, for the properties
  drawn,          \* per call, the numbers the server gave for it
  landed,         \* per call, how often the server applied its batch
  rewritten,      \* issues whose cached ancestry a batch has written
  discrepancy     \* per call, it saw a problem no complete clean pass followed

server == <<issue, sequence, edits, rewritten>>
wire == <<net, reply, drawn, landed>>
reads == <<hier, tree, frontier, broken>>
proof == <<facts, tries, discrepancy>>
calls == <<reads, proof, pc, pass, sel, plan, exec, after, outcome>>
vars == <<server, wire, calls>>

\* An issue that was there at the start has a number of its own, named after it.
Numbers == Issues \union Nat
Ancestors == [id : Issues, space : Projects, number : Numbers]
Rows == [attachedTo : Issues \union {NoParent, Nowhere},
         space : Projects \union {Nowhere},
         modifiedOn : Nat, subIssues : Int, number : Numbers,
         parents : SUBSET Ancestors, childInfo : SUBSET Issues]
Found == {r \in Rows : r.attachedTo # Nowhere /\ r.space # Nowhere}
\* A map from some of the issues into S.
IsMap(f, S) == DOMAIN f \subseteq Issues /\ f \in [DOMAIN f -> S]

Phases == {"allocation", "commit", "verification"}
Commits == {"not-sent", "sent", "reply-lost", "refused", "acknowledged"}
Evidence == [phase : Phases, commit : Commits, confirmed : UNION {[D -> Nat] : D \in SUBSET Issues},
             uncertain : SUBSET Issues]
Facts == [inconsistent : BOOLEAN, complete : BOOLEAN]
Outcomes == {"blocked", "incomplete", "indeterminate", "completed", "no-op"}

\* None stands for what is not there, and is none of the things that can be.
ASSUME NoneAssumption == None \notin Evidence /\ None \notin Facts /\ None \notin Outcomes
ASSUME NumbersAssumption == Issues \intersect Nat = {}
ASSUME IssuesAssumption == IsFiniteSet(Issues)

Exists(i) == issue[i].space # Nowhere
Now(S) == [i \in S |-> issue[i]]

-----------------------------------------------------------------------------
(* Hierarchies: a map from issues to rows, as movementHierarchy builds it.  *)

\* The inventory of the destination is the later one.
Known(h) == DOMAIN h.target \union DOMAIN h.source
ById(h) == [i \in Known(h) |-> IF i \in DOMAIN h.target THEN h.target[i] ELSE h.source[i]]

\* The known issues on the way up from p, p included.
Above(rows, p) ==
  {a \in DOMAIN rows : p \in DOMAIN rows /\ \A S \in SUBSET DOMAIN rows :
     (p \in S /\ \A s \in S : rows[s].attachedTo \in DOMAIN rows => rows[s].attachedTo \in S)
       => a \in S}

\* descendantsOf, the issue included
Below(rows, r) ==
  {d \in DOMAIN rows : \A S \in SUBSET DOMAIN rows :
     (r \in S /\ \A c \in DOMAIN rows : rows[c].attachedTo \in S => c \in S) => d \in S}

\* The inventories list an issue twice when it changed project between them.
ChildCount(h, p) == Cardinality({c \in DOMAIN h.source : h.source[c].attachedTo = p})
                  + Cardinality({c \in DOMAIN h.target : h.target[c].attachedTo = p})

ChainReachesTop(rows, i) ==
  LET up == Above(rows, rows[i].attachedTo) IN
  /\ i \notin up
  /\ rows[i].attachedTo = NoParent \/ \E a \in up : rows[a].attachedTo = NoParent

\* hierarchyProblem answers undefined
Orderly(h, i) ==
  LET rows == ById(h) IN
  /\ ChainReachesTop(rows, i)
  /\ ChildCount(h, i) = rows[i].subIssues
  /\ rows[i].childInfo = Below(rows, i) \ {i}

\* canonicalParents: what the cache of i should hold
Ancestry(rows, i) ==
  {[id |-> a, space |-> rows[a].space, number |-> rows[a].number] :
     a \in Above(rows, rows[i].attachedTo)}

-----------------------------------------------------------------------------
(* The plan of a call: its tasks (the tree), the rows of the tasks and of  *)
(* every ancestor the move touches, and what each task is to become.       *)

Root(m) == sel[m].root
Dest(m) == sel[m].dest
Source(m) == sel[m].rootRow.space
SameProject(m) == Dest(m) = Source(m)

\* related, and the rows inspectTransferPlan compares with each other
RelatedIds(m) ==
  LET rows == ById(hier[m]) IN
  DOMAIN tree[m] \union Above(rows, sel[m].rootRow.attachedTo)
    \union (IF sel[m].parent = NoParent THEN {}
            ELSE {sel[m].parent} \union Above(rows, sel[m].parentRow.attachedTo))

RowsAgree(m) ==
  LET rows == ById(hier[m]) IN
  /\ RelatedIds(m) \subseteq DOMAIN rows
  /\ \A i \in DOMAIN tree[m] : rows[i] = tree[m][i]
  /\ rows[Root(m)] = sel[m].rootRow
  /\ sel[m].parent # NoParent => rows[sel[m].parent] = sel[m].parentRow

\* inspectMovementClosure: the children read now are the ones of the inventory
ChildrenOf(S) == {c \in Issues : issue[c].attachedTo \in S}
ClosureCounted(h, S) ==
  Cardinality(ChildrenOf(S)) = Cardinality({c \in DOMAIN h.source : h.source[c].attachedTo \in S})
                             + Cardinality({c \in DOMAIN h.target : h.target[c].attachedTo \in S})
ClosureMatches(h, S) ==
  \A c \in ChildrenOf(S) : /\ c \in Known(h)
                           /\ ById(h)[c].attachedTo = issue[c].attachedTo
                           /\ ById(h)[c].space = issue[c].space
                           /\ ById(h)[c].modifiedOn = issue[c].modifiedOn
ClosureAgrees(h, S) == ClosureCounted(h, S) /\ ClosureMatches(h, S)

\* Mutation of inspectTransferContext: destinationCycleRefusal is not asked.
InspectionCleanWithoutCycleCheck(m) ==
  /\ ~broken[m] /\ RowsAgree(m)
  /\ \A i \in RelatedIds(m) : Orderly(hier[m], i)
  /\ ClosureAgrees(hier[m], RelatedIds(m))

InspectionClean(m) ==
  /\ ~broken[m]
  /\ sel[m].parent \notin DOMAIN tree[m]          \* destinationCycleRefusal
  /\ RowsAgree(m)
  /\ \A i \in RelatedIds(m) : Orderly(hier[m], i)
  /\ ClosureAgrees(hier[m], RelatedIds(m))

Inspected(m) == [tasks |-> DOMAIN tree[m],
                 rows |-> [i \in RelatedIds(m) |-> ById(hier[m])[i]]]

Tasks(m) == plan[m].tasks
FinalParent(m, t) == IF t = Root(m) THEN sel[m].parent ELSE plan[m].rows[t].attachedTo
FinalNumber(m, t) == IF SameProject(m) THEN plan[m].rows[t].number ELSE exec[m].confirmed[t]
Planned(m) ==
  [i \in DOMAIN plan[m].rows |->
     IF i \notin Tasks(m) THEN plan[m].rows[i]
     ELSE [plan[m].rows[i] EXCEPT !.attachedTo = FinalParent(m, i), !.space = Dest(m),
                                  !.number = FinalNumber(m, i)]]

\* planTransferTreeWrites
Write(m) ==
  [root |-> Root(m), parent |-> sel[m].parent, source |-> Source(m), dest |-> Dest(m),
   tasks |-> Tasks(m), rows |-> plan[m].rows,
   final |-> [t \in Tasks(m) |-> [attachedTo |-> FinalParent(m, t), number |-> FinalNumber(m, t),
                                  parents |-> Ancestry(Planned(m), t)]]]

\* Nothing to write: already there, and writeRepairsAncestry is false.
Satisfied(m) ==
  /\ SameProject(m)
  /\ plan[m].rows[Root(m)].attachedTo = sel[m].parent
  /\ \A t \in Tasks(m) : plan[m].rows[t].parents = Ancestry(Planned(m), t)

-----------------------------------------------------------------------------
(* The batch of a write w: its conditions and its effect (commitTransferTree). *)

NoChildOutside(w) == \A c \in Issues : issue[c].attachedTo \in w.tasks => c \in w.tasks

AncestorsUnchanged(w) ==
  \A a \in DOMAIN w.rows \ w.tasks :
    /\ issue[a].space = w.rows[a].space /\ issue[a].attachedTo = w.rows[a].attachedTo
    /\ issue[a].modifiedOn = w.rows[a].modifiedOn /\ issue[a].subIssues = w.rows[a].subIssues

TasksUnchanged(w) ==
  \A t \in w.tasks :
    /\ issue[t].space = w.source /\ issue[t].attachedTo = w.rows[t].attachedTo
    /\ issue[t].modifiedOn = w.rows[t].modifiedOn
    /\ issue[t].number = w.rows[t].number /\ issue[t].subIssues = w.rows[t].subIssues

\* Mutations of commitTransferTree: a child attached meanwhile is not noticed;
\* nothing is asked of the ancestors.
BatchHoldsDespiteNewChild(w) ==
  /\ AncestorsUnchanged(w)
  /\ \A t \in w.tasks : /\ issue[t].attachedTo = w.rows[t].attachedTo
                        /\ issue[t].modifiedOn = w.rows[t].modifiedOn
BatchHoldsForTasksOnly(w) == NoChildOutside(w) /\ TasksUnchanged(w)

BatchHolds(w) == NoChildOutside(w) /\ AncestorsUnchanged(w) /\ TasksUnchanged(w)

\* Mutation of queueTransferRootCounts: the previous parent is not counted down.
CountAfterOneSided(w, i) == issue[i].subIssues + (IF i = w.parent THEN 1 ELSE 0)

\* queueTransferRootCounts
CountAfter(w, i) ==
  LET more == IF i = w.parent THEN 1 ELSE 0
      less == IF i = w.rows[w.root].attachedTo THEN 1 ELSE 0
  IN issue[i].subIssues + more - less

\* Mutation: queueRemovedAncestorInformation is not called.
RemovedInformationForgotten(w, a) == {}

\* queueRemovedAncestorInformation
RemovedInformation(w, a) ==
  {t \in w.tasks : /\ a \in DOMAIN w.rows \ w.tasks /\ t \in w.rows[a].childInfo
                   /\ a \notin {e.id : e \in w.final[t].parents}}

\* queueTransferTask
TaskAfter(w, t) ==
  [issue[t] EXCEPT !.attachedTo = w.final[t].attachedTo, !.space = w.dest,
                   !.number = w.final[t].number, !.parents = w.final[t].parents,
                   !.subIssues = CountAfter(w, t), !.modifiedOn = @ + 1]

AncestorAfter(w, a) ==
  LET touched == a \in {w.parent, w.rows[w.root].attachedTo} \/ RemovedInformation(w, a) # {}
  IN [issue[a] EXCEPT !.subIssues = CountAfter(w, a), !.childInfo = @ \ RemovedInformation(w, a),
                      !.modifiedOn = IF touched THEN @ + 1 ELSE @]

BatchApplied(w) ==
  [i \in Issues |-> IF i \in w.tasks THEN TaskAfter(w, i) ELSE AncestorAfter(w, i)]

-----------------------------------------------------------------------------
(* The server.                                                              *)

Forests ==
  {f \in [Issues -> Issues \union {NoParent, Nowhere}] :
     \A i \in Issues :
       /\ i \in Spare <=> f[i] = Nowhere
       /\ f[i] \in Issues => f[f[i]] # Nowhere
       /\ \A S \in SUBSET Issues : i \in S => \E s \in S : f[s] \notin S}

Settled(f, where) ==
  LET bare == [i \in Issues |-> [attachedTo |-> f[i], space |-> where[i], number |-> i]]
  IN [i \in Issues |->
        [attachedTo |-> f[i], space |-> where[i], modifiedOn |-> 0,
         subIssues |-> Cardinality({c \in Issues : f[c] = i}), number |-> i,
         parents |-> Ancestry(bare, i), childInfo |-> Below(bare, i) \ {i}]]

Init ==
  /\ \E f \in Forests, where \in [Issues -> Home \union {Nowhere}], wrong \in SUBSET Stale :
       /\ \A i \in Issues : /\ f[i] = Nowhere <=> where[i] = Nowhere
                            /\ f[i] \in Issues => where[i] = where[f[i]]
       /\ issue = [i \in Issues |-> IF i \in wrong THEN [Settled(f, where)[i] EXCEPT !.parents = {}]
                                                   ELSE Settled(f, where)[i]]
  /\ sequence = [p \in Projects |-> 0]
  /\ net = [m \in Movers |-> None] /\ reply = [m \in Movers |-> None]
  /\ edits = 0
  /\ pc = [m \in Movers |-> "start"] /\ pass = [m \in Movers |-> "prepare"]
  /\ sel = [m \in Movers |-> None]
  /\ hier = [m \in Movers |-> None] /\ tree = [m \in Movers |-> None]
  /\ frontier = [m \in Movers |-> {}] /\ broken = [m \in Movers |-> FALSE]
  /\ plan = [m \in Movers |-> None] /\ exec = [m \in Movers |-> None]
  /\ facts = [m \in Movers |-> None] /\ tries = [m \in Movers |-> 0]
  /\ after = [m \in Movers |-> None] /\ outcome = [m \in Movers |-> None]
  /\ drawn = [m \in Movers |-> {}] /\ landed = [m \in Movers |-> 0]
  /\ rewritten = {} /\ discrepancy = [m \in Movers |-> FALSE]

\* Somebody edits a row: a title, a comment, an estimate.
Edit(i) ==
  /\ Exists(i) /\ edits < MaxEdits
  /\ issue' = [issue EXCEPT ![i].modifiedOn = @ + 1]
  /\ edits' = edits + 1
  /\ UNCHANGED <<sequence, rewritten, wire, calls>>

\* Somebody creates a child of p.  The row of p need not show a new modifiedOn.
CreateChild(i, p) ==
  /\ ~Exists(i) /\ Exists(p)
  /\ LET n == sequence[issue[p].space] + 1
         born == [issue[i] EXCEPT !.attachedTo = p, !.space = issue[p].space, !.number = n]
     IN /\ sequence' = [sequence EXCEPT ![issue[p].space] = n]
        /\ issue' = [issue EXCEPT ![p].subIssues = @ + 1,
                                  ![i] = [born EXCEPT !.parents = Ancestry([issue EXCEPT ![i] = born], i)]]
  /\ UNCHANGED <<edits, rewritten, wire, calls>>

\* The server's trigger brings the aggregate of an ancestor up to date.
RefreshInformation(a) ==
  /\ Exists(a) /\ issue[a].childInfo # Below(issue, a) \ {a}
  /\ issue' = [issue EXCEPT ![a].childInfo = Below(issue, a) \ {a}]
  /\ UNCHANGED <<sequence, edits, rewritten, wire, calls>>

Asks(m, kind) == net[m] # None /\ net[m].kind = kind
\* An answer nobody waits for any more is dropped.
Answer(m, kind, value) ==
  /\ net' = [net EXCEPT ![m] = None]
  /\ reply' = [reply EXCEPT ![m] = IF pc[m] \in {"allocating", "committing"}
                                   THEN [kind |-> kind, value |-> value] ELSE @]

\* The number sequence of a project: one increment, which answers the new value.
GiveNumber(m) ==
  /\ Asks(m, "allocate")
  /\ LET project == net[m].write IN
     /\ sequence' = [sequence EXCEPT ![project] = @ + 1]
     /\ drawn' = [drawn EXCEPT ![m] = @ \union {sequence[project] + 1}]
     /\ Answer(m, "number", sequence[project] + 1)
  /\ UNCHANGED <<issue, edits, rewritten, landed, calls>>

RefuseBatch(m) ==
  /\ Asks(m, "batch") /\ ~BatchHolds(net[m].write)
  /\ Answer(m, "refused", 0)
  /\ UNCHANGED <<server, drawn, landed, calls>>

\* Only when not Isolated: the conditions held, the updates are yet to be made.
AdmitBatch(m) ==
  /\ ~Isolated /\ Asks(m, "batch") /\ BatchHolds(net[m].write)
  /\ net' = [net EXCEPT ![m].kind = "admitted"]
  /\ UNCHANGED <<server, reply, drawn, landed, calls>>

ApplyBatch(m) ==
  /\ \/ Isolated /\ Asks(m, "batch") /\ BatchHolds(net[m].write)
     \/ Asks(m, "admitted")
  /\ issue' = BatchApplied(net[m].write)
  /\ rewritten' = rewritten \union net[m].write.tasks
  /\ landed' = [landed EXCEPT ![m] = @ + 1]
  /\ Answer(m, "applied", 0)
  /\ UNCHANGED <<sequence, edits, drawn, calls>>

-----------------------------------------------------------------------------
(* Reading.                                                                 *)

Goto(m, where) == pc' = [pc EXCEPT ![m] = where]
ClearReads(m) ==
  /\ hier' = [hier EXCEPT ![m] = None] /\ tree' = [tree EXCEPT ![m] = None]
  /\ frontier' = [frontier EXCEPT ![m] = {}] /\ broken' = [broken EXCEPT ![m] = FALSE]
\* The call returns; what it held in memory is gone.
Return(m, what) ==
  /\ Goto(m, "done")
  /\ outcome' = [outcome EXCEPT ![m] = what]
  /\ ClearReads(m)
  /\ sel' = [sel EXCEPT ![m] = None] /\ plan' = [plan EXCEPT ![m] = None]
  /\ facts' = [facts EXCEPT ![m] = None] /\ tries' = [tries EXCEPT ![m] = 0]
  /\ after' = [after EXCEPT ![m] = None] /\ pass' = [pass EXCEPT ![m] = "prepare"]
StartPass(m, which) ==
  /\ Goto(m, "source")
  /\ pass' = [pass EXCEPT ![m] = which]
  /\ ClearReads(m)

\* stoppedResult: with nothing sent the call is "blocked", whatever stopped it
StoppedResult(m, evidence, what) == IF evidence = None THEN "blocked" ELSE what

\* selectMovementIssue and selectMovementContext; a parent decides the project.
Begin(m) ==
  /\ pc[m] = "start"
  /\ \E r \in {i \in Issues : Exists(i)}, p \in {i \in Issues : Exists(i)} \union {NoParent}, d \in Projects :
       /\ p # NoParent => d = issue[p].space
       /\ sel' = [sel EXCEPT ![m] = [root |-> r, parent |-> p, dest |-> d, rootRow |-> issue[r],
                                     parentRow |-> IF p = NoParent THEN None ELSE issue[p]]]
  /\ StartPass(m, "prepare")
  /\ UNCHANGED <<server, wire, proof, plan, exec, after, outcome>>

\* inspectMovementProject of the source, then of the destination
ReadSource(m) ==
  /\ pc[m] = "source"
  /\ hier' = [hier EXCEPT ![m] =
                [source |-> Now({i \in Issues : issue[i].space = Source(m)}), target |-> Now({})]]
  /\ Goto(m, IF ~SameProject(m) THEN "target" ELSE IF pass[m] = "verify" THEN "hierarchy" ELSE "tree")
  /\ tree' = [tree EXCEPT ![m] = [i \in {Root(m)} |-> sel[m].rootRow]]
  /\ frontier' = [frontier EXCEPT ![m] = {Root(m)}]
  /\ UNCHANGED <<server, wire, broken, proof, pass, sel, plan, exec, after, outcome>>

ReadTarget(m) ==
  /\ pc[m] = "target"
  /\ hier' = [hier EXCEPT ![m].target = Now({i \in Issues : issue[i].space = Dest(m)})]
  /\ Goto(m, IF pass[m] = "verify" THEN "hierarchy" ELSE "tree")
  /\ UNCHANGED <<server, wire, tree, frontier, broken, proof, pass, sel, plan, exec, after, outcome>>

\* inspectTransferTree: the children of one level.  A row met again, one in
\* another project and a tree beyond the limit are remembered, not dropped.
ReadLevel(m) ==
  /\ pc[m] = "tree" /\ frontier[m] # {}
  /\ LET rows == {i \in Issues : issue[i].attachedTo \in frontier[m]}
         new == rows \ DOMAIN tree[m]
         all == DOMAIN tree[m] \union new
     IN /\ tree' = [tree EXCEPT ![m] = [i \in all |-> IF i \in new THEN issue[i] ELSE tree[m][i]]]
        /\ frontier' = [frontier EXCEPT ![m] = new]
        /\ broken' = [broken EXCEPT ![m] =
                        \/ @ \/ rows # new \/ Cardinality(all) > MaxTasks
                        \/ \E i \in new : issue[i].space # Source(m)]
  /\ UNCHANGED <<server, wire, hier, proof, pc, pass, sel, plan, exec, after, outcome>>

\* The rest of inspectTransferPlan, over the closure read now.
Prepared(m) ==
  /\ pc[m] = "tree" /\ frontier[m] = {} /\ pass[m] = "prepare" /\ InspectionClean(m)
  /\ plan' = [plan EXCEPT ![m] = Inspected(m)]
  /\ StartPass(m, "reinspect")
  /\ UNCHANGED <<server, wire, proof, sel, exec, after, outcome>>

Conflicting(m) ==
  /\ pc[m] = "tree" /\ frontier[m] = {} /\ pass[m] = "prepare" /\ ~InspectionClean(m)
  /\ Return(m, "blocked")
  /\ UNCHANGED <<server, wire, discrepancy, exec>>

\* reinspect: what is read now is, deeply, what was prepared
Unchanged(m) == InspectionClean(m) /\ Inspected(m) = plan[m]

Reinspected(m) ==
  /\ pc[m] = "tree" /\ frontier[m] = {} /\ pass[m] = "reinspect" /\ Unchanged(m)
  /\ IF SameProject(m) /\ Satisfied(m) THEN StartPass(m, "verify")
     ELSE /\ Goto(m, IF SameProject(m) THEN "commit" ELSE "allocate")
          /\ ClearReads(m) /\ UNCHANGED pass
  /\ UNCHANGED <<server, wire, proof, sel, plan, exec, after, outcome>>

\* inspectAdmission answers "blocked"
NotAdmitted(m) ==
  /\ pc[m] = "tree" /\ frontier[m] = {} /\ pass[m] = "reinspect" /\ ~Unchanged(m)
  /\ Return(m, "blocked")
  /\ UNCHANGED <<server, wire, discrepancy, exec>>

Presend(m) ==
  /\ pc[m] = "tree" /\ frontier[m] = {} /\ pass[m] = "presend"
  /\ IF Unchanged(m)
     THEN Goto(m, "commit") /\ ClearReads(m) /\ UNCHANGED <<pass, after>>
     ELSE StartPass(m, "verify") /\ after' = [after EXCEPT ![m] = "incomplete"]
  /\ UNCHANGED <<server, wire, proof, sel, plan, exec, outcome>>

\* A read fails or the ten seconds of an inspection are over.
ReadFails(m) ==
  /\ "read" \in Faults
  /\ pc[m] \in {"source", "target", "tree"} /\ pass[m] # "verify"
  /\ Return(m, IF pass[m] = "presend" THEN StoppedResult(m, exec[m], "indeterminate") ELSE "blocked")
  /\ UNCHANGED <<server, wire, discrepancy, exec>>

-----------------------------------------------------------------------------
(* Numbers (allocateTransferTree).                                          *)

Confirmed(m) == IF exec[m] = None THEN Now({}) ELSE exec[m].confirmed
Record(m, evidence) == exec' = [exec EXCEPT ![m] = evidence]
Allocating(confirmed, uncertain) ==
  [phase |-> "allocation", commit |-> "not-sent", confirmed |-> confirmed, uncertain |-> uncertain]

\* Mutation of allocateTransferTree: the number is noted when it arrives only.
AskNumberUnrecorded(m, t) ==
  /\ pc[m] = "allocate" /\ t \in Tasks(m) \ DOMAIN Confirmed(m)
  /\ Record(m, Allocating(Confirmed(m), {}))
  /\ net' = [net EXCEPT ![m] = [kind |-> "allocate", write |-> Dest(m)]]
  /\ Goto(m, "allocating")
  /\ UNCHANGED <<server, reply, drawn, landed, reads, proof, pass, sel, plan, after, outcome>>

AskNumber(m, t) ==
  /\ pc[m] = "allocate" /\ t \in Tasks(m) \ DOMAIN Confirmed(m)
  /\ Record(m, Allocating(Confirmed(m), {t}))
  /\ net' = [net EXCEPT ![m] = [kind |-> "allocate", write |-> Dest(m)]]
  /\ Goto(m, "allocating")
  /\ UNCHANGED <<server, reply, drawn, landed, reads, proof, pass, sel, plan, after, outcome>>

\* failedAllocation of a request that was refused before it was sent
NumberUnsent(m) ==
  /\ "unsent" \in Faults
  /\ pc[m] = "allocate"
  /\ LET known == IF DOMAIN Confirmed(m) = {} THEN None ELSE Allocating(Confirmed(m), {})
     IN Record(m, known) /\ Return(m, StoppedResult(m, known, "incomplete"))
  /\ UNCHANGED <<server, wire, discrepancy>>

\* Mutation of allocateTransferTree: one number is asked for the whole tree.
NumberArrivesForAll(m) ==
  /\ pc[m] = "allocating" /\ reply[m] # None
  /\ Record(m, Allocating([u \in Tasks(m) |-> reply[m].value], {}))
  /\ StartPass(m, "presend")
  /\ reply' = [reply EXCEPT ![m] = None]
  /\ UNCHANGED <<server, net, drawn, landed, proof, sel, plan, after, outcome>>

NumberArrives(m) ==
  /\ pc[m] = "allocating" /\ reply[m] # None
  /\ LET known == [u \in DOMAIN Confirmed(m) \union exec[m].uncertain |->
                     IF u \in exec[m].uncertain THEN reply[m].value ELSE Confirmed(m)[u]]
     IN /\ Record(m, Allocating(known, {}))
        /\ IF DOMAIN known = Tasks(m) THEN StartPass(m, "presend")
           ELSE Goto(m, "allocate") /\ UNCHANGED <<pass, reads>>
  /\ reply' = [reply EXCEPT ![m] = None]
  /\ UNCHANGED <<server, net, drawn, landed, proof, sel, plan, after, outcome>>

\* Mutation of failedAllocation: a lost answer is taken for a request unsent.
NumberLostForgotten(m) ==
  /\ "reply" \in Faults
  /\ pc[m] = "allocating"
  /\ LET known == IF DOMAIN Confirmed(m) = {} THEN None ELSE Allocating(Confirmed(m), {})
     IN Record(m, known) /\ Return(m, StoppedResult(m, known, "incomplete"))
  /\ UNCHANGED <<server, wire, discrepancy>>

\* The answer does not come, is an error or is malformed: the number may be gone.
NumberLost(m) ==
  /\ "reply" \in Faults
  /\ pc[m] = "allocating"
  /\ Return(m, StoppedResult(m, exec[m], "indeterminate"))
  /\ UNCHANGED <<server, wire, discrepancy, exec>>

-----------------------------------------------------------------------------
(* The batch (commitAndVerify).                                             *)

Committing(m, what) ==
  [phase |-> "commit", commit |-> what, confirmed |-> Confirmed(m), uncertain |-> {}]

Send(m) ==
  /\ pc[m] = "commit"
  /\ Record(m, Committing(m, "sent"))
  /\ net' = [net EXCEPT ![m] = [kind |-> "batch", write |-> Write(m)]]
  /\ Goto(m, "committing")
  /\ UNCHANGED <<server, reply, drawn, landed, reads, proof, pass, sel, plan, after, outcome>>

\* failedCommit, the request refused before it was sent
CommitUnsent(m) ==
  /\ "unsent" \in Faults
  /\ pc[m] = "commit"
  /\ Record(m, IF DOMAIN Confirmed(m) = {} THEN None ELSE Allocating(Confirmed(m), {}))
  /\ StartPass(m, "verify") /\ after' = [after EXCEPT ![m] = "incomplete"]
  /\ UNCHANGED <<server, wire, proof, sel, plan, outcome>>

\* The queued transactions do not parse: nothing is sent, which is not known here.
CommitUnparsable(m) ==
  /\ "unsent" \in Faults
  /\ pc[m] = "commit"
  /\ Record(m, Committing(m, "reply-lost"))
  /\ StartPass(m, "verify") /\ after' = [after EXCEPT ![m] = "indeterminate"]
  /\ UNCHANGED <<server, wire, proof, sel, plan, outcome>>

\* Mutation of failedCommit: the batch is sent again when its answer is lost.
CommitLostSentAgain(m) ==
  /\ "reply" \in Faults
  /\ pc[m] = "committing" /\ net[m] = None
  /\ net' = [net EXCEPT ![m] = [kind |-> "batch", write |-> Write(m)]] /\ reply' = [reply EXCEPT ![m] = None]
  /\ UNCHANGED <<server, drawn, landed, reads, proof, pc, pass, sel, plan, exec, after, outcome>>

\* Mutation of failedCommit: a lost answer is taken for a request unsent.
CommitLostAsUnsent(m) ==
  /\ "reply" \in Faults
  /\ pc[m] = "committing"
  /\ Record(m, IF DOMAIN Confirmed(m) = {} THEN None ELSE Allocating(Confirmed(m), {}))
  /\ StartPass(m, "verify") /\ after' = [after EXCEPT ![m] = "incomplete"]
  /\ UNCHANGED <<server, wire, proof, sel, plan, outcome>>

\* failedCommit after the send: no answer, an error or a malformed one
CommitLost(m) ==
  /\ "reply" \in Faults
  /\ pc[m] = "committing"
  /\ Record(m, Committing(m, "reply-lost"))
  /\ StartPass(m, "verify") /\ after' = [after EXCEPT ![m] = "indeterminate"]
  /\ UNCHANGED <<server, wire, proof, sel, plan, outcome>>

CommitRefused(m) ==
  /\ pc[m] = "committing" /\ reply[m] # None /\ reply[m].kind = "refused"
  /\ Record(m, Committing(m, "refused"))
  /\ reply' = [reply EXCEPT ![m] = None]
  /\ StartPass(m, "verify") /\ after' = [after EXCEPT ![m] = "incomplete"]
  /\ UNCHANGED <<server, net, drawn, landed, proof, sel, plan, outcome>>

\* Mutation of commitAndVerify: any answer is taken for "applied".
CommitAppliedOnAnyAnswer(m) ==
  /\ pc[m] = "committing" /\ reply[m] # None
  /\ Record(m, [Committing(m, "acknowledged") EXCEPT !.phase = "verification"])
  /\ reply' = [reply EXCEPT ![m] = None]
  /\ StartPass(m, "verify")
  /\ UNCHANGED <<server, net, drawn, landed, proof, sel, plan, after, outcome>>

CommitApplied(m) ==
  /\ pc[m] = "committing" /\ reply[m] # None /\ reply[m].kind = "applied"
  /\ Record(m, [Committing(m, "acknowledged") EXCEPT !.phase = "verification"])
  /\ reply' = [reply EXCEPT ![m] = None]
  /\ StartPass(m, "verify")
  /\ UNCHANGED <<server, net, drawn, landed, proof, sel, plan, after, outcome>>

-----------------------------------------------------------------------------
(* Looking at the result (verifyTransferTree), once for a call that failed  *)
(* and up to MaxTries times for one that was acknowledged.                  *)

\* Mutation of mergePartialProof: the new pass replaces the old one.
MergedOverwriting(m, problem, complete) == [inconsistent |-> problem, complete |-> complete]

\* mergePartialProof: a partial pass cannot erase what an earlier one found
Merged(m, problem, complete) ==
  [inconsistent |-> problem \/ (~complete /\ facts[m] # None /\ facts[m].inconsistent),
   complete |-> complete]

Inconsistent(fact) == fact # None /\ fact.inconsistent

HierarchyProblemAfterMove(m) ==
  LET rows == ById(hier[m]) IN
  \/ Root(m) \notin DOMAIN rows
  \/ Cardinality(Below(rows, Root(m))) # Cardinality(Tasks(m))
  \/ \E i \in DOMAIN plan[m].rows : i \notin DOMAIN rows \/ ~Orderly(hier[m], i)

TaskProblem(m) ==
  \E t \in Tasks(m) :
    \/ issue[t].space # Dest(m) \/ issue[t].attachedTo # FinalParent(m, t)
    \/ issue[t].number # FinalNumber(m, t) \/ issue[t].parents # Ancestry(Planned(m), t)

\* the hierarchy is judged and published as a partial proof
VerifyHierarchy(m) ==
  /\ pc[m] = "hierarchy"
  /\ LET problem == HierarchyProblemAfterMove(m) IN
     /\ facts' = [facts EXCEPT ![m] = Merged(m, problem, FALSE)]
     /\ discrepancy' = [discrepancy EXCEPT ![m] = @ \/ problem]
     /\ broken' = [broken EXCEPT ![m] = problem]
  /\ Goto(m, "tasks")
  /\ UNCHANGED <<server, wire, hier, tree, frontier, tries, pass, sel, plan, exec, after, outcome>>

\* every task and record, then the closure.  A pass in which some read failed
\* is partial and may have missed a problem; so is one whose closure changed.
VerifyTasks(m) ==
  /\ pc[m] = "tasks"
  /\ \E lost \in {f \in BOOLEAN : f => "read" \in Faults}, missed \in BOOLEAN :
       LET S == DOMAIN plan[m].rows
           complete == ~lost /\ ClosureCounted(hier[m], S)
           problem == \/ broken[m]
                      \/ ~(lost /\ missed) /\ (TaskProblem(m) \/ (ClosureCounted(hier[m], S) /\ ~ClosureMatches(hier[m], S)))
       IN /\ facts' = [facts EXCEPT ![m] = Merged(m, problem, complete)]
          /\ discrepancy' = [discrepancy EXCEPT ![m] = problem \/ (@ /\ ~complete)]
          /\ broken' = [broken EXCEPT ![m] = problem \/ ~complete]
  /\ Goto(m, "verified")
  /\ UNCHANGED <<server, wire, hier, tree, frontier, tries, pass, sel, plan, exec, after, outcome>>

VerifiedResult(m, fact) ==
  IF Inconsistent(fact) THEN StoppedResult(m, exec[m], "incomplete")
  ELSE IF fact = None \/ ~fact.complete THEN StoppedResult(m, exec[m], "indeterminate")
  ELSE IF Satisfied(m) THEN "no-op" ELSE "completed"

\* observeFailure is over: the outcome was decided before it
Observed(m) ==
  /\ pc[m] = "verified" /\ after[m] # None
  /\ Return(m, StoppedResult(m, exec[m], after[m]))
  /\ UNCHANGED <<server, wire, discrepancy, exec>>

\* Mutation of finishVerification: the repetitions are not counted.
VerifyAgainUncounted(m) ==
  /\ pc[m] = "verified" /\ after[m] = None /\ broken[m]
  /\ tries' = [tries EXCEPT ![m] = @ + 1]
  /\ StartPass(m, "verify")
  /\ UNCHANGED <<server, wire, facts, discrepancy, sel, plan, exec, after, outcome>>

VerifyAgain(m) ==
  /\ pc[m] = "verified" /\ after[m] = None
  /\ broken[m] /\ tries[m] + 1 < MaxTries
  /\ tries' = [tries EXCEPT ![m] = @ + 1]
  /\ StartPass(m, "verify")
  /\ UNCHANGED <<server, wire, facts, discrepancy, sel, plan, exec, after, outcome>>

Verified(m) ==
  /\ pc[m] = "verified" /\ after[m] = None
  /\ ~broken[m] \/ tries[m] + 1 = MaxTries
  /\ Return(m, VerifiedResult(m, facts[m]))
  /\ UNCHANGED <<server, wire, discrepancy, exec>>

\* An inventory fails or is incomplete; what was observed so far is kept.
VerificationFails(m) ==
  /\ "read" \in Faults
  /\ \/ pc[m] \in {"source", "target"} /\ pass[m] = "verify"
     \/ pc[m] = "tasks" /\ after[m] # None        \* the ten seconds of observeFailure
  /\ Return(m, IF after[m] # None THEN StoppedResult(m, exec[m], after[m])
               ELSE StoppedResult(m, exec[m], IF Inconsistent(facts[m]) THEN "incomplete" ELSE "indeterminate"))
  /\ UNCHANGED <<server, wire, discrepancy, exec>>

\* The thirty seconds are over, at any point after the first inspection.
Deadline(m) ==
  /\ "deadline" \in Faults
  /\ pc[m] \notin {"start", "done"} /\ plan[m] # None
  /\ Return(m, StoppedResult(m, exec[m],
                 IF exec[m] # None /\ exec[m].phase = "verification" /\ Inconsistent(facts[m])
                 THEN "incomplete" ELSE "indeterminate"))
  /\ UNCHANGED <<server, wire, discrepancy, exec>>

-----------------------------------------------------------------------------
Call(m) ==
  \/ Begin(m) \/ ReadSource(m) \/ ReadTarget(m) \/ ReadLevel(m) \/ Prepared(m) \/ Conflicting(m)
  \/ Reinspected(m) \/ NotAdmitted(m) \/ Presend(m) \/ ReadFails(m)
  \/ (\E t \in Issues : AskNumber(m, t)) \/ NumberUnsent(m) \/ NumberArrives(m) \/ NumberLost(m)
  \/ Send(m) \/ CommitUnsent(m) \/ CommitUnparsable(m) \/ CommitLost(m)
  \/ CommitRefused(m) \/ CommitApplied(m)
  \/ VerifyHierarchy(m) \/ VerifyTasks(m) \/ Observed(m) \/ VerifyAgain(m) \/ Verified(m)
  \/ VerificationFails(m) \/ Deadline(m)

Server ==
  \/ \E m \in Movers : GiveNumber(m) \/ RefuseBatch(m) \/ AdmitBatch(m) \/ ApplyBatch(m)
  \/ \E i \in Issues : Edit(i) \/ RefreshInformation(i)
  \/ \E i, p \in Issues : CreateChild(i, p)

Next == Server \/ \E m \in Movers : Call(m)
Spec == Init /\ [][Next]_vars

-----------------------------------------------------------------------------
(* Properties.                                                              *)

SelectionTyped(s) ==
  /\ s.root \in Issues /\ s.parent \in Issues \union {NoParent} /\ s.dest \in Projects
  /\ s.rootRow \in Found /\ (s.parent # NoParent => s.parentRow \in Found)
WriteTyped(w) ==
  /\ w.root \in Issues /\ w.parent \in Issues \union {NoParent}
  /\ w.source \in Projects /\ w.dest \in Projects
  /\ IsMap(w.rows, Found) /\ w.tasks \subseteq DOMAIN w.rows
  /\ w.final \in [w.tasks -> [attachedTo : Issues \union {NoParent}, number : Numbers,
                              parents : SUBSET Ancestors]]
RequestTyped(r) == \/ r.kind = "allocate" /\ r.write \in Projects
                   \/ r.kind \in {"batch", "admitted"} /\ WriteTyped(r.write)
MapsTyped(h) == IsMap(h.source, Found) /\ IsMap(h.target, Found)
PlanTyped(p) == IsMap(p.rows, Found) /\ p.tasks \subseteq DOMAIN p.rows
EvidenceTyped(e) == /\ e.phase \in Phases /\ e.commit \in Commits
                    /\ IsMap(e.confirmed, Nat) /\ e.uncertain \subseteq Issues

\* The records of a call, in memory and on the wire.
RecordsTyped(m) ==
  /\ net[m] # None => RequestTyped(net[m])
  /\ reply[m] # None => reply[m].kind \in {"number", "refused", "applied"} /\ reply[m].value \in Nat
  /\ sel[m] # None => SelectionTyped(sel[m])
  /\ hier[m] # None => MapsTyped(hier[m])
  /\ tree[m] # None => IsMap(tree[m], Found)
  /\ plan[m] # None => PlanTyped(plan[m])
  /\ exec[m] # None => EvidenceTyped(exec[m])

StepsTyped ==
  /\ pc \in [Movers -> {"start", "source", "target", "tree", "allocate", "allocating", "commit",
                        "committing", "hierarchy", "tasks", "verified", "done"}]
  /\ pass \in [Movers -> {"prepare", "reinspect", "presend", "verify"}]
  /\ outcome \in [Movers -> Outcomes \union {None}]
  /\ after \in [Movers -> {None, "incomplete", "indeterminate"}]
  /\ tries \in [Movers -> 0..(MaxTries - 1)] /\ facts \in [Movers -> Facts \union {None}]
  /\ frontier \in [Movers -> SUBSET Issues] /\ broken \in [Movers -> BOOLEAN]
  /\ drawn \in [Movers -> SUBSET Nat] /\ landed \in [Movers -> Nat]
  /\ discrepancy \in [Movers -> BOOLEAN]

TypeOK ==
  /\ issue \in [Issues -> Rows] /\ sequence \in [Projects -> Nat]
  /\ edits \in 0..MaxEdits /\ rewritten \subseteq Issues
  /\ StepsTyped /\ \A m \in Movers : RecordsTyped(m)

\* The workspace is a forest that changes by whole moves, however old the
\* inspection a batch was planned from.
Forest == INSTANCE IssueForest WITH attachedTo <- [i \in Issues |-> issue[i].attachedTo],
                                    space <- [i \in Issues |-> issue[i].space]
ImplementsForest == Forest!Spec

\* No issue ever becomes its own ancestor, however many moves were planned on
\* what others have changed since, and no child is left in another project.
StaysForest == Forest!Acyclic /\ Forest!TogetherWithParent

\* What rows cache of other rows is kept right by batches that only know the rows
\* they read: an issue's subIssues is the number of its children, through every
\* move; an ancestry a batch has written stays right while the issues above it
\* move; and an aggregate may lack an issue that has just arrived below, but never
\* lists one that has left.
DerivedDataExact ==
  /\ \A i \in Issues : issue[i].subIssues = Cardinality({c \in Issues : issue[c].attachedTo = i})
  /\ \A i \in rewritten : issue[i].parents = Ancestry(issue, i)
  /\ \A i \in Issues : issue[i].childInfo \subseteq Below(issue, i)

BatchUnderWay(m) == Asks(m, "batch") \/ Asks(m, "admitted")

\* What a call reports of its writes is true of the server, then and later: with
\* "changed: false" it has written nothing and nothing is under way that still
\* could; a batch reported as not sent or refused never lands; a completed call has
\* landed; and no batch is sent or applied twice.
EvidenceIsTrue ==
  \A m \in Movers :
    /\ outcome[m] \in {"blocked", "no-op"} => drawn[m] = {} /\ landed[m] = 0 /\ net[m] = None
    /\ exec[m] # None /\ exec[m].commit \in {"not-sent", "refused"} => landed[m] = 0 /\ ~BatchUnderWay(m)
    /\ outcome[m] = "completed" => landed[m] = 1
    /\ landed[m] + (IF BatchUnderWay(m) THEN 1 ELSE 0) <= 1

\* Every number taken from a project for this call is in its evidence, by
\* value or as a task whose number is uncertain; and no two issues of one
\* project have the same number.
NumbersAccounted ==
  /\ \A m \in Movers :
       LET known == {Confirmed(m)[t] : t \in DOMAIN Confirmed(m)} IN
       /\ known \subseteq drawn[m]
       /\ Cardinality(drawn[m] \ known) <= (IF exec[m] = None THEN 0 ELSE Cardinality(exec[m].uncertain))
  /\ \A i, j \in Issues : i # j /\ Exists(i) /\ issue[i].space = issue[j].space =>
       issue[i].number # issue[j].number

\* A discrepancy that was observed and that no complete clean pass has refuted
\* is reported: never "completed", and "incomplete" when the write was acknowledged.
DiscrepancyReported ==
  \A m \in Movers : pc[m] = "done" /\ discrepancy[m] =>
    /\ outcome[m] \notin {"completed", "no-op"}
    /\ exec[m] # None /\ exec[m].phase = "verification" => outcome[m] = "incomplete"

\* What a call returns is true of what the server did, will do and was seen to hold.
ReportIsTrue == EvidenceIsTrue /\ DiscrepancyReported
=============================================================================
