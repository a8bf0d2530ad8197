-------------------------- MODULE ResidentSelection --------------------------
(***************************************************************************)
(* How the processes that share one private directory agree on which      *)
(* resident generations run there: managed-selection.ts,                   *)
(* selection-claim.ts, managed-process.ts, child-authorization.ts,         *)
(* publication-state.ts, generation-registry.ts, namespace-inventory.ts    *)
(* and attachment-file.ts of src/resident.                                 *)
(*                                                                         *)
(* A launcher takes the claim (the directory selection.claim), reads the   *)
(* descriptors and registry records, asks each published generation for    *)
(* admission, and joins the one that matches or starts its own.  A managed *)
(* launcher spawns a prepared child and hands the claim over to it in the  *)
(* Start message; a foreground one becomes the owner itself.  The owner    *)
(* links its descriptor, records the generation, gives the claim back,     *)
(* serves, and takes the claim once more to retire its record.             *)
(*                                                                         *)
(* Generations are named by the launcher they come from, one each.  Each   *)
(* action is one operation on the directory, or one message, with what     *)
(* its process does up to the next one.  Deadlines, interruptions and      *)
(* refusals may come at any time.  A crash leaves the directory as it is.  *)
(***************************************************************************)
EXTENDS FiniteSets, Naturals

CONSTANTS
  Launchers,        \* processes that look for a generation, each once
  Foreground,       \* those in resident-http mode; the others are managed
  Configs,          \* versions, telemetry policies and selections they resolve
  Apart,            \* pairs told apart without asking: version, telemetry
  MaxRecords,       \* MAX_REGISTRY_RECORDS
  Inodes,           \* of selection.claim; one may be used again
  NoInode, None, Free, Stranded

ASSUME LaunchersAssumption ==
  /\ IsFiniteSet(Launchers) /\ Foreground \subseteq Launchers
  /\ None \notin Launchers /\ NoInode \notin Inodes
ASSUME ApartAssumption == \A c \in Configs : <<c, c>> \notin Apart
ASSUME RecordsAssumption == MaxRecords \in Nat \ {0}

VARIABLES
  claim,            \* inode of selection.claim, NoInode when there is none
  records,          \* generations/<g>.json
  files,            \* <g>.json, the descriptors
  cap,              \* who may release the claim, and the inode it was told
  conf,             \* the configuration each launcher resolved
  launcher,         \* where each launcher stands
  seen, todo,       \* the records it read, those it has not visited
  chosen,           \* the generation that admitted it
  reply,            \* the child's last message not yet read by its launcher
  killed,           \* children sent SIGKILL
  gen,              \* where each generation's process stands
  pub,              \* PublicationState.attempt and the fiber that advances it
  outcome,          \* how its run ended
  lost              \* history: a claim was lost by whoever answered for it

directory == <<claim, cap>>
launching == <<launcher, seen, todo, chosen>>
running == <<gen, pub, outcome>>
vars == <<directory, records, files, conf, launching, reply, killed, running, lost>>

Roles == {"launcher", "start", "generation"}
Party == Roles \X Launchers
Holders == {p \in Party : cap[p] # NoInode}

Booting == {"booting", "prepared", "authorized"}
Live == {"starting", "up", "serving", "ending", "draining"}
Settling == {"ended", "retiring", "removing", "closing"}
Published == {"linked", "torn", "recorded", "done", "unreleased"}

TypeOK ==
  /\ claim \in Inodes \union {NoInode}
  /\ records \subseteq Launchers /\ files \subseteq Launchers
  /\ cap \in [Party -> Inodes \union {NoInode}]
  /\ conf \in [Launchers -> Configs]
  /\ launcher \in [Launchers -> {"selecting", "reading", "visiting", "waiting", "killing",
       "reaping", "starting", "owning", "releasing", "attached", "over", "dead"}]
  /\ seen \in [Launchers -> SUBSET Launchers] /\ todo \in [Launchers -> SUBSET Launchers]
  /\ chosen \in [Launchers -> Launchers \union {None}]
  /\ reply \in [Launchers -> {"none", "prepared", "ready"}]
  /\ killed \in [Launchers -> BOOLEAN] /\ lost \in BOOLEAN
  /\ gen \in [Launchers -> {"none", "checking", "gone", "crashed"}
                             \union Booting \union Live \union Settling]
  /\ pub \in [Launchers -> {"unattempted", "begun", "refused"} \union Published]
  /\ outcome \in [Launchers -> {"none", "clean", "failure"}]

Init ==
  /\ claim = NoInode /\ records = {} /\ files = {}
  /\ cap = [p \in Party |-> NoInode]
  /\ conf \in [Launchers -> Configs]
  /\ launcher = [l \in Launchers |-> "selecting"]
  /\ seen = [l \in Launchers |-> {}] /\ todo = [l \in Launchers |-> {}]
  /\ chosen = [l \in Launchers |-> None]
  /\ reply = [l \in Launchers |-> "none"] /\ killed = [l \in Launchers |-> FALSE]
  /\ gen = [l \in Launchers |-> "none"]
  /\ pub = [l \in Launchers |-> "unattempted"]
  /\ outcome = [l \in Launchers |-> "none"]
  /\ lost = FALSE

-----------------------------------------------------------------------------
(* selection-claim.ts.  p is a capability: that of a launcher, of a Start  *)
(* message on its way, of a generation.                                    *)

\* Mutation: a claim nobody answers for any more is taken over.
AcquireStale(p) ==
  /\ Holders = {}
  /\ \E i \in Inodes : claim' = i /\ cap' = [cap EXCEPT ![p] = i]

Acquire(p) ==
  /\ claim = NoInode
  /\ \E i \in Inodes : claim' = i /\ cap' = [cap EXCEPT ![p] = i]

\* Mutation: the sender keeps its capability, "transferred" is not recorded.
TransferKept(p, q) ==
  /\ cap' = [cap EXCEPT ![q] = cap[p]]
  /\ UNCHANGED claim

\* transferTo and adopt
Transfer(p, q) ==
  /\ cap' = [cap EXCEPT ![p] = NoInode, ![q] = cap[p]]
  /\ UNCHANGED claim

\* Mutation: released is recorded and the directory is not removed.
ReleaseMarkedOnly(p) ==
  /\ cap' = [cap EXCEPT ![p] = NoInode]
  /\ UNCHANGED claim

\* release: nothing once released or transferred; another inode is left alone
Release(p) ==
  /\ claim' = IF claim = cap[p] THEN NoInode ELSE claim
  /\ cap' = [cap EXCEPT ![p] = NoInode]

\* the directory stays and nobody can remove it: the process died, an lstat or
\* rmdir failed, a message was not delivered
Lose(ps) ==
  /\ cap' = [p \in Party |-> IF p \in ps THEN NoInode ELSE cap[p]]
  /\ lost' = (lost \/ ps \intersect Holders # {})
  /\ UNCHANGED claim

\* mkdir made the directory, the lstat that follows failed
LoseNew == claim = NoInode /\ claim' \in Inodes /\ lost' = TRUE /\ UNCHANGED cap

-----------------------------------------------------------------------------
(* The launcher: withSelectionOwnership, withCompatibleCandidate.          *)

Step(l, from, to) == launcher[l] = from /\ launcher' = [launcher EXCEPT ![l] = to]
GenStep(l, from, to) == gen[l] = from /\ gen' = [gen EXCEPT ![l] = to]

AcquireClaim(l) ==
  /\ Step(l, "selecting", "reading")
  /\ Acquire(<<"launcher", l>>)
  /\ UNCHANGED <<records, files, conf, seen, todo, chosen, reply, killed, running, lost>>

AcquireFails(l) ==
  /\ Step(l, "selecting", "over")
  /\ LoseNew
  /\ UNCHANGED <<records, files, conf, seen, todo, chosen, reply, killed, running>>

\* the startup budget ran out while the claim was busy, or the caller went away
GiveUp(l) ==
  /\ Step(l, "selecting", "over")
  /\ UNCHANGED <<directory, records, files, conf, seen, todo, chosen, reply, killed, running, lost>>

\* readResidentNamespace: every record has its descriptor and there is no other
ReadNamespace(l) ==
  /\ Step(l, "reading", "visiting")
  /\ files = records
  /\ seen' = [seen EXCEPT ![l] = records]
  /\ todo' = [todo EXCEPT ![l] = records]
  /\ UNCHANGED <<directory, records, files, conf, chosen, reply, killed, running, lost>>

Differ(l, g) == <<conf[l], conf[g]>> \in Apart
\* the comparison of configurations needs the generation's answer
Mismatch(l, g) == conf[l] # conf[g] /\ gen[g] \in {"up", "serving", "ending"}
Admits(l, g) == conf[l] = conf[g] /\ gen[g] \in {"up", "serving"}

\* Mutation: a generation that does not admit is passed over, whatever the reason.
SkipSilent(l, g) ==
  /\ launcher[l] = "visiting" /\ g \in todo[l]
  /\ ~Admits(l, g)
  /\ todo' = [todo EXCEPT ![l] = @ \ {g}]
  /\ UNCHANGED <<directory, records, files, conf, launcher, seen, chosen, reply, killed, running, lost>>

Skip(l, g) ==
  /\ launcher[l] = "visiting" /\ g \in todo[l]
  /\ Differ(l, g) \/ Mismatch(l, g)
  /\ todo' = [todo EXCEPT ![l] = @ \ {g}]
  /\ UNCHANGED <<directory, records, files, conf, launcher, seen, chosen, reply, killed, running, lost>>

Match(l, g) ==
  /\ launcher[l] = "visiting" /\ g \in todo[l]
  /\ ~Differ(l, g) /\ Admits(l, g)
  /\ chosen[l] = None
  /\ chosen' = [chosen EXCEPT ![l] = g]
  /\ todo' = [todo EXCEPT ![l] = @ \ {g}]
  /\ UNCHANGED <<directory, records, files, conf, launcher, seen, reply, killed, running, lost>>

\* Anything else that can happen to the holder before it has decided: namespace
\* unreadable, no or another answer from a generation, a second match, the
\* registry full, the admission lost, the budget spent, an interruption.
Refuse(l) ==
  /\ launcher[l] \in {"reading", "visiting"}
  /\ launcher' = [launcher EXCEPT ![l] = "releasing"]
  /\ UNCHANGED <<directory, records, files, conf, seen, todo, chosen, reply, killed, running, lost>>

Decided(l) == launcher[l] = "visiting" /\ todo[l] = {}

\* claim.release, then existing(...)
UseExisting(l) ==
  /\ Decided(l) /\ chosen[l] # None
  /\ launcher' = [launcher EXCEPT ![l] = "attached"]
  /\ Release(<<"launcher", l>>)
  /\ UNCHANGED <<records, files, conf, seen, todo, chosen, reply, killed, running, lost>>

\* Mutation: the room of the registry is not checked.
AbsentUncounted(l) == Decided(l) /\ chosen[l] = None

Absent(l) == Decided(l) /\ chosen[l] = None /\ Cardinality(seen[l]) # MaxRecords

\* the bracket of withSelectionOwnership
LauncherEnds(l) ==
  /\ Step(l, "releasing", "over")
  /\ Release(<<"launcher", l>>)
  /\ UNCHANGED <<records, files, conf, seen, todo, chosen, reply, killed, running, lost>>

\* the release fails in lstat or rmdir
LauncherEndsBadly(l) ==
  /\ launcher[l] = "releasing" \/ (Decided(l) /\ chosen[l] # None)
  /\ launcher' = [launcher EXCEPT ![l] = "over"]
  /\ Lose({<<"launcher", l>>})
  /\ UNCHANGED <<records, files, conf, seen, todo, chosen, reply, killed, running>>

-----------------------------------------------------------------------------
(* launchManagedChild                                                      *)

Spawn(l) ==
  /\ l \notin Foreground /\ Absent(l)
  /\ launcher' = [launcher EXCEPT ![l] = "waiting"]
  /\ gen' = [gen EXCEPT ![l] = "booting"]
  /\ UNCHANGED <<directory, records, files, conf, seen, todo, chosen, reply, killed, pub, outcome, lost>>

\* the prepared frame was read: Start is sent and the claim revoked with it
SendStart(l) ==
  /\ Step(l, "waiting", "starting") /\ reply[l] = "prepared"
  /\ reply' = [reply EXCEPT ![l] = "none"]
  /\ IF gen[l] = "prepared"
     THEN Transfer(<<"launcher", l>>, <<"start", l>>) /\ UNCHANGED lost
     ELSE Lose({<<"launcher", l>>})
  /\ UNCHANGED <<records, files, conf, seen, todo, chosen, killed, running>>

\* no prepared frame: the child exited, sent something else, or the budget ran
\* out; the child is still the launcher's to kill
LaunchFails(l) ==
  /\ Step(l, "waiting", "killing")
  /\ UNCHANGED <<directory, records, files, conf, seen, todo, chosen, reply, killed, running, lost>>

Kill(l) ==
  /\ Step(l, "killing", "reaping")
  /\ killed' = [killed EXCEPT ![l] = gen[l] # "gone"]
  /\ UNCHANGED <<directory, records, files, conf, seen, todo, chosen, reply, running, lost>>

Dies(l) ==
  /\ killed[l] /\ gen[l] # "gone"
  /\ gen' = [gen EXCEPT ![l] = "gone"]
  /\ UNCHANGED <<directory, records, files, conf, launching, reply, killed, pub, outcome, lost>>

\* Mutation: the exit of a killed child is awaited without a limit.
ReapedOnExit(l) ==
  /\ Step(l, "reaping", "releasing") /\ gen[l] = "gone"
  /\ UNCHANGED <<directory, records, files, conf, seen, todo, chosen, reply, killed, running, lost>>

\* its exit was seen, or MANAGED_FAILURE_CLEANUP_MILLIS passed
Reaped(l) ==
  /\ Step(l, "reaping", "releasing")
  /\ UNCHANGED <<directory, records, files, conf, seen, todo, chosen, reply, killed, running, lost>>

\* the ready frame was read: the launcher detaches and attaches like any adapter
ChildReady(l) ==
  /\ Step(l, "starting", "attached") /\ reply[l] = "ready"
  /\ reply' = [reply EXCEPT ![l] = "none"]
  /\ UNCHANGED <<directory, records, files, conf, seen, todo, chosen, killed, running, lost>>

\* Mutation: the child is killed although Start was sent.
LaunchAbandonedKilling(l) ==
  /\ Step(l, "starting", "killing")
  /\ UNCHANGED <<directory, records, files, conf, seen, todo, chosen, reply, killed, running, lost>>

\* exit, disconnect, another frame, budget, interruption: it only detaches
LaunchAbandoned(l) ==
  /\ Step(l, "starting", "over")
  /\ UNCHANGED <<directory, records, files, conf, seen, todo, chosen, reply, killed, running, lost>>

-----------------------------------------------------------------------------
(* The prepared child: child-authorization.ts, withTransferredSelection.   *)

ChildPrepared(l) ==
  /\ GenStep(l, "booting", "prepared")
  /\ reply' = [reply EXCEPT ![l] = "prepared"]
  /\ UNCHANGED <<directory, records, files, conf, launching, killed, pub, outcome, lost>>

\* "start" authorizes only while prepared
Authorized(l) ==
  /\ GenStep(l, "prepared", "authorized")
  /\ cap[<<"start", l>>] # NoInode
  /\ UNCHANGED <<directory, records, files, conf, launching, reply, killed, pub, outcome, lost>>

\* disconnect, PREPARED_CHILD_MILLIS, an invalid frame; a Start that comes later
\* is not read
ChildRetires(l) ==
  /\ gen[l] \in {"booting", "prepared"}
  /\ gen' = [gen EXCEPT ![l] = "gone"]
  /\ Lose({<<"start", l>>})
  /\ UNCHANGED <<records, files, conf, launching, reply, killed, pub, outcome>>

\* adoptSelectionClaim
Adopt(l) ==
  /\ GenStep(l, "authorized", "checking")
  /\ cap[<<"start", l>>] = claim
  /\ Transfer(<<"start", l>>, <<"generation", l>>)
  /\ UNCHANGED <<records, files, conf, launching, reply, killed, pub, outcome, lost>>

\* the inode is another one, or inspecting it failed
AdoptFails(l) ==
  /\ GenStep(l, "authorized", "gone")
  /\ Lose({<<"start", l>>})
  /\ UNCHANGED <<records, files, conf, launching, reply, killed, pub, outcome>>

\* readResidentNamespace again, within the child's own budget
CheckNamespace(l) ==
  /\ gen[l] = "checking"
  /\ \/ files = records /\ gen' = [gen EXCEPT ![l] = "starting"]
     \/ gen' = [gen EXCEPT ![l] = "closing"]
  /\ UNCHANGED <<directory, records, files, conf, launching, reply, killed, pub, outcome, lost>>

\* a foreground launcher becomes the owner with the claim it holds
OwnForeground(l) ==
  /\ l \in Foreground /\ Absent(l)
  /\ launcher' = [launcher EXCEPT ![l] = "owning"]
  /\ gen' = [gen EXCEPT ![l] = "starting"]
  /\ UNCHANGED <<directory, records, files, conf, seen, todo, chosen, reply, killed, pub, outcome, lost>>

-----------------------------------------------------------------------------
(* The owner: runOwnedGeneration around withPublishedResidentAttachment.   *)
(* The publication is a fiber of its own: it may still be running when the *)
(* run has ended.                                                          *)

Alive(l) == gen[l] \notin {"none", "gone", "crashed"}
OwnersCap(l) == IF l \in Foreground THEN <<"launcher", l>> ELSE <<"generation", l>>

\* the server is ready, its descriptor is linked and reported
LinkDescriptor(l) ==
  /\ GenStep(l, "starting", "up")
  /\ files' = files \union {l}
  /\ UNCHANGED <<directory, records, conf, launching, reply, killed, pub, outcome, lost>>

PubStep(l, from, to) == Alive(l) /\ pub[l] = from /\ pub' = [pub EXCEPT ![l] = to]

BeginPublication(l) ==
  /\ gen[l] = "up" /\ PubStep(l, "unattempted", "begun")
  /\ UNCHANGED <<directory, records, files, conf, launching, reply, killed, gen, outcome, lost>>

\* GenerationRegistry.publish up to its link
PublishRecord(l) ==
  /\ PubStep(l, "begun", "linked")
  /\ Cardinality(records) # MaxRecords
  /\ records' = records \union {l}
  /\ UNCHANGED <<directory, files, conf, launching, reply, killed, gen, outcome, lost>>

\* interrupted before it, registry full, or an I/O failure
PublishRefused(l) ==
  /\ PubStep(l, "begun", "refused")
  /\ UNCHANGED <<directory, records, files, conf, launching, reply, killed, gen, outcome, lost>>

\* the rest of publish, then Recorded; it may fail after the link
RecordReceipt(l) ==
  /\ PubStep(l, "linked", "recorded") \/ PubStep(l, "linked", "torn")
  /\ UNCHANGED <<directory, records, files, conf, launching, reply, killed, gen, outcome, lost>>

ReleasePublished(l) ==
  /\ \/ PubStep(l, "recorded", "done") /\ Release(OwnersCap(l)) /\ UNCHANGED lost
     \/ PubStep(l, "recorded", "unreleased") /\ Lose({OwnersCap(l)})
  /\ UNCHANGED <<records, files, conf, launching, reply, killed, gen, outcome>>

\* ready(file) returned; a managed owner sends the ready frame
Serve(l) ==
  /\ GenStep(l, "up", "serving") /\ pub[l] = "done"
  /\ reply' = IF l \in Foreground THEN reply ELSE [reply EXCEPT ![l] = "ready"]
  /\ UNCHANGED <<directory, records, files, conf, launching, killed, pub, outcome, lost>>

\* Mutation: the start of the server has no limit.
RunStopsOnceUp(l) ==
  /\ gen[l] \in {"up", "serving"}
  /\ gen' = [gen EXCEPT ![l] = "ending"]
  /\ UNCHANGED <<directory, records, files, conf, launching, reply, killed, pub, outcome, lost>>

\* idle, stopped, interrupted, or ready(file) failed: admissions are fenced
RunStops(l) ==
  /\ gen[l] \in {"starting", "up", "serving"}
  /\ gen' = [gen EXCEPT ![l] = "ending"]
  /\ UNCHANGED <<directory, records, files, conf, launching, reply, killed, pub, outcome, lost>>

Unlink(l) ==
  /\ GenStep(l, "ending", "draining")
  /\ \/ files' = files \ {l} /\ UNCHANGED outcome
     \/ UNCHANGED files /\ outcome' = [outcome EXCEPT ![l] = "failure"]
  /\ UNCHANGED <<directory, records, conf, launching, reply, killed, pub, lost>>

\* attachments drained and clients closed, or not ("failure"); an interrupted
\* run whose cleanup succeeded is clean
RunEnds(l) ==
  /\ GenStep(l, "draining", "ended")
  /\ \E o \in {"clean", "failure"} :
       outcome' = [outcome EXCEPT ![l] = IF @ = "failure" THEN @ ELSE o]
  /\ UNCHANGED <<directory, records, files, conf, launching, reply, killed, pub, lost>>

\* Mutation: a record is retired whatever the outcome of the run.
SettleRetiringAll(l) ==
  /\ gen[l] = "ended" /\ pub[l] \notin {"begun", "linked", "recorded"}
  /\ gen' = [gen EXCEPT ![l] = IF pub[l] \in {"done", "unreleased"} THEN "retiring" ELSE "closing"]
  /\ UNCHANGED <<directory, records, files, conf, launching, reply, killed, pub, outcome, lost>>

\* Fence, Scope.close, Settled: the publication fiber is over
Settle(l) ==
  /\ gen[l] = "ended" /\ pub[l] \notin {"begun", "linked", "recorded"}
  /\ gen' = [gen EXCEPT ![l] = IF pub[l] \in {"done", "unreleased"} /\ outcome[l] = "clean"
                                THEN "retiring" ELSE "closing"]
  /\ UNCHANGED <<directory, records, files, conf, launching, reply, killed, pub, outcome, lost>>

AcquireToRetire(l) ==
  /\ GenStep(l, "retiring", "removing")
  /\ Acquire(<<"generation", l>>)
  /\ UNCHANGED <<records, files, conf, launching, reply, killed, pub, outcome, lost>>

\* the claim stayed busy for MANAGED_FAILURE_CLEANUP_MILLIS, or was made and
\* could not be inspected
RetireGivesUp(l) ==
  /\ GenStep(l, "retiring", "closing")
  /\ LoseNew \/ UNCHANGED <<directory, lost>>
  /\ UNCHANGED <<records, files, conf, launching, reply, killed, pub, outcome>>

\* owned.retire; it may fail, or time out before it started
Retire(l) ==
  /\ GenStep(l, "removing", "closing")
  /\ records' \in {records \ {l}, records}
  /\ UNCHANGED <<directory, files, conf, launching, reply, killed, pub, outcome, lost>>

\* the brackets of withTransferredSelection and of retirement
Finish(l) ==
  /\ GenStep(l, "closing", "gone")
  /\ \/ Release(<<"generation", l>>) /\ UNCHANGED lost
     \/ Lose({<<"generation", l>>})
  /\ UNCHANGED <<records, files, conf, launching, reply, killed, pub, outcome>>

ForegroundEnds(l) ==
  /\ gen[l] = "gone" /\ Step(l, "owning", "releasing")
  /\ UNCHANGED <<directory, records, files, conf, seen, todo, chosen, reply, killed, running, lost>>

-----------------------------------------------------------------------------
(* Crashes.                                                                *)

Crashed(l) == [gen EXCEPT ![l] = IF @ \in Live THEN "crashed"
                                 ELSE IF @ = "none" THEN "none" ELSE "gone"]

LauncherCrashes(l) ==
  /\ launcher[l] \notin {"attached", "over", "dead"}
  /\ launcher' = [launcher EXCEPT ![l] = "dead"]
  /\ IF l \in Foreground
     THEN Lose({<<"launcher", l>>, <<"generation", l>>}) /\ gen' = Crashed(l)
     ELSE Lose({<<"launcher", l>>}) /\ UNCHANGED gen
  /\ UNCHANGED <<records, files, conf, seen, todo, chosen, reply, killed, pub, outcome>>

GenerationCrashes(l) ==
  /\ l \notin Foreground /\ Alive(l)
  /\ gen' = Crashed(l)
  /\ Lose({<<"start", l>>, <<"generation", l>>})
  /\ UNCHANGED <<records, files, conf, launching, reply, killed, pub, outcome>>

-----------------------------------------------------------------------------
Selecting(l) ==
  \/ AcquireClaim(l) \/ AcquireFails(l) \/ GiveUp(l)
  \/ ReadNamespace(l) \/ (\E g \in Launchers : Skip(l, g) \/ Match(l, g)) \/ Refuse(l)
  \/ UseExisting(l) \/ LauncherEnds(l) \/ LauncherEndsBadly(l)

Launching(l) ==
  \/ Spawn(l) \/ SendStart(l) \/ LaunchFails(l) \/ Kill(l) \/ Dies(l) \/ Reaped(l)
  \/ ChildReady(l) \/ LaunchAbandoned(l)

Child(l) ==
  \/ ChildPrepared(l) \/ Authorized(l) \/ ChildRetires(l)
  \/ Adopt(l) \/ AdoptFails(l) \/ CheckNamespace(l)

Generation(l) ==
  \/ OwnForeground(l) \/ LinkDescriptor(l)
  \/ BeginPublication(l) \/ PublishRecord(l) \/ PublishRefused(l) \/ RecordReceipt(l) \/ ReleasePublished(l)
  \/ Serve(l) \/ RunStops(l) \/ Unlink(l) \/ RunEnds(l) \/ Settle(l)
  \/ AcquireToRetire(l) \/ RetireGivesUp(l) \/ Retire(l) \/ Finish(l) \/ ForegroundEnds(l)

Crash(l) == LauncherCrashes(l) \/ GenerationCrashes(l)

Next == \E l \in Launchers : Selecting(l) \/ Launching(l) \/ Child(l) \/ Generation(l) \/ Crash(l)

Spec == Init /\ [][Next]_vars

\* Processes run and their deadlines fire: the startup budget of a launcher and
\* of a child, PREPARED_CHILD_MILLIS, the readiness, cleanup and retirement
\* allowances.  Nobody has to stop a generation that serves, no claim has to be
\* obtained, no message has to arrive, no child has to get prepared or to die when
\* it is killed, and nothing has to fail.
Fairness ==
  \A l \in Launchers :
    /\ WF_vars(GiveUp(l)) /\ WF_vars(Refuse(l)) /\ WF_vars(LauncherEnds(l))
    /\ WF_vars(LaunchFails(l)) /\ WF_vars(Kill(l)) /\ WF_vars(Reaped(l))
    /\ WF_vars(LaunchAbandoned(l))
    /\ WF_vars(gen[l] = "prepared" /\ ~killed[l] /\ ChildRetires(l))
    /\ WF_vars(Adopt(l)) /\ WF_vars(CheckNamespace(l))
    /\ WF_vars(gen[l] # "serving" /\ RunStops(l)) /\ WF_vars(BeginPublication(l))
    /\ WF_vars(PublishRecord(l) \/ PublishRefused(l))
    /\ WF_vars(RecordReceipt(l)) /\ WF_vars(ReleasePublished(l))
    /\ WF_vars(Unlink(l)) /\ WF_vars(RunEnds(l)) /\ WF_vars(Settle(l))
    /\ WF_vars(RetireGivesUp(l)) /\ WF_vars(Retire(l)) /\ WF_vars(Finish(l))
    /\ WF_vars(ForegroundEnds(l))

FairSpec == Spec /\ Fairness

-----------------------------------------------------------------------------
(* Properties.                                                             *)

\* At any moment at most one process may act for the claim or give it back, the
\* one a Start message is on its way to included, and the claim it was told of
\* is the one that is there: no release removes another's claim, and the
\* refusals for a changed inode are never met (selection-claim.ts:49, 99).
OneOwner ==
  \A p \in Holders : claim = cap[p] /\ Holders = {p}

\* From the moment its server starts until its run has ended with its cleanup
\* confirmed, a generation may own local resources; after a crash, or when the
\* cleanup of a published generation failed, it may own them for ever.
Unresolved(l) ==
  gen[l] \in Live \union {"crashed"} \/ (outcome[l] = "failure" /\ pub[l] \in Published)

\* Two generations of one configuration never overlap: concurrent launchers
\* converge on one, and nothing replaces one whose resources are unaccounted for,
\* whoever crashes, is cancelled, times out or loses a message.
NoOverlap ==
  \A l, m \in Launchers : Unresolved(l) /\ Unresolved(m) /\ l # m => conf[l] # conf[m]

\* A generation that may still own resources leaves evidence of it that blocks
\* every launcher of its configuration: its record, or the claim nobody gives back.
EvidenceKept == \A l \in Launchers : Unresolved(l) => l \in records \/ claim # NoInode

\* A launcher kills only a child that never owned anything and never will, however
\* late it dies (managed-process.ts:130).
KilledNeverOwned ==
  \A l \in Launchers : killed[l] =>
    /\ gen[l] \in {"booting", "prepared", "gone"} /\ pub[l] = "unattempted"
    /\ \A r \in {"start", "generation"} : <<r, l>> \notin Holders

\* The directory is blocked for good only by a crash, an I/O failure on the claim
\* or a Start that was not taken up: no cancellation, deadline, refusal or race of
\* launchers strands the claim.
OrphanNeedsCause == claim # NoInode /\ Holders = {} => lost

\* The registry is never full for a generation that gets to publish, although the
\* room was checked by its launcher, in another process, before it was started
\* (candidate-selection-state.ts:33, generation-registry.ts:40).
RoomAtPublish ==
  \A l \in Launchers : Alive(l) /\ pub[l] = "begun" => Cardinality(records) < MaxRecords

\* Unless something happens that the protocol cannot repair, a claim that was
\* taken is given back: no wait of its owner is unbounded. And a launcher that
\* looks for a generation gets one, owns one, or fails: whatever holds the claim or
\* stays silent, and even if the child it kills never dies.
NobodyWaitsForEver ==
  /\ (claim # NoInode) ~> (claim = NoInode \/ lost)
  /\ \A l \in Launchers : <>(launcher[l] \in {"attached", "over", "dead"} \/ gen[l] = "serving")

\* One who owns the claim that is there; several, or one who was told of another
\* claim, are nothing the abstract ownership knows.
Contested == <<"contested", Holders>>
Owner == IF Holders = {} THEN IF claim = NoInode THEN Free ELSE Stranded
         ELSE IF \E p \in Holders : Holders = {p} /\ claim = cap[p] THEN CHOOSE p \in Holders : TRUE
         ELSE Contested

\* Whatever the processes do and however they fail, the claim is handed on as
\* SelectionOwnership says: exclusively, from a launcher only to its own child, and
\* once it is nobody's, for good.
Ownership == INSTANCE SelectionOwnership WITH owner <- Owner
ImplementsOwnership == Ownership!Spec
=============================================================================
