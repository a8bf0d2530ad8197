----------------------- MODULE ResidentSelection_proofs -----------------------
(***************************************************************************)
(* For any number of launchers, configurations and inodes and any room in  *)
(* the registry: the selection claim has one owner, and generations of one *)
(* configuration never overlap.                                            *)
(*                                                                         *)
(* The claim.  Every action does one of seven things to the claim and its  *)
(* capabilities (NextIsClaimStep); each keeps the invariant and is a step  *)
(* of SelectionOwnership or none.                                          *)
(*                                                                         *)
(* The generations.  Whoever has chosen to start one keeps the claim until *)
(* its record is linked, so nobody else reads or changes the records       *)
(* meanwhile; it read all of them, and each is of another configuration    *)
(* (ChoiceInv).  A record stays until the run of its generation has ended  *)
(* clean (RecordInv).  A generation that crashes before its record is      *)
(* linked takes the claim with it (CrashInv).  SafeInv says so, with what  *)
(* holds at each stage of a launcher and of its generation.                *)
(***************************************************************************)
EXTENDS ResidentSelection, FiniteSetTheorems, TLAPS
-----------------------------------------------------------------------------
(* One owner of the claim.                                                 *)

ClaimStep ==
  \/ \E p \in Party : p[1] # "start" /\ Acquire(p)
  \/ \E l \in Launchers : Transfer(<<"launcher", l>>, <<"start", l>>)
  \/ \E l \in Launchers : Transfer(<<"start", l>>, <<"generation", l>>)
  \/ \E p \in Party : Release(p)
  \/ \E ps \in SUBSET Party : Lose(ps)
  \/ LoseNew
  \/ UNCHANGED directory

IInv ==
  /\ claim \in Inodes \union {NoInode}
  /\ cap \in [Party -> Inodes \union {NoInode}]
  /\ OneOwner

\* The capabilities a process may have.
LEMMA Parties ==
  \A l \in Launchers : /\ <<"launcher", l>> \in Party /\ <<"start", l>> \in Party
                       /\ <<"generation", l>> \in Party /\ OwnersCap(l) \in Party
BY DEF Party, Roles, OwnersCap

\* What each action of the module does to the claim.
LEMMA NextIsClaimStep == ASSUME [Next]_vars PROVE ClaimStep
<1> USE DEF directory
<1>1. CASE UNCHANGED vars
  BY <1>1 DEF vars, ClaimStep
<1>2. ASSUME NEW l \in Launchers, Selecting(l) PROVE ClaimStep
  <2>1. CASE AcquireClaim(l)
    <3>1. Acquire(<<"launcher", l>>) BY <2>1 DEF AcquireClaim
    <3>2. <<"launcher", l>>[1] # "start" OBVIOUS
    <3> QED BY <3>1, <3>2, Parties DEF ClaimStep
  <2>2. CASE AcquireFails(l) \/ GiveUp(l) \/ ReadNamespace(l) \/ Refuse(l)
    BY <2>2 DEF AcquireFails, GiveUp, ReadNamespace, Refuse, ClaimStep
  <2>3. CASE \E g \in Launchers : Skip(l, g) \/ Match(l, g)
    BY <2>3 DEF Skip, Match, ClaimStep
  <2>4. CASE UseExisting(l) \/ LauncherEnds(l)
    <3>1. Release(<<"launcher", l>>) BY <2>4 DEF UseExisting, LauncherEnds
    <3> QED BY <3>1, Parties DEF ClaimStep
  <2>5. CASE LauncherEndsBadly(l)
    <3>1. Lose({<<"launcher", l>>}) BY <2>5 DEF LauncherEndsBadly
    <3>2. {<<"launcher", l>>} \in SUBSET Party BY Parties
    <3> QED BY <3>1, <3>2 DEF ClaimStep
  <2> QED BY <1>2, <2>1, <2>2, <2>3, <2>4, <2>5 DEF Selecting
<1>3. ASSUME NEW l \in Launchers, Launching(l) PROVE ClaimStep
  <2>1. CASE SendStart(l)
    <3>1. {<<"launcher", l>>} \in SUBSET Party BY Parties
    <3>2. \/ Transfer(<<"launcher", l>>, <<"start", l>>)
          \/ Lose({<<"launcher", l>>})
      BY <2>1 DEF SendStart
    <3> QED BY <3>1, <3>2 DEF ClaimStep
  <2>2. CASE \/ Spawn(l) \/ LaunchFails(l) \/ Kill(l) \/ Dies(l) \/ Reaped(l)
             \/ ChildReady(l) \/ LaunchAbandoned(l)
    BY <2>2 DEF Spawn, LaunchFails, Kill, Dies, Reaped, ChildReady, LaunchAbandoned, ClaimStep
  <2> QED BY <1>3, <2>1, <2>2 DEF Launching
<1>4. ASSUME NEW l \in Launchers, Child(l) PROVE ClaimStep
  <2>1. CASE Adopt(l)
    BY <2>1 DEF Adopt, ClaimStep
  <2>2. CASE ChildRetires(l) \/ AdoptFails(l)
    <3>1. {<<"start", l>>} \in SUBSET Party BY Parties
    <3>2. Lose({<<"start", l>>}) BY <2>2 DEF ChildRetires, AdoptFails
    <3> QED BY <3>1, <3>2 DEF ClaimStep
  <2>3. CASE ChildPrepared(l) \/ Authorized(l) \/ CheckNamespace(l)
    BY <2>3 DEF ChildPrepared, Authorized, CheckNamespace, ClaimStep
  <2> QED BY <1>4, <2>1, <2>2, <2>3 DEF Child
<1>5. ASSUME NEW l \in Launchers, Generation(l) PROVE ClaimStep
  <2>1. CASE ReleasePublished(l)
    <3>1. {OwnersCap(l)} \in SUBSET Party BY Parties
    <3>2. Release(OwnersCap(l)) \/ Lose({OwnersCap(l)}) BY <2>1 DEF ReleasePublished
    <3> QED BY <3>1, <3>2, Parties DEF ClaimStep
  <2>2. CASE AcquireToRetire(l)
    <3>1. Acquire(<<"generation", l>>) BY <2>2 DEF AcquireToRetire
    <3>2. <<"generation", l>>[1] # "start" OBVIOUS
    <3> QED BY <3>1, <3>2, Parties DEF ClaimStep
  <2>3. CASE RetireGivesUp(l)
    BY <2>3 DEF RetireGivesUp, ClaimStep
  <2>4. CASE Finish(l)
    <3>1. {<<"generation", l>>} \in SUBSET Party BY Parties
    <3>2. Release(<<"generation", l>>) \/ Lose({<<"generation", l>>}) BY <2>4 DEF Finish
    <3> QED BY <3>1, <3>2, Parties DEF ClaimStep
  <2>5. CASE \/ OwnForeground(l) \/ LinkDescriptor(l) \/ BeginPublication(l)
             \/ PublishRecord(l) \/ PublishRefused(l) \/ RecordReceipt(l)
    BY <2>5 DEF OwnForeground, LinkDescriptor, BeginPublication, PublishRecord,
                PublishRefused, RecordReceipt, ClaimStep
  <2>6. CASE \/ Serve(l) \/ RunStops(l) \/ Unlink(l) \/ RunEnds(l) \/ Settle(l)
             \/ Retire(l) \/ ForegroundEnds(l)
    BY <2>6 DEF Serve, RunStops, Unlink, RunEnds, Settle, Retire, ForegroundEnds, ClaimStep
  <2> QED BY <1>5, <2>1, <2>2, <2>3, <2>4, <2>5, <2>6 DEF Generation
<1>6. ASSUME NEW l \in Launchers, Crash(l) PROVE ClaimStep
  <2> DEFINE Both == {<<"launcher", l>>, <<"generation", l>>}
             Start == {<<"start", l>>, <<"generation", l>>}
             Own == {<<"launcher", l>>}
  <2>1. Both \in SUBSET Party /\ Start \in SUBSET Party /\ Own \in SUBSET Party BY Parties
  <2>2. Lose(Both) \/ Lose(Start) \/ Lose(Own)
    BY <1>6 DEF Crash, LauncherCrashes, GenerationCrashes
  <2> QED BY <2>1, <2>2 DEF ClaimStep
<1> QED BY <1>1, <1>2, <1>3, <1>4, <1>5, <1>6 DEF Next

-----------------------------------------------------------------------------
(* One lemma for each thing that can happen to the claim: it keeps the     *)
(* invariant, and Owner moves as the abstract specification allows.        *)

\* Who owns the claim, by the invariant.
LEMMA OwnerIs ==
  ASSUME IInv
  PROVE  /\ \A p \in Holders : Owner = p /\ Holders = {p} /\ claim = cap[p]
         /\ Holders = {} /\ claim = NoInode => Owner = Free
         /\ Holders = {} /\ claim # NoInode => Owner = Stranded
         /\ claim = NoInode => Holders = {}
<1>1. \A p \in Holders : Holders = {p} /\ claim = cap[p] BY DEF IInv, OneOwner
<1>2. ASSUME NEW p \in Holders PROVE Owner = p
  <2>1. Holders = {p} /\ claim = cap[p] BY <1>1
  <2> QED BY <2>1 DEF Owner
<1>3. claim = NoInode => Holders = {} BY <1>1 DEF Holders
<1> QED BY <1>1, <1>2, <1>3 DEF Owner

\* Who acquires the claim is its only owner.
LEMMA AcquireOwns ==
  ASSUME IInv, NEW p \in Party, Acquire(p)
  PROVE  IInv' /\ Holders = {} /\ claim = NoInode /\ Holders' = {p}
<1>1. Holders = {} /\ claim = NoInode BY OwnerIs DEF Acquire
<1>2. PICK i \in Inodes : claim' = i /\ cap' = [cap EXCEPT ![p] = i] BY DEF Acquire
<1>3. i # NoInode BY LaunchersAssumption
<1>4. cap' \in [Party -> Inodes \union {NoInode}] BY <1>2 DEF IInv
<1>5. \A q \in Party : cap[q] = NoInode BY <1>1 DEF Holders
<1>6. \A q \in Party : cap'[q] = IF q = p THEN i ELSE NoInode BY <1>2, <1>5 DEF IInv
<1>7. Holders' = {p} BY <1>3, <1>6 DEF Holders
<1>8. OneOwner' BY <1>2, <1>6, <1>7 DEF OneOwner
<1> QED BY <1>1, <1>2, <1>4, <1>7, <1>8 DEF IInv

\* A transfer hands the ownership on.
LEMMA TransferHands ==
  ASSUME IInv, NEW p \in Party, NEW q \in Party, p # q, Transfer(p, q)
  PROVE  /\ IInv' /\ UNCHANGED claim
         /\ p \in Holders => Holders' = {q}
         /\ p \notin Holders => Holders' = Holders \ {q}
<1>1. cap' = [cap EXCEPT ![p] = NoInode, ![q] = cap[p]] /\ claim' = claim BY DEF Transfer
<1>2. cap' \in [Party -> Inodes \union {NoInode}] BY <1>1 DEF IInv
<1>3. \A r \in Party : cap'[r] = IF r = q THEN cap[p] ELSE IF r = p THEN NoInode ELSE cap[r]
  BY <1>1 DEF IInv
<1>4. CASE p \in Holders
  <2>1. Holders = {p} /\ claim = cap[p] BY <1>4, OwnerIs
  <2>2. Holders' = {q} BY <1>3, <2>1 DEF Holders
  <2>3. OneOwner' BY <1>1, <1>3, <2>1, <2>2 DEF OneOwner
  <2> QED BY <1>1, <1>2, <1>4, <2>2, <2>3 DEF IInv
<1>5. CASE p \notin Holders
  <2>1. Holders' = Holders \ {q} BY <1>3, <1>5 DEF Holders
  <2>2. \A r \in Holders' : cap'[r] = cap[r] BY <1>3, <1>5, <2>1 DEF Holders
  <2>3. OneOwner' BY <1>1, <2>1, <2>2, OwnerIs DEF OneOwner
  <2> QED BY <1>1, <1>2, <1>5, <2>1, <2>3 DEF IInv
<1> QED BY <1>4, <1>5

\* A release frees the claim of its owner, and does nothing for anybody else.
LEMMA ReleaseFrees ==
  ASSUME IInv, NEW p \in Party, Release(p)
  PROVE  /\ IInv'
         /\ \/ p \in Holders /\ Holders' = {} /\ claim' = NoInode
            \/ p \notin Holders /\ Holders' = Holders /\ claim' = claim /\ cap' = cap
<1>1. cap' = [cap EXCEPT ![p] = NoInode] BY DEF Release
<1>2. cap' \in [Party -> Inodes \union {NoInode}] BY <1>1 DEF IInv
<1>3. \A r \in Party : cap'[r] = IF r = p THEN NoInode ELSE cap[r] BY <1>1 DEF IInv
<1>4. CASE p \in Holders
  <2>1. Holders = {p} /\ claim = cap[p] BY <1>4, OwnerIs
  <2>2. claim' = NoInode BY <2>1 DEF Release
  <2>3. Holders' = {} BY <1>3, <2>1 DEF Holders
  <2> QED BY <1>2, <1>4, <2>2, <2>3 DEF IInv, OneOwner
<1>5. CASE p \notin Holders
  <2>1. cap[p] = NoInode BY <1>5 DEF Holders
  <2>2. claim' = claim BY <2>1 DEF Release
  <2>3. cap' = cap BY <1>1, <2>1 DEF IInv
  <2>4. Holders' = Holders BY <2>3 DEF Holders
  <2> QED BY <1>5, <2>2, <2>3, <2>4 DEF IInv, OneOwner
<1> QED BY <1>4, <1>5

\* Owners that die leave the claim behind without an owner.
LEMMA LoseStrands ==
  ASSUME IInv, NEW ps \in SUBSET Party, Lose(ps)
  PROVE  IInv' /\ UNCHANGED claim /\ Holders' = Holders \ ps
<1>1. cap' = [p \in Party |-> IF p \in ps THEN NoInode ELSE cap[p]] /\ claim' = claim BY DEF Lose
<1>2. cap' \in [Party -> Inodes \union {NoInode}] BY <1>1 DEF IInv
<1>3. Holders' = Holders \ ps BY <1>1 DEF Holders
<1>4. \A r \in Holders' : r \in Holders /\ cap'[r] = cap[r] BY <1>1, <1>3 DEF Holders
<1>5. OneOwner' BY <1>1, <1>3, <1>4, OwnerIs DEF OneOwner
<1> QED BY <1>1, <1>2, <1>3, <1>5 DEF IInv

\* A launcher that dies between creating the claim and knowing it leaves it behind.
LEMMA LoseNewStrands ==
  ASSUME IInv, LoseNew
  PROVE  IInv' /\ Holders = {} /\ Holders' = {} /\ claim = NoInode /\ claim' # NoInode
<1>1. Holders = {} /\ claim = NoInode BY OwnerIs DEF LoseNew
<1>2. claim' \in Inodes /\ claim' # NoInode /\ cap' = cap BY LaunchersAssumption DEF LoseNew
<1>3. Holders' = {} BY <1>1, <1>2 DEF Holders
<1> QED BY <1>1, <1>2, <1>3 DEF IInv, OneOwner

-----------------------------------------------------------------------------
\* Nobody owns the claim at first.
LEMMA InitOwned == Init => IInv
<1> SUFFICES ASSUME Init PROVE IInv OBVIOUS
<1>1. cap \in [Party -> Inodes \union {NoInode}] /\ claim = NoInode BY DEF Init
<1>2. Holders = {} BY DEF Init, Holders
<1> QED BY <1>1, <1>2 DEF IInv, OneOwner

\* Every step on the claim leaves at most one owner.
LEMMA StepOwned == ASSUME IInv, ClaimStep PROVE IInv'
<1>1. CASE \E p \in Party : p[1] # "start" /\ Acquire(p) BY <1>1, AcquireOwns
<1>2. CASE \E l \in Launchers : Transfer(<<"launcher", l>>, <<"start", l>>)
  <2>1. PICK l \in Launchers : Transfer(<<"launcher", l>>, <<"start", l>>) BY <1>2
  <2>2. <<"launcher", l>> # <<"start", l>> OBVIOUS
  <2> QED BY <2>1, <2>2, Parties, TransferHands
<1>3. CASE \E l \in Launchers : Transfer(<<"start", l>>, <<"generation", l>>)
  <2>1. PICK l \in Launchers : Transfer(<<"start", l>>, <<"generation", l>>) BY <1>3
  <2>2. <<"start", l>> # <<"generation", l>> OBVIOUS
  <2> QED BY <2>1, <2>2, Parties, TransferHands
<1>4. CASE \E p \in Party : Release(p) BY <1>4, ReleaseFrees
<1>5. CASE \E ps \in SUBSET Party : Lose(ps) BY <1>5, LoseStrands
<1>6. CASE LoseNew BY <1>6, LoseNewStrands
<1>7. CASE UNCHANGED directory
  BY <1>7 DEF directory, IInv, OneOwner, Holders
<1> QED BY <1>1, <1>2, <1>3, <1>4, <1>5, <1>6, <1>7 DEF ClaimStep

\* OwnerIs one step later.
LEMMA OwnedThen ==
  ASSUME IInv'
  PROVE  /\ \A p \in Holders' : Owner' = p
         /\ Holders' = {} /\ claim' = NoInode => Owner' = Free
         /\ Holders' = {} /\ claim' # NoInode => Owner' = Stranded
<1>1. \A p \in Holders' : Holders' = {p} /\ claim' = cap'[p] BY DEF IInv, OneOwner
<1>2. ASSUME NEW p \in Holders' PROVE Owner' = p
  <2>1. Holders' = {p} /\ claim' = cap'[p] BY <1>1
  <2> QED BY <2>1 DEF Owner
<1> QED BY <1>2 DEF Owner

\* A capability that is dropped while the claim stays leaves the claim as it was
\* or strands it.
LEMMA Forgotten ==
  ASSUME IInv, IInv', claim' = claim, NEW ps, Holders' = Holders \ ps
  PROVE  Ownership!Next \/ Owner' = Owner
<1>1. CASE Holders' = Holders
  BY <1>1, OwnerIs, OwnedThen
<1>2. CASE Holders' # Holders
  <2>1. PICK p \in Holders : p \in ps BY <1>2
  <2>2. Holders = {p} /\ Owner = p /\ claim # NoInode BY <2>1, OwnerIs DEF Holders
  <2>3. Holders' = {} BY <2>1, <2>2
  <2>4. Owner' = Stranded BY <2>2, <2>3, OwnedThen
  <2>5. p \in Party BY <2>1 DEF Holders
  <2>6. Ownership!Strand
    BY <2>2, <2>4, <2>5 DEF Ownership!Strand, Ownership!Party, Ownership!Roles, Party, Roles
  <2> QED BY <2>6 DEF Ownership!Next
<1> QED BY <1>1, <1>2

\* What happens to the claim is a step of SelectionOwnership, or none.
LEMMA StepImplements ==
  ASSUME IInv, ClaimStep PROVE [Ownership!Next]_Owner
<1> DEFINE Abstract == Ownership!Next \/ Owner' = Owner
<1> SUFFICES Abstract OBVIOUS
<1>0. IInv' BY StepOwned
<1>i. /\ \A p \in Holders : Owner = p
      /\ Holders = {} /\ claim = NoInode => Owner = Free
      /\ Holders = {} /\ claim # NoInode => Owner = Stranded
      /\ \A p \in Holders : Holders = {p} /\ claim # NoInode
  BY OwnerIs DEF Holders
<1>j. /\ \A p \in Holders' : Owner' = p
      /\ Holders' = {} /\ claim' = NoInode => Owner' = Free
      /\ Holders' = {} /\ claim' # NoInode => Owner' = Stranded
  BY <1>0, OwnedThen
<1>1. ASSUME NEW p \in Party, p[1] # "start", Acquire(p) PROVE Abstract
  <2>1. Holders = {} /\ claim = NoInode /\ Holders' = {p} BY <1>1, AcquireOwns
  <2>2. Owner = Free /\ Owner' = p BY <2>1, <1>i, <1>j
  <2>3. Ownership!Take(p) BY <1>1, <2>2 DEF Ownership!Take
  <2> QED BY <2>3 DEF Ownership!Next, Ownership!Party, Ownership!Roles, Party, Roles
<1>2. ASSUME NEW l \in Launchers, Transfer(<<"launcher", l>>, <<"start", l>>) PROVE Abstract
  <2> DEFINE p == <<"launcher", l>>
             q == <<"start", l>>
  <2>1. p \in Party /\ q \in Party /\ p # q BY Parties
  <2>2. /\ claim' = claim
        /\ p \in Holders => Holders' = {q}
        /\ p \notin Holders => Holders' = Holders \ {q}
    BY <1>2, <2>1, TransferHands
  <2>3. CASE p \in Holders
    <3>1. Owner = p /\ Owner' = q BY <2>2, <2>3, <1>i, <1>j
    <3>2. Ownership!HandStart(l) BY <3>1 DEF Ownership!HandStart
    <3> QED BY <3>2 DEF Ownership!Next
  <2>4. CASE p \notin Holders
    BY <1>0, <2>2, <2>4, Forgotten
  <2> QED BY <2>3, <2>4
<1>3. ASSUME NEW l \in Launchers, Transfer(<<"start", l>>, <<"generation", l>>) PROVE Abstract
  <2> DEFINE p == <<"start", l>>
             q == <<"generation", l>>
  <2>1. p \in Party /\ q \in Party /\ p # q BY Parties
  <2>2. /\ claim' = claim
        /\ p \in Holders => Holders' = {q}
        /\ p \notin Holders => Holders' = Holders \ {q}
    BY <1>3, <2>1, TransferHands
  <2>3. CASE p \in Holders
    <3>1. Owner = p /\ Owner' = q BY <2>2, <2>3, <1>i, <1>j
    <3>2. Ownership!HandChild(l) BY <3>1 DEF Ownership!HandChild
    <3> QED BY <3>2 DEF Ownership!Next
  <2>4. CASE p \notin Holders
    BY <1>0, <2>2, <2>4, Forgotten
  <2> QED BY <2>3, <2>4
<1>4. ASSUME NEW p \in Party, Release(p) PROVE Abstract
  <2>1. CASE p \in Holders /\ Holders' = {} /\ claim' = NoInode
    <3>1. Owner = p /\ Owner' = Free BY <2>1, <1>i, <1>j
    <3>2. Ownership!GiveUp
      BY <3>1 DEF Ownership!GiveUp, Ownership!Party, Ownership!Roles, Party, Roles
    <3> QED BY <3>2 DEF Ownership!Next
  <2>2. CASE p \notin Holders /\ Holders' = Holders /\ claim' = claim
    BY <2>2, <1>i, <1>j
  <2> QED BY <1>4, <2>1, <2>2, ReleaseFrees
<1>5. ASSUME NEW ps \in SUBSET Party, Lose(ps) PROVE Abstract
  <2>1. claim' = claim /\ Holders' = Holders \ ps BY <1>5, LoseStrands
  <2> QED BY <1>0, <2>1, Forgotten
<1>6. CASE LoseNew
  <2>1. Holders = {} /\ Holders' = {} /\ claim = NoInode /\ claim' # NoInode
    BY <1>6, LoseNewStrands
  <2>2. Owner = Free /\ Owner' = Stranded BY <2>1, <1>i, <1>j
  <2>3. Ownership!Strand BY <2>2 DEF Ownership!Strand
  <2> QED BY <2>3 DEF Ownership!Next
<1>7. CASE UNCHANGED directory
  BY <1>7 DEF directory, Owner, Contested, Holders
<1> QED BY <1>1, <1>2, <1>3, <1>4, <1>5, <1>6, <1>7 DEF ClaimStep

\* The invariant holds throughout: whatever the processes do to the claim, the
\* capabilities name the inode that is there and there is at most one.
THEOREM Inductive == Spec => []IInv
<1>1. IInv /\ [Next]_vars => IInv' BY NextIsClaimStep, StepOwned
<1> QED BY <1>1, InitOwned, PTL DEF Spec

\* At any moment at most one process, or one Start message, answers for the claim,
\* and the claim it was told of is the one that is there.
THEOREM ExclusiveOwner == Spec => []OneOwner
<1>1. IInv => OneOwner BY DEF IInv
<1> QED BY <1>1, Inductive, PTL

\* The processes around one directory hand the claim on as SelectionOwnership says.
THEOREM Implements == Spec => ImplementsOwnership
<1>1. Init => Ownership!Init
  <2> SUFFICES ASSUME Init PROVE Ownership!Init OBVIOUS
  <2>1. Holders = {} /\ claim = NoInode BY DEF Init, Holders
  <2> QED BY <2>1 DEF Ownership!Init, Owner
<1>2. IInv /\ [Next]_vars => [Ownership!Next]_Owner BY NextIsClaimStep, StepImplements
<1> QED BY <1>1, <1>2, Inductive, PTL DEF Spec, ImplementsOwnership, Ownership!Spec

-----------------------------------------------------------------------------
(* That generations of one configuration never overlap.                    *)

Has(r, l) == <<r, l>> \in Holders
Owns(l) == IF l \in Foreground THEN Has("launcher", l) ELSE Has("generation", l)

Before == {"unattempted", "begun", "refused"}
Unstarted == {"booting", "prepared"}
Running == Live \union {"ended"}

StepOf(l) == Selecting(l) \/ Launching(l) \/ Child(l) \/ Generation(l) \/ Crash(l)

\* It looked for a generation, found none, and its own is not recorded yet.
Chose(l) ==
  \/ launcher[l] \in {"waiting", "killing", "reaping"} \/ Has("start", l)
  \/ gen[l] \in {"authorized", "checking"}
  \/ gen[l] \in Running \union {"crashed"} /\ pub[l] \in Before

\* It crashed with nothing in the registry to show for it.
CrashedBare(l) == gen[l] = "crashed" /\ pub[l] \notin Published

\* The launcher has the claim until Start is sent, and kills only before that.
LauncherInv(l) ==
  /\ launcher[l] = "selecting" => gen[l] = "none"
  /\ launcher[l] \in {"reading", "visiting"} => Has("launcher", l) /\ gen[l] = "none"
  /\ launcher[l] \in {"waiting", "killing", "reaping"} =>
       Has("launcher", l) /\ l \notin Foreground /\ gen[l] \in Unstarted \union {"gone"}
  /\ launcher[l] = "owning" => l \in Foreground
  /\ killed[l] => /\ launcher[l] \in {"reaping", "releasing", "over", "dead"}
                  /\ gen[l] \in Unstarted \union {"gone"} /\ pub[l] = "unattempted"
                  /\ ~Has("start", l) /\ ~Has("generation", l)

\* The owner has the claim until its publication gives it back, and again while
\* it retires its record.
GenerationInv(l) ==
  /\ gen[l] \in {"none", "checking", "starting"} \union Booting => pub[l] = "unattempted"
  /\ gen[l] \in {"none", "checking"} \union Booting \union (Live \ {"draining"}) =>
       outcome[l] = "none"
  /\ gen[l] \in {"checking"} \union Booting => l \notin Foreground
  /\ gen[l] \in {"none"} \union Booting => ~Has("generation", l)
  /\ gen[l] = "none" => ~Has("start", l)
  /\ gen[l] \in Running /\ l \in Foreground => launcher[l] = "owning"
  /\ gen[l] = "authorized" => Has("start", l)
  /\ gen[l] = "checking" => Has("generation", l)
  /\ gen[l] \in Running /\ pub[l] \notin {"done", "unreleased"} => Owns(l)
  /\ gen[l] \in {"retiring", "removing"} =>
       pub[l] \in {"done", "unreleased"} /\ outcome[l] = "clean"
  /\ gen[l] = "removing" => Has("generation", l)
  /\ pub[l] \in {"begun", "linked", "recorded"} =>
       gen[l] \in Running \union {"gone", "crashed"}

\* A record is there as long as the generation may own something.
RecordInv(l) ==
  /\ l \in records => pub[l] \in Published
  /\ pub[l] \in Published /\ (gen[l] \in Running \union {"crashed"} \/ outcome[l] = "failure") =>
       l \in records

Local(l) == LauncherInv(l) /\ GenerationInv(l) /\ RecordInv(l)

\* A bare crash strands the claim, and so it is the only one.
CrashInv(l) ==
  CrashedBare(l) => /\ claim # NoInode /\ Holders = {}
                    /\ \A m \in Launchers : CrashedBare(m) => m = l

\* What the holder read is still so, and what it passed over differs from it.
SeenInv(l) ==
  launcher[l] = "visiting" =>
    /\ seen[l] = records
    /\ chosen[l] = None => \A g \in records \ todo[l] : conf[g] # conf[l]

\* A decision to start a generation holds until its record is there.
ChoiceInv(l) ==
  Chose(l) => Cardinality(records) # MaxRecords /\ \A g \in records : conf[g] # conf[l]

\* The registry has its limit and one record for a configuration.
RoomInv ==
  /\ Cardinality(records) <= MaxRecords
  /\ \A g, h \in records : conf[g] = conf[h] => g = h

SafeInv ==
  /\ TypeOK /\ IInv /\ OrphanNeedsCause /\ RoomInv
  /\ \A l \in Launchers : Local(l) /\ CrashInv(l) /\ SeenInv(l) /\ ChoiceInv(l)

-----------------------------------------------------------------------------
(* Types.                                                                  *)

\* lost is set and never cleared.
LEMMA LostIsBoolean ==
  ASSUME lost \in BOOLEAN
  PROVE  (LoseNew => lost' \in BOOLEAN) /\ \A ps : Lose(ps) => lost' \in BOOLEAN
<1>1. ASSUME LoseNew PROVE lost' \in BOOLEAN
  <2>1. lost' = TRUE BY <1>1 DEF LoseNew
  <2> QED BY <2>1
<1>2. ASSUME NEW ps, Lose(ps) PROVE lost' \in BOOLEAN
  <2>1. lost' = (lost \/ ps \intersect Holders # {}) BY <1>2 DEF Lose
  <2> QED BY <2>1
<1> QED BY <1>1, <1>2

\* Every variable keeps its type; the claim and its capabilities by StepOwned.
LEMMA TypeStep == ASSUME TypeOK, IInv, [Next]_vars PROVE TypeOK'
<1> USE DEF TypeOK, directory, launching, running
<1>0. /\ claim' \in Inodes \union {NoInode}
      /\ cap' \in [Party -> Inodes \union {NoInode}]
  BY NextIsClaimStep, StepOwned DEF IInv
<1> USE <1>0, LostIsBoolean
<1>1. CASE UNCHANGED vars
  BY <1>1 DEF vars
<1>2. ASSUME NEW l \in Launchers, Selecting(l) PROVE TypeOK'
  <2>1. ASSUME AcquireClaim(l) \/ AcquireFails(l) \/ GiveUp(l) PROVE TypeOK'
    BY <2>1 DEF AcquireClaim, AcquireFails, GiveUp, Step
  <2>2. ASSUME ReadNamespace(l) \/ Refuse(l) PROVE TypeOK'
    BY <2>2 DEF ReadNamespace, Refuse, Step
  <2>3. ASSUME NEW g \in Launchers, Skip(l, g) \/ Match(l, g) PROVE TypeOK'
    BY <2>3 DEF Skip, Match
  <2>4. ASSUME UseExisting(l) \/ LauncherEnds(l) \/ LauncherEndsBadly(l) PROVE TypeOK'
    BY <2>4 DEF UseExisting, LauncherEnds, LauncherEndsBadly, Step
  <2> QED BY <1>2, <2>1, <2>2, <2>3, <2>4 DEF Selecting
<1>3. ASSUME NEW l \in Launchers, Launching(l) PROVE TypeOK'
  <2>1. ASSUME Spawn(l) \/ Dies(l) PROVE TypeOK'
    BY <2>1 DEF Spawn, Dies, Booting
  <2>2. ASSUME Kill(l) PROVE TypeOK'
    <3>1. (gen[l] # "gone") \in BOOLEAN OBVIOUS
    <3>2. killed' \in [Launchers -> BOOLEAN] BY <2>2, <3>1 DEF Kill
    <3> QED BY <2>2, <3>2 DEF Kill, Step
  <2>3. ASSUME SendStart(l) PROVE TypeOK'
    BY <2>3 DEF SendStart, Step
  <2>4. ASSUME LaunchFails(l) \/ Reaped(l) \/ ChildReady(l) \/ LaunchAbandoned(l) PROVE TypeOK'
    BY <2>4 DEF LaunchFails, Reaped, ChildReady, LaunchAbandoned, Step
  <2> QED BY <1>3, <2>1, <2>2, <2>3, <2>4 DEF Launching
<1>4. ASSUME NEW l \in Launchers, Child(l) PROVE TypeOK'
  <2>1. ASSUME ChildPrepared(l) \/ Authorized(l) \/ CheckNamespace(l) PROVE TypeOK'
    BY <2>1 DEF ChildPrepared, Authorized, CheckNamespace, GenStep, Booting, Live, Settling
  <2>2. ASSUME ChildRetires(l) \/ Adopt(l) \/ AdoptFails(l) PROVE TypeOK'
    BY <2>2 DEF ChildRetires, Adopt, AdoptFails, GenStep
  <2> QED BY <1>4, <2>1, <2>2 DEF Child
<1>5. ASSUME NEW l \in Launchers, Generation(l) PROVE TypeOK'
  <2> USE DEF GenStep, PubStep, Booting, Live, Settling, Published
  <2>1. ASSUME OwnForeground(l) \/ LinkDescriptor(l) \/ BeginPublication(l) PROVE TypeOK'
    BY <2>1 DEF OwnForeground, LinkDescriptor, BeginPublication
  <2>2. ASSUME PublishRecord(l) \/ PublishRefused(l) \/ RecordReceipt(l) PROVE TypeOK'
    BY <2>2 DEF PublishRecord, PublishRefused, RecordReceipt
  <2>3. ASSUME ReleasePublished(l) PROVE TypeOK'
    BY <2>3 DEF ReleasePublished
  <2>4. ASSUME Serve(l) \/ RunStops(l) PROVE TypeOK'
    BY <2>4 DEF Serve, RunStops
  <2>5. ASSUME Unlink(l) \/ RunEnds(l) \/ Settle(l) PROVE TypeOK'
    BY <2>5 DEF Unlink, RunEnds, Settle
  <2>6. ASSUME AcquireToRetire(l) \/ RetireGivesUp(l) \/ Retire(l) PROVE TypeOK'
    BY <2>6 DEF AcquireToRetire, RetireGivesUp, Retire
  <2>7. ASSUME Finish(l) \/ ForegroundEnds(l) PROVE TypeOK'
    BY <2>7 DEF Finish, ForegroundEnds, Step
  <2> QED BY <1>5, <2>1, <2>2, <2>3, <2>4, <2>5, <2>6, <2>7 DEF Generation
<1>6. ASSUME NEW l \in Launchers, Crash(l) PROVE TypeOK'
  BY <1>6 DEF Crash, LauncherCrashes, GenerationCrashes, Crashed, Booting, Live, Settling
<1> QED BY <1>1, <1>2, <1>3, <1>4, <1>5, <1>6 DEF Next

\* The initial states have the types.
LEMMA InitTyped == Init => TypeOK
<1> SUFFICES ASSUME Init PROVE TypeOK OBVIOUS
<1>1. killed \in [Launchers -> BOOLEAN] /\ lost \in BOOLEAN BY DEF Init
<1>2. cap \in [Party -> Inodes \union {NoInode}] BY DEF Init
<1> QED BY <1>1, <1>2 DEF Init, TypeOK

-----------------------------------------------------------------------------
(* A step of one launcher or generation leaves the others alone.           *)

\* What a step of l leaves alone of another launcher and its generation.
Same(k) ==
  /\ launcher'[k] = launcher[k] /\ seen'[k] = seen[k] /\ todo'[k] = todo[k]
  /\ chosen'[k] = chosen[k] /\ killed'[k] = killed[k]
  /\ gen'[k] = gen[k] /\ pub'[k] = pub[k] /\ outcome'[k] = outcome[k]
  /\ conf' = conf /\ (k \in records' <=> k \in records)
  /\ \A r \in Roles : Has(r, k)' <=> Has(r, k)

\* The capabilities of one launcher and its generation are theirs alone.
LEMMA OthersCaps ==
  ASSUME IInv, NEW l \in Launchers, NEW k \in Launchers, k # l, NEW r \in Roles,
         NEW s \in Roles, NEW t \in Roles, s # t
  PROVE  /\ Acquire(<<s, l>>) => (Has(r, k)' <=> Has(r, k))
         /\ Transfer(<<s, l>>, <<t, l>>) => (Has(r, k)' <=> Has(r, k))
         /\ Release(<<s, l>>) => (Has(r, k)' <=> Has(r, k))
         /\ Lose({<<s, l>>}) => (Has(r, k)' <=> Has(r, k))
         /\ Lose({<<s, l>>, <<t, l>>}) => (Has(r, k)' <=> Has(r, k))
         /\ LoseNew => (Has(r, k)' <=> Has(r, k))
<1> <<r, k>> \in Party BY DEF Party
<1>1. (<<s, l>> # <<r, k>>) /\ <<t, l>> # <<r, k>> OBVIOUS
<1> QED BY <1>1 DEF Acquire, Transfer, Release, Lose, LoseNew, Has, Holders, IInv

\* No action of l touches another launcher or generation.
LEMMA OthersSame ==
  ASSUME TypeOK, IInv, NEW l \in Launchers, StepOf(l), NEW k \in Launchers, k # l
  PROVE  Same(k)
<1> USE DEF TypeOK, directory, launching, running
<1> DEFINE Kept == \A r \in Roles : Has(r, k)' <=> Has(r, k)
<1>0. UNCHANGED cap => Kept BY DEF Has, Holders
<1>r. "launcher" \in Roles /\ "start" \in Roles /\ "generation" \in Roles BY DEF Roles
<1>n. "launcher" # "start" /\ "start" # "generation" /\ "launcher" # "generation" OBVIOUS
<1>a. (\E s \in Roles : Acquire(<<s, l>>) \/ Release(<<s, l>>) \/ Lose({<<s, l>>})) => Kept
  BY <1>r, <1>n, OthersCaps
<1>b. LoseNew => Kept BY <1>r, <1>n, OthersCaps
<1>c. (\E s, t \in Roles : s # t /\ (\/ Transfer(<<s, l>>, <<t, l>>)
                                    \/ Lose({<<s, l>>, <<t, l>>}))) => Kept
  BY OthersCaps
<1>d. Acquire(<<"launcher", l>>) \/ Acquire(<<"generation", l>>) => Kept BY <1>a, <1>r
<1>e. Release(<<"launcher", l>>) \/ Release(<<"generation", l>>) \/ Release(OwnersCap(l)) => Kept
  BY <1>a, <1>r DEF OwnersCap
<1>f. (\/ Lose({<<"launcher", l>>}) \/ Lose({<<"start", l>>})
       \/ Lose({<<"generation", l>>}) \/ Lose({OwnersCap(l)})) => Kept
  BY <1>a, <1>r DEF OwnersCap
<1>g. (\/ Transfer(<<"launcher", l>>, <<"start", l>>)
       \/ Transfer(<<"start", l>>, <<"generation", l>>)) => Kept
  BY <1>c, <1>r, <1>n
<1>h. (\/ Lose({<<"launcher", l>>, <<"generation", l>>})
       \/ Lose({<<"start", l>>, <<"generation", l>>})) => Kept
  BY <1>c, <1>r, <1>n
<1> HIDE DEF Kept
<1> SUFFICES Same(k) OBVIOUS
<1>s. ASSUME Kept, launcher'[k] = launcher[k], seen'[k] = seen[k], todo'[k] = todo[k],
      chosen'[k] = chosen[k], killed'[k] = killed[k],
      gen'[k] = gen[k], pub'[k] = pub[k], outcome'[k] = outcome[k],
      conf' = conf, k \in records' <=> k \in records
      PROVE Same(k)
  BY <1>s DEF Same, Kept
<1>2. ASSUME Selecting(l) PROVE Same(k)
  <2>1. ASSUME AcquireClaim(l) PROVE Same(k)
    BY <1>s, <2>1, <1>d DEF AcquireClaim, Step
  <2>2. ASSUME AcquireFails(l) PROVE Same(k)
    BY <1>s, <2>2, <1>b DEF AcquireFails, Step
  <2>3. ASSUME GiveUp(l) \/ ReadNamespace(l) \/ Refuse(l) PROVE Same(k)
    BY <1>s, <2>3, <1>0 DEF GiveUp, ReadNamespace, Refuse, Step
  <2>4. ASSUME NEW g \in Launchers, Skip(l, g) \/ Match(l, g) PROVE Same(k)
    BY <1>s, <2>4, <1>0 DEF Skip, Match
  <2>5. ASSUME UseExisting(l) \/ LauncherEnds(l) PROVE Same(k)
    BY <1>s, <2>5, <1>e DEF UseExisting, LauncherEnds, Step
  <2>6. ASSUME LauncherEndsBadly(l) PROVE Same(k)
    BY <1>s, <2>6, <1>f DEF LauncherEndsBadly
  <2> QED BY <1>2, <2>1, <2>2, <2>3, <2>4, <2>5, <2>6 DEF Selecting
<1>3. ASSUME Launching(l) PROVE Same(k)
  <2>1. ASSUME SendStart(l) PROVE Same(k)
    BY <1>s, <2>1, <1>f, <1>g DEF SendStart, Step
  <2>2. ASSUME Spawn(l) \/ Kill(l) \/ Dies(l) PROVE Same(k)
    BY <1>s, <2>2, <1>0 DEF Spawn, Kill, Dies, Step
  <2>3. ASSUME LaunchFails(l) \/ Reaped(l) \/ ChildReady(l) \/ LaunchAbandoned(l) PROVE Same(k)
    BY <1>s, <2>3, <1>0 DEF LaunchFails, Reaped, ChildReady, LaunchAbandoned, Step
  <2> QED BY <1>3, <2>1, <2>2, <2>3 DEF Launching
<1>4. ASSUME Child(l) PROVE Same(k)
  <2>1. ASSUME ChildPrepared(l) \/ Authorized(l) \/ CheckNamespace(l) PROVE Same(k)
    BY <1>s, <2>1, <1>0 DEF ChildPrepared, Authorized, CheckNamespace, GenStep
  <2>2. ASSUME ChildRetires(l) \/ AdoptFails(l) PROVE Same(k)
    BY <1>s, <2>2, <1>f DEF ChildRetires, AdoptFails, GenStep
  <2>3. ASSUME Adopt(l) PROVE Same(k)
    BY <1>s, <2>3, <1>g DEF Adopt, GenStep
  <2> QED BY <1>4, <2>1, <2>2, <2>3 DEF Child
<1>5. ASSUME Generation(l) PROVE Same(k)
  <2>1. ASSUME OwnForeground(l) \/ LinkDescriptor(l) \/ BeginPublication(l) PROVE Same(k)
    BY <1>s, <2>1, <1>0 DEF OwnForeground, LinkDescriptor, BeginPublication, GenStep,
         PubStep
  <2>2. ASSUME PublishRecord(l) \/ PublishRefused(l) \/ RecordReceipt(l) PROVE Same(k)
    BY <1>s, <2>2, <1>0 DEF PublishRecord, PublishRefused, RecordReceipt, PubStep
  <2>3. ASSUME ReleasePublished(l) PROVE Same(k)
    BY <1>s, <2>3, <1>e, <1>f DEF ReleasePublished, PubStep
  <2>4. ASSUME Serve(l) \/ RunStops(l) \/ Unlink(l) \/ RunEnds(l) \/ Settle(l) PROVE Same(k)
    BY <1>s, <2>4, <1>0 DEF Serve, RunStops, Unlink, RunEnds, Settle, GenStep
  <2>5. ASSUME AcquireToRetire(l) PROVE Same(k)
    BY <1>s, <2>5, <1>d DEF AcquireToRetire, GenStep
  <2>6. ASSUME RetireGivesUp(l) PROVE Same(k)
    BY <1>s, <2>6, <1>0, <1>b DEF RetireGivesUp, GenStep
  <2>7. ASSUME Retire(l) \/ ForegroundEnds(l) PROVE Same(k)
    BY <1>s, <2>7, <1>0 DEF Retire, ForegroundEnds, GenStep, Step
  <2>8. ASSUME Finish(l) PROVE Same(k)
    BY <1>s, <2>8, <1>e, <1>f DEF Finish, GenStep
  <2> QED BY <1>5, <2>1, <2>2, <2>3, <2>4, <2>5, <2>6, <2>7, <2>8 DEF Generation
<1>6. ASSUME Crash(l) PROVE Same(k)
  BY <1>s, <1>6, <1>f, <1>h DEF Crash, LauncherCrashes, GenerationCrashes, Crashed
<1> QED BY <1>2, <1>3, <1>4, <1>5, <1>6 DEF StepOf

-----------------------------------------------------------------------------
(* What a step does to its own launcher and generation.                    *)

\* One capability at most, before and after.
LEMMA OneRole ==
  ASSUME IInv, NEW l \in Launchers, NEW m \in Launchers, NEW r \in Roles, NEW s \in Roles,
         Has(r, l), Has(s, m)
  PROVE  r = s /\ l = m
<1>1. <<r, l>> = <<s, m>> BY OwnerIs DEF Has
<1> QED BY <1>1

\* What an operation on the claim does to the capabilities of one launcher.
LEMMA OwnCaps ==
  ASSUME IInv, NEW l \in Launchers, NEW r \in Roles, NEW s \in Roles
  PROVE  /\ Acquire(<<r, l>>) => (Has(s, l)' <=> s = r)
         /\ Release(<<r, l>>) \/ Lose({<<r, l>>}) => (Has(s, l)' <=> Has(s, l) /\ s # r)
         /\ Acquire(<<r, l>>) => ~Has(s, l)
         /\ LoseNew => ~Has(s, l)' /\ ~Has(s, l)
         /\ \A t \in Roles : t # r =>
              /\ Transfer(<<r, l>>, <<t, l>>) /\ Has(r, l) => (Has(s, l)' <=> s = t)
              /\ Lose({<<r, l>>, <<t, l>>}) => (Has(s, l)' <=> Has(s, l) /\ s # r /\ s # t)
<1>1. \A t \in Roles : <<t, l>> \in Party BY DEF Party
<1>2. \A t \in Roles : <<s, l>> = <<t, l>> <=> s = t OBVIOUS
<1>3. ASSUME Acquire(<<r, l>>) PROVE ~Has(s, l) /\ (Has(s, l)' <=> s = r)
  <2>1. Holders = {} /\ Holders' = {<<r, l>>} BY <1>1, <1>3, AcquireOwns
  <2> QED BY <2>1, <1>2 DEF Has
<1>4. ASSUME Release(<<r, l>>) PROVE Has(s, l)' <=> Has(s, l) /\ s # r
  <2>1. Holders' = Holders \ {<<r, l>>} BY <1>4, <1>1 DEF Release, Holders, IInv
  <2> QED BY <2>1, <1>2 DEF Has
<1>5. ASSUME Lose({<<r, l>>}) PROVE Has(s, l)' <=> Has(s, l) /\ s # r
  <2>1. Holders' = Holders \ {<<r, l>>} BY <1>5, <1>1, LoseStrands
  <2> QED BY <2>1, <1>2 DEF Has
<1>6. ASSUME LoseNew PROVE ~Has(s, l)' /\ ~Has(s, l)
  BY <1>6, LoseNewStrands DEF Has
<1>7. ASSUME NEW t \in Roles, t # r, Transfer(<<r, l>>, <<t, l>>), Has(r, l)
      PROVE  Has(s, l)' <=> s = t
  <2>1. <<r, l>> # <<t, l>> BY <1>7
  <2>2. Holders' = {<<t, l>>} BY <1>1, <1>7, <2>1, TransferHands DEF Has
  <2> QED BY <2>2, <1>2 DEF Has
<1>8. ASSUME NEW t \in Roles, t # r, Lose({<<r, l>>, <<t, l>>})
      PROVE  Has(s, l)' <=> Has(s, l) /\ s # r /\ s # t
  <2>0. {<<r, l>>, <<t, l>>} \in SUBSET Party BY <1>1
  <2>1. Holders' = Holders \ {<<r, l>>, <<t, l>>} BY <1>8, <2>0, LoseStrands
  <2> QED BY <2>1, <1>2 DEF Has
<1> QED BY <1>3, <1>4, <1>5, <1>6, <1>7, <1>8

\* Each action keeps what holds of the launcher and generation that take it.
LEMMA OwnLocal ==
  ASSUME TypeOK, IInv, NEW l \in Launchers, Local(l), StepOf(l)
  PROVE  Local(l)'
<1> DEFINE Now(x, y, z) == /\ Has("launcher", l)' <=> x
                           /\ Has("start", l)' <=> y
                           /\ Has("generation", l)' <=> z
           Unmoved == Now(Has("launcher", l), Has("start", l), Has("generation", l))
<1>u. UNCHANGED cap => Unmoved BY DEF Has, Holders
<1>r. "launcher" \in Roles /\ "start" \in Roles /\ "generation" \in Roles BY DEF Roles
<1>x. /\ ~(Has("launcher", l) /\ Has("start", l)) /\ ~(Has("launcher", l) /\ Has("generation", l))
      /\ ~(Has("start", l) /\ Has("generation", l))
  BY <1>r, OneRole
<1>a. Acquire(<<"launcher", l>>) => Now(TRUE, FALSE, FALSE)
  BY <1>r, OwnCaps
<1>b. Acquire(<<"generation", l>>) => Now(FALSE, FALSE, TRUE)
  BY <1>r, OwnCaps
<1>c. Lose({<<"launcher", l>>, <<"generation", l>>}) => Now(FALSE, Has("start", l), FALSE)
  <2>1. "launcher" # "generation" OBVIOUS
  <2> QED BY <1>r, <2>1, OwnCaps
<1>d. Lose({<<"launcher", l>>}) => Now(FALSE, Has("start", l), Has("generation", l))
  BY <1>r, OwnCaps
<1> USE <1>x DEF TypeOK, directory, launching, running, Local, LauncherInv, GenerationInv,
     RecordInv, Owns, Live, Booting, Settling, Published, Running, Unstarted
<1>2. ASSUME Selecting(l) PROVE Local(l)'
  <2>1. ASSUME AcquireClaim(l) PROVE Local(l)'
    <3>1. Now(TRUE, FALSE, FALSE) BY <2>1, <1>a DEF AcquireClaim
    <3> QED BY <2>1, <3>1 DEF AcquireClaim, Step
  <2>2. ASSUME AcquireFails(l) PROVE Local(l)'
    <3>1. Now(FALSE, FALSE, FALSE) BY <2>2, <1>r, OwnCaps DEF AcquireFails
    <3> QED BY <2>2, <3>1 DEF AcquireFails, Step
  <2>3. ASSUME GiveUp(l) \/ ReadNamespace(l) \/ Refuse(l) PROVE Local(l)'
    <3>1. Unmoved BY <2>3, <1>u DEF GiveUp, ReadNamespace, Refuse
    <3> QED BY <2>3, <3>1 DEF Unmoved, GiveUp, ReadNamespace, Refuse, Step
  <2>4. ASSUME NEW g \in Launchers, Skip(l, g) \/ Match(l, g) PROVE Local(l)'
    <3>1. Unmoved BY <2>4, <1>u DEF Skip, Match
    <3> QED BY <2>4, <3>1 DEF Unmoved, Skip, Match
  <2>5. ASSUME UseExisting(l) \/ LauncherEnds(l) PROVE Local(l)'
    <3>1. Now(FALSE, Has("start", l), Has("generation", l))
      BY <2>5, <1>r, OwnCaps DEF UseExisting, LauncherEnds
    <3> QED BY <2>5, <3>1 DEF UseExisting, LauncherEnds, Step, Decided
  <2>6. ASSUME LauncherEndsBadly(l) PROVE Local(l)'
    <3>1. Now(FALSE, Has("start", l), Has("generation", l))
      BY <2>6, <1>r, OwnCaps DEF LauncherEndsBadly
    <3> QED BY <2>6, <3>1 DEF LauncherEndsBadly, Decided
  <2> QED BY <1>2, <2>1, <2>2, <2>3, <2>4, <2>5, <2>6 DEF Selecting
<1>3. ASSUME Launching(l) PROVE Local(l)'
  <2>1. ASSUME SendStart(l) PROVE Local(l)'
    <3>1. Has("launcher", l) BY <2>1 DEF SendStart, Step, Local, LauncherInv
    <3>2. IF gen[l] = "prepared" THEN Now(FALSE, TRUE, FALSE)
          ELSE Now(FALSE, Has("start", l), Has("generation", l))
      BY <2>1, <3>1, <1>r, OwnCaps DEF SendStart
    <3> QED BY <2>1, <3>1, <3>2, <1>x DEF SendStart, Step
  <2>2. ASSUME Spawn(l) PROVE Local(l)'
    <3>1. Unmoved BY <2>2, <1>u DEF Spawn
    <3> QED BY <2>2, <3>1 DEF Unmoved, Spawn, Absent, Decided
  <2>3. ASSUME Kill(l) \/ Dies(l) PROVE Local(l)'
    <3>1. Unmoved BY <2>3, <1>u DEF Kill, Dies
    <3> QED BY <2>3, <3>1 DEF Unmoved, Kill, Dies, Step
  <2>4. ASSUME LaunchFails(l) \/ Reaped(l) \/ ChildReady(l) \/ LaunchAbandoned(l) PROVE Local(l)'
    <3>1. Unmoved BY <2>4, <1>u DEF LaunchFails, Reaped, ChildReady, LaunchAbandoned
    <3> QED BY <2>4, <3>1 DEF Unmoved, LaunchFails, Reaped, ChildReady, LaunchAbandoned,
         Step
  <2> QED BY <1>3, <2>1, <2>2, <2>3, <2>4 DEF Launching
<1>4. ASSUME Child(l) PROVE Local(l)'
  <2>1. ASSUME ChildPrepared(l) PROVE Local(l)'
    <3>1. Unmoved BY <2>1, <1>u DEF ChildPrepared
    <3> QED BY <2>1, <3>1 DEF Unmoved, ChildPrepared, GenStep
  <2>2. ASSUME Authorized(l) PROVE Local(l)'
    <3>1. Unmoved BY <2>2, <1>u DEF Authorized
    <3>2. <<"start", l>> \in Party BY <1>r DEF Party
    <3>3. Has("start", l) BY <2>2, <3>2 DEF Authorized, Has, Holders
    <3> QED BY <2>2, <3>1, <3>3 DEF Unmoved, Authorized, GenStep
  <2>3. ASSUME CheckNamespace(l) PROVE Local(l)'
    <3>1. Unmoved BY <2>3, <1>u DEF CheckNamespace
    <3> QED BY <2>3, <3>1 DEF Unmoved, CheckNamespace
  <2>4. ASSUME ChildRetires(l) \/ AdoptFails(l) PROVE Local(l)'
    <3>1. Now(Has("launcher", l), FALSE, Has("generation", l))
      BY <2>4, <1>r, OwnCaps DEF ChildRetires, AdoptFails
    <3> QED BY <2>4, <3>1 DEF ChildRetires, AdoptFails, GenStep
  <2>5. ASSUME Adopt(l) PROVE Local(l)'
    <3>0. Has("start", l) BY <2>5 DEF Adopt, GenStep, Local, GenerationInv, Live, Booting
    <3>1. Now(FALSE, FALSE, TRUE) BY <2>5, <3>0, <1>r, OwnCaps, ZenonT(60) DEF Adopt
    <3> QED BY <2>5, <3>0, <3>1 DEF Adopt, GenStep
  <2> QED BY <1>4, <2>1, <2>2, <2>3, <2>4, <2>5 DEF Child
<1>5. ASSUME Generation(l) PROVE Local(l)'
  <2>1. ASSUME OwnForeground(l) PROVE Local(l)'
    <3>1. Unmoved BY <2>1, <1>u DEF OwnForeground
    <3> QED BY <2>1, <3>1 DEF Unmoved, OwnForeground, Absent, Decided
  <2>2. ASSUME LinkDescriptor(l) \/ BeginPublication(l) PROVE Local(l)'
    <3>1. Unmoved BY <2>2, <1>u DEF LinkDescriptor, BeginPublication
    <3> QED BY <2>2, <3>1 DEF Unmoved, LinkDescriptor, BeginPublication, GenStep, PubStep,
         Alive
  <2>3. ASSUME PublishRecord(l) PROVE Local(l)'
    <3>1. Unmoved BY <2>3, <1>u DEF PublishRecord
    <3> QED BY <2>3, <3>1 DEF Unmoved, PublishRecord, PubStep, Alive
  <2>4. ASSUME PublishRefused(l) \/ RecordReceipt(l) PROVE Local(l)'
    <3>1. Unmoved BY <2>4, <1>u DEF PublishRefused, RecordReceipt
    <3> QED BY <2>4, <3>1 DEF Unmoved, PublishRefused, RecordReceipt, PubStep, Alive
  <2>5. ASSUME ReleasePublished(l) PROVE Local(l)'
    <3>1. IF l \in Foreground THEN Now(FALSE, Has("start", l), Has("generation", l))
          ELSE Now(Has("launcher", l), Has("start", l), FALSE)
      BY <2>5, <1>r, OwnCaps DEF ReleasePublished, OwnersCap
    <3> QED BY <2>5, <3>1 DEF ReleasePublished, PubStep, Alive
  <2>6. ASSUME Serve(l) \/ RunStops(l) PROVE Local(l)'
    <3>1. Unmoved BY <2>6, <1>u DEF Serve, RunStops
    <3> QED BY <2>6, <3>1 DEF Unmoved, Serve, RunStops, GenStep
  <2>7. ASSUME Unlink(l) \/ RunEnds(l) PROVE Local(l)'
    <3>1. Unmoved BY <2>7, <1>u DEF Unlink, RunEnds
    <3> QED BY <2>7, <3>1 DEF Unmoved, Unlink, RunEnds, GenStep
  <2>8. ASSUME Settle(l) PROVE Local(l)'
    <3>1. Unmoved BY <2>8, <1>u DEF Settle
    <3> QED BY <2>8, <3>1 DEF Unmoved, Settle
  <2>9. ASSUME AcquireToRetire(l) PROVE Local(l)'
    <3>1. Now(FALSE, FALSE, TRUE) BY <2>9, <1>b DEF AcquireToRetire
    <3> QED BY <2>9, <3>1 DEF AcquireToRetire, GenStep
  <2>10. ASSUME RetireGivesUp(l) PROVE Local(l)'
    <3>1. Unmoved \/ Now(FALSE, FALSE, FALSE)
      BY <2>10, <1>u, <1>r, OwnCaps DEF RetireGivesUp, directory
    <3> QED BY <2>10, <3>1 DEF RetireGivesUp, Unmoved, GenStep
  <2>11. ASSUME Retire(l) PROVE Local(l)'
    <3>1. Unmoved BY <2>11, <1>u DEF Retire
    <3> QED BY <2>11, <3>1 DEF Unmoved, Retire, GenStep
  <2>12. ASSUME ForegroundEnds(l) PROVE Local(l)'
    <3>1. Unmoved BY <2>12, <1>u DEF ForegroundEnds
    <3> QED BY <2>12, <3>1 DEF Unmoved, ForegroundEnds, Step
  <2>13. ASSUME Finish(l) PROVE Local(l)'
    <3>1. Now(Has("launcher", l), Has("start", l), FALSE) BY <2>13, <1>r, OwnCaps DEF Finish
    <3> QED BY <2>13, <3>1 DEF Finish, GenStep
  <2> QED BY <1>5, <2>1, <2>2, <2>3, <2>4, <2>5, <2>6, <2>7, <2>8, <2>9, <2>10, <2>11,
       <2>12, <2>13 DEF Generation
<1>6. ASSUME Crash(l) PROVE Local(l)'
  <2>1. ASSUME LauncherCrashes(l) PROVE Local(l)'
    <3>1. IF l \in Foreground THEN Now(FALSE, Has("start", l), FALSE)
          ELSE Now(FALSE, Has("start", l), Has("generation", l))
      BY <2>1, <1>c, <1>d DEF LauncherCrashes
    <3> QED BY <2>1, <3>1 DEF LauncherCrashes, Crashed
  <2>2. ASSUME GenerationCrashes(l) PROVE Local(l)'
    <3>1. Now(Has("launcher", l), FALSE, FALSE) BY <2>2, <1>r, OwnCaps DEF GenerationCrashes
    <3> QED BY <2>2, <3>1 DEF GenerationCrashes, Crashed, Alive
  <2> QED BY <1>6, <2>1, <2>2 DEF Crash
<1> QED BY <1>2, <1>3, <1>4, <1>5, <1>6 DEF StepOf

\* And so do the steps of others.
LEMMA OthersLocal ==
  ASSUME NEW k \in Launchers, Local(k), Same(k)
  PROVE  Local(k)'
<1>r. "launcher" \in Roles /\ "start" \in Roles /\ "generation" \in Roles BY DEF Roles
<1>1. /\ Has("launcher", k)' <=> Has("launcher", k)
      /\ Has("start", k)' <=> Has("start", k)
      /\ Has("generation", k)' <=> Has("generation", k)
  BY <1>r DEF Same
<1>2. LauncherInv(k)' BY <1>1 DEF Same, Local, LauncherInv
<1>3. GenerationInv(k)' BY <1>1 DEF Same, Local, GenerationInv, Owns
<1>4. RecordInv(k)' BY DEF Same, Local, RecordInv
<1> QED BY <1>2, <1>3, <1>4 DEF Local

-----------------------------------------------------------------------------
(* The claim, the records, and those who chose.                            *)

\* A stranded claim stays so.
LEMMA StrandedStays ==
  ASSUME IInv, ClaimStep, Holders = {}, claim # NoInode
  PROVE  Holders' = {} /\ claim' = claim
<1>1. ASSUME NEW p \in Party, Acquire(p) PROVE FALSE
  BY <1>1 DEF Acquire
<1>2. ASSUME NEW p \in Party, NEW q \in Party, p # q, Transfer(p, q)
      PROVE  Holders' = {} /\ claim' = claim
  BY <1>2, TransferHands
<1>3. ASSUME NEW l \in Launchers, Transfer(<<"launcher", l>>, <<"start", l>>)
      PROVE  Holders' = {} /\ claim' = claim
  <2>1. <<"launcher", l>> # <<"start", l>> OBVIOUS
  <2> QED BY <1>2, <1>3, <2>1, Parties
<1>4. ASSUME NEW l \in Launchers, Transfer(<<"start", l>>, <<"generation", l>>)
      PROVE  Holders' = {} /\ claim' = claim
  <2>1. <<"start", l>> # <<"generation", l>> OBVIOUS
  <2> QED BY <1>2, <1>4, <2>1, Parties
<1>5. ASSUME NEW p \in Party, Release(p)
      PROVE  Holders' = {} /\ claim' = claim
  BY <1>5, ReleaseFrees
<1>6. ASSUME NEW ps \in SUBSET Party, Lose(ps) PROVE Holders' = {} /\ claim' = claim
  BY <1>6, LoseStrands
<1>7. ~LoseNew BY DEF LoseNew
<1>8. ASSUME UNCHANGED directory PROVE Holders' = {} /\ claim' = claim
  BY <1>8 DEF directory, Holders
<1> QED BY <1>1, <1>3, <1>4, <1>5, <1>6, <1>7, <1>8 DEF ClaimStep

\* How the records change.
Recording(l) ==
  /\ records' = records \union {l} /\ Cardinality(records) # MaxRecords
  /\ Chose(l) /\ Owns(l)
Retiring(l) == records' = records \ {l} /\ Has("generation", l)

\* Records change only when one who chose and owns the claim publishes, or the
\* owner of the claim retires; neither has anything chosen afterwards.
LEMMA RecordsMove ==
  ASSUME TypeOK, IInv, NEW l \in Launchers, Local(l), StepOf(l)
  PROVE  \/ UNCHANGED records
         \/ /\ Recording(l) \/ Retiring(l)
            /\ ~Chose(l)' /\ launcher'[l] # "visiting"
<1> USE DEF Live, Booting, Settling, Published, Running, Before
<1> DEFINE Goal == \/ UNCHANGED records
                   \/ /\ Recording(l) \/ Retiring(l)
                      /\ ~Chose(l)' /\ launcher'[l] # "visiting"
<1>r. "launcher" \in Roles /\ "start" \in Roles /\ "generation" \in Roles BY DEF Roles
<1>x. /\ ~(Has("launcher", l) /\ Has("start", l)) /\ ~(Has("launcher", l) /\ Has("generation", l))
      /\ ~(Has("start", l) /\ Has("generation", l))
  BY <1>r, OneRole
<1>1. ASSUME PublishRecord(l) PROVE Goal
  <2>1. gen[l] \in Running /\ pub[l] = "begun" /\ Owns(l)
    BY <1>1 DEF PublishRecord, PubStep, Alive, Local, GenerationInv, TypeOK
  <2>2. /\ ~Has("start", l) /\ launcher[l] \notin {"visiting", "waiting", "killing", "reaping"}
    BY <1>x, <2>1 DEF Owns, Local, LauncherInv, GenerationInv, Unstarted
  <2>3. ~Has("start", l)' BY <1>1, <2>2 DEF PublishRecord, directory, Has, Holders
  <2>4. pub'[l] = "linked" /\ gen' = gen /\ launcher' = launcher
    BY <1>1 DEF PublishRecord, PubStep, launching, TypeOK
  <2>5. Recording(l) BY <1>1, <2>1 DEF PublishRecord, Recording, Chose
  <2>6. ~Chose(l)' BY <2>1, <2>2, <2>3, <2>4 DEF Chose
  <2> QED BY <2>2, <2>4, <2>5, <2>6
<1>2. ASSUME Retire(l) PROVE Goal
  <2>1. gen[l] = "removing" /\ Has("generation", l)
    BY <1>2 DEF Retire, GenStep, Local, GenerationInv
  <2>2. /\ ~Has("start", l) /\ launcher[l] \notin {"visiting", "waiting", "killing", "reaping"}
    BY <1>x, <2>1 DEF Local, LauncherInv, GenerationInv, Unstarted
  <2>3. ~Has("start", l)' BY <1>2, <2>2 DEF Retire, directory, Has, Holders
  <2>4. gen'[l] = "closing" /\ launcher' = launcher
    BY <1>2 DEF Retire, GenStep, launching, TypeOK
  <2>5. UNCHANGED records \/ Retiring(l) BY <1>2, <2>1 DEF Retire, Retiring
  <2>6. ~Chose(l)' BY <2>2, <2>3, <2>4 DEF Chose
  <2> QED BY <2>2, <2>4, <2>5, <2>6
<1>3. ASSUME Selecting(l) PROVE UNCHANGED records
  BY <1>3 DEF Selecting, AcquireClaim, AcquireFails, GiveUp, ReadNamespace, Skip, Match,
       Refuse, UseExisting, LauncherEnds, LauncherEndsBadly
<1>4. ASSUME Launching(l) \/ Child(l) \/ Crash(l) PROVE UNCHANGED records
  BY <1>4 DEF Launching, Spawn, SendStart, LaunchFails, Kill, Dies, Reaped, ChildReady,
       LaunchAbandoned, Child, ChildPrepared, Authorized, ChildRetires, Adopt, AdoptFails,
       CheckNamespace, Crash, LauncherCrashes, GenerationCrashes
<1>5. ASSUME Generation(l) PROVE PublishRecord(l) \/ Retire(l) \/ UNCHANGED records
  BY <1>5 DEF Generation, OwnForeground, LinkDescriptor, BeginPublication, PublishRefused,
       RecordReceipt, ReleasePublished, Serve, RunStops, Unlink, RunEnds, Settle,
       AcquireToRetire, RetireGivesUp, Finish, ForegroundEnds
<1> QED BY <1>1, <1>2, <1>3, <1>4, <1>5 DEF StepOf

\* One comes to have chosen only by finding none.
LEMMA ChoosesWhen ==
  ASSUME TypeOK, IInv, NEW l \in Launchers, Local(l), StepOf(l), Chose(l)'
  PROVE  Chose(l) \/ (Absent(l) /\ UNCHANGED records)
<1> USE DEF TypeOK, directory, launching, running, Live, Booting, Settling, Published,
     Running, Before
<1>r. "launcher" \in Roles /\ "start" \in Roles /\ "generation" \in Roles BY DEF Roles
<1>s. Has("start", l)' => Has("start", l) \/ SendStart(l)
  <2>1. Acquire(<<"launcher", l>>) \/ Acquire(<<"generation", l>>) \/ LoseNew => ~Has("start", l)'
    BY <1>r, OwnCaps
  <2>2. UNCHANGED cap => (Has("start", l)' <=> Has("start", l)) BY DEF Has, Holders
  <2>3. /\ Release(<<"launcher", l>>) => (Has("start", l)' <=> Has("start", l))
        /\ Release(<<"generation", l>>) => (Has("start", l)' <=> Has("start", l))
    BY <1>r, OwnCaps
  <2>4. \A ps \in SUBSET Party : Lose(ps) /\ Has("start", l)' => Has("start", l)
    BY LoseStrands DEF Has
  <2>p. /\ {<<"launcher", l>>} \in SUBSET Party /\ {<<"start", l>>} \in SUBSET Party
        /\ {<<"generation", l>>} \in SUBSET Party
        /\ {<<"launcher", l>>, <<"generation", l>>} \in SUBSET Party
        /\ {<<"start", l>>, <<"generation", l>>} \in SUBSET Party
    BY Parties
  <2>5. /\ (Lose({<<"launcher", l>>}) \/ Lose({<<"start", l>>}) \/ Lose({<<"generation", l>>}))
             /\ Has("start", l)' => Has("start", l)
        /\ (Lose({<<"launcher", l>>, <<"generation", l>>}) \/ Lose({<<"start", l>>, <<"generation", l>>}))
             /\ Has("start", l)' => Has("start", l)
    BY <2>4, <2>p
  <2>a. Selecting(l) => (Has("start", l)' => Has("start", l))
    BY <2>1, <2>2, <2>3, <2>5 DEF Selecting, AcquireClaim, AcquireFails, GiveUp,
         ReadNamespace, Skip, Match, Refuse, UseExisting, LauncherEnds, LauncherEndsBadly
  <2>b. Launching(l) => (Has("start", l)' => Has("start", l) \/ SendStart(l))
    BY <2>2 DEF Launching, Spawn, LaunchFails, Kill, Dies, Reaped, ChildReady,
         LaunchAbandoned
  <2>c. Child(l) => (Has("start", l)' => Has("start", l))
    <3>1. ASSUME Adopt(l) PROVE Has("start", l)
      BY <3>1 DEF Adopt, GenStep, Local, GenerationInv
    <3> QED BY <3>1, <2>2, <2>5 DEF Child, ChildPrepared, Authorized, ChildRetires,
         AdoptFails, CheckNamespace
  <2>d. Generation(l) => (Has("start", l)' => Has("start", l))
    BY <2>1, <2>2, <2>3, <2>5 DEF Generation, OwnForeground, LinkDescriptor,
         BeginPublication, PublishRecord, PublishRefused, RecordReceipt, ReleasePublished,
         OwnersCap, Serve, RunStops, Unlink, RunEnds, Settle, AcquireToRetire,
         RetireGivesUp, Retire, Finish, ForegroundEnds
  <2>e. Crash(l) => (Has("start", l)' => Has("start", l))
    BY <2>5 DEF Crash, LauncherCrashes, GenerationCrashes
  <2> QED BY <2>a, <2>b, <2>c, <2>d, <2>e DEF StepOf
<1>1. ASSUME SendStart(l) PROVE Chose(l)
  BY <1>1 DEF SendStart, Step, Chose
<1>2. ASSUME Spawn(l) \/ OwnForeground(l) PROVE Absent(l) /\ UNCHANGED records
  BY <1>2 DEF Spawn, OwnForeground
<1>3. ASSUME Selecting(l), ~Has("start", l)' PROVE Chose(l)
  BY <1>3 DEF Chose, Selecting, AcquireClaim, AcquireFails, GiveUp, ReadNamespace, Skip,
       Match, Refuse, UseExisting, LauncherEnds, LauncherEndsBadly, Step
<1>4. ASSUME Launching(l), ~SendStart(l), ~Spawn(l), ~Has("start", l)' PROVE Chose(l)
  BY <1>4 DEF Chose, Launching, LaunchFails, Kill, Dies, Reaped, ChildReady,
       LaunchAbandoned, Step
<1>5. ASSUME Child(l), ~Has("start", l)' PROVE Chose(l)
  <2>1. CASE Authorized(l)
    <3>1. <<"start", l>> \in Party BY <1>r DEF Party
    <3> QED BY <2>1, <3>1 DEF Authorized, Has, Holders, Chose
  <2>2. CASE ChildPrepared(l) \/ ChildRetires(l)
    BY <2>2, <1>5 DEF Chose, ChildPrepared, ChildRetires, GenStep
  <2>3. CASE Adopt(l) \/ AdoptFails(l) \/ CheckNamespace(l)
    BY <2>3 DEF Chose, Adopt, AdoptFails, CheckNamespace, GenStep
  <2> QED BY <1>5, <2>1, <2>2, <2>3 DEF Child
<1>6. ASSUME Generation(l), ~OwnForeground(l), ~Has("start", l)' PROVE Chose(l)
  <2>1. CASE LinkDescriptor(l) \/ BeginPublication(l) \/ PublishRefused(l)
    BY <2>1, <1>6 DEF Chose, LinkDescriptor, BeginPublication, PublishRefused, PubStep,
         Alive, GenStep, Local, GenerationInv
  <2>2. CASE PublishRecord(l) \/ RecordReceipt(l) \/ ReleasePublished(l)
    BY <2>2, <1>6 DEF Chose, PublishRecord, RecordReceipt, ReleasePublished, PubStep
  <2>3. CASE Serve(l) \/ RunStops(l) \/ Unlink(l) \/ RunEnds(l)
    BY <2>3, <1>6 DEF Chose, Serve, RunStops, Unlink, RunEnds, GenStep
  <2>4. CASE Settle(l)
    BY <2>4, <1>6 DEF Chose, Settle
  <2>5. CASE AcquireToRetire(l) \/ RetireGivesUp(l) \/ Retire(l) \/ Finish(l) \/ ForegroundEnds(l)
    BY <2>5, <1>6 DEF Chose, AcquireToRetire, RetireGivesUp, Retire, Finish, ForegroundEnds,
         GenStep, Step
  <2> QED BY <1>6, <2>1, <2>2, <2>3, <2>4, <2>5 DEF Generation
<1>7. ASSUME Crash(l), ~Has("start", l)' PROVE Chose(l)
  BY <1>7 DEF Chose, Crash, LauncherCrashes, GenerationCrashes, Crashed
<1>8. Has("start", l)' => Chose(l) BY <1>s, <1>1 DEF Chose
<1> QED BY <1>1, <1>2, <1>3, <1>4, <1>5, <1>6, <1>7, <1>8 DEF StepOf

\* A launcher passes over what differs from it and nothing else.
LEMMA SeenStep ==
  ASSUME TypeOK, NEW l \in Launchers, SeenInv(l), StepOf(l), UNCHANGED records
  PROVE  SeenInv(l)'
<1> USE DEF TypeOK, directory, launching, running, SeenInv
<1>1. ASSUME ReadNamespace(l) PROVE SeenInv(l)'
  BY <1>1 DEF ReadNamespace, Step
<1>2. ASSUME NEW g \in Launchers, Skip(l, g) PROVE SeenInv(l)'
  <2>1. conf[g] # conf[l] BY <1>2, ApartAssumption DEF Skip, Differ, Mismatch
  <2> QED BY <1>2, <2>1 DEF Skip
<1>3. ASSUME NEW g \in Launchers, Match(l, g) PROVE SeenInv(l)'
  <2>1. g # None BY LaunchersAssumption
  <2> QED BY <1>3, <2>1 DEF Match
<1>4. ASSUME launcher'[l] # "visiting" PROVE SeenInv(l)' BY <1>4
<1>5. ASSUME launcher' = launcher, UNCHANGED <<seen, todo, chosen, conf>> PROVE SeenInv(l)'
  BY <1>5
<1>6. ASSUME Selecting(l), ~ReadNamespace(l), ~\E g \in Launchers : Skip(l, g) \/ Match(l, g)
      PROVE  launcher'[l] # "visiting"
  BY <1>6 DEF Selecting, AcquireClaim, AcquireFails, GiveUp, Refuse, UseExisting,
       LauncherEnds, LauncherEndsBadly, Step
<1>7. ASSUME Launching(l)
      PROVE  \/ launcher'[l] # "visiting"
             \/ launcher' = launcher /\ UNCHANGED <<seen, todo, chosen, conf>>
  BY <1>7 DEF Launching, Spawn, SendStart, LaunchFails, Kill, Dies, Reaped, ChildReady,
       LaunchAbandoned, Step
<1>8. ASSUME Child(l) PROVE launcher' = launcher /\ UNCHANGED <<seen, todo, chosen, conf>>
  BY <1>8 DEF Child, ChildPrepared, Authorized, ChildRetires, Adopt, AdoptFails,
       CheckNamespace
<1>9. ASSUME Generation(l)
      PROVE  \/ launcher'[l] # "visiting"
             \/ launcher' = launcher /\ UNCHANGED <<seen, todo, chosen, conf>>
  BY <1>9 DEF Generation, OwnForeground, LinkDescriptor, BeginPublication, PublishRecord,
       PublishRefused, RecordReceipt, ReleasePublished, Serve, RunStops, Unlink, RunEnds,
       Settle, AcquireToRetire, RetireGivesUp, Retire, Finish, ForegroundEnds, Step
<1>10. ASSUME Crash(l)
       PROVE  \/ launcher'[l] # "visiting"
              \/ launcher' = launcher /\ UNCHANGED <<seen, todo, chosen, conf>>
  BY <1>10 DEF Crash, LauncherCrashes, GenerationCrashes
<1> QED BY <1>1, <1>2, <1>3, <1>4, <1>5, <1>6, <1>7, <1>8, <1>9, <1>10 DEF StepOf

\* Who crashes bare had the claim and leaves it stranded.
LEMMA CrashStep ==
  ASSUME TypeOK, IInv, NEW l \in Launchers, Local(l), StepOf(l), CrashedBare(l)'
  PROVE  \/ CrashedBare(l)
         \/ Owns(l) /\ Holders' = {} /\ claim' = claim /\ claim # NoInode
<1> USE DEF TypeOK, directory, launching, running, Live, Booting, Settling, Published,
     Running
<1>1. ASSUME Crash(l), gen[l] \in Live
      PROVE  Owns(l) /\ Holders' = {} /\ claim' = claim /\ claim # NoInode
  <2>1. UNCHANGED pub BY <1>1 DEF Crash, LauncherCrashes, GenerationCrashes
  <2>2. Owns(l) BY <1>1, <2>1 DEF CrashedBare, Local, GenerationInv
  <2>3. PICK ps \in SUBSET Party : Lose(ps) /\ OwnersCap(l) \in ps
    <3>1. CASE l \in Foreground
      <4>1. Lose({<<"launcher", l>>, <<"generation", l>>})
        BY <1>1, <3>1 DEF Crash, LauncherCrashes, GenerationCrashes
      <4>2. {<<"launcher", l>>, <<"generation", l>>} \in SUBSET Party BY Parties
      <4> QED BY <3>1, <4>1, <4>2 DEF OwnersCap
    <3>2. CASE l \notin Foreground
      <4>1. LauncherCrashes(l) => UNCHANGED gen BY <3>2 DEF LauncherCrashes
      <4>2. ~LauncherCrashes(l) BY <1>1, <4>1 DEF CrashedBare
      <4>3. Lose({<<"start", l>>, <<"generation", l>>})
        BY <1>1, <4>2 DEF Crash, GenerationCrashes
      <4>4. {<<"start", l>>, <<"generation", l>>} \in SUBSET Party BY Parties
      <4> QED BY <3>2, <4>3, <4>4 DEF OwnersCap
    <3> QED BY <3>1, <3>2
  <2>4. OwnersCap(l) \in Holders BY <2>2 DEF Owns, OwnersCap, Has
  <2>5. Holders = {OwnersCap(l)} /\ claim # NoInode BY <2>4, OwnerIs
  <2>6. Holders' = Holders \ ps /\ claim' = claim BY <2>3, LoseStrands
  <2> QED BY <2>2, <2>3, <2>5, <2>6
<1>2. ASSUME Crash(l), gen[l] \notin Live PROVE CrashedBare(l)
  BY <1>2 DEF Crash, LauncherCrashes, GenerationCrashes, Crashed, CrashedBare
<1>3. ASSUME Selecting(l) \/ Launching(l) PROVE CrashedBare(l)
  BY <1>3 DEF CrashedBare, Selecting, AcquireClaim, AcquireFails, GiveUp, ReadNamespace,
       Skip, Match, Refuse, UseExisting, LauncherEnds, LauncherEndsBadly, Launching, Spawn,
       SendStart, LaunchFails, Kill, Dies, Reaped, ChildReady, LaunchAbandoned
<1>4. ASSUME Child(l) PROVE CrashedBare(l)
  BY <1>4 DEF CrashedBare, Child, ChildPrepared, Authorized, ChildRetires, Adopt,
       AdoptFails, CheckNamespace, GenStep
<1>5. ASSUME Generation(l) PROVE CrashedBare(l)
  <2>1. CASE \/ OwnForeground(l) \/ LinkDescriptor(l) \/ Serve(l) \/ RunStops(l)
             \/ Unlink(l) \/ RunEnds(l) \/ Settle(l)
    BY <2>1 DEF CrashedBare, OwnForeground, LinkDescriptor, Serve, RunStops, Unlink,
         RunEnds, Settle, GenStep
  <2>2. CASE \/ BeginPublication(l) \/ PublishRecord(l) \/ PublishRefused(l)
             \/ RecordReceipt(l) \/ ReleasePublished(l)
    BY <2>2 DEF CrashedBare, BeginPublication, PublishRecord, PublishRefused, RecordReceipt,
         ReleasePublished, PubStep, Alive
  <2>3. CASE AcquireToRetire(l) \/ RetireGivesUp(l) \/ Retire(l) \/ Finish(l) \/ ForegroundEnds(l)
    BY <2>3 DEF CrashedBare, AcquireToRetire, RetireGivesUp, Retire, Finish, ForegroundEnds,
         GenStep
  <2> QED BY <1>5, <2>1, <2>2, <2>3 DEF Generation
<1> QED BY <1>1, <1>2, <1>3, <1>4, <1>5 DEF StepOf

\* Only a loss leaves a claim without an owner.
LEMMA CauseStep ==
  ASSUME TypeOK, IInv, OrphanNeedsCause, NEW l \in Launchers, Local(l), StepOf(l)
  PROVE  OrphanNeedsCause'
<1> USE DEF directory, launching, running
<1> DEFINE Orphan == claim # NoInode /\ Holders = {}
<1>r. "launcher" \in Roles /\ "start" \in Roles /\ "generation" \in Roles BY DEF Roles
<1>0. ASSUME UNCHANGED <<claim, cap>>, lost => lost' PROVE OrphanNeedsCause'
  BY <1>0 DEF OrphanNeedsCause, Holders
<1>1. ASSUME NEW p \in Party, Acquire(p) PROVE OrphanNeedsCause'
  BY <1>1, AcquireOwns DEF OrphanNeedsCause
<1>2. ASSUME NEW p \in Party, Release(p), UNCHANGED lost PROVE OrphanNeedsCause'
  BY <1>2, ReleaseFrees DEF OrphanNeedsCause
<1>3. ASSUME NEW ps \in SUBSET Party, Lose(ps) PROVE OrphanNeedsCause'
  <2>1. Holders' = Holders \ ps /\ claim' = claim BY <1>3, LoseStrands
  <2>2. lost' <=> lost \/ ps \intersect Holders # {} BY <1>3 DEF Lose, TypeOK
  <2> QED BY <2>1, <2>2 DEF OrphanNeedsCause
<1>4. ASSUME LoseNew PROVE OrphanNeedsCause'
  BY <1>4 DEF LoseNew, OrphanNeedsCause
<1>5. ASSUME NEW p \in Party, NEW q \in Party, p # q, p \in Holders, Transfer(p, q)
      PROVE  OrphanNeedsCause'
  BY <1>5, TransferHands DEF OrphanNeedsCause
<1>p. /\ {<<"launcher", l>>} \in SUBSET Party /\ {<<"start", l>>} \in SUBSET Party
      /\ {<<"generation", l>>} \in SUBSET Party /\ {OwnersCap(l)} \in SUBSET Party
      /\ {<<"launcher", l>>, <<"generation", l>>} \in SUBSET Party
      /\ {<<"start", l>>, <<"generation", l>>} \in SUBSET Party
  BY Parties
<1> DEFINE Fine == OrphanNeedsCause'
<1> HIDE DEF Fine
<1> SUFFICES Fine BY DEF Fine
<1>a. Acquire(<<"launcher", l>>) \/ Acquire(<<"generation", l>>) => Fine
  BY <1>1, Parties DEF Fine
<1>b. /\ Release(<<"launcher", l>>) /\ UNCHANGED lost => Fine
      /\ Release(<<"generation", l>>) /\ UNCHANGED lost => Fine
      /\ Release(OwnersCap(l)) /\ UNCHANGED lost => Fine
  BY <1>2, Parties DEF Fine
<1>c. /\ Lose({<<"launcher", l>>}) => Fine
      /\ Lose({<<"start", l>>}) => Fine
      /\ Lose({<<"generation", l>>}) => Fine
      /\ Lose({OwnersCap(l)}) => Fine
      /\ Lose({<<"launcher", l>>, <<"generation", l>>}) => Fine
      /\ Lose({<<"start", l>>, <<"generation", l>>}) => Fine
  BY <1>3, <1>p DEF Fine
<1>d. LoseNew => Fine BY <1>4 DEF Fine
<1>e. UNCHANGED <<claim, cap, lost>> => Fine BY <1>0 DEF Fine
<1>6. ASSUME Selecting(l) PROVE Fine
  BY <1>6, <1>a, <1>b, <1>c, <1>d, <1>e DEF Selecting, AcquireClaim, AcquireFails, GiveUp,
       ReadNamespace, Skip, Match, Refuse, UseExisting, LauncherEnds, LauncherEndsBadly
<1>7. ASSUME SendStart(l) PROVE Fine
  <2>1. <<"launcher", l>> \in Holders BY <1>7 DEF SendStart, Step, Local, LauncherInv, Has
  <2>2. <<"launcher", l>> # <<"start", l>> OBVIOUS
  <2>3. Transfer(<<"launcher", l>>, <<"start", l>>) => Fine
    BY <1>5, <2>1, <2>2, Parties DEF Fine
  <2> QED BY <1>7, <1>c, <2>3 DEF SendStart
<1>8. ASSUME Launching(l) PROVE Fine
  BY <1>8, <1>7, <1>e DEF Launching, Spawn, LaunchFails, Kill, Dies, Reaped, ChildReady,
       LaunchAbandoned
<1>9. ASSUME Adopt(l) PROVE Fine
  <2>1. <<"start", l>> \in Holders BY <1>9 DEF Adopt, GenStep, Local, GenerationInv, Has
  <2>2. <<"start", l>> # <<"generation", l>> OBVIOUS
  <2> QED BY <1>9, <1>5, <2>1, <2>2, Parties DEF Adopt, Fine
<1>10. ASSUME Child(l) PROVE Fine
  BY <1>10, <1>9, <1>c, <1>e DEF Child, ChildPrepared, Authorized, ChildRetires, AdoptFails,
       CheckNamespace
<1>11. ASSUME Generation(l) PROVE Fine
  BY <1>11, <1>a, <1>b, <1>c, <1>d, <1>e DEF Generation, OwnForeground, LinkDescriptor,
       BeginPublication, PublishRecord, PublishRefused, RecordReceipt, ReleasePublished,
       Serve, RunStops, Unlink, RunEnds, Settle, AcquireToRetire, RetireGivesUp, Retire,
       Finish, ForegroundEnds
<1>12. ASSUME Crash(l) PROVE Fine
  BY <1>12, <1>c DEF Crash, LauncherCrashes, GenerationCrashes
<1> QED BY <1>6, <1>8, <1>10, <1>11, <1>12 DEF StepOf

-----------------------------------------------------------------------------
(* The invariant is inductive.                                             *)

\* Who chose answers for the claim, or crashed with it.
LEMMA ChoseAnswers ==
  ASSUME NEW k \in Launchers, Local(k), Chose(k)
  PROVE  (\E r \in Roles : Has(r, k)) \/ CrashedBare(k)
<1>r. "launcher" \in Roles /\ "start" \in Roles /\ "generation" \in Roles BY DEF Roles
<1> QED BY <1>r DEF Local, LauncherInv, GenerationInv, Chose, Owns, CrashedBare, Running,
     Before, Published

\* While the records change nobody else is choosing or has chosen.
LEMMA NobodyElse ==
  ASSUME SafeInv, NEW l \in Launchers, (\E s \in Roles : Has(s, l)), NEW k \in Launchers, k # l
  PROVE  ~Chose(k) /\ launcher[k] # "visiting" /\ ~CrashedBare(k)
<1>r. "launcher" \in Roles BY DEF Roles
<1>1. \A r \in Roles : ~Has(r, k) BY OneRole DEF SafeInv
<1>2. Holders # {} BY DEF Has
<1>3. ~CrashedBare(k) BY <1>2 DEF SafeInv, CrashInv
<1>4. launcher[k] # "visiting" BY <1>1, <1>r DEF SafeInv, Local, LauncherInv
<1> QED BY <1>1, <1>3, <1>4, ChoseAnswers DEF SafeInv

\* A step of any launcher or generation keeps the invariant.
LEMMA SafeStep ==
  ASSUME SafeInv, NEW l \in Launchers, StepOf(l)
  PROVE  SafeInv'
<1>r. "launcher" \in Roles /\ "start" \in Roles /\ "generation" \in Roles BY DEF Roles
<1>0. [Next]_vars /\ ClaimStep
  <2>1. Next BY DEF Next, StepOf
  <2> QED BY <2>1, NextIsClaimStep
<1>1. TypeOK' /\ IInv' /\ OrphanNeedsCause'
  BY <1>0, TypeStep, StepOwned, CauseStep DEF SafeInv
<1>2. \A k \in Launchers : k # l => Same(k)
  BY OthersSame DEF SafeInv
<1>3. ASSUME NEW k \in Launchers PROVE Local(k)'
  BY <1>2, OwnLocal, OthersLocal DEF SafeInv
<1>4. conf' = conf
  BY DEF StepOf, Selecting, AcquireClaim, AcquireFails, GiveUp, ReadNamespace, Skip, Match,
       Refuse, UseExisting, LauncherEnds, LauncherEndsBadly, Launching, Spawn, SendStart,
       LaunchFails, Kill, Dies, Reaped, ChildReady, LaunchAbandoned, Child, ChildPrepared,
       Authorized, ChildRetires, Adopt, AdoptFails, CheckNamespace, Generation,
       OwnForeground, LinkDescriptor, BeginPublication, PublishRecord, PublishRefused,
       RecordReceipt, ReleasePublished, Serve, RunStops, Unlink, RunEnds, Settle,
       AcquireToRetire, RetireGivesUp, Retire, Finish, ForegroundEnds, Crash,
       LauncherCrashes, GenerationCrashes
<1>5. \/ UNCHANGED records
      \/ /\ Recording(l) \/ Retiring(l)
         /\ ~Chose(l)' /\ launcher'[l] # "visiting"
         /\ \E s \in Roles : Has(s, l)
  <2>1. Recording(l) \/ Retiring(l) => \E s \in Roles : Has(s, l)
    BY <1>r DEF Recording, Retiring, Owns
  <2> QED BY <2>1, RecordsMove DEF SafeInv
<1>6. ASSUME NEW k \in Launchers, k # l PROVE Chose(k)' <=> Chose(k)
  <2>1. Same(k) BY <1>2, <1>6
  <2> QED BY <2>1, <1>r DEF Same, Chose
<1>7. ASSUME NEW k \in Launchers PROVE SeenInv(k)'
  <2>1. CASE UNCHANGED records /\ k = l
    BY <2>1, SeenStep DEF SafeInv
  <2>2. CASE UNCHANGED records /\ k # l
    <3>1. Same(k) BY <1>2, <2>2
    <3> QED BY <3>1, <2>2 DEF Same, SeenInv, SafeInv
  <2>3. CASE ~UNCHANGED records /\ k = l
    BY <2>3, <1>5 DEF SeenInv
  <2>4. CASE ~UNCHANGED records /\ k # l
    <3>1. launcher[k] # "visiting" BY <2>4, <1>5, NobodyElse
    <3>2. Same(k) BY <1>2, <2>4
    <3> QED BY <3>1, <3>2 DEF Same, SeenInv
  <2> QED BY <2>1, <2>2, <2>3, <2>4
<1>8. ASSUME NEW k \in Launchers PROVE ChoiceInv(k)'
  <2> SUFFICES ASSUME Chose(k)' PROVE ChoiceInv(k)' BY DEF ChoiceInv
  <2>1. CASE UNCHANGED records
    <3>1. CASE Chose(k)
      BY <2>1, <3>1, <1>4 DEF ChoiceInv, SafeInv
    <3>2. CASE ~Chose(k)
      <4>1. k = l BY <3>2, <1>6
      <4>2. Absent(l) BY <4>1, <3>2, ChoosesWhen DEF SafeInv
      <4>3. Cardinality(records) # MaxRecords /\ \A g \in records : conf[g] # conf[l]
        BY <4>2 DEF Absent, Decided, SeenInv, SafeInv
      <4> QED BY <4>1, <4>3, <2>1, <1>4 DEF ChoiceInv
    <3> QED BY <3>1, <3>2
  <2>2. CASE ~UNCHANGED records
    <3>1. k # l BY <2>2, <1>5
    <3>2. ~Chose(k) BY <3>1, <2>2, <1>5, NobodyElse
    <3> QED BY <3>1, <3>2, <1>6
  <2> QED BY <2>1, <2>2
<1>9. RoomInv'
  <2>0. IsFiniteSet(records) BY LaunchersAssumption, FS_Subset DEF SafeInv, TypeOK
  <2>1. CASE UNCHANGED records BY <2>1, <1>4 DEF RoomInv, SafeInv
  <2>2. CASE Recording(l)
    <3>1. Cardinality(records) # MaxRecords /\ \A g \in records : conf[g] # conf[l]
      BY <2>2 DEF Recording, ChoiceInv, SafeInv
    <3>2. Cardinality(records) \in Nat /\ Cardinality(records) <= MaxRecords
      BY <2>0, FS_CardinalityType DEF RoomInv, SafeInv
    <3>3. Cardinality(records') <= Cardinality(records) + 1 /\ Cardinality(records') \in Nat
      <4>1. /\ IsFiniteSet(records \union {l})
            /\ Cardinality(records \union {l}) =
                 IF l \in records THEN Cardinality(records) ELSE Cardinality(records) + 1
        BY <2>0, FS_AddElement
      <4> QED BY <4>1, <3>2, <2>2 DEF Recording
    <3>4. Cardinality(records') <= MaxRecords BY <3>1, <3>2, <3>3, RecordsAssumption
    <3>5. \A g, h \in records' : conf'[g] = conf'[h] => g = h
      BY <2>2, <3>1, <1>4 DEF Recording, RoomInv, SafeInv
    <3> QED BY <3>4, <3>5 DEF RoomInv
  <2>3. CASE Retiring(l)
    <3>1. records' \subseteq records BY <2>3 DEF Retiring
    <3>2. /\ Cardinality(records') <= Cardinality(records)
          /\ Cardinality(records') \in Nat /\ Cardinality(records) \in Nat
      BY <2>0, <3>1, FS_Subset, FS_CardinalityType
    <3>3. Cardinality(records') <= MaxRecords
      BY <3>2, RecordsAssumption DEF RoomInv, SafeInv
    <3> QED BY <3>1, <3>3, <1>4 DEF RoomInv, SafeInv
  <2> QED BY <2>1, <2>2, <2>3, <1>5
<1>10. ASSUME NEW k \in Launchers PROVE CrashInv(k)'
  <2>1. \A m \in Launchers : CrashedBare(m)' => CrashedBare(m) \/ (m = l /\ ~CrashedBare(l))
    <3>1. \A m \in Launchers : m # l => (CrashedBare(m)' <=> CrashedBare(m))
      BY <1>2 DEF Same, CrashedBare
    <3> QED BY <3>1
  <2>2. CASE \E m \in Launchers : CrashedBare(m)
    <3>1. Holders = {} /\ claim # NoInode BY <2>2 DEF SafeInv, CrashInv
    <3>2. Holders' = {} /\ claim' = claim BY <3>1, <1>0, StrandedStays DEF SafeInv
    <3>3. ~Owns(l) BY <3>1 DEF Owns, Has
    <3>4. CrashedBare(l)' => CrashedBare(l) BY <3>3, CrashStep DEF SafeInv
    <3>5. \A m \in Launchers : CrashedBare(m)' => CrashedBare(m) BY <2>1, <3>4
    <3> QED BY <3>1, <3>2, <3>5 DEF CrashInv, SafeInv
  <2>3. CASE ~\E m \in Launchers : CrashedBare(m)
    <3>1. \A m \in Launchers : CrashedBare(m)' => m = l BY <2>1, <2>3
    <3>2. CrashedBare(l)' => Holders' = {} /\ claim' # NoInode
      BY <2>3, CrashStep DEF SafeInv
    <3> QED BY <3>1, <3>2 DEF CrashInv
  <2> QED BY <2>2, <2>3
<1> QED BY <1>1, <1>3, <1>7, <1>8, <1>9, <1>10 DEF SafeInv

\* It holds at first.
LEMMA InitSafe == Init => SafeInv
<1> SUFFICES ASSUME Init PROVE SafeInv OBVIOUS
<1>1. IInv /\ TypeOK BY InitOwned, InitTyped
<1>2. Holders = {} BY DEF Init, Holders
<1>3. \A r, l : ~Has(r, l) BY <1>2 DEF Has
<1>4. OrphanNeedsCause BY DEF Init, OrphanNeedsCause
<1>5. RoomInv
  <2>1. Cardinality({}) = 0 BY FS_EmptySet
  <2> QED BY <2>1, RecordsAssumption DEF Init, RoomInv
<1>6. ASSUME NEW l \in Launchers PROVE Local(l) /\ CrashInv(l) /\ SeenInv(l) /\ ChoiceInv(l)
  <2>1. /\ launcher[l] = "selecting" /\ gen[l] = "none" /\ pub[l] = "unattempted" /\ outcome[l] = "none"
        /\ killed[l] = FALSE /\ records = {}
    BY DEF Init
  <2>2. Local(l)
    BY <2>1, <1>3 DEF Local, LauncherInv, GenerationInv, RecordInv, Running, Live, Booting,
         Published
  <2>3. CrashInv(l) /\ SeenInv(l) BY <2>1 DEF CrashInv, CrashedBare, SeenInv
  <2>4. ~Chose(l) BY <2>1, <1>3 DEF Chose, Running, Live
  <2> QED BY <2>2, <2>3, <2>4 DEF ChoiceInv
<1> QED BY <1>1, <1>4, <1>5, <1>6 DEF SafeInv

\* And when nothing happens.
LEMMA StutterSafe == ASSUME SafeInv, UNCHANGED vars PROVE SafeInv'
<1> USE DEF vars, directory, launching, running
<1>1. Holders' = Holders BY DEF Holders
<1>2. TypeOK' BY DEF SafeInv, TypeOK
<1>3. IInv' BY <1>1 DEF SafeInv, IInv, OneOwner
<1>4. OrphanNeedsCause' /\ RoomInv' BY <1>1 DEF SafeInv, OrphanNeedsCause, RoomInv
<1>5. ASSUME NEW l \in Launchers PROVE Local(l)' /\ CrashInv(l)' /\ SeenInv(l)' /\ ChoiceInv(l)'
  <2>1. \A r : Has(r, l)' <=> Has(r, l) BY <1>1 DEF Has
  <2>2. Local(l)' BY <2>1 DEF SafeInv, Local, LauncherInv, GenerationInv, RecordInv, Owns
  <2>3. CrashInv(l)' /\ SeenInv(l)' BY <1>1 DEF SafeInv, CrashInv, CrashedBare, SeenInv
  <2>4. ChoiceInv(l)' BY <2>1 DEF SafeInv, ChoiceInv, Chose
  <2> QED BY <2>2, <2>3, <2>4
<1> QED BY <1>2, <1>3, <1>4, <1>5 DEF SafeInv

\* The invariant holds throughout: decisions to start a generation stay valid until
\* it is recorded, and records stay until it has ended clean.
THEOREM Safe == Spec => []SafeInv
<1>1. SafeInv /\ [Next]_vars => SafeInv'
  <2> SUFFICES ASSUME SafeInv, [Next]_vars PROVE SafeInv' OBVIOUS
  <2>1. CASE Next
    <3>1. PICK l \in Launchers : StepOf(l) BY <2>1 DEF Next, StepOf
    <3> QED BY <3>1, SafeStep
  <2> QED BY <2>1, StutterSafe
<1> QED BY <1>1, InitSafe, PTL DEF Spec

-----------------------------------------------------------------------------
(* What follows from it.                                                   *)

\* One owner at a time.
LEMMA OwnsOne ==
  ASSUME IInv, NEW l \in Launchers, NEW m \in Launchers, Owns(l), Owns(m)
  PROVE  l = m
<1>1. "launcher" \in Roles /\ "generation" \in Roles BY DEF Roles
<1> QED BY <1>1, OneRole DEF Owns

\* Where the evidence is.
LEMMA Evidence ==
  ASSUME SafeInv, NEW l \in Launchers, Unresolved(l)
  PROVE  \/ l \in records
         \/ CrashedBare(l) /\ Chose(l)
         \/ Owns(l) /\ Chose(l)
<1>1. CASE pub[l] \in Published
  BY <1>1 DEF SafeInv, Local, RecordInv, Unresolved, Running
<1>2. CASE pub[l] \notin Published
  <2>1. pub[l] \in Before /\ gen[l] \in Live \union {"crashed"}
    BY <1>2 DEF Unresolved, SafeInv, TypeOK, Before
  <2>2. Chose(l) BY <2>1 DEF Chose, Running
  <2>3. gen[l] \in Live => Owns(l)
    BY <2>1 DEF SafeInv, Local, GenerationInv, Running, Before
  <2> QED BY <1>2, <2>1, <2>2, <2>3 DEF CrashedBare
<1> QED BY <1>1, <1>2

\* The evidence of two generations of one configuration would contradict itself.
LEMMA Disjoint == ASSUME SafeInv PROVE NoOverlap
<1> SUFFICES ASSUME NEW l \in Launchers, NEW m \in Launchers, l # m,
                    Unresolved(l), Unresolved(m), conf[l] = conf[m]
             PROVE  FALSE
  BY DEF NoOverlap
<1>1. ~(l \in records /\ m \in records) BY DEF SafeInv, RoomInv
<1>2. ~(l \in records /\ Chose(m)) BY DEF SafeInv, ChoiceInv
<1>3. ~(m \in records /\ Chose(l)) BY DEF SafeInv, ChoiceInv
<1>4. ~(Owns(l) /\ Owns(m)) BY OwnsOne DEF SafeInv
<1>5. ~(CrashedBare(l) /\ CrashedBare(m)) BY DEF SafeInv, CrashInv
<1>6. ~(CrashedBare(l) /\ Owns(m)) BY DEF SafeInv, CrashInv, Owns, Has
<1>7. ~(CrashedBare(m) /\ Owns(l)) BY DEF SafeInv, CrashInv, Owns, Has
<1> QED BY <1>1, <1>2, <1>3, <1>4, <1>5, <1>6, <1>7, Evidence

\* The evidence blocks the others.
LEMMA Blocked == ASSUME SafeInv PROVE EvidenceKept
<1> SUFFICES ASSUME NEW l \in Launchers, Unresolved(l), l \notin records
             PROVE  claim # NoInode
  BY DEF EvidenceKept
<1>1. CASE CrashedBare(l) BY <1>1 DEF SafeInv, CrashInv
<1>2. CASE Owns(l)
  <2>1. Holders # {} BY <1>2 DEF Owns, Has
  <2> QED BY <2>1, OwnerIs DEF SafeInv
<1> QED BY <1>1, <1>2, Evidence

\* Killed children and the invariant.
LEMMA Innocent == ASSUME SafeInv PROVE KilledNeverOwned
<1> SUFFICES ASSUME NEW l \in Launchers, killed[l]
             PROVE  /\ gen[l] \in {"booting", "prepared", "gone"} /\ pub[l] = "unattempted"
                    /\ \A r \in {"start", "generation"} : <<r, l>> \notin Holders
  BY DEF KilledNeverOwned
<1> QED BY DEF SafeInv, Local, LauncherInv, Unstarted, Has

\* The registry and the invariant.
LEMMA Room == ASSUME SafeInv PROVE RoomAtPublish
<1> SUFFICES ASSUME NEW l \in Launchers, Alive(l), pub[l] = "begun"
             PROVE  Cardinality(records) < MaxRecords
  BY DEF RoomAtPublish
<1>1. gen[l] \in Running BY DEF Alive, SafeInv, Local, GenerationInv
<1>2. Chose(l) BY <1>1 DEF Chose, Before
<1>3. Cardinality(records) # MaxRecords BY <1>2 DEF SafeInv, ChoiceInv
<1>4. IsFiniteSet(records) BY LaunchersAssumption, FS_Subset DEF SafeInv, TypeOK
<1>5. Cardinality(records) \in Nat BY <1>4, FS_CardinalityType
<1> QED BY <1>3, <1>5, RecordsAssumption DEF SafeInv, RoomInv

\* Every variable of the selection protocol keeps its type.
THEOREM Typed == Spec => []TypeOK
<1>1. SafeInv => TypeOK BY DEF SafeInv
<1> QED BY <1>1, Safe, PTL

\* Launchers converge: two generations of one configuration never both own, or
\* may own, local resources.
THEOREM Converges == Spec => []NoOverlap
BY Safe, Disjoint, PTL

\* What may still own resources has a record or blocks the directory.
THEOREM LeavesEvidence == Spec => []EvidenceKept
BY Safe, Blocked, PTL

\* A killed child has owned nothing and will own nothing, however late it dies.
THEOREM KillsNoOwner == Spec => []KilledNeverOwned
BY Safe, Innocent, PTL

\* Without a crash, a failing lstat or rmdir or a lost Start, the claim always has
\* somebody to give it back.
THEOREM StrandedOnlyByLoss == Spec => []OrphanNeedsCause
<1>1. SafeInv => OrphanNeedsCause BY DEF SafeInv
<1> QED BY <1>1, Safe, PTL

\* Nobody finds the registry full when it publishes.
THEOREM AlwaysRoom == Spec => []RoomAtPublish
BY Safe, Room, PTL
=============================================================================
