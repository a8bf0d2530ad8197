----------------------- MODULE ResidentAdmissions_proofs -----------------------
(***************************************************************************)
(* For any number of attempts, digests and drains, any capacity and any    *)
(* policy: the bound on attachments, the uniqueness of tokens, and that a  *)
(* forgotten attachment, or a whole drained generation, really is quiet.   *)
(***************************************************************************)
EXTENDS ResidentAdmissions, FiniteSetTheorems, TLAPS

\* What an attempt has in the inventory follows from where its admit stands.
Attempt(i) ==
  /\ pc[i] = "new" => entries[i].tag = "Absent" /\ owner[i] = "none"
  /\ pc[i] \in {"waiting", "checked"} => entries[i].tag = "Queued" /\ owner[i] = "none"
  /\ pc[i] = "prepared" => entries[i].tag = "Acquiring" /\ owner[i] = "none"
  /\ pc[i] \in {"closing", "leaving"} =>
       \/ entries[i].tag = "Settling"
       \/ entries[i].tag = "Owned" /\ entries[i].pending = TRUE
  /\ pc[i] = "over" =>
       \/ entries[i].tag = "Absent"
       \/ entries[i].tag = "Owned" /\ entries[i].pending = FALSE
  /\ pc[i] \in {"checked", "prepared", "closing", "leaving"} => permit = i
  /\ entries[i].tag = "Owned" => owner[i] # "none"
  /\ owner[i] \notin {"none", "drained"} => entries[i].tag = "Owned"
  /\ owner[i] \in {"none", "drained"} => work[i] = "none"
  /\ <<"admit", i>> \in joined => pc[i] = "closing"
AttemptInv == \A i \in Ids : Attempt(i)

\* Whoever has checked the capacity or the key still has the permit, and only
\* the permit's holder adds an attachment.
RoomInv ==
  /\ CapacityBound /\ UniqueKeys
  /\ \A i \in Ids :
       /\ pc[i] \in {"checked", "prepared"} => Cardinality(Members) < Capacity
       /\ pc[i] = "prepared" => \A j \in Members : entries[j].key # entries[i].key

\* A drain that has seen no pending admission has every attachment in hand.
DrainInv ==
  \A d \in Drainers :
    /\ drainPc[d] \in {"polling", "closing", "done"} => ~accepting
    /\ drainPc[d] \in {"closing", "done"} => Pending = {}
    /\ drainPc[d] = "closing" =>
         \A i \in Members : i \in drainTodo[d] \/ <<d, i>> \in joined
    /\ drainPc[d] = "done" => Members = {}

IInv == TypeOK /\ AttemptInv /\ RoomInv /\ DrainInv

-----------------------------------------------------------------------------
\* The shape of every entry a transition writes.
LEMMA EntryTypes ==
  /\ Absent \in Entry /\ Queued \in Entry /\ Settling \in Entry
  /\ Absent.tag = "Absent" /\ Queued.tag = "Queued" /\ Settling.tag = "Settling"
  BY DEF Entry, Absent, Queued, Settling, Retired

\* The fields a transition changes in an entry keep it one.
LEMMA EntryUpdates ==
  ASSUME NEW e \in Entry
  PROVE  /\ [e EXCEPT !.tag = "Owned", !.pending = TRUE, !.blocked = FALSE] \in Entry
         /\ [e EXCEPT !.pending = FALSE] \in Entry
         /\ [e EXCEPT !.blocked = TRUE] \in Entry
         /\ [e EXCEPT !.lease = Retired] \in Entry
         /\ \A t \in Nat : [e EXCEPT !.lease = t] \in Entry
<1>1. [e EXCEPT !.tag = "Owned", !.pending = TRUE, !.blocked = FALSE] \in Entry
  BY DEF Entry
<1>2. [e EXCEPT !.pending = FALSE] \in Entry /\ [e EXCEPT !.blocked = TRUE] \in Entry
  BY DEF Entry
<1>3. [e EXCEPT !.lease = Retired] \in Entry
  BY DEF Entry, Retired
<1>4. ASSUME NEW t \in Nat PROVE [e EXCEPT !.lease = t] \in Entry
  BY DEF Entry
<1> QED BY <1>1, <1>2, <1>3, <1>4

\* Retire keeps the entries' type.
LEMMA RetireType ==
  ASSUME NEW es \in [Ids -> Entry], NEW i \in Ids
  PROVE  Retire(es, i) \in [Ids -> Entry]
<1>1. [es[i] EXCEPT !.lease = Retired] \in Entry
  BY EntryUpdates
<1> QED BY <1>1 DEF Retire

\* admit's steps keep every variable's type.
LEMMA TypeAdmit ==
  ASSUME TypeOK, NEW i \in Ids, Admit(i) PROVE TypeOK'
<1> USE IdsAssumption, PolicyAssumption, EntryTypes DEF TypeOK
<1>1. CASE Begin(i)
  BY <1>1 DEF Begin
<1>2. ASSUME Leave(i) PROVE TypeOK'
  <2>1. [entries[i] EXCEPT !.pending = FALSE] \in Entry
    BY EntryUpdates
  <2>2. entries' \in [Ids -> Entry] /\ idleSince' \in Nat
    <3> DEFINE e == IF entries[i].tag = "Owned" THEN [entries[i] EXCEPT !.pending = FALSE] ELSE Absent
    <3>1. e \in Entry
      BY <2>1
    <3>2. CASE entries' = entries /\ idleSince' = idleSince
      BY <3>2
    <3>3. CASE entries' = [entries EXCEPT ![i] = e] /\ idleSince' = now
      BY <3>1, <3>3
    <3> QED BY <1>2, <3>2, <3>3 DEF Leave, FinishAttempt
  <2> QED BY <1>2, <2>2 DEF Leave
<1>3. CASE CheckCapacity(i)
  BY <1>3 DEF CheckCapacity, state
<1>4. ASSUME NEW k \in Keys, PrepareOwner(i, k) PROVE TypeOK'
  <2>1. Acquiring(k) \in Entry
    <3>1. now + LeaseDuration \in Nat
      OBVIOUS
    <3> QED BY <3>1 DEF Acquiring, Entry
  <2> QED BY <1>4, <2>1 DEF PrepareOwner
<1>5. CASE PublishOwner(i)
  <2>1. [entries[i] EXCEPT !.tag = "Owned", !.pending = TRUE, !.blocked = FALSE] \in Entry
    BY EntryUpdates
  <2> DEFINE published == [entries EXCEPT ![i] =
                 [@ EXCEPT !.tag = "Owned", !.pending = TRUE, !.blocked = FALSE]]
  <2>2. published \in [Ids -> Entry]
    BY <2>1
  <2>3. Retire(published, i) \in [Ids -> Entry]
    BY <2>2, RetireType
  <2>4. <<"admit", i>> \in ({"admit", "release"} \union Drainers) \X Ids
    OBVIOUS
  <2>5. CASE accepting
    BY <1>5, <2>2, <2>5 DEF PublishOwner
  <2>6. CASE ~accepting
    <3>1. joined' \subseteq ({"admit", "release"} \union Drainers) \X Ids
      BY <1>5, <2>4, <2>6 DEF PublishOwner
    <3>2. entries' \in [Ids -> Entry]
      BY <1>5, <2>3, <2>6 DEF PublishOwner
    <3> QED BY <1>5, <2>6, <3>1, <3>2, ZenonT(60) DEF PublishOwner
  <2> QED BY <2>5, <2>6
<1> QED BY <1>1, <1>2, <1>3, <1>4, <1>5
        DEF Admit, AbandonWait, Refuse, NotPrepared, FinishAdmit

\* Forgetting an attachment keeps the inventory's type.
LEMMA ForgetType ==
  ASSUME TypeOK, NEW i \in Ids, Forget(i)
  PROVE  entries' \in [Ids -> Entry] /\ idleSince' \in Nat
<1> DEFINE e == IF entries[i].pending THEN Settling ELSE Absent
<1>1. e \in Entry
  BY EntryTypes
<1> QED BY <1>1 DEF TypeOK, Forget

\* The steps that close an attachment keep every variable's type.
LEMMA TypeClose ==
  ASSUME TypeOK, NEW i \in Ids, Close(i) PROVE TypeOK'
<1> USE EntryTypes DEF TypeOK
<1>1. ASSUME NEW c \in Closers, CloseSucceeds(c, i) PROVE TypeOK'
  BY <1>1, ForgetType DEF CloseSucceeds
<1>2. ASSUME NEW c \in Closers, CloseFails(c, i) PROVE TypeOK'
  <2>1. entries' \in [Ids -> Entry]
    <3>1. [entries[i] EXCEPT !.blocked = TRUE] \in Entry
      BY EntryUpdates
    <3> QED BY <1>2, <3>1 DEF CloseFails, MarkBlocked
  <2> QED BY <1>2, <2>1, ZenonT(60) DEF CloseFails, FailDrain
<1>3. CASE Release(i) \/ ReleaseInterrupted(i)
  <2>1. entries' \in [Ids -> Entry]
    BY <1>3, RetireType DEF Release, ReleaseInterrupted
  <2>2. <<"release", i>> \in ({"admit", "release"} \union Drainers) \X Ids
    OBVIOUS
  <2>3. CASE Release(i)
    BY <2>1, <2>2, <2>3 DEF Release, AskClose
  <2>4. CASE ReleaseInterrupted(i)
    BY <2>1, <2>4 DEF ReleaseInterrupted
  <2> QED BY <1>3, <2>3, <2>4
<1>4. CASE AbandonRelease(i)
  BY <1>4 DEF AbandonRelease, state
<1>5. CASE WatchExpires(i)
  BY <1>5, RetireType DEF WatchExpires, AskClose
<1>6. CASE WatchEnds(i)
  BY <1>6, ForgetType DEF WatchEnds
<1> QED BY <1>1, <1>2, <1>3, <1>4, <1>5, <1>6 DEF Close

\* The drains' steps keep every variable's type.
LEMMA TypeDrain ==
  ASSUME TypeOK, NEW d \in Drainers, Drain(d) PROVE TypeOK'
<1> USE DEF TypeOK
<1>1. CASE DrainStarts(d)
  BY <1>1 DEF DrainStarts
<1>2. CASE DrainSettled(d) \/ DrainDone(d)
  BY <1>2 DEF DrainSettled, DrainDone, Members, state
<1>3. CASE DrainTimesOut(d)
  BY <1>3 DEF DrainTimesOut, FailDrain
<1>4. ASSUME NEW i \in Ids, DrainCloses(d, i) PROVE TypeOK'
  BY <1>4, RetireType DEF DrainCloses, AskClose
<1> QED BY <1>1, <1>2, <1>3, <1>4 DEF Drain

\* Every other step keeps every variable's type.
LEMMA TypeRest ==
  ASSUME TypeOK,
         \/ \E i \in Ids : Owner(i)
         \/ Fence \/ IdleStarts \/ IdleDone \/ IdleFences \/ Access \/ Tick
         \/ UNCHANGED vars
  PROVE  TypeOK'
<1> USE IdsAssumption DEF TypeOK
<1>1. ASSUME NEW i \in Ids, Owner(i) PROVE TypeOK'
  BY <1>1 DEF Owner, WorkEnds, WorkSticks, OwnerAnswers, state
<1>2. CASE Fence \/ IdleStarts \/ IdleDone \/ IdleFences
  BY <1>2 DEF Fence, IdleStarts, IdleDone, IdleFences, state
<1>3. CASE Tick
  BY <1>3, PolicyAssumption DEF Tick, state
<1>4. ASSUME NEW i \in Ids, LookUp(i) PROVE TypeOK'
  <2>1. entries[i].key \in Keys \union {NoKey}
    BY DEF Entry
  <2> QED BY <1>4, <2>1 DEF LookUp, state
<1>5. CASE Refused \/ Find \/ StartWork \/ WorkRejected
  <2> DEFINE AccessType == [stage : {"none", "read", "holding"}, id : Ids \union {NoId},
                            key : Keys \union {NoKey}, ownerAccepting : BOOLEAN]
  <2>1. NoAccess \in AccessType
    BY DEF NoAccess
  <2>2. [access EXCEPT !.stage = "holding"] \in AccessType
    OBVIOUS
  <2>3. CASE Refused \/ WorkRejected
    BY <2>1, <2>3 DEF Refused, WorkRejected, state
  <2>4. CASE Find
    BY <2>2, <2>4 DEF Find, state
  <2>5. CASE StartWork
    BY <2>1, <2>5 DEF StartWork, state
  <2> QED BY <1>5, <2>3, <2>4, <2>5
<1>6. CASE Renew
  <2>1. entries' \in [Ids -> Entry]
    <3>1. now + LeaseDuration \in Nat
      BY PolicyAssumption
    <3>2. access.id \in Ids => [entries[access.id] EXCEPT !.lease = now + LeaseDuration] \in Entry
      BY <3>1, EntryUpdates
    <3> QED BY <1>6, <3>2 DEF Renew
  <2> QED BY <1>6, <2>1 DEF Renew, NoAccess
<1>7. CASE UNCHANGED vars
  BY <1>7 DEF vars, state
<1> QED BY <1>1, <1>2, <1>3, <1>4, <1>5, <1>6, <1>7 DEF Access

\* Every step keeps every variable's type.
LEMMA TypeStep == TypeOK /\ [Next]_vars => TypeOK'
  BY TypeAdmit, TypeClose, TypeDrain, TypeRest DEF Next

-----------------------------------------------------------------------------
\* The part of the type invariant the steps below need.
Tables ==
  /\ entries \in [Ids -> Entry]
  /\ pc \in [Ids -> {"new", "waiting", "checked", "prepared", "closing", "leaving", "over"}]
  /\ owner \in [Ids -> {"none", "open", "shut", "asked", "drained", "failed"}]
  /\ work \in [Ids -> {"none", "running", "stuck"}]

\* It follows from the type invariant.
LEMMA TablesTyped == TypeOK => Tables
  BY DEF TypeOK, Tables

-----------------------------------------------------------------------------
(* What the shared transitions do to the inventory.                        *)

\* Of the entry of j, only the lease or the blocked mark may differ.
SameHolder(j) == /\ entries'[j].tag = entries[j].tag
                 /\ entries'[j].key = entries[j].key
                 /\ entries'[j].pending = entries[j].pending
SameHolders == \A j \in Ids : SameHolder(j)

\* Retire touches nothing but the lease.
LEMMA RetireKeeps ==
  ASSUME NEW es \in [Ids -> Entry], NEW i \in Ids, NEW j \in Ids
  PROVE  /\ Retire(es, i)[j].tag = es[j].tag
         /\ Retire(es, i)[j].key = es[j].key
         /\ Retire(es, i)[j].pending = es[j].pending
  BY DEF Retire, Entry

\* So a step that retires leaves every holder in place.
LEMMA RetireHolders ==
  ASSUME Tables, NEW i \in Ids, entries' = Retire(entries, i) PROVE SameHolders
  BY RetireKeeps DEF SameHolders, SameHolder, Tables

\* CleanupBlocked touches nothing but the mark.
LEMMA MarkHolders ==
  ASSUME Tables, NEW i \in Ids, MarkBlocked(i) PROVE SameHolders
  BY DEF MarkBlocked, SameHolders, SameHolder, Tables, Entry

\* forget removes the owned entry of i and nothing else; while its admission is
\* pending the entry is left settling.
LEMMA ForgetRemoves ==
  ASSUME Tables, NEW i \in Ids, Forget(i)
  PROVE  /\ \A j \in Ids \ {i} : SameHolder(j)
         /\ entries[i].tag # "Owned" => SameHolder(i)
         /\ entries[i].tag = "Owned" /\ entries[i].pending = TRUE => entries'[i].tag = "Settling"
         /\ entries[i].tag = "Owned" /\ entries[i].pending = FALSE => entries'[i].tag = "Absent"
<1>1. \A j \in Ids \ {i} : entries'[j] = entries[j]
  BY DEF Forget, Tables
<1>2. entries[i].pending \in BOOLEAN
  BY DEF Tables, Entry
<1>3. entries[i].tag # "Owned" => entries' = entries
  BY DEF Forget
<1>4. entries[i].tag = "Owned" /\ entries[i].pending = TRUE => entries'[i] = Settling
  BY DEF Forget, Tables
<1>5. entries[i].tag = "Owned" /\ entries[i].pending = FALSE => entries'[i] = Absent
  BY DEF Forget, Tables
<1> QED BY <1>1, <1>3, <1>4, <1>5, EntryTypes DEF SameHolder

\* FinishAttempt keeps an owned entry, as not pending, and drops any other one.
LEMMA FinishLeaves ==
  ASSUME Tables, NEW i \in Ids, FinishAttempt(i)
  PROVE  /\ \A j \in Ids \ {i} : SameHolder(j)
         /\ entries[i].tag # "Owned" => entries'[i].tag = "Absent"
         /\ entries[i].tag = "Owned" =>
              /\ entries'[i].tag = "Owned" /\ entries'[i].pending = FALSE
              /\ entries'[i].key = entries[i].key
<1>1. CASE entries' = entries
  <2>1. CASE entries[i].tag = "Absent"
    BY <1>1, <2>1 DEF SameHolder
  <2>2. CASE entries[i].tag = "Owned" /\ entries[i].pending = FALSE
    BY <1>1, <2>2 DEF SameHolder
  <2>3. CASE entries[i].tag # "Absent" /\ (entries[i].tag = "Owned" => entries[i].pending = TRUE)
    BY <1>1, <2>3, EntryTypes DEF FinishAttempt, Tables, Entry, SameHolder
  <2> QED BY <2>1, <2>2, <2>3 DEF Tables, Entry
<1>2. CASE entries' = [entries EXCEPT ![i] =
             IF @.tag = "Owned" THEN [@ EXCEPT !.pending = FALSE] ELSE Absent]
  BY <1>2, EntryTypes DEF Tables, Entry, SameHolder
<1> QED BY <1>1, <1>2 DEF FinishAttempt

-----------------------------------------------------------------------------
(* An attempt's entry, owner and permit follow its admit.                  *)

\* Nothing that Attempt(j) speaks of is disturbed.
Frame(j) == /\ SameHolder(j)
            /\ pc'[j] = pc[j] /\ owner'[j] = owner[j] /\ work'[j] = work[j]
            /\ permit = j => permit' = j
            /\ <<"admit", j>> \in joined' => <<"admit", j>> \in joined

\* An undisturbed attempt stays as it was.
LEMMA FrameKeeps == ASSUME NEW j \in Ids, Attempt(j), Frame(j) PROVE Attempt(j)'
  BY DEF Attempt, Frame, SameHolder

\* To preserve the invariant, a step of i keeps it for i and frames the others.
LEMMA AttemptOne ==
  ASSUME AttemptInv, NEW i \in Ids, Attempt(i)', \A j \in Ids \ {i} : Frame(j)
  PROVE  AttemptInv'
  BY FrameKeeps DEF AttemptInv

\* A drain is not an admit.
LEMMA DrainersDiffer == \A d \in Drainers : d # "admit" /\ d # "release"
  BY CallersAssumption

\* Leaving is safe from every point admit leaves from.
LEMMA AttemptLeave ==
  ASSUME Tables, AttemptInv, NEW i \in Ids, Leave(i),
         pc[i] \in {"waiting", "checked", "leaving"}
  PROVE  AttemptInv'
<1>1. Attempt(i) /\ <<"admit", i>> \notin joined
  BY DEF AttemptInv, Attempt
<1>2. /\ pc'[i] = "over" /\ UNCHANGED <<owner, work, joined>>
      /\ \A j \in Ids \ {i} : pc'[j] = pc[j]
  BY DEF Leave, Tables
<1>3. \A j \in Ids \ {i} : permit = j => permit' = j
  BY DEF Leave
<1>4. FinishAttempt(i)
  BY DEF Leave
<1>5. Attempt(i)'
  BY <1>1, <1>2, <1>4, FinishLeaves DEF Attempt
<1>6. \A j \in Ids \ {i} : Frame(j)
  BY <1>2, <1>3, <1>4, FinishLeaves DEF Frame
<1> QED BY <1>5, <1>6, AttemptOne

\* admit's own steps.
LEMMA AttemptAdmit ==
  ASSUME Tables, AttemptInv, NEW i \in Ids, Admit(i) PROVE AttemptInv'
<1>0. Attempt(i)
  BY DEF AttemptInv
<1>1. CASE Begin(i)
  <2>1. Attempt(i)'
    <3>1. CASE accepting
      BY <1>0, <1>1, <3>1, EntryTypes DEF Begin, Attempt, Tables
    <3>2. CASE ~accepting
      BY <1>0, <1>1, <3>2 DEF Begin, Attempt, Tables
    <3> QED BY <3>1, <3>2
  <2>2. \A j \in Ids \ {i} : Frame(j)
    BY <1>1 DEF Begin, Frame, SameHolder, Tables
  <2> QED BY <2>1, <2>2, AttemptOne
<1>2. CASE AbandonWait(i) \/ Refuse(i) \/ NotPrepared(i) \/ FinishAdmit(i)
  BY <1>2, AttemptLeave DEF AbandonWait, Refuse, NotPrepared, FinishAdmit
<1>3. CASE CheckCapacity(i)
  <2>1. Attempt(i)'
    BY <1>0, <1>3 DEF CheckCapacity, Attempt, Tables, state
  <2>2. \A j \in Ids \ {i} : Frame(j)
    BY <1>3, IdsAssumption DEF CheckCapacity, Frame, SameHolder, Tables, state
  <2> QED BY <2>1, <2>2, AttemptOne
<1>4. ASSUME NEW k \in Keys, PrepareOwner(i, k) PROVE AttemptInv'
  <2>0. Acquiring(k).tag = "Acquiring"
    BY DEF Acquiring
  <2>1. Attempt(i)'
    BY <1>0, <1>4, <2>0 DEF PrepareOwner, Attempt, Tables
  <2>2. \A j \in Ids \ {i} : Frame(j)
    BY <1>4 DEF PrepareOwner, Frame, SameHolder, Tables
  <2> QED BY <2>1, <2>2, AttemptOne
<1>5. CASE PublishOwner(i)
  <2> DEFINE e == [entries[i] EXCEPT !.tag = "Owned", !.pending = TRUE, !.blocked = FALSE]
  <2> DEFINE published == [entries EXCEPT ![i] = e]
  <2>1. e \in Entry /\ e.tag = "Owned" /\ e.pending = TRUE
    <3>1. entries[i] \in Entry
      BY DEF Tables
    <3>2. e.tag = "Owned" /\ e.pending = TRUE
      BY <3>1 DEF Entry
    <3> QED BY <3>1, <3>2, EntryUpdates
  <2>2. published \in [Ids -> Entry]
    BY <2>1 DEF Tables
  <2>3. /\ published[i] = e
        /\ \A j \in Ids \ {i} : published[j] = entries[j]
    BY DEF Tables
  <2> HIDE DEF e, published
  <2>4. entries' = published \/ entries' = Retire(published, i)
    BY <1>5 DEF PublishOwner, e, published
  <2>5. \A j \in Ids : /\ entries'[j].tag = published[j].tag
                       /\ entries'[j].key = published[j].key
                       /\ entries'[j].pending = published[j].pending
    BY <2>2, <2>4, RetireKeeps
  <2>6. /\ owner'[i] \in {"open", "asked"} /\ permit' = permit /\ work' = work
        /\ pc'[i] \in {"leaving", "closing"}
        /\ \A j \in Ids \ {i} : pc'[j] = pc[j] /\ owner'[j] = owner[j]
    BY <1>5 DEF PublishOwner, Tables
  <2>7. /\ <<"admit", i>> \in joined' => <<"admit", i>> \in joined \/ pc'[i] = "closing"
        /\ \A j \in Ids \ {i} : <<"admit", j>> \in joined' => <<"admit", j>> \in joined
    BY <1>5 DEF PublishOwner, Tables
  <2>8. Attempt(i)'
    BY <1>0, <1>5, <2>1, <2>3, <2>5, <2>6, <2>7 DEF PublishOwner, Attempt
  <2>9. \A j \in Ids \ {i} : Frame(j)
    BY <2>3, <2>5, <2>6, <2>7 DEF Frame, SameHolder
  <2> QED BY <2>8, <2>9, AttemptOne
<1> QED BY <1>1, <1>2, <1>3, <1>4, <1>5 DEF Admit

\* Closers retire, mark or forget; they forget only what has drained.
LEMMA AttemptClose ==
  ASSUME Tables, AttemptInv, NEW i \in Ids, Close(i) PROVE AttemptInv'
<1>0. Attempt(i) /\ entries[i].pending \in BOOLEAN
  BY DEF AttemptInv, Tables, Entry
<1>1. ASSUME NEW c \in Closers, CloseSucceeds(c, i) PROVE AttemptInv'
  <2>1. /\ \A j \in Ids \ {i} : SameHolder(j)
        /\ \/ SameHolder(i)
           \/ entries[i].tag = "Owned" /\ entries[i].pending = TRUE /\ entries'[i].tag = "Settling"
           \/ entries[i].tag = "Owned" /\ entries[i].pending = FALSE /\ entries'[i].tag = "Absent"
    BY <1>0, <1>1, ForgetRemoves DEF CloseSucceeds
  <2>2. /\ owner' = owner /\ owner[i] = "drained" /\ work' = work /\ permit' = permit
        /\ joined' = joined \ {<<c, i>>}
        /\ \A j \in Ids \ {i} : pc'[j] = pc[j]
    BY <1>1 DEF CloseSucceeds, Tables
  <2>3. CASE c = "admit"
    <3>1. pc[i] = "closing" /\ pc'[i] = "leaving"
      BY <1>0, <1>1, <2>3 DEF CloseSucceeds, Tables, Attempt
    <3>2. Attempt(i)'
      BY <1>0, <2>1, <2>2, <2>3, <3>1 DEF Attempt, SameHolder
    <3>3. \A j \in Ids \ {i} : Frame(j)
      BY <2>1, <2>2 DEF Frame
    <3> QED BY <3>2, <3>3, AttemptOne
  <2>4. CASE c # "admit"
    <3>1. pc'[i] = pc[i]
      BY <1>1, <2>4 DEF CloseSucceeds
    <3>2. Attempt(i)'
      BY <1>0, <2>1, <2>2, <3>1 DEF Attempt, SameHolder
    <3>3. \A j \in Ids \ {i} : Frame(j)
      BY <2>1, <2>2 DEF Frame
    <3> QED BY <3>2, <3>3, AttemptOne
  <2> QED BY <2>3, <2>4
<1>2. ASSUME NEW c \in Closers, CloseFails(c, i) PROVE AttemptInv'
  <2>1. SameHolders
    BY <1>2, MarkHolders DEF CloseFails
  <2>2. joined' \subseteq joined /\ (c = "admit" => <<"admit", i>> \notin joined')
    BY <1>2, DrainersDiffer DEF CloseFails, FailDrain
  <2>3. /\ UNCHANGED <<owner, work, permit>>
        /\ \A j \in Ids \ {i} : pc'[j] = pc[j]
        /\ c # "admit" => pc'[i] = pc[i]
        /\ c = "admit" => pc[i] = "closing" /\ pc'[i] = "leaving"
    BY <1>0, <1>2 DEF CloseFails, Tables, Attempt
  <2>4. Attempt(i)'
    BY <1>0, <2>1, <2>2, <2>3 DEF Attempt, SameHolders, SameHolder
  <2>5. \A j \in Ids \ {i} : Frame(j)
    BY <2>1, <2>2, <2>3 DEF Frame, SameHolders
  <2> QED BY <2>4, <2>5, AttemptOne
<1>3. CASE Release(i) \/ ReleaseInterrupted(i) \/ WatchExpires(i)
  <2>1. SameHolders
    BY <1>3, RetireHolders DEF Release, ReleaseInterrupted, WatchExpires
  <2>2. /\ UNCHANGED <<work, permit, pc>>
        /\ \A j \in Ids \ {i} : owner'[j] = owner[j]
        /\ owner'[i] = owner[i] \/ (owner[i] \in {"open", "shut"} /\ owner'[i] = "asked")
    BY <1>3 DEF Release, ReleaseInterrupted, WatchExpires, AskClose, Tables
  <2>3. \A j \in Ids : <<"admit", j>> \in joined' => <<"admit", j>> \in joined
    BY <1>3 DEF Release, ReleaseInterrupted, WatchExpires
  <2>4. Attempt(i)'
    BY <1>0, <2>1, <2>2, <2>3 DEF Attempt, SameHolders, SameHolder
  <2>5. \A j \in Ids \ {i} : Frame(j)
    BY <2>1, <2>2, <2>3 DEF Frame, SameHolders
  <2> QED BY <2>4, <2>5, AttemptOne
<1>4. CASE AbandonRelease(i)
  BY <1>4, FrameKeeps DEF AbandonRelease, state, AttemptInv, Frame, SameHolder
<1>5. CASE WatchEnds(i)
  <2>1. UNCHANGED <<owner, work, permit, pc, joined>>
    BY <1>5 DEF WatchEnds
  <2>2. CASE owner[i] = "drained"
    <3>1. /\ \A j \in Ids \ {i} : SameHolder(j)
          /\ \/ SameHolder(i)
             \/ entries[i].tag = "Owned" /\ entries[i].pending = TRUE /\ entries'[i].tag = "Settling"
             \/ entries[i].tag = "Owned" /\ entries[i].pending = FALSE /\ entries'[i].tag = "Absent"
      BY <1>0, <1>5, <2>2, ForgetRemoves DEF WatchEnds
    <3>2. Attempt(i)'
      BY <1>0, <2>1, <2>2, <3>1 DEF Attempt, SameHolder
    <3>3. \A j \in Ids \ {i} : Frame(j)
      BY <2>1, <3>1 DEF Frame
    <3> QED BY <3>2, <3>3, AttemptOne
  <2>3. CASE owner[i] # "drained"
    BY <1>5, <2>1, <2>3, FrameKeeps DEF WatchEnds, AttemptInv, Frame, SameHolder
  <2> QED BY <2>2, <2>3
<1> QED BY <1>1, <1>2, <1>3, <1>4, <1>5 DEF Close

\* Drains, owners, accesses, fences and time leave every attempt where it is.
LEMMA AttemptRest ==
  ASSUME Tables, AttemptInv,
         \/ \E d \in Drainers : Drain(d)
         \/ \E i \in Ids : Owner(i)
         \/ Fence \/ IdleStarts \/ IdleDone \/ IdleFences \/ Access \/ Tick
         \/ UNCHANGED vars
  PROVE  AttemptInv'
<1>1. ASSUME NEW d \in Drainers, NEW i \in Ids, DrainCloses(d, i) PROVE AttemptInv'
  <2>1. SameHolders
    BY <1>1, RetireHolders DEF DrainCloses
  <2>2. /\ UNCHANGED <<work, permit, pc>>
        /\ \A j \in Ids \ {i} : owner'[j] = owner[j]
        /\ owner'[i] = owner[i] \/ (owner[i] \in {"open", "shut"} /\ owner'[i] = "asked")
    BY <1>1 DEF DrainCloses, AskClose, Tables
  <2>3. \A j \in Ids : <<"admit", j>> \in joined' => <<"admit", j>> \in joined
    BY <1>1, DrainersDiffer DEF DrainCloses
  <2>4. Attempt(i)'
    BY <2>1, <2>2, <2>3 DEF AttemptInv, Attempt, SameHolders, SameHolder
  <2>5. \A j \in Ids \ {i} : Frame(j)
    BY <2>1, <2>2, <2>3 DEF Frame, SameHolders
  <2> QED BY <2>4, <2>5, AttemptOne
<1>2. ASSUME NEW i \in Ids, Owner(i) PROVE AttemptInv'
  <2>1. UNCHANGED <<entries, pc, permit, joined>>
        /\ \A j \in Ids \ {i} : owner'[j] = owner[j] /\ work'[j] = work[j]
    BY <1>2 DEF Owner, WorkEnds, WorkSticks, OwnerAnswers, state, Tables
  <2>2. \/ owner'[i] = owner[i] /\ work[i] = "running" /\ work'[i] = "none"
        \/ work[i] = "running" /\ work'[i] = "stuck"
             /\ (owner'[i] = owner[i] \/ (owner[i] = "open" /\ owner'[i] = "shut"))
        \/ work'[i] = work[i] /\ owner[i] = "asked" /\ work[i] = "none" /\ owner'[i] = "drained"
        \/ work'[i] = work[i] /\ owner[i] = "asked" /\ owner'[i] = "failed"
    BY <1>2 DEF Owner, WorkEnds, WorkSticks, OwnerAnswers, Tables
  <2>3. Attempt(i)'
    BY <2>1, <2>2 DEF AttemptInv, Attempt
  <2>4. \A j \in Ids \ {i} : Frame(j)
    BY <2>1 DEF Frame, SameHolder
  <2> QED BY <2>3, <2>4, AttemptOne
<1>3. CASE StartWork
  <2>1. /\ UNCHANGED <<entries, pc, permit, joined, owner>>
        /\ \A j \in Ids : owner[j] # "open" => work'[j] = work[j]
    BY <1>3 DEF StartWork, state, Tables
  <2> QED BY <2>1 DEF AttemptInv, Attempt
<1>4. ASSUME SameHolders, UNCHANGED <<pc, permit, owner, work>>,
             \A j \in Ids : <<"admit", j>> \in joined' => <<"admit", j>> \in joined
      PROVE  AttemptInv'
  BY <1>4, FrameKeeps DEF AttemptInv, Frame, SameHolders
<1>5. CASE Renew
  BY <1>4, <1>5 DEF Renew, SameHolders, SameHolder, Tables, Entry
<1>6. ASSUME NEW d \in Drainers,
             DrainStarts(d) \/ DrainSettled(d) \/ DrainDone(d) \/ DrainTimesOut(d)
      PROVE  AttemptInv'
  BY <1>4, <1>6 DEF DrainStarts, DrainSettled, DrainDone, DrainTimesOut, FailDrain, state,
                    SameHolders, SameHolder
<1>7. CASE \/ Refused \/ Find \/ WorkRejected \/ (\E i \in Ids : LookUp(i))
           \/ Fence \/ IdleStarts \/ IdleDone \/ IdleFences \/ Tick \/ UNCHANGED vars
  <2>1. UNCHANGED <<entries, pc, permit, owner, work, joined>>
    BY <1>7 DEF Refused, Find, WorkRejected, LookUp, Fence, IdleStarts, IdleDone,
                IdleFences, Tick, vars, state
  <2> QED BY <1>4, <2>1 DEF SameHolders, SameHolder
<1> QED BY <1>1, <1>2, <1>3, <1>5, <1>6, <1>7 DEF Drain, Access

\* What an attempt has follows its admit through every step.
LEMMA AttemptStep == TypeOK /\ AttemptInv /\ [Next]_vars => AttemptInv'
  BY TablesTyped, AttemptAdmit, AttemptClose, AttemptRest DEF Next

-----------------------------------------------------------------------------
(* Room: the capacity and the uniqueness of keys.                          *)

\* A step that neither admits nor prepares an attempt adds no attachment,
\* changes no key, and starts nothing pending in a fenced generation.
Plain(j) ==
  /\ entries'[j].tag = "Owned" => entries[j].tag = "Owned" /\ entries'[j].key = entries[j].key
  /\ pc'[j] \in {"checked", "prepared"} => pc'[j] = pc[j] /\ entries'[j].key = entries[j].key
  /\ j \in Pending' => j \in Pending \/ accepting

\* What keeps its holder and its place is plain.
LEMMA HolderPlain ==
  ASSUME NEW j \in Ids, SameHolder(j), pc'[j] = pc[j] PROVE Plain(j)
  BY DEF SameHolder, Plain, Pending

\* Only three steps are not plain.
LEMMA PlainSteps ==
  ASSUME TypeOK, AttemptInv, [Next]_vars
  PROVE  \/ \E i \in Ids : \/ CheckCapacity(i) \/ PublishOwner(i)
                          \/ \E k \in Keys : PrepareOwner(i, k)
         \/ \A j \in Ids : Plain(j)
<1>0. Tables
  BY TablesTyped
<1>1. ASSUME NEW i \in Ids, Begin(i) PROVE \A j \in Ids : Plain(j)
  <2>1. \A j \in Ids \ {i} : Plain(j)
    BY <1>0, <1>1, HolderPlain DEF Begin, SameHolder, Tables
  <2>2. CASE accepting
    <3>1. entries'[i].tag = "Queued" /\ pc'[i] = "waiting"
      BY <1>0, <1>1, <2>2, EntryTypes DEF Begin, Tables
    <3> QED BY <2>1, <2>2, <3>1 DEF Plain
  <2>3. CASE ~accepting
    <3>1. entries' = entries /\ pc'[i] = "over"
      BY <1>0, <1>1, <2>3 DEF Begin, Tables
    <3> QED BY <2>1, <3>1 DEF Plain, Pending
  <2> QED BY <2>2, <2>3
<1>2. ASSUME NEW i \in Ids, Leave(i) PROVE \A j \in Ids : Plain(j)
  <2>1. FinishAttempt(i) /\ pc'[i] = "over" /\ \A j \in Ids \ {i} : pc'[j] = pc[j]
    BY <1>0, <1>2 DEF Leave, Tables
  <2>2. \A j \in Ids \ {i} : Plain(j)
    BY <1>0, <2>1, FinishLeaves, HolderPlain
  <2>3. entries'[i].tag = "Absent" \/ (entries'[i].tag = "Owned" /\ entries'[i].pending = FALSE)
    BY <1>0, <2>1, FinishLeaves
  <2>4. entries'[i].tag = "Owned" => entries[i].tag = "Owned" /\ entries'[i].key = entries[i].key
    BY <1>0, <2>1, FinishLeaves
  <2>5. Plain(i)
    BY <2>1, <2>3, <2>4 DEF Plain, Pending
  <2> QED BY <2>2, <2>5
<1>3. ASSUME NEW i \in Ids, Forget(i), \A j \in Ids : pc'[j] \in {pc[j], "leaving"}
      PROVE  \A j \in Ids : Plain(j)
  <2>1. \A j \in Ids \ {i} : SameHolder(j)
    BY <1>0, <1>3, ForgetRemoves
  <2>2. \A j \in Ids : SameHolder(j) => Plain(j)
    BY <1>3 DEF SameHolder, Plain, Pending
  <2>3. entries[i].pending \in BOOLEAN /\ (pc[i] \in {"checked", "prepared"} => entries[i].tag # "Owned")
    BY <1>0 DEF Tables, Entry, AttemptInv, Attempt
  <2>4. CASE SameHolder(i)
    BY <2>1, <2>2, <2>4
  <2>5. CASE entries[i].tag = "Owned" /\ entries[i].pending = TRUE /\ entries'[i].tag = "Settling"
    BY <1>3, <2>1, <2>2, <2>3, <2>5 DEF Plain, Pending
  <2>6. CASE entries[i].tag = "Owned" /\ entries'[i].tag = "Absent"
    BY <1>3, <2>1, <2>2, <2>3, <2>6 DEF Plain, Pending
  <2> QED BY <1>0, <1>3, <2>3, <2>4, <2>5, <2>6, ForgetRemoves
<1>4. ASSUME SameHolders, \A j \in Ids : pc'[j] \in {pc[j], "leaving"}
      PROVE  \A j \in Ids : Plain(j)
  BY <1>4 DEF SameHolders, SameHolder, Plain, Pending
<1>5. ASSUME NEW i \in Ids, Close(i) PROVE \A j \in Ids : Plain(j)
  <2>1. ASSUME NEW c \in Closers, CloseSucceeds(c, i) PROVE \A j \in Ids : Plain(j)
    BY <1>0, <1>3, <2>1 DEF CloseSucceeds, Tables
  <2>2. ASSUME NEW c \in Closers, CloseFails(c, i) PROVE \A j \in Ids : Plain(j)
    BY <1>0, <1>4, <2>2, MarkHolders DEF CloseFails, Tables
  <2>3. CASE Release(i) \/ ReleaseInterrupted(i) \/ WatchExpires(i)
    BY <1>0, <1>4, <2>3, RetireHolders DEF Release, ReleaseInterrupted, WatchExpires
  <2>4. CASE AbandonRelease(i)
    BY <1>4, <2>4 DEF AbandonRelease, state, SameHolders, SameHolder
  <2>5. CASE WatchEnds(i)
    BY <1>3, <1>4, <2>5 DEF WatchEnds, SameHolders, SameHolder
  <2> QED BY <1>5, <2>1, <2>2, <2>3, <2>4, <2>5 DEF Close
<1>6. ASSUME NEW d \in Drainers, NEW i \in Ids, DrainCloses(d, i) PROVE \A j \in Ids : Plain(j)
  BY <1>0, <1>4, <1>6, RetireHolders DEF DrainCloses
<1>7. CASE Renew
  BY <1>0, <1>4, <1>7 DEF Renew, SameHolders, SameHolder, Tables, Entry
<1>8. ASSUME entries' = entries, pc' = pc PROVE \A j \in Ids : Plain(j)
  BY <1>4, <1>8 DEF SameHolders, SameHolder
<1>9. ASSUME NEW d \in Drainers,
             DrainStarts(d) \/ DrainSettled(d) \/ DrainDone(d) \/ DrainTimesOut(d)
      PROVE  \A j \in Ids : Plain(j)
  BY <1>8, <1>9 DEF DrainStarts, DrainSettled, DrainDone, DrainTimesOut, state
<1>10. ASSUME NEW i \in Ids, Owner(i) \/ LookUp(i) PROVE \A j \in Ids : Plain(j)
  BY <1>8, <1>10 DEF Owner, WorkEnds, WorkSticks, OwnerAnswers, LookUp, state
<1>11. CASE \/ Refused \/ Find \/ StartWork \/ WorkRejected
            \/ Fence \/ IdleStarts \/ IdleDone \/ IdleFences \/ Tick \/ UNCHANGED vars
  BY <1>8, <1>11 DEF Refused, Find, StartWork, WorkRejected, Fence, IdleStarts,
                     IdleDone, IdleFences, Tick, vars, state
<1> QED BY <1>1, <1>2, <1>5, <1>6, <1>7, <1>9, <1>10, <1>11
        DEF Next, Admit, AbandonWait, Refuse, NotPrepared, FinishAdmit, Drain, Access

\* The attachments are finitely many.
LEMMA MembersFinite == IsFiniteSet(Members) /\ Cardinality(Members) \in Nat
  BY IdsAssumption, FS_Subset, FS_CardinalityType DEF Members

\* After a plain step there are no more attachments than before.
LEMMA PlainShrinks ==
  ASSUME \A j \in Ids : Plain(j)
  PROVE  /\ Members' \subseteq Members
         /\ IsFiniteSet(Members') /\ Cardinality(Members') \in Nat
         /\ Cardinality(Members') <= Cardinality(Members)
<1>1. Members' \subseteq Members
  BY DEF Plain, Members
<1>2. IsFiniteSet(Members') /\ Cardinality(Members') <= Cardinality(Members)
  BY <1>1, MembersFinite, FS_Subset
<1>3. Cardinality(Members') \in Nat
  BY <1>2, FS_CardinalityType
<1> QED BY <1>1, <1>2, <1>3

\* The permit makes what was checked under it stay true.
LEMMA RoomStep == TypeOK /\ AttemptInv /\ RoomInv /\ [Next]_vars => RoomInv'
<1> SUFFICES ASSUME TypeOK, AttemptInv, RoomInv, [Next]_vars PROVE RoomInv'
  OBVIOUS
<1>0. Tables
  BY TablesTyped
<1>1. Capacity \in Nat /\ Cardinality(Members) \in Nat /\ IsFiniteSet(Members)
  BY PolicyAssumption, MembersFinite
<1>2. CASE \A j \in Ids : Plain(j)
  <2>1. /\ Members' \subseteq Members /\ Cardinality(Members') \in Nat
        /\ Cardinality(Members') <= Cardinality(Members)
    BY <1>2, PlainShrinks
  <2>2. \A j \in Members' : entries'[j].key = entries[j].key
    BY <1>2 DEF Plain, Members
  <2>3. CapacityBound'
    BY <1>1, <2>1 DEF RoomInv, CapacityBound
  <2>4. UniqueKeys'
    BY <2>1, <2>2 DEF RoomInv, UniqueKeys
  <2>5. ASSUME NEW i \in Ids, pc'[i] \in {"checked", "prepared"}
        PROVE  Cardinality(Members') < Capacity
    <3>1. pc[i] \in {"checked", "prepared"}
      BY <1>2, <2>5 DEF Plain
    <3>2. Cardinality(Members) < Capacity
      BY <3>1 DEF RoomInv
    <3> QED BY <1>1, <2>1, <3>2
  <2>6. ASSUME NEW i \in Ids, pc'[i] = "prepared", NEW j \in Members'
        PROVE  entries'[j].key # entries'[i].key
    <3>1. pc[i] = "prepared" /\ entries'[i].key = entries[i].key
      BY <1>2, <2>6 DEF Plain
    <3> QED BY <2>1, <2>2, <3>1 DEF RoomInv
  <2> QED BY <2>3, <2>4, <2>5, <2>6 DEF RoomInv
<1>3. ASSUME NEW i \in Ids, CheckCapacity(i) PROVE RoomInv'
  <2>1. entries' = entries /\ Members' = Members
    BY <1>3 DEF CheckCapacity, state, Members
  <2>2. Cardinality(Members) < Capacity
    BY <1>1, <1>3 DEF CheckCapacity, AtCapacity
  <2>3. \A j \in Ids : pc'[j] = "prepared" => pc[j] = "prepared"
    BY <1>0, <1>3 DEF CheckCapacity, Tables
  <2> QED BY <2>1, <2>2, <2>3 DEF RoomInv, CapacityBound, UniqueKeys
<1>4. ASSUME NEW i \in Ids, NEW k \in Keys, PrepareOwner(i, k) PROVE RoomInv'
  <2>1. /\ entries' = [entries EXCEPT ![i] = Acquiring(k)] /\ pc[i] = "checked"
        /\ pc' = [pc EXCEPT ![i] = "prepared"] /\ ~KeyTaken(k)
    BY <1>4 DEF PrepareOwner
  <2>2. /\ entries[i].tag = "Queued" /\ permit = i
        /\ \A j \in Ids \ {i} : pc[j] \notin {"checked", "prepared"}
    BY <2>1 DEF AttemptInv, Attempt
  <2>3. /\ entries'[i].tag = "Acquiring" /\ entries'[i].key = k
        /\ \A j \in Ids \ {i} : entries'[j] = entries[j]
    BY <1>0, <2>1 DEF Acquiring, Tables
  <2>4. Members' = Members /\ i \notin Members
    BY <2>2, <2>3 DEF Members
  <2>5. \A j \in Members : entries'[j] = entries[j]
    BY <2>3, <2>4 DEF Members
  <2>6. \A j \in Ids \ {i} : pc'[j] = pc[j]
    BY <1>0, <2>1 DEF Tables
  <2>7. Cardinality(Members) < Capacity
    BY <2>1 DEF RoomInv
  <2>8. \A j \in Members' : entries'[j].key # entries'[i].key
    BY <2>1, <2>3, <2>4, <2>5 DEF KeyTaken
  <2>9. CapacityBound' /\ UniqueKeys'
    BY <2>4, <2>5 DEF RoomInv, CapacityBound, UniqueKeys
  <2> QED BY <2>2, <2>4, <2>6, <2>7, <2>8, <2>9 DEF RoomInv
<1>5. ASSUME NEW i \in Ids, PublishOwner(i) PROVE RoomInv'
  <2>1. /\ pc[i] = "prepared" /\ permit = i
        /\ \A j \in Ids \ {i} : pc[j] \notin {"checked", "prepared"}
    BY <1>5 DEF PublishOwner, AttemptInv, Attempt
  <2>2. /\ pc'[i] \in {"leaving", "closing"}
        /\ \A j \in Ids \ {i} : pc'[j] = pc[j]
    BY <1>0, <1>5 DEF PublishOwner, Tables
  <2>3. \A j \in Ids : /\ entries'[j].key = entries[j].key
                       /\ j # i => entries'[j].tag = entries[j].tag
    <3> DEFINE e == [entries[i] EXCEPT !.tag = "Owned", !.pending = TRUE, !.blocked = FALSE]
    <3> DEFINE published == [entries EXCEPT ![i] = e]
    <3>1. entries[i] \in Entry
      BY <1>0 DEF Tables
    <3>2. e \in Entry /\ e.key = entries[i].key
      BY <3>1, EntryUpdates DEF Entry
    <3>3. published \in [Ids -> Entry] /\ published[i] = e /\ \A j \in Ids \ {i} : published[j] = entries[j]
      BY <1>0, <3>2 DEF Tables
    <3> HIDE DEF e, published
    <3>4. entries' = published \/ entries' = Retire(published, i)
      BY <1>5 DEF PublishOwner, e, published
    <3>5. \A j \in Ids : entries'[j].key = published[j].key /\ entries'[j].tag = published[j].tag
      BY <3>3, <3>4, RetireKeeps
    <3> QED BY <3>2, <3>3, <3>5
  <2>4. Members' \subseteq Members \union {i}
    BY <2>3 DEF Members
  <2>5. Cardinality(Members) < Capacity /\ \A j \in Members : entries[j].key # entries[i].key
    BY <2>1 DEF RoomInv
  <2>6. IsFiniteSet(Members \union {i}) /\ Cardinality(Members \union {i})
           = IF i \in Members THEN Cardinality(Members) ELSE Cardinality(Members) + 1
    BY <1>1, FS_AddElement
  <2>7. IsFiniteSet(Members') /\ Cardinality(Members') <= Cardinality(Members \union {i})
    BY <2>4, <2>6, FS_Subset
  <2>8. Cardinality(Members') \in Nat
    BY <2>7, FS_CardinalityType
  <2>9. CapacityBound'
    BY <1>1, <2>5, <2>6, <2>7, <2>8 DEF CapacityBound
  <2>10. UniqueKeys'
    <3>1. \A j \in Members' : j = i \/ j \in Members
      BY <2>4
    <3>2. \A j \in Members' : j \in Ids
      BY DEF Members
    <3> QED BY <2>3, <2>5, <3>1, <3>2 DEF UniqueKeys, RoomInv
  <2> QED BY <2>1, <2>2, <2>9, <2>10 DEF RoomInv
<1> QED BY <1>2, <1>3, <1>4, <1>5, PlainSteps

-----------------------------------------------------------------------------
(* Drains.                                                                 *)

\* In a fenced generation with nothing pending, every admit is over or has not
\* begun, and every step is plain.
LEMMA Settled ==
  ASSUME TypeOK, AttemptInv, ~accepting, Pending = {}, [Next]_vars
  PROVE  /\ \A i \in Ids : pc[i] \in {"new", "over"}
         /\ Pending' = {} /\ Members' \subseteq Members
<1>0. Tables
  BY TablesTyped
<1>1. \A i \in Ids : /\ entries[i].tag \notin {"Queued", "Acquiring", "Settling"}
                     /\ entries[i].tag = "Owned" => entries[i].pending = FALSE
  BY <1>0 DEF Pending, Tables, Entry
<1>2. ASSUME NEW i \in Ids PROVE pc[i] \in {"new", "over"}
  BY <1>0, <1>1 DEF Tables, AttemptInv, Attempt
<1>3. \A j \in Ids : Plain(j)
  BY <1>2, PlainSteps DEF CheckCapacity, PublishOwner, PrepareOwner
<1>4. Pending' \subseteq Pending
  <2>1. \A j \in Pending' : j \in Ids
    BY DEF Pending
  <2> QED BY <1>3, <2>1 DEF Plain
<1> QED BY <1>2, <1>3, <1>4, PlainShrinks

\* A generation that is fenced stays fenced.
LEMMA FenceStays == ~accepting /\ [Next]_vars => ~accepting'
  BY DEF Next, vars, state, Admit, Begin, AbandonWait, Refuse, NotPrepared, FinishAdmit,
     Leave, CheckCapacity, PrepareOwner, PublishOwner, Close, CloseSucceeds, CloseFails,
     Release, ReleaseInterrupted, AbandonRelease, WatchExpires, WatchEnds, Owner,
     WorkEnds, WorkSticks, OwnerAnswers, Drain, DrainStarts, DrainSettled, DrainCloses,
     DrainDone, DrainTimesOut, Fence, IdleStarts, IdleDone, IdleFences, Access, LookUp,
     Refused, Renew, Find, StartWork, WorkRejected, Tick

\* What a drain has in hand: it has yet to close it, or waits for it.
InHand(d, i) == i \in drainTodo[d] \/ <<d, i>> \in joined

\* How a drain moves: it is where it was and lets go of an attachment only with
\* the attachment forgotten, or it took one of its own steps.
LEMMA DrainMoves ==
  ASSUME TypeOK, [Next]_vars, NEW d \in Drainers
  PROVE  \/ drainPc'[d] = "failed"
         \/ DrainStarts(d) \/ DrainSettled(d) \/ DrainDone(d)
         \/ /\ drainPc'[d] = drainPc[d]
            /\ \A i \in Ids : InHand(d, i) => InHand(d, i)' \/ entries'[i].tag # "Owned"
<1> DEFINE Same == /\ drainPc'[d] = drainPc[d]
                   /\ \A i \in Ids : InHand(d, i) => InHand(d, i)' \/ entries'[i].tag # "Owned"
<1>0. Tables /\ drainPc \in [Drainers -> {"no", "polling", "closing", "done", "failed"}]
      /\ drainTodo \in [Drainers -> SUBSET Ids]
  BY TablesTyped DEF TypeOK
<1>1. ASSUME UNCHANGED <<drainPc, drainTodo>>, joined \subseteq joined' PROVE Same
  BY <1>1 DEF InHand
<1>2. ASSUME NEW i \in Ids, NEW c \in Closers, CloseSucceeds(c, i) PROVE Same
  <2>1. entries'[i].tag # "Owned"
    <3>1. Forget(i) /\ entries[i].pending \in BOOLEAN
      BY <1>0, <1>2 DEF CloseSucceeds, Tables, Entry
    <3> QED BY <1>0, <3>1, ForgetRemoves DEF SameHolder
  <2>2. UNCHANGED <<drainPc, drainTodo>> /\ joined' = joined \ {<<c, i>>}
    BY <1>2 DEF CloseSucceeds
  <2> QED BY <2>1, <2>2 DEF InHand
<1>3. ASSUME NEW e \in Drainers, FailDrain(e) PROVE drainPc'[d] = "failed" \/ Same
  <2>1. CASE e = d
    BY <1>0, <1>3, <2>1 DEF FailDrain
  <2>2. CASE e # d
    <3>1. drainPc'[d] = drainPc[d] /\ drainTodo'[d] = drainTodo[d]
      BY <1>0, <1>3, <2>2 DEF FailDrain
    <3>2. \A i \in Ids : <<d, i>> \in joined => <<d, i>> \in joined'
      BY <1>3, <2>2 DEF FailDrain
    <3> QED BY <3>1, <3>2 DEF InHand
  <2> QED BY <2>1, <2>2
<1>4. ASSUME NEW i \in Ids, NEW c \in Closers, CloseFails(c, i) PROVE drainPc'[d] = "failed" \/ Same
  <2>1. CASE c \in Drainers
    BY <1>3, <1>4, <2>1 DEF CloseFails
  <2>2. CASE c \notin Drainers
    <3>1. UNCHANGED <<drainPc, drainTodo>> /\ joined' = joined \ {<<c, i>>} /\ c # d
      BY <1>4, <2>2 DEF CloseFails
    <3> QED BY <3>1 DEF InHand
  <2> QED BY <2>1, <2>2
<1>5. ASSUME NEW i \in Ids, AbandonRelease(i) PROVE Same
  BY <1>5, DrainersDiffer DEF AbandonRelease, InHand
<1>6. ASSUME NEW i \in Ids, Close(i) PROVE drainPc'[d] = "failed" \/ Same
  <2>1. CASE Release(i) \/ ReleaseInterrupted(i) \/ WatchExpires(i) \/ WatchEnds(i)
    BY <1>1, <2>1 DEF Release, ReleaseInterrupted, WatchExpires, WatchEnds
  <2> QED BY <1>2, <1>4, <1>5, <1>6, <2>1 DEF Close
<1>7. ASSUME NEW e \in Drainers, Drain(e)
      PROVE  drainPc'[d] = "failed" \/ DrainStarts(d) \/ DrainSettled(d) \/ DrainDone(d) \/ Same
  <2>1. CASE DrainTimesOut(e)
    BY <1>3, <2>1 DEF DrainTimesOut
  <2>2. ASSUME NEW i \in Ids, DrainCloses(e, i) PROVE Same
    BY <1>0, <2>2 DEF DrainCloses, InHand
  <2>3. CASE (DrainStarts(e) \/ DrainSettled(e) \/ DrainDone(e)) /\ e # d
    <3>1. drainPc'[d] = drainPc[d] /\ drainTodo'[d] = drainTodo[d] /\ joined' = joined
      BY <1>0, <2>3 DEF DrainStarts, DrainSettled, DrainDone, state
    <3> QED BY <3>1 DEF InHand
  <2> QED BY <1>7, <2>1, <2>2, <2>3 DEF Drain
<1>8. ASSUME NEW i \in Ids, Admit(i) PROVE Same
  BY <1>1, <1>8 DEF Admit, Begin, AbandonWait, Refuse, NotPrepared, FinishAdmit, Leave,
     CheckCapacity, PrepareOwner, PublishOwner, state
<1>9. CASE \/ \E i \in Ids : Owner(i) \/ LookUp(i)
           \/ Refused \/ Renew \/ Find \/ StartWork \/ WorkRejected
           \/ Fence \/ IdleStarts \/ IdleDone \/ IdleFences \/ Tick \/ UNCHANGED vars
  BY <1>1, <1>9 DEF Owner, WorkEnds, WorkSticks, OwnerAnswers, LookUp, Refused, Renew, Find,
     StartWork, WorkRejected, Fence, IdleStarts, IdleDone, IdleFences, Tick, vars, state
<1> QED BY <1>6, <1>7, <1>8, <1>9 DEF Next, Access

\* A drain loses no attachment, and none joins behind its back.
LEMMA DrainStepInv == TypeOK /\ TypeOK' /\ AttemptInv /\ DrainInv /\ [Next]_vars => DrainInv'
<1> SUFFICES ASSUME TypeOK, TypeOK', AttemptInv, DrainInv, [Next]_vars, NEW d \in Drainers
             PROVE  /\ drainPc'[d] \in {"polling", "closing", "done"} => ~accepting'
                    /\ drainPc'[d] \in {"closing", "done"} => Pending' = {}
                    /\ drainPc'[d] = "closing" => \A i \in Members' : InHand(d, i)'
                    /\ drainPc'[d] = "done" => Members' = {}
  BY DEF DrainInv, InHand
<1>0. /\ drainPc \in [Drainers -> {"no", "polling", "closing", "done", "failed"}]
      /\ drainTodo \in [Drainers -> SUBSET Ids]
  BY DEF TypeOK
<1>1. /\ drainPc[d] \in {"polling", "closing", "done"} => ~accepting
      /\ drainPc[d] \in {"closing", "done"} => Pending = {}
      /\ drainPc[d] = "closing" => \A i \in Members : InHand(d, i)
      /\ drainPc[d] = "done" => Members = {}
  BY DEF DrainInv, InHand
<1>2. CASE drainPc'[d] = "failed"
  BY <1>2
<1>3. CASE DrainStarts(d)
  BY <1>0, <1>3 DEF DrainStarts
<1>4. CASE DrainSettled(d)
  <2>1. /\ drainPc'[d] = "closing" /\ drainTodo'[d] = Members /\ entries' = entries
        /\ drainPc[d] = "polling" /\ accepting' = accepting /\ Pending = {}
    BY <1>0, <1>4 DEF DrainSettled, state
  <2>2. Pending' = {} /\ Members' = Members
    BY <2>1 DEF Pending, Members
  <2> QED BY <1>1, <2>1, <2>2 DEF InHand
<1>5. CASE DrainDone(d)
  <2>1. /\ drainPc'[d] = "done" /\ drainPc[d] = "closing" /\ entries' = entries
        /\ accepting' = accepting /\ \A i \in Ids : ~InHand(d, i)
    BY <1>0, <1>5 DEF DrainDone, state, InHand
  <2>2. Members = {}
    BY <1>1, <2>1 DEF Members
  <2>3. Pending' = Pending /\ Members' = Members
    BY <2>1 DEF Pending, Members
  <2> QED BY <1>1, <2>1, <2>2, <2>3
<1>6. CASE /\ drainPc'[d] = drainPc[d]
           /\ \A i \in Ids : InHand(d, i) => InHand(d, i)' \/ entries'[i].tag # "Owned"
  <2>1. drainPc[d] \in {"polling", "closing", "done"} => ~accepting'
    BY <1>1, FenceStays
  <2>2. drainPc[d] \in {"closing", "done"} => Pending' = {} /\ Members' \subseteq Members
    BY <1>1, Settled
  <2>3. \A i \in Members' : i \in Ids /\ entries'[i].tag = "Owned"
    BY DEF Members
  <2> QED BY <1>1, <1>6, <2>1, <2>2, <2>3
<1> QED BY <1>2, <1>3, <1>4, <1>5, <1>6, DrainMoves

-----------------------------------------------------------------------------
(* The theorems.                                                           *)

\* Attempts, room and drains together are inductive.
THEOREM Inductive == Spec => []IInv
<1>1. Init => IInv
  <2> SUFFICES ASSUME Init PROVE IInv
    OBVIOUS
  <2>1. TypeOK
    BY EntryTypes DEF Init, TypeOK, NoAccess
  <2>2. \A i \in Ids : entries[i] = Absent /\ pc[i] = "new" /\ owner[i] = "none" /\ work[i] = "none"
    BY DEF Init
  <2>3. AttemptInv
    BY <2>2, EntryTypes DEF Init, AttemptInv, Attempt
  <2>4. Members = {}
    BY <2>2, EntryTypes DEF Members
  <2>5. RoomInv
    BY <2>2, <2>4, FS_EmptySet, PolicyAssumption DEF RoomInv, CapacityBound, UniqueKeys
  <2>6. DrainInv
    BY DEF Init, DrainInv
  <2> QED BY <2>1, <2>3, <2>5, <2>6 DEF IInv
<1>2. IInv /\ [Next]_vars => IInv'
  BY TypeStep, AttemptStep, RoomStep, DrainStepInv DEF IInv
<1> QED BY <1>1, <1>2, PTL DEF Spec

\* For every capacity, however many adapters ask at once: never more attachments
\* than the capacity, never two with one token.
THEOREM Room == Spec => [](CapacityBound /\ UniqueKeys)
<1>1. IInv => CapacityBound /\ UniqueKeys
  BY DEF IInv, RoomInv
<1> QED BY <1>1, Inductive, PTL

\* Nothing is forgotten before it has drained.
THEOREM Evidence == Spec => []ForgottenIsDrained
<1>1. IInv => ForgottenIsDrained
  BY DEF IInv, AttemptInv, Attempt, ForgottenIsDrained, Members
<1> QED BY <1>1, Inductive, PTL

\* A successful drain, of any number running at once, leaves the generation quiet.
THEOREM DrainSound == Spec => []DrainedIsQuiet
<1>1. IInv => DrainedIsQuiet
  <2> SUFFICES ASSUME IInv, NEW d \in Drainers, drainPc[d] = "done"
               PROVE  /\ ~accepting /\ Members = {} /\ Pending = {}
                      /\ \A i \in Ids : /\ pc[i] \in {"new", "over"}
                                         /\ owner[i] \in {"none", "drained"} /\ work[i] = "none"
    BY DEF DrainedIsQuiet
  <2>1. ~accepting /\ Members = {} /\ Pending = {}
    BY DEF IInv, DrainInv
  <2>2. Tables
    BY TablesTyped DEF IInv
  <2>3. ASSUME NEW i \in Ids
        PROVE  /\ pc[i] \in {"new", "over"}
               /\ owner[i] \in {"none", "drained"} /\ work[i] = "none"
    <3>1. entries[i].tag \notin {"Queued", "Acquiring", "Settling", "Owned"}
      BY <2>1 DEF Members, Pending
    <3> QED BY <2>2, <3>1 DEF IInv, AttemptInv, Attempt, Tables
  <2> QED BY <2>1, <2>3
<1> QED BY <1>1, Inductive, PTL

\* Every variable keeps its type, whatever the constants.
THEOREM Typed == Spec => []TypeOK
<1>1. IInv => TypeOK
  BY DEF IInv
<1> QED BY <1>1, Inductive, PTL

-----------------------------------------------------------------------------
(* Leases: whoever asks an owner to close has retired its lease before.    *)

\* An attachment whose owner was asked to close has a retired lease; what failed
\* to close still retains the work that failed, and such an owner is not open.
Lapsing(i) ==
  /\ entries[i].tag = "Owned" => owner[i] \in {"open", "shut"} \/ entries[i].lease = Retired
  /\ owner[i] = "failed" => work[i] = "stuck"
  /\ work[i] = "stuck" => owner[i] # "open"
  /\ owner[i] = "shut" => work[i] = "stuck"
LeaseInv == \A i \in Ids : Lapsing(i)

\* Of attempt j, a step changes the lease at most to retire it, and the owner at
\* most while it does.
Quiet(j) ==
  /\ entries'[j].tag = "Owned" =>
       /\ entries[j].tag = "Owned"
       /\ entries'[j].lease = Retired \/ (entries'[j].lease = entries[j].lease /\ owner'[j] = owner[j])
  /\ owner'[j] = owner[j] \/ (owner[j] \in {"open", "shut"} /\ owner'[j] = "asked")
  /\ work'[j] = work[j]

\* A quiet step keeps what is known of leases.
LEMMA QuietKeeps == ASSUME NEW j \in Ids, Lapsing(j), Quiet(j) PROVE Lapsing(j)'
  BY DEF Lapsing, Quiet

\* What was forgotten or dropped leaves no entry behind that is owned.
LEMMA Untouched ==
  ASSUME NEW j \in Ids, entries'[j] = entries[j], owner'[j] = owner[j], work'[j] = work[j]
  PROVE  Quiet(j)
  BY DEF Quiet

\* Retiring an attachment and asking its owner to close it is quiet.
LEMMA RetireQuiet ==
  ASSUME Tables, NEW i \in Ids, entries' = Retire(entries, i), AskClose(i) \/ owner' = owner, work' = work
  PROVE  \A j \in Ids : Quiet(j)
<1>1. \A j \in Ids \ {i} : Quiet(j)
  BY Untouched DEF Retire, AskClose, Tables
<1>2. Quiet(i)
  <2>1. entries'[i].tag = entries[i].tag /\ (entries[i].tag = "Owned" => entries'[i].lease = Retired)
    BY DEF Retire, Tables, Entry
  <2>2. owner'[i] = owner[i] \/ (owner[i] \in {"open", "shut"} /\ owner'[i] = "asked")
    BY DEF AskClose, Tables
  <2> QED BY <2>1, <2>2 DEF Quiet
<1> QED BY <1>1, <1>2

\* So are forgetting an attachment, marking it and finishing an attempt.
LEMMA EntryQuiet ==
  ASSUME Tables, NEW i \in Ids, owner' = owner, work' = work,
         Forget(i) \/ MarkBlocked(i) \/ FinishAttempt(i)
  PROVE  \A j \in Ids : Quiet(j)
<1>1. \A j \in Ids \ {i} : Quiet(j)
  BY Untouched DEF Forget, MarkBlocked, FinishAttempt, Tables
<1>2. /\ entries'[i].tag = "Owned" => entries[i].tag = "Owned" /\ entries'[i].lease = entries[i].lease
  BY EntryTypes DEF Forget, MarkBlocked, FinishAttempt, Tables, Entry
<1>3. Quiet(i)
  BY <1>2 DEF Quiet
<1> QED BY <1>1, <1>3

\* Most steps are quiet everywhere.
LEMMA QuietSteps ==
  ASSUME Tables, [Next]_vars
  PROVE  \/ \E i \in Ids : (\E k \in Keys : PrepareOwner(i, k)) \/ PublishOwner(i) \/ Begin(i) \/ Owner(i)
         \/ Renew \/ StartWork
         \/ \A j \in Ids : Quiet(j)
<1>1. ASSUME UNCHANGED <<entries, owner, work>> PROVE \A j \in Ids : Quiet(j)
  BY <1>1, Untouched
<1>2. ASSUME NEW i \in Ids, Close(i) PROVE \A j \in Ids : Quiet(j)
  <2>1. ASSUME NEW c \in Closers, CloseSucceeds(c, i) \/ CloseFails(c, i) PROVE \A j \in Ids : Quiet(j)
    BY <2>1, EntryQuiet DEF CloseSucceeds, CloseFails
  <2>2. CASE Release(i) \/ ReleaseInterrupted(i) \/ WatchExpires(i)
    BY <2>2, RetireQuiet DEF Release, ReleaseInterrupted, WatchExpires
  <2>3. CASE AbandonRelease(i)
    BY <1>1, <2>3 DEF AbandonRelease, state
  <2>4. CASE WatchEnds(i)
    BY <1>1, <2>4, EntryQuiet DEF WatchEnds
  <2> QED BY <1>2, <2>1, <2>2, <2>3, <2>4 DEF Close
<1>3. ASSUME NEW d \in Drainers, Drain(d) PROVE \A j \in Ids : Quiet(j)
  <2>1. ASSUME NEW i \in Ids, DrainCloses(d, i) PROVE \A j \in Ids : Quiet(j)
    BY <2>1, RetireQuiet DEF DrainCloses
  <2>2. CASE DrainStarts(d) \/ DrainSettled(d) \/ DrainDone(d) \/ DrainTimesOut(d)
    BY <1>1, <2>2 DEF DrainStarts, DrainSettled, DrainDone, DrainTimesOut, state
  <2> QED BY <1>3, <2>1, <2>2 DEF Drain
<1>4. ASSUME NEW i \in Ids, Leave(i) \/ CheckCapacity(i) PROVE \A j \in Ids : Quiet(j)
  BY <1>1, <1>4, EntryQuiet DEF Leave, CheckCapacity, state
<1>5. CASE \/ Fence \/ IdleStarts \/ IdleDone \/ IdleFences \/ Tick \/ UNCHANGED vars
           \/ (\E i \in Ids : LookUp(i)) \/ Refused \/ Find \/ WorkRejected
  BY <1>1, <1>5 DEF Fence, IdleStarts, IdleDone, IdleFences, Tick, vars, state, LookUp, Refused, Find,
                    WorkRejected
<1> QED BY <1>2, <1>3, <1>4, <1>5
        DEF Next, Admit, AbandonWait, Refuse, NotPrepared, FinishAdmit, Access

\* What publishing does to the entry and the owner of its attempt.
LEMMA Publishes ==
  ASSUME Tables, NEW i \in Ids, PublishOwner(i)
  PROVE  /\ owner'[i] = "open" \/ (owner'[i] = "asked" /\ entries'[i].lease = Retired)
         /\ entries'[i].tag = "Owned" /\ work' = work /\ pc[i] = "prepared"
         /\ \A j \in Ids \ {i} : entries'[j] = entries[j] /\ owner'[j] = owner[j]
<1> DEFINE e == [entries[i] EXCEPT !.tag = "Owned", !.pending = TRUE, !.blocked = FALSE]
           published == [entries EXCEPT ![i] = e]
<1>1. e \in Entry /\ e.tag = "Owned"
  <2>1. entries[i] \in Entry
    BY DEF Tables
  <2>2. e.tag = "Owned"
    BY <2>1 DEF Entry
  <2> QED BY <2>1, <2>2, EntryUpdates
<1>2. published \in [Ids -> Entry] /\ published[i] = e /\ \A j \in Ids \ {i} : published[j] = entries[j]
  BY <1>1 DEF Tables
<1>3. \/ entries' = published /\ owner' = [owner EXCEPT ![i] = "open"]
      \/ entries' = Retire(published, i) /\ owner' = [owner EXCEPT ![i] = "asked"]
  BY DEF PublishOwner
<1>4. work' = work /\ pc[i] = "prepared"
  BY DEF PublishOwner
<1> HIDE DEF e, published
<1>5. CASE entries' = published /\ owner' = [owner EXCEPT ![i] = "open"]
  BY <1>1, <1>2, <1>4, <1>5 DEF Tables
<1>6. CASE entries' = Retire(published, i) /\ owner' = [owner EXCEPT ![i] = "asked"]
  <2>1. /\ Retire(published, i)[i].lease = Retired /\ Retire(published, i)[i].tag = "Owned"
        /\ \A j \in Ids \ {i} : Retire(published, i)[j] = published[j]
    BY <1>1, <1>2 DEF Retire, Entry
  <2> QED BY <1>2, <1>4, <1>6, <2>1 DEF Tables
<1> QED BY <1>3, <1>5, <1>6

\* A lease is renewed only while it is alive.
LEMMA Renews ==
  ASSUME Tables, Renew, access.id \in Ids
  PROVE  /\ accepting /\ entries[access.id].tag = "Owned" /\ LeaseIsEligible(access.id)
         /\ UNCHANGED <<owner, work, now>>
         /\ \A j \in Ids : entries'[j].tag = entries[j].tag
         /\ \A j \in Ids \ {access.id} : entries'[j] = entries[j]
  BY DEF Renew, AccessGranted, Eligible, Tables, Entry

\* Leases and owners agree after every step.
LEMMA LeaseStep == TypeOK /\ AttemptInv /\ LeaseInv /\ [Next]_vars => LeaseInv'
<1> SUFFICES ASSUME TypeOK, AttemptInv, LeaseInv, [Next]_vars PROVE LeaseInv'
  OBVIOUS
<1>0. Tables /\ now \in Nat
  BY TablesTyped DEF TypeOK
<1>1. CASE \A j \in Ids : Quiet(j)
  BY <1>1, QuietKeeps DEF LeaseInv
<1>2. ASSUME NEW i \in Ids, Lapsing(i)', \A j \in Ids \ {i} : Quiet(j) PROVE LeaseInv'
  BY <1>2, QuietKeeps DEF LeaseInv
<1>3. ASSUME NEW i \in Ids, NEW k \in Keys, PrepareOwner(i, k) PROVE LeaseInv'
  <2>1. entries'[i].tag = "Acquiring" /\ UNCHANGED <<owner, work>>
    BY <1>0, <1>3 DEF PrepareOwner, Acquiring, Tables
  <2>2. \A j \in Ids \ {i} : Quiet(j)
    BY <1>0, <1>3, Untouched DEF PrepareOwner, Tables
  <2> QED BY <1>2, <2>1, <2>2 DEF LeaseInv, Lapsing
<1>4. ASSUME NEW i \in Ids, Begin(i) PROVE LeaseInv'
  <2>1. pc[i] = "new" /\ UNCHANGED <<owner, work>> /\ entries'[i].tag # "Owned"
    BY <1>0, <1>4, EntryTypes DEF Begin, Tables, AttemptInv, Attempt
  <2>2. \A j \in Ids \ {i} : Quiet(j)
    BY <1>0, <1>4, Untouched DEF Begin, Tables
  <2> QED BY <1>2, <2>1, <2>2 DEF LeaseInv, Lapsing
<1>5. ASSUME NEW i \in Ids, PublishOwner(i) PROVE LeaseInv'
  <2>1. pc[i] = "prepared" /\ work' = work /\ work[i] = "none"
    BY <1>0, <1>5, Publishes DEF AttemptInv, Attempt
  <2>2. Lapsing(i)'
    BY <1>0, <1>5, <2>1, Publishes DEF Lapsing
  <2>3. \A j \in Ids \ {i} : Quiet(j)
    BY <1>0, <1>5, <2>1, Publishes, Untouched
  <2> QED BY <1>2, <2>2, <2>3
<1>6. ASSUME NEW i \in Ids, Owner(i) PROVE LeaseInv'
  <2>1. /\ entries' = entries
        /\ \A j \in Ids \ {i} : owner'[j] = owner[j] /\ work'[j] = work[j]
    BY <1>0, <1>6 DEF Owner, WorkEnds, WorkSticks, OwnerAnswers, Tables, state
  <2>2. \/ owner'[i] = owner[i] /\ work[i] = "running" /\ work'[i] = "none"
        \/ /\ work[i] = "running" /\ work'[i] = "stuck"
           /\ owner'[i] = IF owner[i] = "open" THEN "shut" ELSE owner[i]
        \/ work'[i] = work[i] /\ owner[i] = "asked" /\ work[i] = "none" /\ owner'[i] = "drained"
        \/ work'[i] = work[i] /\ owner[i] = "asked" /\ work[i] = "stuck" /\ owner'[i] = "failed"
    BY <1>0, <1>6 DEF Owner, WorkEnds, WorkSticks, OwnerAnswers, Tables
  <2>3. Lapsing(i)'
    BY <2>1, <2>2 DEF LeaseInv, Lapsing
  <2>4. \A j \in Ids \ {i} : Quiet(j)
    BY <2>1, Untouched
  <2> QED BY <1>2, <2>3, <2>4
<1>7. CASE Renew
  <2>1. ASSUME NEW i \in Ids, access.id = i PROVE LeaseInv'
    <3>1. \A j \in Ids \ {i} : Quiet(j)
      BY <1>0, <1>7, <2>1, Renews, Untouched
    <3>2. entries[i].tag = "Owned" /\ entries[i].lease # Retired
      BY <1>0, <1>7, <2>1, Renews DEF LeaseIsEligible, Retired
    <3>3. Lapsing(i)'
      BY <1>0, <1>7, <2>1, <3>2, Renews DEF LeaseInv, Lapsing
    <3> QED BY <1>2, <3>1, <3>3
  <2>2. CASE access.id \notin Ids
    <3>1. UNCHANGED <<owner, work>> /\ \A j \in Ids : entries'[j] = entries[j]
      BY <1>0, <1>7, <2>2 DEF Renew, Tables
    <3> QED BY <1>1, <3>1, Untouched
  <2> QED BY <2>1, <2>2
<1>8. CASE StartWork
  <2>1. /\ UNCHANGED <<entries, owner>>
        /\ \A j \in Ids : work'[j] = work[j] \/ (owner[j] = "open" /\ work'[j] = "running")
    BY <1>0, <1>8 DEF StartWork, Tables, state
  <2> QED BY <2>1 DEF LeaseInv, Lapsing
<1> QED BY <1>0, <1>1, <1>3, <1>4, <1>5, <1>6, <1>7, <1>8, QuietSteps

\* A generation that was fenced for idleness has nothing and gets nothing.
IdleInv == idle = "fenced" => ~accepting /\ Members = {} /\ Pending = {}

LEMMA IdleStep == TypeOK /\ AttemptInv /\ IdleInv /\ [Next]_vars => IdleInv'
<1> SUFFICES ASSUME TypeOK, AttemptInv, IdleInv, [Next]_vars, idle' = "fenced"
             PROVE  ~accepting' /\ Members' = {} /\ Pending' = {}
  BY DEF IdleInv
<1>1. CASE idle = "fenced"
  <2>1. ~accepting /\ Members = {} /\ Pending = {}
    BY <1>1 DEF IdleInv
  <2> QED BY <2>1, Settled, FenceStays
<1>2. CASE idle # "fenced"
  <2>1. IdleFences
    BY <1>2 DEF Next, vars, state, Admit, Begin, AbandonWait, Refuse, NotPrepared, FinishAdmit,
       Leave, CheckCapacity, PrepareOwner, PublishOwner, Close, CloseSucceeds, CloseFails,
       Release, ReleaseInterrupted, AbandonRelease, WatchExpires, WatchEnds, Owner,
       WorkEnds, WorkSticks, OwnerAnswers, Drain, DrainStarts, DrainSettled, DrainCloses,
       DrainDone, DrainTimesOut, Fence, IdleStarts, IdleDone, Access, LookUp,
       Refused, Renew, Find, StartWork, WorkRejected, Tick
  <2> QED BY <2>1 DEF IdleFences, Members, Pending
<1> QED BY <1>1, <1>2

-----------------------------------------------------------------------------
(* What the leases are worth.                                              *)

SInv == IInv /\ LeaseInv /\ IdleInv

\* The leases agree with the owners in every state.
LEMMA SafeInductive == Spec => []SInv
<1>1. Init => LeaseInv /\ IdleInv
  BY EntryTypes DEF Init, LeaseInv, Lapsing, IdleInv
<1>2. IInv /\ LeaseInv /\ IdleInv /\ [Next]_vars => (LeaseInv /\ IdleInv)'
  BY LeaseStep, IdleStep DEF IInv
<1> QED BY <1>1, <1>2, Inductive, PTL DEF Spec, SInv

\* For any adapters, owners, closers and drains: an adapter whose lease is alive in
\* an accepting generation is served by an owner nobody has asked to close, and a
\* generation that retires for idleness has no adapter, none on its way in, and
\* gets none afterwards.
THEOREM NobodyStranded == Spec => []NobodyIsStranded
<1>1. SInv => NobodyIsStranded
  <2> SUFFICES ASSUME SInv PROVE LiveLeaseIsServed /\ IdleStrandsNobody
    BY DEF NobodyIsStranded
  <2>1. LiveLeaseIsServed
    <3> SUFFICES ASSUME NEW i \in Members, LeaseIsEligible(i) PROVE owner[i] \in {"open", "shut"}
      BY DEF LiveLeaseIsServed
    <3>1. Lapsing(i) /\ entries[i].tag = "Owned" /\ now \in Nat
      BY DEF SInv, LeaseInv, IInv, TypeOK, Members
    <3> QED BY <3>1 DEF Lapsing, LeaseIsEligible, Retired
  <2>2. IdleStrandsNobody
    <3> SUFFICES ASSUME idle = "fenced"
                 PROVE  /\ Members = {} /\ Pending = {}
                        /\ \A i \in Ids : pc[i] \in {"new", "over"} /\ work[i] = "none"
      BY DEF IdleStrandsNobody
    <3>1. Members = {} /\ Pending = {}
      BY DEF SInv, IdleInv
    <3>2. Tables
      BY TablesTyped DEF SInv, IInv
    <3>3. ASSUME NEW i \in Ids PROVE pc[i] \in {"new", "over"} /\ work[i] = "none"
      <4>1. entries[i].tag \notin {"Queued", "Acquiring", "Settling", "Owned"}
        BY <3>1 DEF Members, Pending
      <4> QED BY <3>2, <4>1 DEF SInv, IInv, AttemptInv, Attempt, Tables
    <3> QED BY <3>1, <3>3
  <2> QED BY <2>1, <2>2
<1> QED BY <1>1, SafeInductive, PTL

\* An operator is told "blocked" exactly when a cleanup has failed and something is
\* left of it, however many drains have failed before.
THEOREM StatusTrue == Spec => []StatusIsTruthful
<1>1. SInv => StatusIsTruthful
  <2> SUFFICES ASSUME SInv PROVE StatusIsTruthful
    OBVIOUS
  <2>1. ASSUME NEW i \in Ids, owner[i] = "failed" \/ work[i] = "stuck" PROVE DrainStatus = "blocked"
    <3>1. work[i] = "stuck"
      BY <2>1 DEF SInv, LeaseInv, Lapsing
    <3>2. i \in Members
      BY <3>1 DEF SInv, IInv, AttemptInv, Attempt, Members
    <3> QED BY <3>1, <3>2 DEF DrainStatus
  <2>2. DrainStatus = "blocked" => Members # {} \/ Pending # {}
    BY DEF DrainStatus
  <2> QED BY <2>1, <2>2 DEF StatusIsTruthful
<1> QED BY <1>1, SafeInductive, PTL

-----------------------------------------------------------------------------
(* What has lapsed never comes back.                                       *)

\* The entry an attachment leaves, or keeps, has the lease it had or none.
LeaseKept(j) == entries'[j].lease \in {Retired, entries[j].lease}

\* The transitions shared by several callers keep or retire the lease.
LEMMA LeaseTransitions ==
  ASSUME Tables, NEW i \in Ids, NEW j \in Ids, entries[j].tag = "Owned",
         \/ entries' = entries \/ entries' = Retire(entries, i)
         \/ Forget(i) \/ MarkBlocked(i) \/ FinishAttempt(i)
  PROVE  LeaseKept(j)
<1>1. Absent.lease = Retired /\ Settling.lease = Retired
  BY DEF Absent, Settling
<1>2. entries[i] \in Entry
  BY DEF Tables
<1>3. CASE entries' = Retire(entries, i)
  BY <1>2, <1>3 DEF Retire, Tables, LeaseKept, Entry
<1>4. CASE Forget(i)
  BY <1>1, <1>2, <1>4 DEF Forget, Tables, LeaseKept
<1>5. CASE MarkBlocked(i)
  BY <1>2, <1>5 DEF MarkBlocked, Tables, LeaseKept, Entry
<1>6. CASE FinishAttempt(i)
  BY <1>1, <1>2, <1>6 DEF FinishAttempt, Tables, LeaseKept, Entry
<1> QED BY <1>3, <1>4, <1>5, <1>6 DEF LeaseKept

\* Only a renewal gives an attachment another lease.
LEMMA LeaseSteps ==
  ASSUME Tables, AttemptInv, [Next]_vars, ~Renew, NEW j \in Ids, entries[j].tag = "Owned"
  PROVE  LeaseKept(j)
<1>1. CASE entries' = entries
  BY <1>1 DEF LeaseKept
<1>2. ASSUME NEW i \in Ids, i # j, \A h \in Ids \ {i} : entries'[h] = entries[h] PROVE LeaseKept(j)
  BY <1>2 DEF LeaseKept
<1>3. ASSUME NEW i \in Ids, Admit(i) PROVE LeaseKept(j)
  <2>1. CASE Leave(i)
    BY <2>1, LeaseTransitions DEF Leave
  <2>2. CASE CheckCapacity(i)
    BY <1>1, <2>2 DEF CheckCapacity, state
  <2>3. CASE Begin(i) \/ (\E k \in Keys : PrepareOwner(i, k)) \/ PublishOwner(i)
    <3>1. i # j
      BY <2>3 DEF AttemptInv, Attempt, Begin, PrepareOwner, PublishOwner
    <3>2. \A h \in Ids \ {i} : entries'[h] = entries[h]
      <4>1. CASE Begin(i) \/ \E k \in Keys : PrepareOwner(i, k)
        BY <4>1 DEF Begin, PrepareOwner, Tables
      <4>2. CASE PublishOwner(i)
        BY <4>2, Publishes
      <4> QED BY <2>3, <4>1, <4>2
    <3> QED BY <1>2, <3>1, <3>2
  <2> QED BY <1>3, <2>1, <2>2, <2>3 DEF Admit, AbandonWait, Refuse, NotPrepared, FinishAdmit
<1>4. ASSUME NEW i \in Ids, Close(i) PROVE LeaseKept(j)
  <2>1. \/ entries' = entries \/ entries' = Retire(entries, i) \/ Forget(i) \/ MarkBlocked(i)
    BY <1>4 DEF Close, CloseSucceeds, CloseFails, Release, ReleaseInterrupted, AbandonRelease,
                WatchExpires, WatchEnds, state
  <2> QED BY <2>1, LeaseTransitions
<1>5. ASSUME NEW d \in Drainers, Drain(d) PROVE LeaseKept(j)
  <2>1. entries' = entries \/ \E i \in Ids : entries' = Retire(entries, i)
    BY <1>5 DEF Drain, DrainStarts, DrainSettled, DrainDone, DrainTimesOut, DrainCloses, state
  <2> QED BY <2>1, LeaseTransitions
<1>6. CASE \/ Fence \/ IdleStarts \/ IdleDone \/ IdleFences \/ Access \/ Tick \/ UNCHANGED vars
           \/ \E i \in Ids : Owner(i)
  BY <1>1, <1>6 DEF Fence, IdleStarts, IdleDone, IdleFences, Tick, vars, state, Access, LookUp, Refused,
     Find, StartWork, WorkRejected, Owner, WorkEnds, WorkSticks, OwnerAnswers
<1> QED BY <1>3, <1>4, <1>5, <1>6 DEF Next

\* Time does not go back.
LEMMA TimePasses == TypeOK /\ [Next]_vars => now' \in Nat /\ now' >= now
<1> SUFFICES ASSUME TypeOK, [Next]_vars PROVE now' \in Nat /\ now' >= now
  OBVIOUS
<1>1. now' = now \/ now' = now + 1
  BY DEF Next, vars, state, Admit, Begin, AbandonWait, Refuse, NotPrepared, FinishAdmit,
     Leave, CheckCapacity, PrepareOwner, PublishOwner, Close, CloseSucceeds, CloseFails,
     Release, ReleaseInterrupted, AbandonRelease, WatchExpires, WatchEnds, Owner,
     WorkEnds, WorkSticks, OwnerAnswers, Drain, DrainStarts, DrainSettled, DrainCloses,
     DrainDone, DrainTimesOut, Fence, IdleStarts, IdleDone, IdleFences, Access, LookUp,
     Refused, Renew, Find, StartWork, WorkRejected, Tick
<1> QED BY <1>1 DEF TypeOK

\* Only withWork gives an owner work to do that had none.
LEMMA WorkSteps ==
  ASSUME Tables, [Next]_vars, NEW j \in Ids, work[j] = "none", work'[j] # "none"
  PROVE  StartWork /\ access.id = j
<1>1. work' # work
  BY DEF Tables
<1>2. ~(\E i \in Ids : Owner(i))
  BY DEF Owner, WorkEnds, WorkSticks, OwnerAnswers, Tables
<1>3. StartWork
  BY <1>1, <1>2 DEF Next, vars, state, Admit, Begin, AbandonWait, Refuse, NotPrepared, FinishAdmit,
     Leave, CheckCapacity, PrepareOwner, PublishOwner, Close, CloseSucceeds, CloseFails,
     Release, ReleaseInterrupted, AbandonRelease, WatchExpires, WatchEnds,
     Drain, DrainStarts, DrainSettled, DrainCloses,
     DrainDone, DrainTimesOut, Fence, IdleStarts, IdleDone, IdleFences, Access, LookUp,
     Refused, Renew, Find, WorkRejected, Tick
<1>4. access.id = j
  BY <1>3 DEF StartWork, Tables
<1> QED BY <1>3, <1>4

\* A lease that has lapsed or was retired never comes back, and no request starts
\* through a handle that went stale, whatever happened between find and withWork.
THEOREM StaleStays == Spec => StaleIsFinal
<1>1. SInv /\ [Next]_vars =>
        /\ \A i \in Members : now >= entries[i].lease => now' >= entries'[i].lease
        /\ \A i \in Ids : work[i] = "none" /\ work'[i] # "none" =>
             owner[i] = "open" /\ accepting /\ i \in Members /\ LeaseIsEligible(i)
  <2> SUFFICES ASSUME SInv, [Next]_vars
               PROVE  /\ \A i \in Members : now >= entries[i].lease => now' >= entries'[i].lease
                      /\ \A i \in Ids : work[i] = "none" /\ work'[i] # "none" =>
                           owner[i] = "open" /\ accepting /\ i \in Members /\ LeaseIsEligible(i)
    OBVIOUS
  <2>0. TypeOK /\ Tables /\ AttemptInv /\ now \in Nat
    BY TablesTyped DEF SInv, IInv, TypeOK
  <2>1. ASSUME NEW i \in Members, now >= entries[i].lease PROVE now' >= entries'[i].lease
    <3>1. i \in Ids /\ entries[i].tag = "Owned" /\ entries[i].lease \in Nat \union {Retired}
      BY <2>0 DEF Members, Tables, Entry
    <3>2. CASE Renew
      <4>1. access.id \in Ids => access.id # i
        BY <2>0, <2>1, <3>1, <3>2, Renews DEF LeaseIsEligible, Retired
      <4>2. entries'[i] = entries[i] /\ now' = now
        BY <2>0, <3>1, <3>2, <4>1 DEF Renew, Tables
      <4> QED BY <2>1, <4>2
    <3>3. CASE ~Renew
      BY <2>0, <2>1, <3>1, <3>3, LeaseSteps, TimePasses DEF LeaseKept, Retired
    <3> QED BY <3>2, <3>3
  <2>2. ASSUME NEW i \in Ids, work[i] = "none", work'[i] # "none"
        PROVE  owner[i] = "open" /\ accepting /\ i \in Members /\ LeaseIsEligible(i)
    <3>1. StartWork /\ access.id = i
      BY <2>0, <2>2, WorkSteps
    <3>2. owner[i] = "open" /\ accepting /\ LeaseIsEligible(i)
      BY <3>1 DEF StartWork, Eligible
    <3> QED BY <2>0, <3>2 DEF AttemptInv, Attempt, Members
  <2> QED BY <2>1, <2>2
<1> QED BY <1>1, SafeInductive, PTL DEF Spec, StaleIsFinal

-----------------------------------------------------------------------------
(* The owners keep their contract.                                         *)

\* A step that changes neither the owner nor the work of an attachment is none of
\* the contract's.
LEMMA ContractStutters ==
  ASSUME NEW i \in Ids, owner'[i] = owner[i], work'[i] = work[i]
  PROVE  UNCHANGED Contract(i)!vars
  BY DEF Contract!vars

\* Asking an owner to close is the contract's Ask.
LEMMA ContractAsked ==
  ASSUME NEW i \in Ids, work'[i] = work[i], owner[i] \in {"none", "open", "shut"}, owner'[i] = "asked"
  PROVE  Contract(i)!Ask
  BY DEF Contract!Ask

\* A quiet step asks at most.
LEMMA ContractQuiet ==
  ASSUME NEW i \in Ids, Quiet(i)
  PROVE  Contract(i)!Next \/ UNCHANGED Contract(i)!vars
  BY ContractStutters, ContractAsked DEF Quiet, Contract!Next

\* What an owner does with its work it does as the contract says.
LEMMA ContractOwner ==
  ASSUME Tables, NEW i \in Ids, Attempt(i), Owner(i)
  PROVE  Contract(i)!Next
<1>1. CASE WorkEnds(i)
  <2>1. work[i] = "running" /\ work'[i] = "none" /\ owner' = owner
    BY <1>1 DEF WorkEnds, Tables
  <2>2. Contract(i)!Discharge(i)
    BY <2>1 DEF Contract!Discharge
  <2> QED BY <2>2 DEF Contract!Next
<1>2. CASE WorkSticks(i)
  <2>1. /\ work[i] = "running" /\ work'[i] = "stuck" /\ owner[i] # "none"
        /\ owner'[i] = IF owner[i] = "open" THEN "shut" ELSE owner[i]
    BY <1>2 DEF WorkSticks, Tables, Attempt
  <2>2. Contract(i)!Stick(i)
    BY <2>1 DEF Contract!Stick
  <2> QED BY <2>2 DEF Contract!Next
<1>3. CASE OwnerAnswers(i)
  <2>1. /\ owner[i] = "asked" /\ work'[i] = work[i]
        /\ \/ work[i] = "none" /\ owner'[i] = "drained"
           \/ work[i] = "stuck" /\ owner'[i] = "failed"
    BY <1>3 DEF OwnerAnswers, Tables
  <2>2. Contract(i)!Answer
    BY <2>1 DEF Contract!Answer
  <2> QED BY <2>2 DEF Contract!Next
<1> QED BY <1>1, <1>2, <1>3 DEF Owner

\* A request that starts is retained, unless one was under way already, which the
\* model folds into one.
LEMMA ContractWork ==
  ASSUME Tables, StartWork, NEW i \in Ids, Lapsing(i)
  PROVE  Contract(i)!Next \/ UNCHANGED Contract(i)!vars
<1>1. owner'[i] = owner[i]
  BY DEF StartWork, state
<1>2. CASE access.id = i
  <2>1. owner[i] = "open" /\ work'[i] = "running" /\ work[i] \in {"none", "running"}
    BY <1>2 DEF StartWork, Tables, Lapsing
  <2>2. CASE work[i] = "running"
    BY <1>1, <2>1, <2>2, ContractStutters
  <2>3. CASE work[i] = "none"
    <3>1. Contract(i)!Cardinality({}) = Cardinality({})
      BY DEF Cardinality, Contract!Cardinality, IsFiniteSet, Contract!IsFiniteSet
    <3>2. Contract(i)!Cardinality({}) < 1
      BY <3>1, FS_EmptySet
    <3>3. Contract(i)!Retain(i)
      BY <1>1, <2>1, <2>3, <3>2 DEF Contract!Retain
    <3> QED BY <3>3 DEF Contract!Next
  <2> QED BY <2>1, <2>2, <2>3
<1>3. CASE access.id # i
  <2>1. work'[i] = work[i]
    BY <1>3 DEF StartWork, Tables
  <2> QED BY <1>1, <2>1, ContractStutters
<1> QED BY <1>2, <1>3

\* The admissions use every owner within the contract that an AttachmentOwner is
\* proved to implement: none is created twice, handed work after it was asked to
\* close or after a failed cleanup, or answers a close twice.
THEOREM ContractKept == Spec => OwnersKeepContract
<1>1. Init => \A i \in Ids : Contract(i)!Init
  BY DEF Init, Contract!Init
<1>2. SInv /\ [Next]_vars => \A i \in Ids : Contract(i)!Next \/ UNCHANGED Contract(i)!vars
  <2> SUFFICES ASSUME SInv, [Next]_vars, NEW i \in Ids
               PROVE  Contract(i)!Next \/ UNCHANGED Contract(i)!vars
    OBVIOUS
  <2>0. Tables /\ Attempt(i) /\ Lapsing(i)
    BY TablesTyped DEF SInv, IInv, AttemptInv, LeaseInv
  <2>1. ASSUME NEW j \in Ids, (\E k \in Keys : PrepareOwner(j, k)) \/ Begin(j)
        PROVE  UNCHANGED Contract(i)!vars
    BY <2>1, ContractStutters DEF PrepareOwner, Begin
  <2>2. ASSUME NEW j \in Ids, PublishOwner(j)
        PROVE  Contract(i)!Next \/ UNCHANGED Contract(i)!vars
    <3>1. CASE i # j
      BY <2>0, <2>2, <3>1, Publishes, ContractStutters
    <3>2. CASE i = j
      <4>1. owner[i] = "none" /\ work'[i] = work[i] /\ owner'[i] \in {"open", "asked"}
        BY <2>0, <2>2, <3>2, Publishes DEF Attempt
      <4>2. CASE owner'[i] = "open"
        BY <4>1, <4>2 DEF Contract!vars
      <4>3. CASE owner'[i] = "asked"
        BY <4>1, <4>3, ContractAsked DEF Contract!Next
      <4> QED BY <4>1, <4>2, <4>3
    <3> QED BY <3>1, <3>2
  <2>3. ASSUME NEW j \in Ids, Owner(j)
        PROVE  Contract(i)!Next \/ UNCHANGED Contract(i)!vars
    <3>1. CASE i # j
      BY <2>0, <2>3, <3>1, ContractStutters DEF Owner, WorkEnds, WorkSticks, OwnerAnswers, Tables
    <3>2. CASE i = j
      BY <2>0, <2>3, <3>2, ContractOwner
    <3> QED BY <3>1, <3>2
  <2>4. CASE Renew
    BY <2>4, ContractStutters DEF Renew
  <2>5. CASE StartWork
    BY <2>0, <2>5, ContractWork
  <2>6. CASE \A j \in Ids : Quiet(j)
    BY <2>6, ContractQuiet
  <2> QED BY <2>0, <2>1, <2>2, <2>3, <2>4, <2>5, <2>6, QuietSteps
<1> QED BY <1>1, <1>2, SafeInductive, PTL DEF Spec, OwnersKeepContract
=============================================================================
