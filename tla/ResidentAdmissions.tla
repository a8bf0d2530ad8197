-------------------------- MODULE ResidentAdmissions --------------------------
(***************************************************************************)
(* The admissions of one resident generation: makeResidentAdmissions in   *)
(* src/resident/admissions.ts with the transition functions of            *)
(* admission-attempt-state.ts, admission-member-state.ts,                  *)
(* admission-lifetime-state.ts and admissions-state.ts.                    *)
(*                                                                         *)
(* Adapters ask to be admitted (admit), renew and use their lease (access) *)
(* and go away (release).  A watch fiber per attachment closes it when its *)
(* lease lapses; a managed generation fences itself when idle; a drain     *)
(* closes everything at the end.  All of them close the same owners, so    *)
(* every close can meet another one half way.                              *)
(*                                                                         *)
(* The owner of an attachment is what OwnerContract says it is, with its   *)
(* requests folded into one: work[i] is "running" while any request of     *)
(* attachment i is retained, "stuck" once the cleanup of one has failed.   *)
(*                                                                         *)
(* Each action is the code between two points where its fiber can be       *)
(* suspended.  The timeout of a close may fire whenever the close has not  *)
(* returned; no relation between the two allowances is assumed.            *)
(***************************************************************************)
EXTENDS Integers, FiniteSets

CONSTANTS
  Ids,              \* admission attempts, one AdmissionIdentity each
  Keys,             \* token digests
  Capacity,         \* policy.capacity
  LeaseDuration,    \* policy.lease.durationMillis, in ticks
  IdleAllowance,    \* MANAGED_IDLE_MILLIS, in ticks
  Drainers,         \* calls of drain: manual-backend.ts:167, 174
  MaxTime,          \* the bound on the clock
  NoId, NoKey

ASSUME IdsAssumption == IsFiniteSet(Ids) /\ NoId \notin Ids /\ NoKey \notin Keys
ASSUME PolicyAssumption ==
  /\ Capacity \in Nat \ {0} /\ LeaseDuration \in Nat \ {0}
  /\ IdleAllowance \in Nat /\ MaxTime \in Nat
ASSUME CallersAssumption == {"admit", "release"} \intersect Drainers = {}

VARIABLES
  accepting,        \* AdmissionsState.accepting
  entries,          \* AdmissionsState.entries
  idleSince,        \* AdmissionsState.idleSince
  drainFailed,      \* AdmissionsState.drainFailed
  permit,           \* holder of the semaphore
  pc,               \* where each call of admit stands
  owner,            \* "none", then the owner's side of OwnerContract
  work,             \* "none", "running", "stuck"
  watch,            \* the watch fiber of each attachment
  joined,           \* <<caller, id>>: a closeOwned waiting for owner.close
  drainPc, drainTodo, \* where each drain stands, members it has not started on
  idle,             \* awaitIdleAndFence
  access,           \* one access(token, renew) and the handle it got
  now

state == <<accepting, entries, idleSince, drainFailed>>
vars == <<state, permit, pc, owner, work, watch, joined, drainPc, drainTodo,
          idle, access, now>>

-----------------------------------------------------------------------------
(* admissions-state.ts                                                     *)

Retired == -1       \* the lease tag; an eligible lease is its expiry time
Absent == [tag |-> "Absent", key |-> NoKey, lease |-> Retired,
           pending |-> FALSE, blocked |-> FALSE]
Queued == [Absent EXCEPT !.tag = "Queued"]
Settling == [Absent EXCEPT !.tag = "Settling"]
Acquiring(k) == [tag |-> "Acquiring", key |-> k, lease |-> now + LeaseDuration,
                 pending |-> FALSE, blocked |-> FALSE]

Entry == [tag : {"Absent", "Queued", "Acquiring", "Owned", "Settling"},
          key : Keys \union {NoKey}, lease : Nat \union {Retired},
          pending : BOOLEAN, blocked : BOOLEAN]

Members == {i \in Ids : entries[i].tag = "Owned"}
\* Mutation: an attempt counts as pending only once it has the permit.
PendingWithoutQueued ==
  {i \in Ids : \/ entries[i].tag \in {"Acquiring", "Settling"}
               \/ entries[i].tag = "Owned" /\ entries[i].pending}
Pending == {i \in Ids : \/ entries[i].tag \in {"Queued", "Acquiring", "Settling"}
                        \/ entries[i].tag = "Owned" /\ entries[i].pending}
LeaseIsEligible(i) == now < entries[i].lease
Eligible(i) == /\ accepting
               /\ entries[i].tag \in {"Acquiring", "Owned"}
               /\ LeaseIsEligible(i)

TypeOK ==
  /\ accepting \in BOOLEAN /\ drainFailed \in BOOLEAN
  /\ entries \in [Ids -> Entry]
  /\ idleSince \in Nat /\ now \in Nat
  /\ permit \in Ids \union {NoId}
  /\ pc \in [Ids -> {"new", "waiting", "checked", "prepared", "closing", "leaving", "over"}]
  /\ owner \in [Ids -> {"none", "open", "shut", "asked", "drained", "failed"}]
  /\ work \in [Ids -> {"none", "running", "stuck"}]
  /\ watch \in [Ids -> {"none", "armed", "joined", "over"}]
  /\ joined \subseteq ({"admit", "release"} \union Drainers) \X Ids
  /\ drainPc \in [Drainers -> {"no", "polling", "closing", "done", "failed"}]
  /\ drainTodo \in [Drainers -> SUBSET Ids]
  /\ idle \in {"no", "looping", "fenced", "seen"}
  /\ access \in [stage : {"none", "read", "holding"}, id : Ids \union {NoId},
                 key : Keys \union {NoKey}, ownerAccepting : BOOLEAN]

NoAccess == [stage |-> "none", id |-> NoId, key |-> NoKey, ownerAccepting |-> FALSE]

Init ==
  /\ accepting = TRUE /\ entries = [i \in Ids |-> Absent]
  /\ idleSince = 0 /\ drainFailed = FALSE
  /\ permit = NoId /\ pc = [i \in Ids |-> "new"]
  /\ owner = [i \in Ids |-> "none"] /\ work = [i \in Ids |-> "none"]
  /\ watch = [i \in Ids |-> "none"] /\ joined = {}
  /\ drainPc = [d \in Drainers |-> "no"] /\ drainTodo = [d \in Drainers |-> {}]
  /\ idle = "no" /\ access = NoAccess /\ now = 0

-----------------------------------------------------------------------------
(* Transitions shared by several callers.                                  *)

\* Mutation: an entry forgotten while pending is left Settling.
FinishAttemptKeepsSettling(i) ==
  IF entries[i].tag \in {"Absent", "Settling"} \/ (entries[i].tag = "Owned" /\ ~entries[i].pending)
  THEN UNCHANGED <<entries, idleSince>>
  ELSE /\ entries' = [entries EXCEPT ![i] =
                        IF @.tag = "Owned" THEN [@ EXCEPT !.pending = FALSE] ELSE Absent]
       /\ idleSince' = now

\* FinishAttempt: an owned entry stops being pending, any other one is dropped
FinishAttempt(i) ==
  IF entries[i].tag = "Absent" \/ (entries[i].tag = "Owned" /\ ~entries[i].pending)
  THEN UNCHANGED <<entries, idleSince>>
  ELSE /\ entries' = [entries EXCEPT ![i] =
                        IF @.tag = "Owned" THEN [@ EXCEPT !.pending = FALSE] ELSE Absent]
       /\ idleSince' = now

\* Retire
Retire(es, i) == IF es[i].tag = "Owned" THEN [es EXCEPT ![i].lease = Retired] ELSE es

\* Mutation: closing again forgets the answer already given.
AskCloseAgain(i) == owner' = [owner EXCEPT ![i] = "asked"]

\* owner.close, up to the point where it joins the drain of the owner
AskClose(i) ==
  owner' = [owner EXCEPT ![i] = IF @ \in {"open", "shut"} THEN "asked" ELSE @]

\* forget: Closed is confirmed only by the owner's drain
Forget(i) ==
  IF entries[i].tag # "Owned" THEN UNCHANGED <<entries, idleSince>>
  ELSE /\ entries' = [entries EXCEPT ![i] = IF @.pending THEN Settling ELSE Absent]
       /\ idleSince' = now

\* CleanupBlocked
MarkBlocked(i) ==
  entries' = IF entries[i].tag = "Owned" THEN [entries EXCEPT ![i].blocked = TRUE]
             ELSE entries

-----------------------------------------------------------------------------
(* admit                                                                   *)

Begin(i) ==
  /\ pc[i] = "new"
  /\ IF accepting
     THEN /\ entries' = [entries EXCEPT ![i] = Queued]
          /\ idleSince' = now
          /\ pc' = [pc EXCEPT ![i] = "waiting"]
     ELSE /\ pc' = [pc EXCEPT ![i] = "over"]
          /\ UNCHANGED <<entries, idleSince>>
  /\ UNCHANGED <<accepting, drainFailed, permit, owner, work, watch, joined,
                 drainPc, drainTodo, idle, access, now>>

\* Mutation: the permit is not given back.
LeaveWithPermit(i) ==
  /\ FinishAttempt(i)
  /\ pc' = [pc EXCEPT ![i] = "over"]
  /\ UNCHANGED <<accepting, drainFailed, permit, owner, work, watch, joined,
                 drainPc, drainTodo, idle, access, now>>

\* The body returned, failed or was interrupted: the permit is given back and
\* the release half of acquireUseRelease finishes the attempt.
Leave(i) ==
  /\ FinishAttempt(i)
  /\ permit' = IF permit = i THEN NoId ELSE permit
  /\ pc' = [pc EXCEPT ![i] = "over"]
  /\ UNCHANGED <<accepting, drainFailed, owner, work, watch, joined,
                 drainPc, drainTodo, idle, access, now>>

\* the caller is interrupted while it waits for the permit
AbandonWait(i) == pc[i] = "waiting" /\ Leave(i)

Refusal(i) == ~accepting \/ entries[i].tag # "Queued"
AtCapacity == Cardinality(Members) >= Capacity

Refuse(i) ==
  /\ pc[i] = "waiting" /\ permit = NoId
  /\ Refusal(i) \/ AtCapacity
  /\ Leave(i)

\* Mutation: the capacity is checked without holding the permit.
CheckCapacityConcurrently(i) ==
  /\ pc[i] = "waiting" /\ ~Refusal(i) /\ ~AtCapacity
  /\ permit' = i
  /\ pc' = [pc EXCEPT ![i] = "checked"]
  /\ UNCHANGED <<state, owner, work, watch, joined, drainPc, drainTodo, idle, access, now>>

\* the permit is granted and CheckCapacity proceeds; the rest of the body runs
\* uninterruptibly
CheckCapacity(i) ==
  /\ pc[i] = "waiting" /\ permit = NoId
  /\ ~Refusal(i) /\ ~AtCapacity
  /\ permit' = i
  /\ pc' = [pc EXCEPT ![i] = "checked"]
  /\ UNCHANGED <<state, owner, work, watch, joined, drainPc, drainTodo, idle, access, now>>

KeyTaken(k) == \E j \in Members : entries[j].key = k

\* no token could be drawn, or PrepareOwner refuses the one drawn
NotPrepared(i) == pc[i] = "checked" /\ Leave(i)

PrepareOwner(i, k) ==
  /\ pc[i] = "checked" /\ ~Refusal(i) /\ ~KeyTaken(k)
  /\ entries' = [entries EXCEPT ![i] = Acquiring(k)]
  /\ pc' = [pc EXCEPT ![i] = "prepared"]
  /\ UNCHANGED <<accepting, idleSince, drainFailed, permit, owner, work, watch,
                 joined, drainPc, drainTodo, idle, access, now>>

\* Mutation: the watch is not forked.
PublishOwnerUnwatched(i) ==
  /\ pc[i] = "prepared"
  /\ entries' = [entries EXCEPT ![i] =
                    [@ EXCEPT !.tag = "Owned", !.pending = TRUE, !.blocked = FALSE]]
  /\ owner' = [owner EXCEPT ![i] = "open"]
  /\ pc' = [pc EXCEPT ![i] = "leaving"]
  /\ UNCHANGED <<accepting, idleSince, drainFailed, permit, work, watch, joined,
                 drainPc, drainTodo, idle, access, now>>

\* the owner is created and published; a generation fenced in the meantime
\* closes it at once, otherwise its watch is forked
PublishOwner(i) ==
  /\ pc[i] = "prepared"
  /\ LET published == [entries EXCEPT ![i] =
                         [@ EXCEPT !.tag = "Owned", !.pending = TRUE, !.blocked = FALSE]]
     IN IF accepting
        THEN /\ entries' = published
             /\ owner' = [owner EXCEPT ![i] = "open"]
             /\ watch' = [watch EXCEPT ![i] = "armed"]
             /\ pc' = [pc EXCEPT ![i] = "leaving"]
             /\ UNCHANGED joined
        ELSE /\ entries' = Retire(published, i)
             /\ owner' = [owner EXCEPT ![i] = "asked"]
             /\ joined' = joined \union {<<"admit", i>>}
             /\ pc' = [pc EXCEPT ![i] = "closing"]
             /\ UNCHANGED watch
  /\ UNCHANGED <<accepting, idleSince, drainFailed, permit, work, drainPc,
                 drainTodo, idle, access, now>>

FinishAdmit(i) == pc[i] = "leaving" /\ Leave(i)

-----------------------------------------------------------------------------
(* closeOwned: Retire and owner.close have run, the caller is waiting.     *)

\* A drain whose closeOwned of one member fails interrupts its other ones.
FailDrain(d) ==
  /\ drainPc' = [drainPc EXCEPT ![d] = "failed"]
  /\ drainTodo' = [drainTodo EXCEPT ![d] = {}]
  /\ joined' = {j \in joined : j[1] # d}
  /\ drainFailed' = TRUE

CloseSucceeds(c, i) ==
  /\ <<c, i>> \in joined /\ owner[i] = "drained"
  /\ Forget(i)
  /\ joined' = joined \ {<<c, i>>}
  /\ pc' = IF c = "admit" THEN [pc EXCEPT ![i] = "leaving"] ELSE pc
  /\ UNCHANGED <<accepting, drainFailed, permit, owner, work, watch, drainPc,
                 drainTodo, idle, access, now>>

\* Mutation: a close that failed or timed out is forgotten like one that succeeded.
CloseFailsForgets(c, i) ==
  /\ <<c, i>> \in joined
  /\ Forget(i)
  /\ joined' = joined \ {<<c, i>>}
  /\ pc' = IF c = "admit" THEN [pc EXCEPT ![i] = "leaving"] ELSE pc
  /\ UNCHANGED <<accepting, drainFailed, permit, owner, work, watch, drainPc,
                 drainTodo, idle, access, now>>

\* the owner's drain failed, or closeAllowanceMillis ran out first
CloseFails(c, i) ==
  /\ <<c, i>> \in joined
  /\ MarkBlocked(i)
  /\ IF c \in Drainers THEN FailDrain(c)
     ELSE /\ joined' = joined \ {<<c, i>>}
          /\ UNCHANGED <<drainPc, drainTodo, drainFailed>>
  /\ pc' = IF c = "admit" THEN [pc EXCEPT ![i] = "leaving"] ELSE pc
  /\ UNCHANGED <<accepting, idleSince, permit, owner, work, watch, idle, access, now>>

\* Mutation: release closes the owner without retiring its lease.
ReleaseKeepsLease(i) ==
  /\ i \in Members /\ pc[i] = "over"
  /\ AskClose(i) /\ joined' = joined \union {<<"release", i>>}
  /\ UNCHANGED <<state, permit, pc, work, watch, drainPc, drainTodo, idle, access, now>>

\* release(token), by a caller that was given the token, that is after its admit
\* returned
Release(i) ==
  /\ i \in Members /\ pc[i] = "over"
  /\ entries' = Retire(entries, i)
  /\ AskClose(i)
  /\ joined' = joined \union {<<"release", i>>}
  /\ UNCHANGED <<accepting, idleSince, drainFailed, permit, pc, work, watch,
                 drainPc, drainTodo, idle, access, now>>

\* the caller is interrupted after Retire, before it has asked the owner to close
ReleaseInterrupted(i) ==
  /\ i \in Members /\ pc[i] = "over"
  /\ entries' = Retire(entries, i)
  /\ UNCHANGED <<accepting, idleSince, drainFailed, permit, pc, owner, work, watch,
                 joined, drainPc, drainTodo, idle, access, now>>

\* or later, while it waits
AbandonRelease(i) ==
  /\ <<"release", i>> \in joined
  /\ joined' = joined \ {<<"release", i>>}
  /\ UNCHANGED <<state, permit, pc, owner, work, watch, drainPc, drainTodo, idle, access, now>>

-----------------------------------------------------------------------------
(* watch                                                                   *)

\* Mutation: the watch leaves a lease that was already retired to whoever did it.
WatchExpiresUnlessRetired(i) ==
  /\ watch[i] = "armed" /\ entries[i].tag = "Owned"
  /\ entries[i].lease # Retired /\ ~LeaseIsEligible(i)
  /\ entries' = Retire(entries, i)
  /\ AskClose(i)
  /\ watch' = [watch EXCEPT ![i] = "joined"]
  /\ UNCHANGED <<accepting, idleSince, drainFailed, permit, pc, work, joined,
                 drainPc, drainTodo, idle, access, now>>

\* the lease has no time left: retired, lapsed, or the entry is gone
WatchExpires(i) ==
  /\ watch[i] = "armed"
  /\ entries[i].tag \in {"Acquiring", "Owned"} => ~LeaseIsEligible(i)
  /\ entries' = Retire(entries, i)
  /\ AskClose(i)
  /\ watch' = [watch EXCEPT ![i] = "joined"]
  /\ UNCHANGED <<accepting, idleSince, drainFailed, permit, pc, work, joined,
                 drainPc, drainTodo, idle, access, now>>

\* owner.close or owner.closed answered; on failure the entry is left as it is
WatchEnds(i) ==
  /\ watch[i] \in {"armed", "joined"} /\ owner[i] \in {"drained", "failed"}
  /\ IF owner[i] = "drained" THEN Forget(i) ELSE UNCHANGED <<entries, idleSince>>
  /\ watch' = [watch EXCEPT ![i] = "over"]
  /\ UNCHANGED <<accepting, drainFailed, permit, pc, owner, work, joined,
                 drainPc, drainTodo, idle, access, now>>

-----------------------------------------------------------------------------
(* fence, drain, awaitIdleAndFence                                         *)

Fence ==
  /\ accepting /\ accepting' = FALSE
  /\ UNCHANGED <<entries, idleSince, drainFailed, permit, pc, owner, work,
                 watch, joined, drainPc, drainTodo, idle, access, now>>

DrainStarts(d) ==
  /\ drainPc[d] = "no"
  /\ accepting' = FALSE
  /\ drainPc' = [drainPc EXCEPT ![d] = "polling"]
  /\ UNCHANGED <<entries, idleSince, drainFailed, permit, pc, owner, work,
                 watch, joined, drainTodo, idle, access, now>>

\* Mutation: the members are taken without waiting for pending admissions.
DrainSettledEarly(d) ==
  /\ drainPc[d] = "polling"
  /\ drainTodo' = [drainTodo EXCEPT ![d] = Members]
  /\ drainPc' = [drainPc EXCEPT ![d] = "closing"]
  /\ UNCHANGED <<state, permit, pc, owner, work, watch, joined, idle, access, now>>

\* the poll finds no pending admission: the members are those to close
DrainSettled(d) ==
  /\ drainPc[d] = "polling" /\ Pending = {}
  /\ drainTodo' = [drainTodo EXCEPT ![d] = Members]
  /\ drainPc' = [drainPc EXCEPT ![d] = "closing"]
  /\ UNCHANGED <<state, permit, pc, owner, work, watch, joined, idle, access, now>>

\* forEach starts closeOwned of one more member
DrainCloses(d, i) ==
  /\ drainPc[d] = "closing" /\ i \in drainTodo[d]
  /\ entries' = Retire(entries, i)
  /\ AskClose(i)
  /\ drainTodo' = [drainTodo EXCEPT ![d] = @ \ {i}]
  /\ joined' = joined \union {<<d, i>>}
  /\ UNCHANGED <<accepting, idleSince, drainFailed, permit, pc, work, watch,
                 drainPc, idle, access, now>>

DrainDone(d) ==
  /\ drainPc[d] = "closing" /\ drainTodo[d] = {}
  /\ \A i \in Ids : <<d, i>> \notin joined
  /\ drainPc' = [drainPc EXCEPT ![d] = "done"]
  /\ UNCHANGED <<state, permit, pc, owner, work, watch, joined, drainTodo, idle, access, now>>

DrainTimesOut(d) ==
  /\ drainPc[d] \in {"polling", "closing"}
  /\ FailDrain(d)
  /\ UNCHANGED <<accepting, entries, idleSince, permit, pc, owner, work, watch,
                 idle, access, now>>

IdleStarts ==
  /\ idle = "no"
  /\ idleSince' = now
  /\ idle' = "looping"
  /\ UNCHANGED <<accepting, entries, drainFailed, permit, pc, owner, work,
                 watch, joined, drainPc, drainTodo, access, now>>

IdleDone ==
  /\ idle = "looping" /\ ~accepting
  /\ idle' = "seen"
  /\ UNCHANGED <<state, permit, pc, owner, work, watch, joined, drainPc, drainTodo, access, now>>

IdleFences ==
  /\ idle = "looping" /\ accepting
  /\ Pending = {} /\ Members = {}
  /\ now >= idleSince + IdleAllowance
  /\ accepting' = FALSE
  /\ idle' = "fenced"
  /\ UNCHANGED <<entries, idleSince, drainFailed, permit, pc, owner, work,
                 watch, joined, drainPc, drainTodo, access, now>>

-----------------------------------------------------------------------------
(* access(token, renew), and the request that find was for.                *)

\* the member is looked up and its owner asked whether it accepts
LookUp(i) ==
  /\ access.stage = "none" /\ i \in Members /\ pc[i] = "over"
  /\ access' = [stage |-> "read", id |-> i, key |-> entries[i].key,
                ownerAccepting |-> owner[i] = "open"]
  /\ UNCHANGED <<state, permit, pc, owner, work, watch, joined, drainPc, drainTodo, idle, now>>

\* Mutation: what the lookup found is not checked again.
AccessGrantedOnLookup == access.stage = "read" /\ access.ownerAccepting
                           /\ entries[access.id].tag = "Owned"

AccessGranted ==
  /\ access.stage = "read"
  /\ entries[access.id].tag = "Owned" /\ entries[access.id].key = access.key
  /\ access.ownerAccepting /\ Eligible(access.id)

Refused == /\ access.stage = "read" /\ ~AccessGranted
           /\ access' = NoAccess
           /\ UNCHANGED <<state, permit, pc, owner, work, watch, joined, drainPc, drainTodo, idle, now>>

Renew ==
  /\ AccessGranted
  /\ entries' = [entries EXCEPT ![access.id].lease = now + LeaseDuration]
  /\ access' = NoAccess
  /\ UNCHANGED <<accepting, idleSince, drainFailed, permit, pc, owner, work,
                 watch, joined, drainPc, drainTodo, idle, now>>

\* find hands out the owner; the request reaches its withWork later
Find ==
  /\ AccessGranted
  /\ access' = [access EXCEPT !.stage = "holding"]
  /\ UNCHANGED <<state, permit, pc, owner, work, watch, joined, drainPc, drainTodo, idle, now>>

\* Mutation: withWork does not ask for eligibility again.
StartWorkUnchecked ==
  /\ access.stage = "holding" /\ owner[access.id] = "open"
  /\ work' = [work EXCEPT ![access.id] = "running"]
  /\ access' = NoAccess
  /\ UNCHANGED <<state, permit, pc, owner, watch, joined, drainPc, drainTodo, idle, now>>

\* withWork through the handle; acquire asks `eligible' again
StartWork ==
  /\ access.stage = "holding"
  /\ owner[access.id] = "open" /\ Eligible(access.id)
  /\ work' = [work EXCEPT ![access.id] = "running"]
  /\ access' = NoAccess
  /\ UNCHANGED <<state, permit, pc, owner, watch, joined, drainPc, drainTodo, idle, now>>

\* withWork refuses, for want of eligibility or room, or is never called
WorkRejected ==
  /\ access.stage = "holding" /\ access' = NoAccess
  /\ UNCHANGED <<state, permit, pc, owner, work, watch, joined, drainPc, drainTodo, idle, now>>

-----------------------------------------------------------------------------
(* The owners, within OwnerContract, and time.                             *)

WorkEnds(i) ==
  /\ work[i] = "running" /\ work' = [work EXCEPT ![i] = "none"]
  /\ UNCHANGED <<state, permit, pc, owner, watch, joined, drainPc, drainTodo, idle, access, now>>

WorkSticks(i) ==
  /\ work[i] = "running" /\ work' = [work EXCEPT ![i] = "stuck"]
  /\ owner' = [owner EXCEPT ![i] = IF @ = "open" THEN "shut" ELSE @]
  /\ UNCHANGED <<state, permit, pc, watch, joined, drainPc, drainTodo, idle, access, now>>

OwnerAnswers(i) ==
  /\ owner[i] = "asked" /\ work[i] # "running"
  /\ owner' = [owner EXCEPT ![i] = IF work[i] = "none" THEN "drained" ELSE "failed"]
  /\ UNCHANGED <<state, permit, pc, work, watch, joined, drainPc, drainTodo, idle, access, now>>

Tick ==
  /\ now < MaxTime /\ now' = now + 1
  /\ UNCHANGED <<state, permit, pc, owner, work, watch, joined, drainPc, drainTodo, idle, access>>

-----------------------------------------------------------------------------
Admit(i) == \/ Begin(i) \/ AbandonWait(i) \/ Refuse(i) \/ CheckCapacity(i)
            \/ NotPrepared(i) \/ (\E k \in Keys : PrepareOwner(i, k))
            \/ PublishOwner(i) \/ FinishAdmit(i)

Closers == {"admit", "release"} \union Drainers

Close(i) == \/ \E c \in Closers : CloseSucceeds(c, i) \/ CloseFails(c, i)
            \/ Release(i) \/ ReleaseInterrupted(i) \/ AbandonRelease(i)
            \/ WatchExpires(i) \/ WatchEnds(i)

Drain(d) == \/ DrainStarts(d) \/ DrainSettled(d) \/ DrainDone(d) \/ DrainTimesOut(d)
            \/ \E i \in Ids : DrainCloses(d, i)

Access == (\E i \in Ids : LookUp(i)) \/ Refused \/ Renew \/ Find \/ StartWork \/ WorkRejected

Owner(i) == WorkEnds(i) \/ WorkSticks(i) \/ OwnerAnswers(i)

Next == \/ \E i \in Ids : Admit(i) \/ Close(i) \/ Owner(i)
        \/ \E d \in Drainers : Drain(d)
        \/ Fence \/ IdleStarts \/ IdleDone \/ IdleFences
        \/ Access \/ Tick

Spec == Init /\ [][Next]_vars

\* Fibers run and timers fire.  The semaphore serves its waiters in order, so
\* one that is granted again and again to others is granted to each in turn
\* (strong fairness).  A request whose owner was asked to close is interrupted
\* and its cleanup ends.  Nothing is assumed of callers: nobody has to release,
\* renew, fence or drain, and the drain's own timeout is not needed.
Fairness ==
  /\ \A i \in Ids :
       /\ SF_vars(Refuse(i) \/ CheckCapacity(i))
       /\ WF_vars(NotPrepared(i) \/ \E k \in Keys : PrepareOwner(i, k))
       /\ WF_vars(PublishOwner(i)) /\ WF_vars(FinishAdmit(i))
       /\ \A c \in Closers : WF_vars(CloseSucceeds(c, i) \/ CloseFails(c, i))
       /\ WF_vars(WatchExpires(i)) /\ WF_vars(WatchEnds(i))
       /\ WF_vars(owner[i] = "asked" /\ (WorkEnds(i) \/ WorkSticks(i)))
       /\ WF_vars(OwnerAnswers(i))
  /\ \A d \in Drainers :
       WF_vars(DrainSettled(d) \/ DrainDone(d) \/ \E i \in Ids : DrainCloses(d, i))

FairSpec == Spec /\ Fairness

-----------------------------------------------------------------------------
(* Safety.                                                                 *)

\* The generation never owns more attachments than policy.capacity, although
\* the capacity is checked several suspensions before the owner is published
\* (admissions.ts:151-175): only the permit makes the check still true.
CapacityBound == Cardinality(Members) <= Capacity

\* No two attachments answer to the same token, although collisions are looked
\* for among owned entries only and not among those being acquired
\* (admission-attempt-state.ts:68).
UniqueKeys ==
  \A i, j \in Members : entries[i].key = entries[j].key => i = j

\* The inventory forgets an owner only once it has drained: an attachment whose
\* cleanup failed, timed out or is still going stays on the books, where it
\* blocks a replacement (admissions.ts:97-117, 131-135).
ForgottenIsDrained ==
  \A i \in Ids : owner[i] \notin {"none", "drained"} => i \in Members

\* Whoever closes an attachment retires its lease first, and no renewal revives
\* it: an adapter whose lease is alive in an accepting generation is served by an
\* owner nobody has asked to close.
LiveLeaseIsServed ==
  accepting => \A i \in Members : LeaseIsEligible(i) => owner[i] \in {"open", "shut"}

\* A drain that reports success leaves nothing behind: no attachment, no
\* admission still on its way, no retained request, even if another drain of
\* the same generation failed before (manual-backend.ts:167, 174).
DrainedIsQuiet ==
  (\E d \in Drainers : drainPc[d] = "done") =>
    /\ ~accepting /\ Members = {} /\ Pending = {}
    /\ \A i \in Ids : /\ pc[i] \in {"new", "over"}
                       /\ owner[i] \in {"none", "drained"} /\ work[i] = "none"

\* A managed generation that retires for idleness strands nobody: no adapter is
\* attached or on its way in, queued for the permit included, and none gets in
\* afterwards (admission-lifetime-state.ts:33-44).
IdleStrandsNobody ==
  idle = "fenced" =>
    /\ Members = {} /\ Pending = {}
    /\ \A i \in Ids : pc[i] \in {"new", "over"} /\ work[i] = "none"

\* An adapter is served for as long as its lease is alive in a generation that
\* accepts, and such a generation goes only when no adapter is left to strand.
NobodyIsStranded == LiveLeaseIsServed /\ IdleStrandsNobody

\* Mutation: a drain that failed once blocks for ever.
DrainStatusSticky ==
  IF drainFailed \/ \E i \in Members : entries[i].blocked \/ work[i] = "stuck"
  THEN "blocked"
  ELSE IF ~accepting \/ \E i \in Members : owner[i] # "open" THEN "draining" ELSE "idle"

\* work-status.ts
DrainStatus ==
  IF \/ \E i \in Members : entries[i].blocked \/ work[i] = "stuck"
     \/ drainFailed /\ (Members # {} \/ Pending # {})
  THEN "blocked"
  ELSE IF ~accepting \/ \E i \in Members : owner[i] # "open" THEN "draining" ELSE "idle"

\* An operator who sees anything but "blocked" may rely on there being no
\* cleanup that failed, and one who sees "blocked" on there being something
\* left to block on.
StatusIsTruthful ==
  /\ (\E i \in Ids : owner[i] = "failed" \/ work[i] = "stuck") => DrainStatus = "blocked"
  /\ DrainStatus = "blocked" => Members # {} \/ Pending # {}

-----------------------------------------------------------------------------
(* Action properties.                                                      *)

\* A lease that has lapsed or was retired never comes back, even for a renewal
\* that had found its attachment before (admissions.ts:204-226); and no request
\* starts through a handle that went stale between find and withWork: the
\* generation was fenced, the lease lapsed, the attachment was released.
StaleIsFinal ==
  [][ /\ \A i \in Members : now >= entries[i].lease => now' >= entries'[i].lease
      /\ \A i \in Ids : work[i] = "none" /\ work'[i] # "none" =>
           owner[i] = "open" /\ accepting /\ i \in Members /\ LeaseIsEligible(i) ]_vars

\* The owners, as the admissions treat them, keep to the contract that
\* AttachmentOwner is shown to implement.
Contract(i) == INSTANCE OwnerContract
  WITH Requests <- {i}, MaxRequests <- 1,
       retained <- IF work[i] = "none" THEN {} ELSE {i},
       stuck <- IF work[i] = "stuck" THEN {i} ELSE {},
       open <- owner[i] \in {"none", "open"},
       asked <- owner[i] \in {"asked", "drained", "failed"},
       answer <- IF owner[i] \in {"drained", "failed"} THEN owner[i] ELSE "pending"
OwnersKeepContract ==
  /\ \A i \in Ids : Contract(i)!Init
  /\ [][ \A i \in Ids : Contract(i)!Next \/ UNCHANGED Contract(i)!vars ]_vars

-----------------------------------------------------------------------------
(* Liveness.                                                               *)

\* Every call of admit that waits for the permit returns: no holder keeps it,
\* whatever its owner's close does. Every drain that has started returns too,
\* succeeded or failed. (A call and a drain are made once each, so that none
\* under way infinitely often is all of them returned.)
CallsReturn ==
  []<>(/\ \A i \in Ids : pc[i] \in {"new", "over"}
       /\ \A d \in Drainers : drainPc[d] \notin {"polling", "closing"})

\* An attachment that was admitted and whose lease is over is closed and forgotten,
\* or is left as a failed cleanup, even when the release that retired it was
\* interrupted and when another closer timed out: none keeps its place for ever.
LapsedIsClosed ==
  \A i \in Ids :
    (i \in Members /\ pc[i] = "over" /\ accepting /\ ~LeaseIsEligible(i))
      ~> (i \notin Members \/ owner[i] = "failed")
=============================================================================
