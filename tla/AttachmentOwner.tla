--------------------------- MODULE AttachmentOwner ---------------------------
(***************************************************************************)
(* The owner of everything one admitted adapter has running:              *)
(* makeAttachmentOwner in src/resident/attachment-owner.ts.               *)
(*                                                                         *)
(* A request enters through withWork: it takes a ticket (acquire), runs    *)
(* `use' raced against the ticket's cancel signal, then runs its cleanup   *)
(* and settles the ticket (finish).  A request may hand the owner its      *)
(* native session (adopt).  One drain fiber, forked when the owner is      *)
(* made, waits for close, snapshots the tickets, cancels them, awaits      *)
(* each of them in turn and releases the session only after all of them.  *)
(*                                                                         *)
(* Each action is the code between two points where an Effect fiber can    *)
(* be suspended.  The order of the Set the drain walks is arrival order;   *)
(* the model leaves it open (AwaitNext picks any).                         *)
(***************************************************************************)
EXTENDS Naturals, FiniteSets

CONSTANTS Requests,         \* calls of withWork
          MaxRequests,      \* MAX_ADAPTER_REQUESTS
          NoRequest

ASSUME RequestsAssumption == IsFiniteSet(Requests) /\ NoRequest \notin Requests
ASSUME MaxRequestsAssumption == MaxRequests \in Nat \ {0}

VARIABLES
  accepting,      \* BOOLEAN
  eligible,       \* what the `eligible' effect given by the admission answers
  work,           \* tickets in the Set
  blocked,        \* those whose status is "blocked"
  cancelled,      \* tickets whose cancel Deferred is completed
  done,           \* per ticket, its done Deferred: "open", "succeeded", "failed"
  pc,             \* per request, where its withWork stands
  sessions,       \* the sessions Map, by the request that adopted each
  closing,        \* the closing Deferred is completed
  drain,          \* the drain fiber: "waiting", "awaiting", "drained", "failed"
  retained,       \* its snapshot, less what it has already awaited
  awaited         \* the ticket it is awaiting

vars == <<accepting, eligible, work, blocked, cancelled, done, pc, sessions,
          closing, drain, retained, awaited>>
tickets == <<work, blocked, cancelled, done>>
drainVars == <<closing, drain, retained, awaited>>

TypeOK ==
  /\ accepting \in BOOLEAN /\ eligible \in BOOLEAN /\ closing \in BOOLEAN
  /\ work \subseteq Requests /\ blocked \subseteq Requests
  /\ cancelled \subseteq Requests /\ sessions \subseteq Requests
  /\ done \in [Requests -> {"open", "succeeded", "failed"}]
  /\ pc \in [Requests -> {"new", "using", "cleaning", "over"}]
  /\ drain \in {"waiting", "awaiting", "drained", "failed"}
  /\ retained \subseteq Requests
  /\ awaited \in Requests \union {NoRequest}

Init ==
  /\ accepting = TRUE /\ eligible = TRUE
  /\ work = {} /\ blocked = {} /\ cancelled = {}
  /\ done = [r \in Requests |-> "open"]
  /\ pc = [r \in Requests |-> "new"]
  /\ sessions = {}
  /\ closing = FALSE /\ drain = "waiting"
  /\ retained = {} /\ awaited = NoRequest

-----------------------------------------------------------------------------
(* Requests.                                                               *)

\* acquire refuses with RequestWorkRejected; use and cleanup never run.
Reject(r) ==
  /\ pc[r] = "new"
  /\ ~accepting \/ ~eligible \/ Cardinality(work) >= MaxRequests
  /\ pc' = [pc EXCEPT ![r] = "over"]
  /\ UNCHANGED <<accepting, eligible, tickets, sessions, drainVars>>

\* Mutation of acquire: the owner's own flag is not read.
AcquireWhileClosing(r) ==
  /\ pc[r] = "new" /\ eligible /\ Cardinality(work) < MaxRequests
  /\ work' = work \union {r}
  /\ pc' = [pc EXCEPT ![r] = "using"]
  /\ UNCHANGED <<accepting, eligible, blocked, cancelled, done, sessions, drainVars>>

Acquire(r) ==
  /\ pc[r] = "new"
  /\ accepting /\ eligible
  /\ Cardinality(work) < MaxRequests
  /\ work' = work \union {r}
  /\ pc' = [pc EXCEPT ![r] = "using"]
  /\ UNCHANGED <<accepting, eligible, blocked, cancelled, done, sessions, drainVars>>

\* sessionOwner(ticket).adopt answered true.  Its refusal changes nothing.
\* Both use and cleanup are given the capability.
Adopt(r) ==
  /\ pc[r] \in {"using", "cleaning"}
  /\ r \in work /\ r \notin blocked /\ sessions = {}
  /\ sessions' = {r}
  /\ UNCHANGED <<accepting, eligible, tickets, pc, drainVars>>

\* use ended: it returned or failed, the caller was interrupted, or the race
\* was won by the cancel signal.  The release half of acquireUseRelease runs.
LeaveUse(r) ==
  /\ pc[r] = "using"
  /\ pc' = [pc EXCEPT ![r] = "cleaning"]
  /\ UNCHANGED <<accepting, eligible, tickets, sessions, drainVars>>

\* finish(ticket, success)
FinishOk(r) ==
  /\ pc[r] = "cleaning"
  /\ work' = work \ {r}
  /\ done' = [done EXCEPT ![r] = "succeeded"]
  /\ pc' = [pc EXCEPT ![r] = "over"]
  /\ UNCHANGED <<accepting, eligible, blocked, cancelled, sessions, drainVars>>

\* finish(ticket, failure): the ticket stays in the Set
FinishBlocked(r) ==
  /\ pc[r] = "cleaning"
  /\ blocked' = blocked \union {r}
  /\ accepting' = FALSE
  /\ done' = [done EXCEPT ![r] = "failed"]
  /\ pc' = [pc EXCEPT ![r] = "over"]
  /\ UNCHANGED <<eligible, work, cancelled, sessions, drainVars>>

-----------------------------------------------------------------------------
(* The admission: it may withdraw eligibility (lease lapsed or retired,    *)
(* generation fenced; a renewal before the lapse shows as no change) and   *)
(* may call close any number of times.                                     *)

Withdraw ==
  /\ eligible /\ eligible' = FALSE
  /\ UNCHANGED <<accepting, tickets, pc, sessions, drainVars>>

Close ==
  /\ accepting' = FALSE
  /\ closing' = TRUE
  /\ UNCHANGED <<eligible, tickets, pc, sessions, drain, retained, awaited>>

-----------------------------------------------------------------------------
(* The drain fiber.                                                        *)

\* Mutation: the drain awaits the tickets without cancelling them.
SnapshotWithoutCancel ==
  /\ drain = "waiting" /\ closing
  /\ retained' = work
  /\ drain' = "awaiting"
  /\ UNCHANGED <<accepting, eligible, tickets, pc, sessions, closing, awaited>>

Snapshot ==
  /\ drain = "waiting" /\ closing
  /\ retained' = work
  /\ cancelled' = cancelled \union work
  /\ drain' = "awaiting"
  /\ UNCHANGED <<accepting, eligible, work, blocked, done, pc, sessions, closing, awaited>>

AwaitNext ==
  /\ drain = "awaiting" /\ awaited = NoRequest
  /\ awaited' \in retained
  /\ UNCHANGED <<accepting, eligible, tickets, pc, sessions, closing, drain, retained>>

AwaitOk ==
  /\ drain = "awaiting" /\ awaited # NoRequest
  /\ done[awaited] = "succeeded"
  /\ retained' = retained \ {awaited}
  /\ awaited' = NoRequest
  /\ UNCHANGED <<accepting, eligible, tickets, pc, sessions, closing, drain>>

\* Mutation: the failure of one ticket is swallowed and the drain goes on.
AwaitFailedSwallowed ==
  /\ drain = "awaiting" /\ awaited # NoRequest
  /\ done[awaited] = "failed"
  /\ retained' = retained \ {awaited} /\ awaited' = NoRequest
  /\ UNCHANGED <<accepting, eligible, tickets, pc, sessions, closing, drain>>

\* forEach fails with AttachmentCleanupFailed; the sessions are left as they are
AwaitFailed ==
  /\ drain = "awaiting" /\ awaited # NoRequest
  /\ done[awaited] = "failed"
  /\ drain' = "failed"
  /\ UNCHANGED <<accepting, eligible, tickets, pc, sessions, closing, retained, awaited>>

\* Mutation: sessions go before the tickets have been awaited.
ReleaseSessionsEarly ==
  /\ drain = "awaiting" /\ awaited = NoRequest
  /\ sessions' = {} /\ drain' = "drained"
  /\ UNCHANGED <<accepting, eligible, tickets, pc, closing, retained, awaited>>

\* session.release is synchronous, so releasing and clearing is one step
ReleaseSessions ==
  /\ drain = "awaiting" /\ awaited = NoRequest /\ retained = {}
  /\ sessions' = {}
  /\ drain' = "drained"
  /\ UNCHANGED <<accepting, eligible, tickets, pc, closing, retained, awaited>>

DrainStep == Snapshot \/ AwaitNext \/ AwaitOk \/ AwaitFailed \/ ReleaseSessions

-----------------------------------------------------------------------------
Request(r) == Reject(r) \/ Acquire(r) \/ Adopt(r) \/ LeaveUse(r)
                \/ FinishOk(r) \/ FinishBlocked(r)

Next == (\E r \in Requests : Request(r)) \/ Withdraw \/ Close \/ DrainStep

Spec == Init /\ [][Next]_vars

\* The drain fiber runs; a cancelled use is interrupted and leaves; a cleanup
\* ends, one way or the other.  Nothing makes an uncancelled use end, and
\* nobody has to call close.
Fairness ==
  /\ WF_vars(DrainStep)
  /\ \A r \in Requests :
       /\ WF_vars(r \in cancelled /\ LeaveUse(r))
       /\ WF_vars(FinishOk(r) \/ FinishBlocked(r))

FairSpec == Spec /\ Fairness

-----------------------------------------------------------------------------
(* Properties.                                                             *)

\* The adapter's native session is released only once every request has
\* settled: none that is running or cleaning up ever finds the session it
\* speaks through gone (attachment-owner.ts:95-99).
SessionOutlivesWork == [][ sessions # {} /\ sessions' = {} => work = {} ]_vars

\* A drain that succeeded leaves nothing of the adapter behind, and nothing
\* starts afterwards: this is what lets the admission forget it.
DrainedIsQuiet ==
  drain = "drained" =>
    /\ work = {} /\ sessions = {}
    /\ \A r \in Requests : pc[r] \in {"new", "over"}

\* A drain that failed still shows why: a blocked ticket is retained, so that
\* the status a replacement looks at cannot report the attachment as gone.
FailedKeepsEvidence == drain = "failed" => blocked \intersect work # {}

\* A close that was asked for is answered: the drain ends, drained or failed,
\* whatever was running when it was asked (attachment-owner.ts:93-109).
CloseIsAnswered == closing ~> drain \in {"drained", "failed"}

\* The owner as its admission sees it.
Contract == INSTANCE OwnerContract
  WITH stuck <- blocked, retained <- work, open <- accepting, asked <- closing,
       answer <- IF drain \in {"drained", "failed"} THEN drain ELSE "pending"

\* Every step of the owner is a step its contract allows, or none.
ImplementsContract == Contract!Spec
=============================================================================
