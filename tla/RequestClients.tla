---------------------------- MODULE RequestClients ----------------------------
(***************************************************************************)
(* Huly clients in the HTTP server, from the first request that needs one  *)
(* to the end of the process: the lifecycle of a request's clients         *)
(* (src/mcp/request-client-lifecycle.ts, http-request-context.ts), where   *)
(* it takes them from (src/runtime/http-client-leases.ts), the resolver    *)
(* all requests without credentials of their own share                     *)
(* (src/runtime/huly-clients.ts) and the shutdown (src/mcp/server.ts,      *)
(* http-transport.ts, src/runtime/server-startup.ts).                      *)
(*                                                                         *)
(* The handler of a tool call is a fiber of the protocol's, not of the     *)
(* request that carried it: a call may start, or go on, after its request  *)
(* was answered or given up.  A bundle is its scope: the request's own is  *)
(* named by the request, a shared one by the acquisition that built it.    *)
(*                                                                         *)
(* Each action is the code between two points where its fiber, or the      *)
(* continuation of its promise, can be suspended.                          *)
(***************************************************************************)
EXTENDS Integers, FiniteSets

CONSTANTS Requests, Calls,
          Acquisitions,   \* the bound on acquisitions of the shared resolver
          None

ASSUME ConstantsAssumption ==
  /\ IsFiniteSet(Calls)
  /\ Requests \intersect Acquisitions = {}
  /\ None \notin Requests \union Acquisitions

Bundles == Requests \union Acquisitions

VARIABLES
  accepting, active,  \* RequestAdmission
  request,            \* the request's effect: its lifecycle is closed from "closing" on
  own,                \* it carries credentials of its own
  cancelled,          \* its cancellation
  lease,              \* leasePromise; "failed" also for a bundle that is a failure
  source,             \* the acquisition a lease joined
  call, of,           \* the calls of tools, and the request that carried each
  scope,              \* the scope of each bundle
  exit,               \* how the fiber that built it ended
  shared,             \* state.active of the resolver
  owned,              \* acquisitions
  settled,            \* acquisitions whose result has been delivered
  resolver, closing,  \* state.closed; the acquisitions its close is closing
  server,             \* where the shutdown stands
  reported            \* a timeout or failure of the shutdown was reported

admission == <<accepting, active>>
requests == <<request, own, cancelled>>
leases == <<lease, source>>
calls == <<call, of>>
builds == <<scope, exit>>
sharing == <<shared, owned, settled, resolver, closing>>
vars == <<admission, requests, leases, calls, builds, sharing, server, reported>>

Admission == INSTANCE RequestAdmission

Init ==
  /\ Admission!Init
  /\ request = [r \in Requests |-> "new"]
  /\ own = [r \in Requests |-> FALSE] /\ cancelled = [r \in Requests |-> FALSE]
  /\ lease = [r \in Requests |-> "none"] /\ source = [r \in Requests |-> None]
  /\ call = [c \in Calls |-> "idle"] /\ of = [c \in Calls |-> None]
  /\ scope = [b \in Bundles |-> "none"] /\ exit = [b \in Bundles |-> "none"]
  /\ shared = None /\ owned = {} /\ settled = {}
  /\ resolver = "open" /\ closing = {}
  /\ server = "up" /\ reported = FALSE

\* lifecycle.close was called
Closed(r) == request[r] \notin {"new", "open"}
\* activeUsers
Users(r) == {c \in Calls : of[c] = r /\ call[c] \in {"held", "waiting", "using"}}
Admitted == {c \in Calls : call[c] \in {"entered", "held", "waiting", "using"}}

\* Names are interchangeable, so that the next one unused will do.
Fresh(S, state, unused) == CHOOSE x \in S : state[x] = unused

-----------------------------------------------------------------------------
(* The resolver that requests share.                                       *)

StartShared(r) ==
  \E a \in Acquisitions :
    /\ scope[a] = "none" /\ a = Fresh(Acquisitions, scope, "none")
    /\ shared' = a /\ owned' = owned \union {a}
    /\ scope' = [scope EXCEPT ![a] = "building"]
    /\ source' = [source EXCEPT ![r] = a]
    /\ UNCHANGED lease

\* Mutation of resolve: an acquisition under way is not joined.
JoinAlone(r) == StartShared(r)

Join(r) ==
  \/ /\ shared # None
     /\ source' = [source EXCEPT ![r] = shared]
     /\ UNCHANGED <<lease, shared, owned, scope>>
  \/ shared = None /\ StartShared(r)

ResolveShared(r) ==
  /\ \/ resolver = "open" /\ Join(r)
     \/ /\ resolver = "closed"
        /\ lease' = [lease EXCEPT ![r] = "failed"]
        /\ UNCHANGED <<source, shared, owned, scope>>
  /\ UNCHANGED <<settled, resolver, closing, exit>>

\* Mutation of resolve: a client that has been built is not kept for the close.
SettleReleasing(a) ==
  /\ settled' = settled \union {a}
  /\ IF exit[a] = "unavailable" /\ shared = a THEN shared' = None ELSE UNCHANGED shared
  /\ owned' = owned \ {a}
\* Mutation of resolve: whatever failure it is stays.
SettleKeeping(a) == settled' = settled \union {a} /\ UNCHANGED <<shared, owned>>

\* The result is delivered; HulyUnavailableError evicts the acquisition.
Settle(a) ==
  /\ settled' = settled \union {a}
  /\ IF exit[a] = "unavailable" /\ shared = a
     THEN shared' = None /\ owned' = owned \ {a}
     ELSE UNCHANGED <<shared, owned>>

Delivered(a) ==
  /\ exit[a] # "none" /\ a \notin settled
  /\ Settle(a)
  /\ UNCHANGED <<resolver, closing, admission, requests, leases, calls, builds, server, reported>>

CloseResolver ==
  /\ IF resolver = "open"
     THEN resolver' = "closed" /\ closing' = owned /\ owned' = {} /\ shared' = None
     ELSE UNCHANGED <<resolver, closing, owned, shared>>
  /\ UNCHANGED settled

\* Mutation of close: it does not wait for the acquisitions to be closed.
ResolverClosed == resolver = "closed"

\* closePromise is resolved, or is rejected
ResolverDone == /\ resolver = "closed"
                /\ \A a \in closing : exit[a] # "none" /\ scope[a] \in {"closed", "stuck"}
CloseFailed == \E a \in closing : scope[a] = "stuck"

-----------------------------------------------------------------------------
(* Building and closing a bundle's scope.                                  *)

\* Mutation of close: the acquisition of a request is not aborted.
InterruptedShared(b) == b \in closing

\* The fiber that builds b was interrupted: by the request's abort signal, or
\* by ClientAcquisition.close.
Interrupted(b) == IF b \in Requests THEN Closed(b) ELSE b \in closing

BuildOk(b) ==
  /\ scope[b] = "building" /\ ~Interrupted(b)
  /\ scope' = [scope EXCEPT ![b] = "open"]
  /\ exit' = [exit EXCEPT ![b] = "ok"]
  /\ UNCHANGED <<admission, requests, leases, calls, sharing, server, reported>>

\* Whatever was built is closed before the fiber ends.
BuildFails(b) ==
  /\ scope[b] = "building"
  /\ scope' = [scope EXCEPT ![b] = "closed"]
  /\ \E kind \in {"unavailable", "fatal"} :
       /\ kind = "unavailable" => b \in Acquisitions /\ ~Interrupted(b)
       /\ exit' = [exit EXCEPT ![b] = kind]
  /\ UNCHANGED <<admission, requests, leases, calls, sharing, server, reported>>

\* ClientAcquisition.close, once the result is there
CloseAcquisition(a) ==
  /\ a \in closing /\ exit[a] = "ok" /\ scope[a] = "open"
  /\ scope' = [scope EXCEPT ![a] = "closing"]
  /\ UNCHANGED <<exit, admission, requests, leases, calls, sharing, server, reported>>

ScopeCloses(b) ==
  /\ scope[b] = "closing"
  /\ scope' = [scope EXCEPT ![b] = "closed"]
  /\ UNCHANGED <<exit, admission, requests, leases, calls, sharing, server, reported>>

\* A finalizer fails: every close of this scope is rejected.
ScopeSticks(b) ==
  /\ scope[b] = "closing"
  /\ scope' = [scope EXCEPT ![b] = "stuck"]
  /\ UNCHANGED <<exit, admission, requests, leases, calls, sharing, server, reported>>

-----------------------------------------------------------------------------
(* The lease of a request.                                                 *)

\* The headers were read: credentials of its own, or the shared resolver.
Provide(r) ==
  /\ lease[r] = "pending" /\ ~Closed(r)
  /\ scope[r] = "none" /\ source[r] = None
  /\ IF own[r] THEN /\ scope' = [scope EXCEPT ![r] = "building"]
                    /\ UNCHANGED <<exit, leases, sharing>>
               ELSE ResolveShared(r)
  /\ UNCHANGED <<admission, requests, calls, server, reported>>

\* The headers are refused, or the wait for them or for the resolver is aborted.
LeaseFails(r) ==
  /\ lease[r] = "pending" /\ scope[r] = "none"
  /\ source[r] # None => Closed(r)
  /\ lease' = [lease EXCEPT ![r] = "failed"]
  /\ UNCHANGED <<source, admission, requests, calls, builds, sharing, server, reported>>

LeaseArrives(r) ==
  /\ lease[r] = "pending"
  /\ \E b \in {IF own[r] THEN r ELSE source[r]} \ {None} :
       /\ b \in Requests \/ b \in settled
       /\ exit[b] # "none"
       /\ lease' = [lease EXCEPT ![r] = IF exit[b] = "ok" THEN "ready" ELSE "failed"]
  /\ UNCHANGED <<source, admission, requests, calls, builds, sharing, server, reported>>

-----------------------------------------------------------------------------
(* Tool calls.                                                             *)

\* Every way out of the two brackets around a handler.
LeaveCall(c) == call' = [call EXCEPT ![c] = "done"] /\ Admission!Release /\ UNCHANGED of

Enter(c, r) ==
  /\ call[c] = "idle" /\ c = Fresh(Calls, call, "idle") /\ request[r] # "new" /\ server \notin {"release", "over"}
  /\ of' = [of EXCEPT ![c] = r]
  /\ \/ Admission!Enter /\ call' = [call EXCEPT ![c] = "entered"]
     \/ Admission!Rejected /\ call' = [call EXCEPT ![c] = "done"]
  /\ UNCHANGED <<requests, leases, builds, sharing, server, reported>>

Retain(c) ==
  /\ call[c] = "entered"
  /\ IF Closed(of[c]) THEN LeaveCall(c)
     ELSE call' = [call EXCEPT ![c] = "held"] /\ UNCHANGED <<of, admission>>
  /\ UNCHANGED <<requests, leases, builds, sharing, server, reported>>

\* The first caller starts the acquisition, the others wait for it too.
Resolve(c) ==
  /\ call[c] = "held"
  /\ IF Closed(of[c]) THEN LeaveCall(c) /\ UNCHANGED leases
     ELSE /\ call' = [call EXCEPT ![c] = "waiting"]
          /\ lease' = [lease EXCEPT ![of[c]] = IF @ = "none" THEN "pending" ELSE @]
          /\ UNCHANGED <<of, source, admission>>
  /\ UNCHANGED <<requests, builds, sharing, server, reported>>

Resolved(c) ==
  /\ call[c] = "waiting" /\ lease[of[c]] \in {"ready", "failed"}
  /\ IF lease[of[c]] = "ready" /\ ~Closed(of[c])
     THEN call' = [call EXCEPT ![c] = "using"] /\ UNCHANGED <<of, admission>>
     ELSE LeaveCall(c)
  /\ UNCHANGED <<requests, leases, builds, sharing, server, reported>>

Finish(c) ==
  /\ call[c] = "using"
  /\ LeaveCall(c)
  /\ UNCHANGED <<requests, leases, builds, sharing, server, reported>>

\* The call is interrupted: by the cancellation of its request, or with the
\* protocol's fibers when the transport is closed.
Cancel(c) ==
  /\ \/ call[c] \in {"held", "waiting", "using"} /\ cancelled[of[c]]
     \/ call[c] \in {"entered", "held", "waiting", "using"} /\ server \in {"listener", "release", "over"}
  /\ LeaveCall(c)
  /\ UNCHANGED <<requests, leases, builds, sharing, server, reported>>

-----------------------------------------------------------------------------
(* Requests.                                                               *)

Arrive(r) ==
  /\ request[r] = "new" /\ r = Fresh(Requests, request, "new")
  /\ server \in {"up", "draining", "telemetry", "clients"}
  /\ request' = [request EXCEPT ![r] = "open"]
  /\ \E credentials \in BOOLEAN : own' = [own EXCEPT ![r] = credentials]
  /\ UNCHANGED <<cancelled, admission, leases, calls, builds, sharing, server, reported>>

\* The response is on its way; the body, and the calls, may go on.
Respond(r) ==
  /\ request[r] = "open"
  /\ request' = [request EXCEPT ![r] = "closing"]
  /\ UNCHANGED <<own, cancelled, admission, leases, calls, builds, sharing, server, reported>>

\* The client has gone, or the transport is being closed.
Abort(r) ==
  /\ request[r] = "open"
  /\ request' = [request EXCEPT ![r] = "closing"]
  /\ cancelled' = [cancelled EXCEPT ![r] = TRUE]
  /\ UNCHANGED <<own, admission, leases, calls, builds, sharing, server, reported>>

\* Mutation of close: it does not wait for the users.
IdleAtOnce(r) == Closed(r)

\* close has run and its last user has gone.
Idle(r) == Closed(r) /\ Users(r) = {}

CloseLease(r) ==
  /\ Idle(r) /\ own[r] /\ lease[r] = "ready" /\ scope[r] = "open"
  /\ scope' = [scope EXCEPT ![r] = "closing"]
  /\ UNCHANGED <<exit, admission, requests, leases, calls, sharing, server, reported>>

\* Mutation of close: an acquisition under way has nothing to release.
NothingToCloseYet(r) == lease[r] \in {"none", "pending", "failed"} \/ (lease[r] = "ready" /\ ~own[r])

NothingToClose(r) == lease[r] \in {"none", "failed"} \/ (lease[r] = "ready" /\ ~own[r])

\* The cleanup of the request is over; a close that fails is its 503.
RequestOver(r) ==
  /\ request[r] = "closing" /\ Idle(r)
  /\ \/ /\ NothingToClose(r) \/ (own[r] /\ lease[r] = "ready" /\ scope[r] = "closed")
        /\ request' = [request EXCEPT ![r] = "closed"]
     \/ /\ own[r] /\ scope[r] = "stuck"
        /\ request' = [request EXCEPT ![r] = "failed"]
  /\ UNCHANGED <<own, cancelled, admission, leases, calls, builds, sharing, server, reported>>

-----------------------------------------------------------------------------
(* The shutdown: drain, telemetry and clients within one grace period, the *)
(* transport within another, the clients once more within a third.         *)

Stop ==
  /\ server = "up" /\ server' = "draining"
  /\ Admission!Quiesce
  /\ UNCHANGED <<requests, leases, calls, builds, sharing, reported>>

Drained ==
  /\ server = "draining" /\ Admission!Drained
  /\ server' = "telemetry"
  /\ UNCHANGED <<admission, requests, leases, calls, builds, sharing, reported>>

TelemetryEnds(ok) ==
  /\ server = "telemetry" /\ server' = "clients"
  /\ reported' = (reported \/ ~ok)
  /\ CloseResolver
  /\ UNCHANGED <<admission, requests, leases, calls, builds>>

ClientsEnd ==
  /\ server = "clients" /\ ResolverDone
  /\ server' = "listener"
  /\ reported' = (reported \/ CloseFailed)
  /\ UNCHANGED <<admission, requests, leases, calls, builds, sharing>>

\* Mutation of closeTransportScope: the grace period is over before the clients
\* are closed.
GraceOnlyForDrain ==
  /\ server = "draining" /\ server' = "listener" /\ reported' = TRUE
  /\ UNCHANGED <<admission, requests, leases, calls, builds, sharing>>

\* The steps before are interrupted; a close that has begun goes on.
Grace ==
  /\ server \in {"draining", "telemetry", "clients"}
  /\ server' = "listener" /\ reported' = TRUE
  /\ UNCHANGED <<admission, requests, leases, calls, builds, sharing>>

\* Every fiber of the transport has ended, or the grace period has.
Quiet == /\ \A r \in Requests : request[r] \in {"new", "closed", "failed"}
         /\ \A c \in Calls : call[c] \in {"idle", "done"}

TransportEnds(inTime) ==
  /\ server = "listener" /\ server' = "release"
  /\ inTime => Quiet
  /\ reported' = (reported \/ ~inTime)
  /\ CloseResolver
  /\ UNCHANGED <<admission, requests, leases, calls, builds>>

ReleaseEnds(inTime) ==
  /\ server = "release" /\ server' = "over"
  /\ inTime => ResolverDone
  /\ reported' = (reported \/ ~inTime \/ CloseFailed)
  /\ UNCHANGED <<admission, requests, leases, calls, builds, sharing>>

-----------------------------------------------------------------------------
CallStep(c) == Retain(c) \/ Resolve(c) \/ Resolved(c) \/ Finish(c) \/ Cancel(c)
LeaseStep(r) == Provide(r) \/ LeaseFails(r) \/ LeaseArrives(r)
RequestStep(r) == Arrive(r) \/ Respond(r) \/ Abort(r) \/ CloseLease(r) \/ RequestOver(r)
BuildStep(b) == BuildOk(b) \/ BuildFails(b) \/ ScopeCloses(b) \/ ScopeSticks(b)
AcquisitionStep(a) == Delivered(a) \/ CloseAcquisition(a)
Shutdown ==
  \/ Stop \/ Drained \/ ClientsEnd \/ Grace
  \/ \E ok \in BOOLEAN : TelemetryEnds(ok) \/ TransportEnds(ok) \/ ReleaseEnds(ok)

Next ==
  \/ \E c \in Calls : CallStep(c) \/ \E r \in Requests : Enter(c, r)
  \/ \E r \in Requests : LeaseStep(r) \/ RequestStep(r)
  \/ \E b \in Bundles : BuildStep(b)
  \/ \E a \in Acquisitions : AcquisitionStep(a)
  \/ Shutdown

Spec == Init /\ [][Next]_vars

\* Continuations run, what was interrupted ends, and the grace periods do. No
\* call, connection or finalizer has to end by itself.
Fairness ==
  /\ \A c \in Calls : WF_vars(Retain(c) \/ Resolve(c) \/ Resolved(c) \/ Cancel(c))
  /\ \A r \in Requests : /\ WF_vars(LeaseArrives(r) \/ (Closed(r) /\ LeaseFails(r)))
                         /\ WF_vars(CloseLease(r) \/ RequestOver(r))
  /\ \A b \in Bundles : WF_vars(Interrupted(b) /\ BuildFails(b))
  /\ WF_vars(Grace \/ TransportEnds(FALSE) \/ ReleaseEnds(FALSE))

FairSpec == Spec /\ Fairness

-----------------------------------------------------------------------------
TypeOK ==
  /\ accepting \in BOOLEAN /\ active \in Nat
  /\ request \in [Requests -> {"new", "open", "closing", "closed", "failed"}]
  /\ own \in [Requests -> BOOLEAN] /\ cancelled \in [Requests -> BOOLEAN]
  /\ lease \in [Requests -> {"none", "pending", "ready", "failed"}]
  /\ source \in [Requests -> Acquisitions \union {None}]
  /\ call \in [Calls -> {"idle", "entered", "held", "waiting", "using", "done"}]
  /\ of \in [Calls -> Requests \union {None}]
  /\ scope \in [Bundles -> {"none", "building", "open", "closing", "closed", "stuck"}]
  /\ exit \in [Bundles -> {"none", "ok", "unavailable", "fatal"}]
  /\ shared \in Acquisitions \union {None}
  /\ owned \subseteq Acquisitions /\ settled \subseteq Acquisitions /\ closing \subseteq Acquisitions
  /\ resolver \in {"open", "closed"}
  /\ server \in {"up", "draining", "telemetry", "clients", "listener", "release", "over"}
  /\ reported \in BOOLEAN

BundleOf(c) == IF own[of[c]] THEN of[c] ELSE source[of[c]]

\* A call never uses a client that is closed, or being closed: its request's own
\* in no case, the shared one unless a shutdown that ran out of time was reported.
UsedIsOpen ==
  \A c \in Calls : call[c] = "using" =>
    scope[BundleOf(c)] = "open" \/ (~own[of[c]] /\ reported)

\* Whenever its acquisition answers, a request that is over has left no client
\* open; nor has the shared resolver once its close is, whatever it had evicted
\* or was still building.
NothingLeaks ==
  /\ \A r \in Requests : request[r] = "closed" => scope[r] \in {"none", "closed"}
  /\ ResolverDone => \A a \in Acquisitions : scope[a] \in {"none", "closed", "stuck"}

\* One connection at a time is shared, and one that is known to be unavailable
\* is not given to anybody who comes later.
OneSharedClient ==
  /\ Cardinality({a \in Acquisitions : scope[a] \in {"building", "open"}}) <= 1
  /\ shared \in settled => exit[shared] # "unavailable"

\* A shutdown that reports nothing has left nothing: no call, no request, no
\* client, but one whose failed cleanup its request has reported.
SilentMeansClean ==
  server = "over" /\ ~reported =>
    /\ Quiet
    /\ \A b \in Bundles : \/ scope[b] \in {"none", "closed"}
                          \/ b \in Requests /\ request[b] = "failed"

\* Somebody is waited for: a request that was given up or that nobody uses any
\* more, unless it waits for the finalizers of its own client, or the shutdown.
\* Neither is ever taken back.
Abandoned(r) == Closed(r) /\ (cancelled[r] \/ Users(r) = {})
Pending(r) == Abandoned(r) /\ request[r] = "closing" /\ scope[r] # "closing"
ShuttingDown == server \notin {"up", "over"}

\* A request that is given up, or that nobody uses any more, is over without
\* waiting for a connection; only its own client's finalizers can hold it up.
\* And whatever hangs, a shutdown ends.
NothingHangs == []<>(~ShuttingDown /\ \A r \in Requests : ~Pending(r))
=============================================================================
