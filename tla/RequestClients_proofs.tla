------------------------ MODULE RequestClients_proofs ------------------------
(***************************************************************************)
(* For any number of requests, tool calls and acquisitions: no call uses a *)
(* client that was closed, none is left open, and a shutdown that reports  *)
(* nothing has left nothing.                                               *)
(***************************************************************************)
EXTENDS RequestClients, FiniteSetTheorems, TLAPS

\* How far a bundle has been built and closed.
BuildInv ==
  \A b \in Bundles :
    /\ scope[b] \in {"none", "building"} <=> exit[b] = "none"
    /\ exit[b] \in {"unavailable", "fatal"} => scope[b] = "closed"

\* A call belongs to a request that has arrived; one that uses a client has its lease.
CallInv ==
  \A c \in Calls :
    /\ call[c] # "idle" => of[c] \in Requests /\ request[of[c]] # "new"
    /\ call[c] = "using" => lease[of[c]] = "ready"

\* What a lease stands for; a request's own client is closed when it is idle.
LeaseInv ==
  \A r \in Requests :
    /\ request[r] = "new" => lease[r] = "none"
    /\ lease[r] = "none" => scope[r] = "none" /\ source[r] = None
    /\ own[r] => source[r] = None
    /\ ~own[r] => scope[r] = "none"
    /\ lease[r] = "ready" => exit[IF own[r] THEN r ELSE source[r]] = "ok"
    /\ lease[r] = "ready" /\ ~own[r] => source[r] \in Acquisitions
    /\ lease[r] = "failed" => scope[r] \in {"none", "closed"}
    /\ exit[r] = "ok" /\ scope[r] # "open" => Idle(r)
    /\ request[r] = "closed" => lease[r] # "pending" /\ scope[r] \in {"none", "closed"}

\* The resolver knows every acquisition that has something to close.
ResolverInv ==
  /\ resolver = "open" => closing = {}
  /\ resolver = "closed" => owned = {} /\ shared = None
  /\ \A a \in Acquisitions :
       /\ scope[a] \in {"building", "open", "closing"} => a \in owned \union closing
       /\ exit[a] = "ok" /\ scope[a] # "open" => a \in closing
       /\ a \in settled => exit[a] # "none"
       /\ resolver = "open" /\ scope[a] \in {"building", "open"} => a = shared
       /\ a = shared /\ a \in settled => exit[a] # "unavailable"
  /\ \A a, b \in Acquisitions :
       scope[a] \in {"building", "open"} /\ scope[b] \in {"building", "open"} => a = b

\* The admission counts the calls inside.
CountInv == active = Cardinality(Admitted)

\* Clients are closed when nobody is inside, or it was reported.
ServerInv ==
  /\ server # "up" => ~accepting
  /\ server \in {"telemetry", "clients"} => Admitted = {}
  /\ server \in {"listener", "release", "over"} /\ ~reported => Admitted = {}
  /\ resolver = "closed" => server \in {"clients", "listener", "release", "over"}
  /\ server \in {"release", "over"} => resolver = "closed"
  /\ server \in {"release", "over"} /\ ~reported => Quiet
  /\ server = "over" /\ ~reported => \A a \in Acquisitions : scope[a] \in {"none", "closed"}

IInv == TypeOK /\ BuildInv /\ CallInv /\ LeaseInv /\ ResolverInv /\ CountInv /\ ServerInv

-----------------------------------------------------------------------------
(* The count.                                                              *)

\* Only finitely many calls are inside.
LEMMA AdmittedFinite == IsFiniteSet(Admitted) /\ Cardinality(Admitted) \in Nat
  BY ConstantsAssumption, FS_Subset, FS_CardinalityType DEF Admitted

\* What one call's step does to the admission.
LEMMA LeaveCounts ==
  ASSUME TypeOK, CountInv, NEW c \in Calls, c \in Admitted, LeaveCall(c)
  PROVE  CountInv' /\ Admitted' = Admitted \ {c} /\ active' \in Nat
<1>1. Admitted' = Admitted \ {c}
  BY DEF LeaveCall, Admitted, TypeOK
<1>2. Cardinality(Admitted') = Cardinality(Admitted) - 1 /\ Cardinality(Admitted') \in Nat
  <2>1. IsFiniteSet(Admitted')
    BY <1>1, AdmittedFinite, FS_Subset
  <2> QED BY <1>1, <2>1, AdmittedFinite, FS_RemoveElement, FS_CardinalityType
<1>3. active' = active - 1
  BY DEF LeaveCall, Admission!Release
<1> QED BY <1>1, <1>2, <1>3 DEF CountInv

\* A call that is inside keeps its place or leaves.
LEMMA CallCounts ==
  ASSUME TypeOK, CountInv, NEW c \in Calls, CallStep(c)
  PROVE  CountInv' /\ Admitted' \subseteq Admitted /\ active' \in Nat
<1>1. c \in Admitted
  BY DEF CallStep, Retain, Resolve, Resolved, Finish, Cancel, Admitted
<1>2. CASE LeaveCall(c)
  BY <1>1, <1>2, LeaveCounts
<1>3. CASE ~LeaveCall(c)
  <2>1. UNCHANGED admission /\ \E where \in {"held", "waiting", "using"} : call' = [call EXCEPT ![c] = where]
    BY <1>3 DEF CallStep, Retain, Resolve, Resolved, Finish, Cancel
  <2>2. Admitted' = Admitted
    BY <1>1, <2>1 DEF Admitted, TypeOK
  <2> QED BY <2>1, <2>2 DEF CountInv, admission, TypeOK
<1> QED BY <1>2, <1>3

\* A call that enters is counted, and enters only while the admission accepts.
LEMMA EnterCounts ==
  ASSUME TypeOK, CountInv, NEW c \in Calls, NEW r \in Requests, Enter(c, r)
  PROVE  /\ CountInv' /\ active' \in Nat
         /\ ~accepting => Admitted' = Admitted
<1>1. CASE Admission!Enter /\ call' = [call EXCEPT ![c] = "entered"]
  <2>1. Admitted' = Admitted \union {c} /\ c \notin Admitted
    BY <1>1 DEF Enter, Admitted, TypeOK
  <2>2. Cardinality(Admitted') = Cardinality(Admitted) + 1
    BY <2>1, AdmittedFinite, FS_AddElement
  <2>3. accepting /\ active' = active + 1
    BY <1>1 DEF Admission!Enter
  <2> QED BY <2>2, <2>3, AdmittedFinite DEF CountInv
<1>2. CASE Admission!Rejected /\ call' = [call EXCEPT ![c] = "done"]
  <2>1. Admitted' = Admitted
    BY <1>2 DEF Enter, Admitted, TypeOK
  <2>2. active' = active
    BY <1>2 DEF Admission!Rejected
  <2> QED BY <2>1, <2>2, AdmittedFinite DEF CountInv
<1> QED BY <1>1, <1>2 DEF Enter

\* Nothing else touches the admission's count.
LEMMA OthersCount ==
  ASSUME [Next]_vars, \A c \in Calls : ~CallStep(c) /\ \A r \in Requests : ~Enter(c, r)
  PROVE  UNCHANGED <<call, of, active>> /\ (accepting' = accepting \/ (accepting' = FALSE /\ Stop))
<1>1. ASSUME NEW r \in Requests, LeaseStep(r) \/ RequestStep(r) PROVE UNCHANGED <<calls, admission>>
  BY <1>1 DEF LeaseStep, RequestStep, Provide, LeaseFails, LeaseArrives, Arrive, Respond, Abort, CloseLease, RequestOver
<1>2. ASSUME NEW b, BuildStep(b) \/ AcquisitionStep(b) PROVE UNCHANGED <<calls, admission>>
  BY <1>2 DEF BuildStep, AcquisitionStep, BuildOk, BuildFails, ScopeCloses, ScopeSticks, Delivered, CloseAcquisition
<1>3. CASE Shutdown
  BY <1>3 DEF Shutdown, Stop, Drained, ClientsEnd, Grace, TelemetryEnds, TransportEnds, ReleaseEnds, Admission!Quiesce, calls, admission
<1>4. CASE UNCHANGED vars
  BY <1>4 DEF vars, calls, admission
<1> QED BY <1>1, <1>2, <1>3, <1>4 DEF Next, calls, admission

\* The count is that of the calls inside after every step.
LEMMA CountStep == TypeOK /\ CountInv /\ [Next]_vars => CountInv' /\ active' \in Nat
<1> SUFFICES ASSUME TypeOK, CountInv, [Next]_vars PROVE CountInv' /\ active' \in Nat
  OBVIOUS
<1>1. CASE \E c \in Calls : CallStep(c) \/ \E r \in Requests : Enter(c, r)
  BY <1>1, CallCounts, EnterCounts
<1>2. CASE \A c \in Calls : ~CallStep(c) /\ \A r \in Requests : ~Enter(c, r)
  BY <1>2, OthersCount DEF CountInv, Admitted, TypeOK
<1> QED BY <1>1, <1>2

-----------------------------------------------------------------------------
(* The steps.                                                              *)

\* Every variable keeps its type.
LEMMA TypeStep == TypeOK /\ CountInv /\ [Next]_vars => TypeOK'
<1> SUFFICES ASSUME TypeOK, CountInv, [Next]_vars PROVE TypeOK'
  OBVIOUS
<1>1. active' \in Nat
  BY CountStep
<1> USE <1>1 DEF TypeOK
<1>2. ASSUME NEW c \in Calls, CallStep(c) PROVE TypeOK'
  BY <1>2 DEF CallStep, Retain, Resolve, Resolved, Finish, Cancel, LeaveCall, Admission!Release,
     requests, leases, builds, sharing, admission
<1>3. ASSUME NEW c \in Calls, NEW r \in Requests, Enter(c, r) PROVE TypeOK'
  BY <1>3 DEF Enter, Admission!Enter, Admission!Rejected, requests, leases, builds, sharing
<1>4. ASSUME NEW r \in Requests, LeaseFails(r) \/ LeaseArrives(r) PROVE TypeOK'
  BY <1>4 DEF LeaseFails, LeaseArrives, admission, requests, calls, builds, sharing
<1>5. ASSUME NEW r \in Requests, Provide(r) PROVE TypeOK'
  BY <1>5 DEF Provide, ResolveShared, Join, StartShared, Bundles, admission, requests, leases, calls, sharing
<1>6. ASSUME NEW r \in Requests, RequestStep(r) PROVE TypeOK'
  BY <1>6, ZenonT(60) DEF RequestStep, Arrive, Respond, Abort, CloseLease, RequestOver, Bundles, admission, requests, leases, calls, builds, sharing
<1>7. ASSUME NEW b \in Bundles, BuildStep(b) PROVE TypeOK'
  BY <1>7 DEF BuildStep, BuildOk, BuildFails, ScopeCloses, ScopeSticks, admission, requests, leases, calls, sharing
<1>8. ASSUME NEW a \in Acquisitions, AcquisitionStep(a) PROVE TypeOK'
  BY <1>8 DEF AcquisitionStep, Delivered, Settle, CloseAcquisition, Bundles, admission, requests, leases, calls, builds, sharing
<1>9. CASE Shutdown
  BY <1>9 DEF Shutdown, Stop, Drained, ClientsEnd, Grace, TelemetryEnds, TransportEnds, ReleaseEnds, CloseResolver,
     CloseFailed, Admission!Quiesce, admission, requests, leases, calls, builds, sharing
<1>10. CASE UNCHANGED vars
  BY <1>10 DEF vars, admission, requests, leases, calls, builds, sharing
<1> QED BY <1>2, <1>3, <1>4, <1>5, <1>6, <1>7, <1>8, <1>9, <1>10 DEF Next, LeaseStep

\* A bundle has an exit exactly when it is no longer being built.
LEMMA BuildInvStep == TypeOK /\ BuildInv /\ [Next]_vars => BuildInv'
<1> SUFFICES ASSUME TypeOK, BuildInv, [Next]_vars PROVE BuildInv'
  OBVIOUS
<1> USE DEF TypeOK, BuildInv
<1>1. ASSUME NEW c \in Calls, CallStep(c) \/ \E r \in Requests : Enter(c, r) PROVE BuildInv'
  BY <1>1 DEF CallStep, Retain, Resolve, Resolved, Finish, Cancel, Enter, builds
<1>2. ASSUME NEW r \in Requests, Provide(r) PROVE BuildInv'
  BY <1>2 DEF Provide, ResolveShared, Join, StartShared, Bundles
<1>3. ASSUME NEW r \in Requests, LeaseFails(r) \/ LeaseArrives(r) \/ RequestStep(r) PROVE BuildInv'
  BY <1>3 DEF LeaseFails, LeaseArrives, RequestStep, Arrive, Respond, Abort, CloseLease, RequestOver, Bundles, builds
<1>4. ASSUME NEW b \in Bundles, BuildStep(b) PROVE BuildInv'
  BY <1>4 DEF BuildStep, BuildOk, BuildFails, ScopeCloses, ScopeSticks
<1>5. ASSUME NEW a \in Acquisitions, AcquisitionStep(a) PROVE BuildInv'
  BY <1>5 DEF AcquisitionStep, Delivered, CloseAcquisition, Bundles, builds
<1>6. CASE Shutdown \/ UNCHANGED vars
  BY <1>6 DEF Shutdown, Stop, Drained, ClientsEnd, Grace, TelemetryEnds, TransportEnds, ReleaseEnds, builds, vars
<1> QED BY <1>1, <1>2, <1>3, <1>4, <1>5, <1>6 DEF Next, LeaseStep

\* A call uses what its request's lease is for.
LEMMA CallInvStep == TypeOK /\ CallInv /\ [Next]_vars => CallInv'
<1> SUFFICES ASSUME TypeOK, CallInv, [Next]_vars PROVE CallInv'
  OBVIOUS
<1> USE DEF TypeOK, CallInv
<1>1. ASSUME NEW c \in Calls, CallStep(c) PROVE CallInv'
  BY <1>1 DEF CallStep, Retain, Resolve, Resolved, Finish, Cancel, LeaveCall, leases, requests
<1>2. ASSUME NEW c \in Calls, NEW r \in Requests, Enter(c, r) PROVE CallInv'
  BY <1>2 DEF Enter, leases, requests
<1>3. ASSUME NEW r \in Requests, Provide(r) PROVE CallInv'
  BY <1>3 DEF Provide, ResolveShared, Join, StartShared, calls, leases, requests
<1>4. ASSUME NEW r \in Requests, LeaseFails(r) \/ LeaseArrives(r) \/ RequestStep(r) PROVE CallInv'
  BY <1>4 DEF LeaseFails, LeaseArrives, RequestStep, Arrive, Respond, Abort, CloseLease, RequestOver, calls, leases, requests
<1>5. ASSUME NEW b, BuildStep(b) \/ AcquisitionStep(b) PROVE CallInv'
  BY <1>5 DEF BuildStep, BuildOk, BuildFails, ScopeCloses, ScopeSticks, AcquisitionStep, Delivered, CloseAcquisition, calls, leases, requests
<1>6. CASE Shutdown \/ UNCHANGED vars
  BY <1>6 DEF Shutdown, Stop, Drained, ClientsEnd, Grace, TelemetryEnds, TransportEnds, ReleaseEnds, calls, leases, requests, vars
<1> QED BY <1>1, <1>2, <1>3, <1>4, <1>5, <1>6 DEF Next, LeaseStep

\* A request that is closed and has no user gets none.
LEMMA IdleStays ==
  ASSUME TypeOK, CallInv, [Next]_vars, NEW r \in Requests, Idle(r)
  PROVE  Idle(r)'
<1> USE DEF TypeOK, CallInv, Idle, Closed, Users
<1>1. ASSUME NEW c \in Calls, CallStep(c) PROVE Idle(r)'
  BY <1>1 DEF CallStep, Retain, Resolve, Resolved, Finish, Cancel, LeaveCall, requests
<1>2. ASSUME NEW c \in Calls, NEW q \in Requests, Enter(c, q) PROVE Idle(r)'
  BY <1>2 DEF Enter, requests
<1>3. ASSUME NEW q \in Requests, LeaseStep(q) \/ RequestStep(q) PROVE Idle(r)'
  BY <1>3 DEF LeaseStep, Provide, LeaseFails, LeaseArrives, RequestStep, Arrive, Respond, Abort, CloseLease, RequestOver, calls, requests
<1>4. ASSUME NEW b, BuildStep(b) \/ AcquisitionStep(b) PROVE Idle(r)'
  BY <1>4 DEF BuildStep, BuildOk, BuildFails, ScopeCloses, ScopeSticks, AcquisitionStep, Delivered, CloseAcquisition, calls, requests
<1>5. CASE Shutdown \/ UNCHANGED vars
  BY <1>5 DEF Shutdown, Stop, Drained, ClientsEnd, Grace, TelemetryEnds, TransportEnds, ReleaseEnds, calls, requests, vars
<1> QED BY <1>1, <1>2, <1>3, <1>4, <1>5 DEF Next

\* A lease follows its request through every step.
LEMMA LeaseInvStep == TypeOK /\ BuildInv /\ CallInv /\ LeaseInv /\ [Next]_vars => LeaseInv'
<1> SUFFICES ASSUME TypeOK, BuildInv, CallInv, LeaseInv, [Next]_vars PROVE LeaseInv'
  OBVIOUS
<1>0. \A r \in Requests : Idle(r) => Idle(r)'
  BY IdleStays
<1> USE ConstantsAssumption, <1>0 DEF TypeOK, LeaseInv, Bundles
<1>1. ASSUME NEW c \in Calls, CallStep(c) PROVE LeaseInv'
  <2>1. CASE Resolve(c)
    <3>1. CASE Closed(of[c])
      BY <2>1, <3>1 DEF Resolve, leases, requests, builds
    <3>2. CASE ~Closed(of[c])
      <4>1. of[c] \in Requests /\ request[of[c]] = "open"
        BY <2>1, <3>2 DEF CallInv, Resolve, Closed
      <4>2. UNCHANGED <<request, own, cancelled, source, scope, exit>>
        BY <2>1, <3>2 DEF Resolve, requests, builds
      <4>3. lease' = [lease EXCEPT ![of[c]] = IF lease[of[c]] = "none" THEN "pending" ELSE lease[of[c]]]
        BY <2>1, <3>2 DEF Resolve
      <4> QED BY <4>1, <4>2, <4>3
    <3> QED BY <3>1, <3>2
  <2>2. CASE Retain(c) \/ Resolved(c) \/ Finish(c) \/ Cancel(c)
    BY <2>2 DEF Retain, Resolved, Finish, Cancel, leases, requests, builds
  <2> QED BY <1>1, <2>1, <2>2 DEF CallStep
<1>2. ASSUME NEW c \in Calls, NEW r \in Requests, Enter(c, r) PROVE LeaseInv'
  BY <1>2 DEF Enter, leases, requests, builds
<1>3. ASSUME NEW q \in Requests, Provide(q) PROVE LeaseInv'
  <2>1. CASE own[q]
    BY <1>3, <2>1 DEF Provide, Closed, BuildInv, leases, requests
  <2>2. CASE ~own[q]
    BY <1>3, <2>2 DEF Provide, Closed, ResolveShared, Join, StartShared, requests
  <2> QED BY <2>1, <2>2
<1>4. ASSUME NEW q \in Requests, LeaseFails(q) PROVE LeaseInv'
  BY <1>4 DEF LeaseFails, requests, builds
<1>5. ASSUME NEW q \in Requests, LeaseArrives(q) PROVE LeaseInv'
  BY <1>5 DEF LeaseArrives, BuildInv, requests, builds
<1>6. ASSUME NEW q \in Requests, Arrive(q) PROVE LeaseInv'
  BY <1>6 DEF Arrive, BuildInv, leases, builds
<1>7. ASSUME NEW q \in Requests, Respond(q) \/ Abort(q) PROVE LeaseInv'
  BY <1>7 DEF Respond, Abort, leases, builds
<1>8. ASSUME NEW q \in Requests, CloseLease(q) PROVE LeaseInv'
  BY <1>8 DEF CloseLease, leases, requests
<1>9. ASSUME NEW q \in Requests, RequestOver(q) PROVE LeaseInv'
  BY <1>9 DEF RequestOver, NothingToClose, leases, builds
<1>10. ASSUME NEW b \in Bundles, BuildOk(b) \/ BuildFails(b) PROVE LeaseInv'
  BY <1>10 DEF BuildOk, BuildFails, BuildInv, leases, requests
<1>11. ASSUME NEW b \in Bundles, ScopeCloses(b) \/ ScopeSticks(b) PROVE LeaseInv'
  BY <1>11 DEF ScopeCloses, ScopeSticks, leases, requests
<1>12. ASSUME NEW a \in Acquisitions, AcquisitionStep(a) PROVE LeaseInv'
  BY <1>12 DEF AcquisitionStep, Delivered, CloseAcquisition, leases, requests, builds
<1>13. CASE Shutdown \/ UNCHANGED vars
  BY <1>13 DEF Shutdown, Stop, Drained, ClientsEnd, Grace, TelemetryEnds, TransportEnds, ReleaseEnds, leases, requests, builds, vars
<1> QED BY <1>1, <1>2, <1>3, <1>4, <1>5, <1>6, <1>7, <1>8, <1>9, <1>10, <1>11, <1>12, <1>13
        DEF Next, LeaseStep, RequestStep, BuildStep

\* The resolver loses no acquisition that has something to close.
LEMMA ResolverInvStep == TypeOK /\ BuildInv /\ ResolverInv /\ [Next]_vars => ResolverInv'
<1> SUFFICES ASSUME TypeOK, BuildInv, ResolverInv, [Next]_vars PROVE ResolverInv'
  OBVIOUS
<1> USE ConstantsAssumption DEF TypeOK, ResolverInv, Bundles
<1>1. ASSUME NEW c \in Calls, CallStep(c) \/ \E r \in Requests : Enter(c, r) PROVE ResolverInv'
  BY <1>1 DEF CallStep, Retain, Resolve, Resolved, Finish, Cancel, Enter, builds, sharing
<1>2. ASSUME NEW r \in Requests, LeaseFails(r) \/ LeaseArrives(r) \/ RequestStep(r) PROVE ResolverInv'
  BY <1>2 DEF LeaseFails, LeaseArrives, RequestStep, Arrive, Respond, Abort, CloseLease, RequestOver, builds, sharing
<1>3. ASSUME NEW r \in Requests, Provide(r) PROVE ResolverInv'
  <2>1. CASE StartShared(r) /\ resolver = "open" /\ shared = None
    BY <1>3, <2>1 DEF Provide, StartShared, ResolveShared, BuildInv
  <2>2. CASE UNCHANGED <<scope, shared, owned>>
    BY <1>3, <2>2 DEF Provide, ResolveShared, sharing
  <2>3. CASE own[r]
    BY <1>3, <2>3 DEF Provide, sharing
  <2> QED BY <1>3, <2>1, <2>2, <2>3 DEF Provide, ResolveShared, Join
<1>4. ASSUME NEW b \in Bundles, BuildStep(b) PROVE ResolverInv'
  BY <1>4 DEF BuildStep, BuildOk, BuildFails, ScopeCloses, ScopeSticks, BuildInv, sharing
<1>5. ASSUME NEW a \in Acquisitions, Delivered(a) PROVE ResolverInv'
  BY <1>5 DEF Delivered, Settle, BuildInv, builds
<1>6. ASSUME NEW a \in Acquisitions, CloseAcquisition(a) PROVE ResolverInv'
  BY <1>6 DEF CloseAcquisition, sharing
<1>7. ASSUME NEW ok \in BOOLEAN, TelemetryEnds(ok) \/ TransportEnds(ok) PROVE ResolverInv'
  BY <1>7 DEF TelemetryEnds, TransportEnds, CloseResolver, builds
<1>8. CASE Stop \/ Drained \/ ClientsEnd \/ Grace \/ (\E ok \in BOOLEAN : ReleaseEnds(ok)) \/ UNCHANGED vars
  BY <1>8 DEF Stop, Drained, ClientsEnd, Grace, ReleaseEnds, builds, sharing, vars
<1> QED BY <1>1, <1>2, <1>3, <1>4, <1>5, <1>6, <1>7, <1>8 DEF Next, LeaseStep, AcquisitionStep, Shutdown

\* Once the admission is quiesced nobody gets inside.
LEMMA NobodyEnters ==
  ASSUME TypeOK, CountInv, [Next]_vars, ~accepting
  PROVE  ~accepting' /\ Admitted' \subseteq Admitted
<1>1. ASSUME NEW c \in Calls, CallStep(c) PROVE Admitted' \subseteq Admitted /\ accepting' = accepting
  <2>1. accepting' = accepting
    BY <1>1 DEF CallStep, Retain, Resolve, Resolved, Finish, Cancel, LeaveCall, Admission!Release, admission
  <2> QED BY <1>1, <2>1, CallCounts
<1>2. ASSUME NEW c \in Calls, NEW r \in Requests, Enter(c, r)
      PROVE  Admitted' \subseteq Admitted /\ accepting' = accepting
  <2>1. accepting' = accepting
    BY <1>2 DEF Enter, Admission!Enter, Admission!Rejected
  <2> QED BY <1>2, <2>1, EnterCounts
<1>3. CASE \A c \in Calls : ~CallStep(c) /\ \A r \in Requests : ~Enter(c, r)
  <2>1. UNCHANGED call /\ (accepting' = accepting \/ accepting' = FALSE)
    BY <1>3, OthersCount
  <2>2. Admitted' \subseteq Admitted
    BY <2>1 DEF Admitted
  <2>3. ~accepting'
    BY <2>1, Zenon
  <2> QED BY <2>2, <2>3
<1> QED BY <1>1, <1>2, <1>3, Zenon

\* What is over stays over: nothing arrives or enters a process that is releasing.
LEMMA QuietStays ==
  ASSUME TypeOK, [Next]_vars, server \in {"release", "over"}, Quiet
  PROVE  Quiet'
<1> USE DEF TypeOK, Quiet
<1>1. ASSUME NEW c \in Calls, CallStep(c) \/ \E r \in Requests : Enter(c, r) PROVE FALSE
  BY <1>1 DEF CallStep, Retain, Resolve, Resolved, Finish, Cancel, Enter
<1>2. ASSUME NEW r \in Requests, LeaseStep(r) \/ RequestStep(r) PROVE Quiet'
  BY <1>2 DEF LeaseStep, Provide, LeaseFails, LeaseArrives, RequestStep, Arrive, Respond, Abort, CloseLease, RequestOver, calls, requests
<1>3. ASSUME NEW b, BuildStep(b) \/ AcquisitionStep(b) PROVE Quiet'
  BY <1>3 DEF BuildStep, BuildOk, BuildFails, ScopeCloses, ScopeSticks, AcquisitionStep, Delivered, CloseAcquisition, calls, requests
<1>4. CASE Shutdown \/ UNCHANGED vars
  BY <1>4 DEF Shutdown, Stop, Drained, ClientsEnd, Grace, TelemetryEnds, TransportEnds, ReleaseEnds, calls, requests, vars
<1> QED BY <1>1, <1>2, <1>3, <1>4 DEF Next

AllReleased == \A a \in Acquisitions : scope[a] \in {"none", "closed"}

\* A resolver that is closed starts nothing.
LEMMA ReleasedStays ==
  ASSUME TypeOK, [Next]_vars, resolver = "closed", AllReleased
  PROVE  AllReleased'
<1> USE ConstantsAssumption DEF TypeOK, AllReleased, Bundles
<1>1. ASSUME NEW c \in Calls, CallStep(c) \/ \E r \in Requests : Enter(c, r) PROVE AllReleased'
  BY <1>1 DEF CallStep, Retain, Resolve, Resolved, Finish, Cancel, Enter, builds
<1>2. ASSUME NEW r \in Requests, LeaseStep(r) PROVE AllReleased'
  BY <1>2 DEF LeaseStep, Provide, ResolveShared, LeaseFails, LeaseArrives, builds
<1>3. ASSUME NEW r \in Requests, RequestStep(r) PROVE AllReleased'
  BY <1>3 DEF RequestStep, Arrive, Respond, Abort, CloseLease, RequestOver, builds
<1>4. ASSUME NEW b \in Bundles, BuildStep(b) PROVE AllReleased'
  BY <1>4 DEF BuildStep, BuildOk, BuildFails, ScopeCloses, ScopeSticks
<1>5. ASSUME NEW a \in Acquisitions, AcquisitionStep(a) PROVE AllReleased'
  BY <1>5 DEF AcquisitionStep, Delivered, CloseAcquisition, builds
<1>6. CASE Shutdown \/ UNCHANGED vars
  BY <1>6 DEF Shutdown, Stop, Drained, ClientsEnd, Grace, TelemetryEnds, TransportEnds, ReleaseEnds, builds, vars
<1> QED BY <1>1, <1>2, <1>3, <1>4, <1>5, <1>6 DEF Next

\* What a close of the resolver that succeeds has closed: everything.
LEMMA CloseIsComplete ==
  ASSUME TypeOK, BuildInv, ResolverInv, ResolverDone
  PROVE  \A a \in Acquisitions : scope[a] \in {"none", "closed"} \/ (scope[a] = "stuck" /\ a \in closing)
BY DEF TypeOK, BuildInv, ResolverInv, ResolverDone, Bundles

\* The shutdown's steps, in the order it takes them.
LEMMA ServerInvStep ==
  TypeOK /\ BuildInv /\ ResolverInv /\ CountInv /\ ServerInv /\ [Next]_vars => ServerInv'
<1> SUFFICES ASSUME TypeOK, BuildInv, ResolverInv, CountInv, ServerInv, [Next]_vars PROVE ServerInv'
  OBVIOUS
<1>1. CASE UNCHANGED <<server, reported, resolver>>
  <2>1. server # "up" => ~accepting' /\ Admitted' \subseteq Admitted
    BY NobodyEnters DEF ServerInv
  <2>2. server \in {"release", "over"} /\ Quiet => Quiet'
    BY QuietStays
  <2>3. resolver = "closed" /\ AllReleased => AllReleased'
    BY ReleasedStays
  <2> QED BY <1>1, <2>1, <2>2, <2>3 DEF ServerInv, AllReleased, TypeOK
<1>2. CASE Shutdown
  <2>1. UNCHANGED <<call, request>> /\ Admitted' = Admitted /\ (Quiet <=> Quiet')
    BY <1>2 DEF Shutdown, Stop, Drained, ClientsEnd, Grace, TelemetryEnds, TransportEnds, ReleaseEnds, calls, requests, Admitted, Quiet
  <2>2. CASE Stop
    BY <2>2 DEF Stop, ServerInv, Admission!Quiesce, sharing, TypeOK
  <2>3. CASE Drained
    <3>1. Admitted = {}
      BY <2>3, AdmittedFinite, FS_EmptySet DEF Drained, Admission!Drained, CountInv
    <3> QED BY <2>1, <2>3, <3>1 DEF Drained, Admission!Drained, ServerInv, sharing, admission, TypeOK
  <2>4. ASSUME NEW ok \in BOOLEAN, TelemetryEnds(ok) PROVE ServerInv'
    BY <2>1, <2>4 DEF TelemetryEnds, CloseResolver, ServerInv, admission, TypeOK
  <2>5. CASE ClientsEnd
    BY <2>1, <2>5 DEF ClientsEnd, ServerInv, sharing, admission, TypeOK
  <2>6. CASE Grace
    BY <2>1, <2>6 DEF Grace, ServerInv, sharing, admission, TypeOK
  <2>7. CASE TransportEnds(TRUE)
    BY <2>1, <2>7 DEF TransportEnds, CloseResolver, ServerInv, admission, TypeOK
  <2>8. CASE TransportEnds(FALSE)
    BY <2>1, <2>8 DEF TransportEnds, CloseResolver, ServerInv, admission, TypeOK
  <2>9. CASE ReleaseEnds(TRUE)
    <3>1. ~reported' => ~reported /\ ~CloseFailed
      BY <2>9 DEF ReleaseEnds
    <3>2. ~CloseFailed => AllReleased
      BY <2>9, CloseIsComplete DEF ReleaseEnds, CloseFailed, AllReleased
    <3>3. AllReleased' <=> AllReleased
      BY <2>9 DEF ReleaseEnds, builds, AllReleased
    <3> QED BY <2>1, <2>9, <3>1, <3>2, <3>3 DEF ReleaseEnds, AllReleased, ServerInv, admission, sharing, TypeOK
  <2>10. CASE ReleaseEnds(FALSE)
    BY <2>1, <2>10 DEF ReleaseEnds, ServerInv, admission, sharing, TypeOK
  <2> QED BY <1>2, <2>2, <2>3, <2>4, <2>5, <2>6, <2>7, <2>8, <2>9, <2>10 DEF Shutdown
<1>3. Shutdown \/ UNCHANGED <<server, reported, resolver>>
  <2>1. ASSUME NEW c \in Calls, CallStep(c) \/ \E r \in Requests : Enter(c, r) PROVE UNCHANGED <<server, reported, resolver>>
    BY <2>1 DEF CallStep, Retain, Resolve, Resolved, Finish, Cancel, Enter, sharing
  <2>2. ASSUME NEW r \in Requests, LeaseStep(r) \/ RequestStep(r) PROVE UNCHANGED <<server, reported, resolver>>
    BY <2>2 DEF LeaseStep, Provide, ResolveShared, LeaseFails, LeaseArrives, RequestStep, Arrive, Respond, Abort, CloseLease, RequestOver, sharing
  <2>3. ASSUME NEW b, BuildStep(b) \/ AcquisitionStep(b) PROVE UNCHANGED <<server, reported, resolver>>
    BY <2>3 DEF BuildStep, BuildOk, BuildFails, ScopeCloses, ScopeSticks, AcquisitionStep, Delivered, CloseAcquisition, sharing
  <2> QED BY <2>1, <2>2, <2>3 DEF Next, vars, sharing
<1> QED BY <1>1, <1>2, <1>3

-----------------------------------------------------------------------------
(* The invariant, and what follows from it.                                *)

\* The invariant holds initially.
LEMMA InitIInv == Init => IInv
<1> SUFFICES ASSUME Init PROVE IInv
  OBVIOUS
<1> USE DEF Init, Admission!Init
<1>1. TypeOK
  BY DEF TypeOK, Bundles
<1>2. BuildInv
  BY DEF BuildInv
<1>3. CallInv
  BY DEF CallInv
<1>4. LeaseInv
  BY DEF LeaseInv, Bundles
<1>5. ResolverInv
  BY ConstantsAssumption DEF ResolverInv, Bundles
<1>6. CountInv
  <2>1. Admitted = {}
    BY DEF Admitted
  <2> QED BY <2>1, FS_EmptySet DEF CountInv
<1>7. ServerInv
  BY DEF ServerInv
<1> QED BY <1>1, <1>2, <1>3, <1>4, <1>5, <1>6, <1>7 DEF IInv

\* The invariant holds in every state.
LEMMA Inductive == Spec => []IInv
<1>1. IInv /\ [Next]_vars => IInv'
  <2> SUFFICES ASSUME IInv, [Next]_vars PROVE IInv'
    OBVIOUS
  <2> USE DEF IInv
  <2>1. TypeOK' /\ CountInv'
    BY TypeStep, CountStep
  <2>2. BuildInv' /\ CallInv' /\ LeaseInv'
    BY BuildInvStep, CallInvStep, LeaseInvStep
  <2>3. ResolverInv' /\ ServerInv'
    BY ResolverInvStep, ServerInvStep
  <2> QED BY <2>1, <2>2, <2>3
<1> QED BY InitIInv, <1>1, PTL DEF Spec

\* Every variable keeps its type, for any number of requests, calls and
\* acquisitions.
THEOREM Typed == Spec => []TypeOK
BY Inductive, PTL DEF IInv

\* No tool call uses a client whose scope was closed, unless a shutdown that ran
\* out of time has said so: the users a request counts, and the count of the
\* admission, keep both kinds of client open.
THEOREM ClientsStayOpen == Spec => []UsedIsOpen
<1>1. IInv => UsedIsOpen
  <2> SUFFICES ASSUME IInv, NEW c \in Calls, call[c] = "using"
               PROVE  scope[BundleOf(c)] = "open" \/ (~own[of[c]] /\ reported)
    BY DEF UsedIsOpen
  <2> USE DEF IInv, TypeOK, BundleOf
  <2>1. of[c] \in Requests /\ lease[of[c]] = "ready"
    BY DEF CallInv
  <2>2. exit[BundleOf(c)] = "ok"
    BY <2>1 DEF LeaseInv
  <2>3. CASE own[of[c]]
    BY <2>1, <2>2, <2>3 DEF LeaseInv, Idle, Users
  <2>4. CASE ~own[of[c]]
    <3>1. source[of[c]] \in Acquisitions
      BY <2>1, <2>4 DEF LeaseInv
    <3>2. c \in Admitted
      BY DEF Admitted
    <3>3. scope[source[of[c]]] = "open" \/ resolver = "closed"
      BY <2>2, <2>4, <3>1 DEF ResolverInv
    <3>4. resolver = "closed" => reported
      BY <3>2 DEF ServerInv
    <3> QED BY <2>4, <3>3, <3>4
  <2> QED BY <2>3, <2>4
<1> QED BY Inductive, <1>1, PTL

\* A request that is over has left no client open, and a resolver whose close is
\* done none of the acquisitions it ever made.
THEOREM AllClosed == Spec => []NothingLeaks
<1>1. IInv => NothingLeaks
  <2> SUFFICES ASSUME IInv PROVE NothingLeaks
    OBVIOUS
  <2>1. \A r \in Requests : request[r] = "closed" => scope[r] \in {"none", "closed"}
    BY DEF IInv, LeaseInv
  <2>2. ResolverDone => \A a \in Acquisitions : scope[a] \in {"none", "closed", "stuck"}
    BY CloseIsComplete DEF IInv
  <2> QED BY <2>1, <2>2 DEF NothingLeaks
<1> QED BY Inductive, <1>1, PTL

\* The resolver never has two connections under way or open, and shares none it
\* was told is unavailable.
THEOREM OneConnection == Spec => []OneSharedClient
<1>1. IInv => OneSharedClient
  <2> SUFFICES ASSUME IInv PROVE OneSharedClient
    OBVIOUS
  <2> DEFINE Live == {a \in Acquisitions : scope[a] \in {"building", "open"}}
  <2>1. Cardinality(Live) <= 1
    <3>1. CASE Live = {}
      BY <3>1, FS_EmptySet
    <3>2. CASE Live # {}
      <4>1. PICK a : a \in Live
        BY <3>2
      <4>2. Live = {a}
        BY <4>1 DEF IInv, ResolverInv
      <4> QED BY <4>2, FS_Singleton
    <3> QED BY <3>1, <3>2
  <2>2. shared \in settled => exit[shared] # "unavailable"
    BY DEF IInv, ResolverInv, TypeOK
  <2> QED BY <2>1, <2>2 DEF OneSharedClient
<1> QED BY Inductive, <1>1, PTL

\* A shutdown that ends without a report has left no call, no request and no
\* client, but those whose failed cleanup their request has reported.
THEOREM SilenceIsClean == Spec => []SilentMeansClean
<1>1. IInv => SilentMeansClean
  <2> SUFFICES ASSUME IInv, server = "over", ~reported
               PROVE  Quiet /\ \A b \in Bundles : \/ scope[b] \in {"none", "closed"}
                                                  \/ b \in Requests /\ request[b] = "failed"
    BY DEF SilentMeansClean
  <2>1. Quiet
    BY DEF IInv, ServerInv
  <2>2. \A a \in Acquisitions : scope[a] \in {"none", "closed"}
    BY DEF IInv, ServerInv
  <2>3. \A r \in Requests : request[r] \in {"new", "closed"} => scope[r] \in {"none", "closed"}
    BY DEF IInv, LeaseInv
  <2> QED BY <2>1, <2>2, <2>3 DEF Quiet, Bundles
<1> QED BY Inductive, <1>1, PTL
=============================================================================
