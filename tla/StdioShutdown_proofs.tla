------------------------- MODULE StdioShutdown_proofs -------------------------
(***************************************************************************)
(* For any number of tool calls: the allowances of a stdio shutdown fit    *)
(* its deadline, calls get theirs, and the first reason is the only one.   *)
(***************************************************************************)
EXTENDS StdioShutdown, FiniteSetTheorems, TLAPS

Inside == {c \in Calls : call[c] = "inside"}

\* The admission counts the calls inside, and closes with the first reason.
AdmissionInv ==
  /\ active = Cardinality(Inside)
  /\ state # "Running" => ~accepting
  /\ main \in {"draining", "closing", "ended", "exited"} => state # "Running"
  /\ state = "Running" <=> reason = "none"

\* Time stands still while something can run: it has passed no allowance.
ClockInv ==
  /\ main \in {"building", "serving", "releasing"} => time = 0
  /\ main \in {"building", "serving", "releasing", "draining"} => since = 0
  /\ main = "draining" => time <= DrainAllowance
  /\ main \in {"closing", "ended", "exited"} => since <= DrainAllowance
  /\ main = "closing" =>
       \/ time <= since + CloseAllowance
       \/ resource["wire"] \in {"stuck", "overdue"} /\ \A x \in Resources : resource[x] # "closing"
  /\ \A x \in Resources \ {"wire"} : resource[x] \notin {"stuck", "overdue"}

\* Resources are closed after the drain, or after its time is over.
ResourceInv ==
  /\ main \in {"building", "serving", "releasing", "draining"} => \A x \in Resources : resource[x] = "open"
  /\ main \in {"closing", "ended"} => \A x \in Resources : resource[x] # "open"

IInv == TypeOK /\ AdmissionInv /\ ClockInv /\ ResourceInv /\ CallsGetTheirTime /\ ForcedIsStuck

-----------------------------------------------------------------------------
(* The count.                                                              *)

\* Only finitely many calls are inside.
LEMMA InsideFinite == IsFiniteSet(Inside) /\ Cardinality(Inside) \in Nat
  BY CallsAssumption, FS_Subset, FS_CardinalityType DEF Inside

\* One call enters.
LEMMA EnterCounts ==
  ASSUME TypeOK, NEW c \in Calls, call[c] # "inside", call' = [call EXCEPT ![c] = "inside"]
  PROVE  Cardinality(Inside') = Cardinality(Inside) + 1
<1>1. Inside' = Inside \union {c} /\ c \notin Inside
  BY DEF Inside, TypeOK
<1> QED BY <1>1, InsideFinite, FS_AddElement

\* One call leaves.
LEMMA LeaveCounts ==
  ASSUME TypeOK, NEW c \in Calls, call[c] = "inside", call' = [call EXCEPT ![c] = "done"]
  PROVE  Cardinality(Inside') = Cardinality(Inside) - 1
<1>1. Inside' = Inside \ {c} /\ c \in Inside
  BY DEF Inside, TypeOK
<1> QED BY <1>1, InsideFinite, FS_RemoveElement

\* Nobody else does.
LEMMA OthersCount ==
  ASSUME TypeOK, [Next]_vars, \A c \in Calls : ~Enter(c) /\ ~Leave(c)
  PROVE  Inside' = Inside /\ active' = active
<1>1. ASSUME NEW c \in Calls, Read(c) \/ Drop(c) PROVE Inside' = Inside /\ active' = active
  BY <1>1 DEF Read, Drop, Inside, TypeOK, admission
<1>2. ASSUME NEW x \in Resources, Closes(x) \/ CloseTimesOut(x) PROVE Inside' = Inside /\ active' = active
  BY <1>2 DEF Closes, CloseTimesOut, Inside, admission
<1>3. CASE HostEnds \/ InputDrained \/ Lifecycle \/ StopServer \/ Main \/ Unwind \/ UNCHANGED vars
  BY <1>3 DEF HostEnds, InputDrained, Lifecycle, HearEnd, HearSignal, LifecycleRequests, StopServer, Main, Built,
     StopsServing, Unwind, Execute, Request, Admission!Quiesce, Drained, DrainTimesOut, BeginClosing, Completes,
     ForceExit, Tick, Inside, admission, vars
<1> QED BY <1>1, <1>2, <1>3 DEF Next

-----------------------------------------------------------------------------
(* The steps.                                                              *)

\* A reason is the first, or changes nothing.
LEMMA RequestIsFirst ==
  ASSUME NEW why, Request(why)
  PROVE  \/ state = "Running" /\ state' = "Quiescing" /\ reason' = why /\ accepting' = FALSE /\ active' = active
         \/ state # "Running" /\ state' = state /\ reason' = reason /\ accepting' = accepting /\ active' = active
  BY DEF Request, Admission!Quiesce, shutdown, admission

\* Every variable keeps its type.
LEMMA TypeStep == TypeOK /\ AdmissionInv /\ [Next]_vars => TypeOK'
<1> SUFFICES ASSUME TypeOK, AdmissionInv, [Next]_vars PROVE TypeOK'
  OBVIOUS
<1> USE DEF TypeOK
<1>1. ASSUME NEW c \in Calls, Read(c) \/ Drop(c) PROVE TypeOK'
  BY <1>1 DEF Read, Drop, admission, shutdown, clock
<1>2. ASSUME NEW c \in Calls, Enter(c) PROVE TypeOK'
  BY <1>2 DEF Enter, Admission!Enter, Admission!Rejected, shutdown, clock
<1>3. ASSUME NEW c \in Calls, Leave(c) PROVE TypeOK'
  <2>1. active' \in Nat
    <3>1. Cardinality(Inside) # 0
      BY <1>3, InsideFinite, FS_EmptySet DEF Leave, Inside
    <3>2. active' = active - 1
      BY <1>3 DEF Leave, Admission!Release
    <3> QED BY <3>1, <3>2 DEF AdmissionInv
  <2> QED BY <1>3, <2>1 DEF Leave, Admission!Release, shutdown, clock
<1>4. ASSUME NEW x \in Resources, Closes(x) \/ CloseTimesOut(x) PROVE TypeOK'
  BY <1>4 DEF Closes, CloseTimesOut, admission, shutdown, clock
<1>5. CASE HostEnds \/ InputDrained \/ HearEnd \/ HearSignal \/ StopServer \/ UNCHANGED vars
  <2>1. CASE StopServer
    BY <2>1 DEF StopServer, admission, shutdown, clock
  <2>2. CASE HostEnds \/ InputDrained \/ HearEnd \/ HearSignal
    BY <2>2 DEF HostEnds, InputDrained, HearEnd, HearSignal, admission, shutdown, clock
  <2>3. CASE UNCHANGED vars
    BY <2>3 DEF admission, shutdown, clock, vars
  <2> QED BY <1>5, <2>1, <2>2, <2>3
<1>6. CASE LifecycleRequests
  BY <1>6, RequestIsFirst DEF LifecycleRequests, clock
<1>7. CASE Execute
  BY <1>7, RequestIsFirst DEF Execute, clock
<1>8. CASE Built \/ StopsServing \/ Unwind \/ Completes \/ ForceExit
  BY <1>8 DEF Built, StopsServing, Unwind, Completes, ForceExit, admission, shutdown, clock
<1>9. CASE Drained \/ DrainTimesOut
  BY <1>9 DEF Drained, DrainTimesOut, BeginClosing, admission
<1>10. CASE Tick
  BY <1>10 DEF Tick, Deadline, admission, shutdown
<1> QED BY <1>1, <1>2, <1>3, <1>4, <1>5, <1>6, <1>7, <1>8, <1>9, <1>10 DEF Next, Lifecycle, Main

\* What is inside is counted, and the count only falls once there is a reason.
LEMMA AdmissionStep == TypeOK /\ AdmissionInv /\ [Next]_vars => AdmissionInv' /\ (state # "Running" => active' <= active)
<1> SUFFICES ASSUME TypeOK, AdmissionInv, [Next]_vars PROVE AdmissionInv' /\ (state # "Running" => active' <= active)
  OBVIOUS
<1> USE DEF TypeOK, AdmissionInv
<1>1. ASSUME NEW c \in Calls, Enter(c) PROVE AdmissionInv' /\ (state # "Running" => active' <= active)
  <2>1. CASE Admission!Enter /\ call' = [call EXCEPT ![c] = "inside"]
    <3>1. Cardinality(Inside') = Cardinality(Inside) + 1
      BY <1>1, <2>1, EnterCounts DEF Enter
    <3> QED BY <1>1, <2>1, <3>1 DEF Enter, Admission!Enter, shutdown
  <2>2. CASE Admission!Rejected /\ call' = [call EXCEPT ![c] = "done"]
    <3>1. Inside' = Inside
      BY <1>1, <2>2 DEF Enter, Inside
    <3> QED BY <1>1, <2>2, <3>1 DEF Enter, Admission!Rejected, shutdown
  <2> QED BY <1>1, <2>1, <2>2 DEF Enter
<1>2. ASSUME NEW c \in Calls, Leave(c) PROVE AdmissionInv' /\ (state # "Running" => active' <= active)
  <2>1. Cardinality(Inside') = Cardinality(Inside) - 1
    BY <1>2, LeaveCounts DEF Leave
  <2> QED BY <1>2, <2>1, InsideFinite DEF Leave, Admission!Release, shutdown
<1>3. CASE \A c \in Calls : ~Enter(c) /\ ~Leave(c)
  <2>1. Inside' = Inside /\ active' = active
    BY <1>3, OthersCount
  <2>2. /\ state' # "Running" => ~accepting'
        /\ main' \in {"draining", "closing", "ended", "exited"} => state' # "Running"
        /\ state' = "Running" <=> reason' = "none"
    <3>1. ASSUME NEW c \in Calls, Read(c) \/ Drop(c) PROVE UNCHANGED <<accepting, main, state, reason>>
      BY <3>1 DEF Read, Drop, admission, shutdown
    <3>2. ASSUME NEW x \in Resources, Closes(x) \/ CloseTimesOut(x) PROVE UNCHANGED <<accepting, main, state, reason>>
      BY <3>2 DEF Closes, CloseTimesOut, admission, shutdown
    <3>3. CASE HostEnds \/ InputDrained \/ Lifecycle \/ StopServer \/ UNCHANGED vars
      BY <3>3 DEF HostEnds, InputDrained, Lifecycle, HearEnd, HearSignal, LifecycleRequests, StopServer, Request,
         Admission!Quiesce, admission, shutdown, vars
    <3>4. CASE Main \/ Unwind
      BY <3>4 DEF Main, Built, StopsServing, Unwind, Execute, Request, Admission!Quiesce, Drained, DrainTimesOut,
         BeginClosing, Completes, ForceExit, Tick, admission, shutdown
    <3> QED BY <1>3, <3>1, <3>2, <3>3, <3>4 DEF Next
  <2> QED BY <2>1, <2>2, InsideFinite
<1> QED BY <1>1, <1>2, <1>3

\* The first reason stays.
LEMMA ReasonStep == TypeOK /\ AdmissionInv /\ [Next]_vars => (state # "Running" => state' # "Running" /\ reason' = reason)
<1> SUFFICES ASSUME TypeOK, AdmissionInv, [Next]_vars, state # "Running" PROVE state' # "Running" /\ reason' = reason
  OBVIOUS
<1>1. ASSUME NEW c \in Calls, Read(c) \/ Drop(c) \/ Enter(c) \/ Leave(c) PROVE state' # "Running" /\ reason' = reason
  BY <1>1 DEF Read, Drop, Enter, Leave, shutdown
<1>2. ASSUME NEW x \in Resources, Closes(x) \/ CloseTimesOut(x) PROVE state' # "Running" /\ reason' = reason
  BY <1>2 DEF Closes, CloseTimesOut, shutdown
<1>3. CASE LifecycleRequests \/ Execute
  BY <1>3, RequestIsFirst DEF LifecycleRequests, Execute
<1>4. CASE HostEnds \/ InputDrained \/ HearEnd \/ HearSignal \/ StopServer \/ Built \/ StopsServing \/ Unwind
           \/ Completes \/ ForceExit \/ Tick \/ UNCHANGED vars
  BY <1>4 DEF HostEnds, InputDrained, HearEnd, HearSignal, StopServer, Built, StopsServing, Unwind, Completes,
     ForceExit, Tick, shutdown, vars
<1>5. CASE Drained \/ DrainTimesOut
  BY <1>5 DEF Drained, DrainTimesOut, BeginClosing
<1> QED BY <1>1, <1>2, <1>3, <1>4, <1>5 DEF Next, Lifecycle, Main

\* Closing follows the drain.
LEMMA ResourceStep == TypeOK /\ ResourceInv /\ [Next]_vars => ResourceInv'
<1> SUFFICES ASSUME TypeOK, ResourceInv, [Next]_vars PROVE ResourceInv'
  OBVIOUS
<1> USE DEF TypeOK, ResourceInv
<1>1. ASSUME NEW c \in Calls, Read(c) \/ Drop(c) \/ Enter(c) \/ Leave(c) PROVE ResourceInv'
  BY <1>1 DEF Read, Drop, Enter, Leave
<1>2. ASSUME NEW x \in Resources, Closes(x) \/ CloseTimesOut(x) PROVE ResourceInv'
  BY <1>2 DEF Closes, CloseTimesOut
<1>3. CASE HostEnds \/ InputDrained \/ Lifecycle \/ StopServer \/ Tick \/ UNCHANGED vars
  BY <1>3 DEF HostEnds, InputDrained, Lifecycle, HearEnd, HearSignal, LifecycleRequests, StopServer, Tick, vars
<1>4. CASE Built \/ StopsServing \/ Unwind \/ Execute \/ Completes \/ ForceExit
  BY <1>4 DEF Built, StopsServing, Unwind, Execute, Completes, ForceExit
<1>5. CASE Drained \/ DrainTimesOut
  BY <1>5 DEF Drained, DrainTimesOut, BeginClosing
<1> QED BY <1>1, <1>2, <1>3, <1>4, <1>5 DEF Next, Main

\* Time passes no allowance that something waits for.
LEMMA ClockStep == TypeOK /\ AdmissionInv /\ ResourceInv /\ ClockInv /\ [Next]_vars => ClockInv'
<1> SUFFICES ASSUME TypeOK, AdmissionInv, ResourceInv, ClockInv, [Next]_vars PROVE ClockInv'
  OBVIOUS
<1>1. state # "Running" => reason' = reason
  BY ReasonStep
<1> USE DEF TypeOK, ClockInv, DrainAllowance, CloseAllowance
<1>2. ASSUME NEW c \in Calls, Read(c) \/ Drop(c) \/ Enter(c) \/ Leave(c) PROVE ClockInv'
  BY <1>2 DEF Read, Drop, Enter, Leave, shutdown, clock
<1>3. ASSUME NEW x \in Resources, Closes(x) PROVE ClockInv'
  BY <1>3 DEF Closes, shutdown, clock, Resources
<1>4. ASSUME NEW x \in Resources, CloseTimesOut(x) PROVE ClockInv'
  BY <1>4 DEF CloseTimesOut, shutdown, clock, Resources
<1>5. CASE HostEnds \/ InputDrained \/ HearEnd \/ HearSignal \/ StopServer \/ UNCHANGED vars
  BY <1>5 DEF HostEnds, InputDrained, HearEnd, HearSignal, StopServer, shutdown, clock, vars
<1>6. CASE LifecycleRequests \/ Built \/ StopsServing \/ Unwind \/ Execute \/ Completes \/ ForceExit
  <2>1. UNCHANGED <<time, since, resource>>
    BY <1>6 DEF LifecycleRequests, Built, StopsServing, Unwind, Execute, Completes, ForceExit, clock
  <2>2. CASE LifecycleRequests
    BY <1>1, <2>1, <2>2 DEF LifecycleRequests, AdmissionInv
  <2>3. CASE Built \/ StopsServing \/ Unwind
    BY <2>1, <2>3 DEF Built, StopsServing, Unwind, shutdown
  <2>4. CASE Execute
    BY <2>1, <2>4 DEF Execute
  <2>5. CASE Completes \/ ForceExit
    BY <1>1, <2>1, <2>5 DEF Completes, ForceExit, shutdown
  <2> QED BY <1>6, <2>2, <2>3, <2>4, <2>5
<1>7. CASE Drained \/ DrainTimesOut
  BY <1>7 DEF Drained, DrainTimesOut, BeginClosing
<1>8. CASE Tick
  BY <1>8 DEF Tick, Waiting, AllOver, Deadline, shutdown, ResourceInv, Resources
<1> QED BY <1>2, <1>3, <1>4, <1>5, <1>6, <1>7, <1>8 DEF Next, Lifecycle, Main

\* A resource is closed under no call that has time left.
LEMMA CallsStep ==
  TypeOK /\ AdmissionInv /\ AdmissionInv' /\ ResourceInv /\ CallsGetTheirTime /\ [Next]_vars => CallsGetTheirTime'
<1> SUFFICES ASSUME TypeOK, AdmissionInv, AdmissionInv', ResourceInv, CallsGetTheirTime, [Next]_vars,
                    NEW x \in Resources, resource'[x] # "open"
             PROVE  since' = DrainAllowance' \/ \A c \in Calls : call'[c] # "inside"
  BY DEF CallsGetTheirTime
<1>1. CASE Drained \/ DrainTimesOut
  <2>1. CASE DrainTimesOut
    BY <2>1 DEF DrainTimesOut, BeginClosing, DrainAllowance
  <2>2. CASE Drained
    <3>1. Cardinality(Inside) = 0 /\ call' = call
      BY <2>2 DEF Drained, Admission!Drained, BeginClosing, AdmissionInv
    <3>2. Inside = {}
      BY <3>1, InsideFinite, FS_EmptySet
    <3> QED BY <3>1, <3>2 DEF Inside
  <2> QED BY <1>1, <2>1, <2>2
<1>2. CASE ~(Drained \/ DrainTimesOut)
  <2>1. resource[x] # "open" /\ since' = since
    <3>1. ASSUME NEW c \in Calls, Read(c) \/ Drop(c) \/ Enter(c) \/ Leave(c) PROVE resource[x] # "open" /\ since' = since
      BY <3>1 DEF Read, Drop, Enter, Leave, clock
    <3>2. ASSUME NEW y \in Resources, Closes(y) \/ CloseTimesOut(y) PROVE resource[x] # "open" /\ since' = since
      BY <3>2 DEF Closes, CloseTimesOut, clock, TypeOK
    <3>3. CASE HostEnds \/ InputDrained \/ Lifecycle \/ StopServer \/ Main \/ Unwind \/ UNCHANGED vars
      BY <1>2, <3>3 DEF HostEnds, InputDrained, Lifecycle, HearEnd, HearSignal, LifecycleRequests, StopServer, Main,
         Built, StopsServing, Unwind, Execute, Completes, ForceExit, Tick, clock, vars
    <3> QED BY <3>1, <3>2, <3>3 DEF Next
  <2>2. state # "Running" /\ ~accepting
    BY <2>1 DEF ResourceInv, AdmissionInv, TypeOK
  <2>3. DrainAllowance' = DrainAllowance
    BY <2>2, ReasonStep DEF DrainAllowance
  <2>4. ASSUME \A c \in Calls : call[c] # "inside" PROVE \A c \in Calls : call'[c] # "inside"
    <3>1. \A c \in Calls : ~Leave(c) /\ ~Admission!Enter
      BY <2>2, <2>4 DEF Leave, Admission!Enter
    <3>2. CASE \E c \in Calls : Enter(c)
      BY <2>4, <3>1, <3>2 DEF Enter, TypeOK
    <3>3. CASE \A c \in Calls : ~Enter(c)
      <4>1. Inside' = Inside
        BY <3>1, <3>3, OthersCount
      <4> QED BY <2>4, <4>1 DEF Inside
    <3> QED BY <3>2, <3>3
  <2> QED BY <2>1, <2>3, <2>4 DEF CallsGetTheirTime
<1> QED BY <1>1, <1>2

\* At the deadline every allowance is over.
LEMMA ForcedStep ==
  TypeOK /\ AdmissionInv /\ ClockInv /\ ResourceInv /\ ForcedIsStuck /\ [Next]_vars => ForcedIsStuck'
<1> SUFFICES ASSUME TypeOK, AdmissionInv, ClockInv, ResourceInv, ForcedIsStuck, [Next]_vars PROVE ForcedIsStuck'
  OBVIOUS
<1>1. CASE ForceExit
  BY <1>1 DEF ForceExit, ForcedIsStuck, ClockInv, ResourceInv, TypeOK, Deadline, DrainAllowance, CloseAllowance, Resources
<1>2. CASE UNCHANGED vars
  BY <1>2 DEF vars, ForcedIsStuck
<1>3. CASE ~ForceExit /\ Next
  <2>1. main # "exited"
    BY <1>3 DEF Next, Over
  <2>2. main' # "exited"
    <3>1. ASSUME NEW c \in Calls, Read(c) \/ Drop(c) \/ Enter(c) \/ Leave(c) PROVE main' # "exited"
      BY <2>1, <3>1 DEF Read, Drop, Enter, Leave
    <3>2. ASSUME NEW x \in Resources, Closes(x) \/ CloseTimesOut(x) PROVE main' # "exited"
      BY <2>1, <3>2 DEF Closes, CloseTimesOut
    <3>3. CASE HostEnds \/ InputDrained \/ Lifecycle \/ StopServer \/ Main \/ Unwind
      BY <1>3, <2>1, <3>3 DEF HostEnds, InputDrained, Lifecycle, HearEnd, HearSignal, LifecycleRequests, StopServer, Main,
         Built, StopsServing, Unwind, Execute, Drained, DrainTimesOut, BeginClosing, Completes, Tick
    <3> QED BY <1>3, <3>1, <3>2, <3>3 DEF Next
  <2> QED BY <2>2 DEF ForcedIsStuck
<1> QED BY <1>1, <1>2, <1>3

\* The invariant holds in every state.
LEMMA Inductive == Spec => []IInv
<1>1. Init => IInv
  <2> SUFFICES ASSUME Init PROVE IInv
    OBVIOUS
  <2>1. Cardinality(Inside) = 0
    <3>1. Inside = {}
      BY DEF Init, Inside
    <3> QED BY <3>1, FS_EmptySet
  <2>2. TypeOK
    <3>1. accepting \in BOOLEAN
      BY DEF Init, Admission!Init
    <3>2. stopped \in BOOLEAN
      BY DEF Init
    <3>3. active \in Nat
      BY DEF Init, Admission!Init
    <3>4. /\ call \in [Calls -> {"idle", "read", "inside", "done"}]
          /\ resource \in [Resources -> {"open", "closing", "closed", "late", "stuck", "overdue"}]
      BY DEF Init
    <3> QED BY <3>1, <3>2, <3>3, <3>4 DEF Init, TypeOK
  <2>4. AdmissionInv
    BY <2>1 DEF Init, AdmissionInv, Admission!Init
  <2>3. ClockInv /\ ResourceInv /\ CallsGetTheirTime /\ ForcedIsStuck
    BY DEF Init, ClockInv, ResourceInv, CallsGetTheirTime, ForcedIsStuck
  <2> QED BY <2>2, <2>3, <2>4 DEF IInv
<1>2. IInv /\ [Next]_vars => IInv'
  BY TypeStep, AdmissionStep, ClockStep, ResourceStep, CallsStep, ForcedStep DEF IInv
<1> QED BY <1>1, <1>2, PTL DEF Spec

-----------------------------------------------------------------------------
\* For any number of calls: nothing is closed under one before its time is over.
THEOREM CallsHaveTime == Spec => []CallsGetTheirTime
<1>1. IInv => CallsGetTheirTime
  BY DEF IInv
<1> QED BY <1>1, Inductive, PTL

\* Only a wire that ignores its interruption lets the deadline come.
THEOREM ForcedByWire == Spec => []ForcedIsStuck
<1>1. IInv => ForcedIsStuck
  BY DEF IInv
<1> QED BY <1>1, Inductive, PTL

\* The first reason stays, and nobody enters afterwards.
THEOREM FirstReason == Spec => FirstReasonKept
<1>1. IInv /\ [Next]_vars => [state # "Running" => state' # "Running" /\ reason' = reason /\ active' <= active]_vars
  BY ReasonStep, AdmissionStep DEF IInv
<1> QED BY <1>1, Inductive, PTL DEF Spec, FirstReasonKept

\* Every variable keeps its type.
THEOREM Typed == Spec => []TypeOK
<1>1. IInv => TypeOK
  BY DEF IInv
<1> QED BY <1>1, Inductive, PTL
=============================================================================
