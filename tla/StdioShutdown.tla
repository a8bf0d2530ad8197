---------------------------- MODULE StdioShutdown ----------------------------
(***************************************************************************)
(* The stdio server from its start to its end: what ends it                *)
(* (awaitStdioLifecycleEvent and runStdioTransport in src/mcp/server.ts)   *)
(* and how (src/mcp/stdio-shutdown.ts): a graceful shutdown that gives     *)
(* calls and resources their allowances races one that ends the process    *)
(* at a deadline.                                                          *)
(*                                                                         *)
(* "eof" stands for stdin-eof and stdin-close, "signal" for sigint and     *)
(* sigterm, which are treated alike.  Time is counted in seconds from the  *)
(* start of the shutdown; whatever can run does so before it passes.       *)
(***************************************************************************)
EXTENDS Integers, FiniteSets

CONSTANTS Calls

ASSUME CallsAssumption == IsFiniteSet(Calls)

VARIABLES
  accepting, active,  \* RequestAdmission
  call,               \* tool calls: read from stdin, inside the admission
  input,              \* stdin: ended by the host; drained by the protocol (inputDrained)
  lifecycle,          \* the fiber of awaitStdioLifecycleEvent, and what it heard
  stopped,            \* control.shutdown
  main,               \* the fiber of runStdioTransport
  state, reason,      \* StdioShutdownState
  resource,           \* the three resources execute closes
  time, since         \* the clock of the shutdown; when the closing began

admission == <<accepting, active>>
shutdown == <<state, reason>>
clock == <<time, since>>
vars == <<admission, call, input, lifecycle, stopped, main, shutdown, resource, clock>>

Admission == INSTANCE RequestAdmission

Resources == {"wire", "telemetry", "clients"}

\* drainAllowance, STDIO_CLOSE_ALLOWANCE, and the deadline of forceShutdown
DrainAllowance == IF reason = "eof" THEN 30 ELSE 2
CloseAllowance == 3
\* Mutation of forceShutdown: one deadline whatever the reason.
OneDeadline == 10
Deadline == IF reason = "eof" THEN 35 ELSE 10

Init ==
  /\ Admission!Init
  /\ call = [c \in Calls |-> "idle"]
  /\ input = "flowing" /\ lifecycle = "listening" /\ stopped = FALSE
  /\ main = "building"
  /\ state = "Running" /\ reason = "none"
  /\ resource = [x \in Resources |-> "open"]
  /\ time = 0 /\ since = 0

-----------------------------------------------------------------------------
(* Calls.  Their fibers belong to the wire's scope.                        *)

Read(c) ==
  /\ call[c] = "idle" /\ main # "building" /\ input # "drained" /\ resource["wire"] = "open"
  /\ call' = [call EXCEPT ![c] = "read"]
  /\ UNCHANGED <<admission, input, lifecycle, stopped, main, shutdown, resource, clock>>

Enter(c) ==
  /\ call[c] = "read"
  /\ \/ Admission!Enter /\ call' = [call EXCEPT ![c] = "inside"]
     \/ Admission!Rejected /\ call' = [call EXCEPT ![c] = "done"]
  /\ UNCHANGED <<input, lifecycle, stopped, main, shutdown, resource, clock>>

Leave(c) ==
  /\ call[c] = "inside"
  /\ Admission!Release
  /\ call' = [call EXCEPT ![c] = "done"]
  /\ UNCHANGED <<input, lifecycle, stopped, main, shutdown, resource, clock>>

\* It is interrupted with the wire before its handler began.
Drop(c) ==
  /\ call[c] = "read" /\ resource["wire"] # "open"
  /\ call' = [call EXCEPT ![c] = "done"]
  /\ UNCHANGED <<admission, input, lifecycle, stopped, main, shutdown, resource, clock>>

-----------------------------------------------------------------------------
(* What ends the server.                                                   *)

HostEnds ==
  /\ input = "flowing" /\ input' = "ended"
  /\ UNCHANGED <<admission, call, lifecycle, stopped, main, shutdown, resource, clock>>

\* The protocol has taken what came before the end.
InputDrained ==
  /\ input = "ended" /\ main # "building"
  /\ input' = "drained"
  /\ UNCHANGED <<admission, call, lifecycle, stopped, main, shutdown, resource, clock>>

\* The first event is the only one: the listeners are removed.
HearEnd ==
  /\ lifecycle = "listening" /\ input # "flowing"
  /\ lifecycle' = "eof"
  /\ UNCHANGED <<admission, call, input, stopped, main, shutdown, resource, clock>>

HearSignal ==
  /\ lifecycle = "listening"
  /\ lifecycle' = "signal"
  /\ UNCHANGED <<admission, call, input, stopped, main, shutdown, resource, clock>>

Request(why) ==
  IF state = "Running"
  THEN state' = "Quiescing" /\ reason' = why /\ Admission!Quiesce
  ELSE UNCHANGED <<shutdown, admission>>

LifecycleRequests ==
  /\ lifecycle = "signal" \/ (lifecycle = "eof" /\ input = "drained")
  /\ Request(lifecycle)
  /\ lifecycle' = "done"
  /\ UNCHANGED <<call, input, stopped, main, resource, clock>>

StopServer ==
  /\ ~stopped /\ stopped' = TRUE
  /\ UNCHANGED <<admission, call, input, lifecycle, main, shutdown, resource, clock>>

Built ==
  /\ main = "building" /\ main' = "serving"
  /\ UNCHANGED <<admission, call, input, lifecycle, stopped, shutdown, resource, clock>>

\* The build has failed, or the fiber was interrupted, or it has waited long enough.
Unwind ==
  /\ main \in {"building", "serving"} /\ main' = "releasing"
  /\ UNCHANGED <<admission, call, input, lifecycle, stopped, shutdown, resource, clock>>
StopsServing == main = "serving" /\ (lifecycle = "done" \/ stopped) /\ Unwind

Execute ==
  /\ main = "releasing" /\ main' = "draining"
  /\ Request("interruption")
  /\ UNCHANGED <<call, input, lifecycle, stopped, resource, clock>>

-----------------------------------------------------------------------------
(* How it ends.                                                            *)

BeginClosing ==
  /\ main' = "closing" /\ state' = "Closing"
  /\ resource' = [x \in Resources |-> "closing"]
  /\ since' = time
  /\ lifecycle' = "gone"
  /\ UNCHANGED <<admission, call, input, stopped, reason, time>>

Drained == main = "draining" /\ Admission!Drained /\ BeginClosing

DrainTimesOut == main = "draining" /\ time = DrainAllowance /\ BeginClosing

\* A failure is ignored. The wire waits for its fibers.
Closes(x) ==
  /\ resource[x] = "closing" \/ resource[x] = "stuck"
  /\ x = "wire" => \A c \in Calls : call[c] \in {"idle", "done"}
  /\ resource' = [resource EXCEPT ![x] = IF @ = "stuck" THEN "overdue" ELSE "closed"]
  /\ UNCHANGED <<admission, call, input, lifecycle, stopped, main, shutdown, clock>>

\* Waiting for a promise ends at once when it is interrupted; closing the wire's
\* scope need not.
CloseTimesOut(x) ==
  /\ resource[x] = "closing" /\ time = since + CloseAllowance
  /\ \E outcome \in {"late", "stuck"} :
       /\ outcome = "stuck" => x = "wire"
       /\ resource' = [resource EXCEPT ![x] = outcome]
  /\ UNCHANGED <<admission, call, input, lifecycle, stopped, main, shutdown, clock>>

AllOver == \A x \in Resources : resource[x] \in {"closed", "late", "overdue"}

Completes ==
  /\ main = "closing" /\ AllOver
  /\ main' = "ended" /\ state' = "Complete"
  /\ UNCHANGED <<admission, call, input, lifecycle, stopped, reason, resource, clock>>

\* Mutation of raceDetachedShutdowns: the graceful shutdown is waited for.
NeverForced == FALSE /\ UNCHANGED vars

\* forceShutdown: process.exit does not return.
ForceExit ==
  /\ main \in {"draining", "closing"} /\ time = Deadline
  /\ main' = "exited"
  /\ UNCHANGED <<admission, call, input, lifecycle, stopped, shutdown, resource, clock>>

Waiting ==
  \/ main = "draining" /\ ~Admission!Drained /\ time < DrainAllowance
  \/ main = "closing" /\ ~AllOver /\ \A x \in Resources : resource[x] = "closing" => time < since + CloseAllowance

Tick ==
  /\ Waiting /\ time < Deadline
  /\ time' = time + 1
  /\ UNCHANGED <<admission, call, input, lifecycle, stopped, main, shutdown, resource, since>>

-----------------------------------------------------------------------------
Over == main \in {"ended", "exited"}

Lifecycle == HearEnd \/ HearSignal \/ LifecycleRequests
Main == Built \/ StopsServing \/ Execute \/ Drained \/ DrainTimesOut \/ Completes \/ ForceExit \/ Tick

Next ==
  /\ ~Over
  /\ \/ \E c \in Calls : Read(c) \/ Enter(c) \/ Leave(c) \/ Drop(c)
     \/ HostEnds \/ InputDrained \/ Lifecycle \/ StopServer
     \/ Main \/ Unwind
     \/ \E x \in Resources : Closes(x) \/ CloseTimesOut(x)

Spec == Init /\ [][Next]_vars

\* Fibers run and time passes; no call, host or resource has to end anything.
Fairness ==
  /\ WF_vars(~Over /\ InputDrained) /\ WF_vars(~Over /\ Lifecycle) /\ WF_vars(~Over /\ Main)
  /\ \A x \in Resources : WF_vars(~Over /\ CloseTimesOut(x))

FairSpec == Spec /\ Fairness

-----------------------------------------------------------------------------
TypeOK ==
  /\ accepting \in BOOLEAN /\ active \in Nat
  /\ call \in [Calls -> {"idle", "read", "inside", "done"}]
  /\ input \in {"flowing", "ended", "drained"}
  /\ lifecycle \in {"listening", "eof", "signal", "done", "gone"}
  /\ stopped \in BOOLEAN
  /\ main \in {"building", "serving", "releasing", "draining", "closing", "ended", "exited"}
  /\ state \in {"Running", "Quiescing", "Closing", "Complete"}
  /\ reason \in {"none", "eof", "signal", "interruption"}
  /\ resource \in [Resources -> {"open", "closing", "closed", "late", "stuck", "overdue"}]
  /\ time \in 0 .. 35 /\ since \in 0 .. 35

\* Nothing a call may be using is closed before the call has ended or has had
\* all the time its shutdown's reason allows.
CallsGetTheirTime ==
  (\E x \in Resources : resource[x] # "open") =>
    since = DrainAllowance \/ \A c \in Calls : call[c] # "inside"

\* The allowances fit the deadline: only a wire that ignores its interruption is
\* why the process is forced to end, and the clients have been closed by then or
\* were given their time.
ForcedIsStuck ==
  main = "exited" =>
    /\ resource["wire"] \in {"stuck", "overdue"}
    /\ \A x \in Resources \ {"wire"} : resource[x] \in {"closed", "late"}

\* The first reason stays, and no call enters any more, whoever asks again.
FirstReasonKept ==
  [][state # "Running" => state' # "Running" /\ reason' = reason /\ active' <= active]_vars

\* A host that has gone, a signal or a stop ends the process.
ServerEnds == (input # "flowing" \/ lifecycle # "listening" \/ stopped) ~> Over
=============================================================================
