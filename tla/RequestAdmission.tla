--------------------------- MODULE RequestAdmission ---------------------------
(***************************************************************************)
(* createRequestAdmission (src/mcp/request-admission.ts): tool calls enter *)
(* while it accepts; quiesce stops that and is over once nobody is inside. *)
(* RequestClients and StdioShutdown are built over it.                     *)
(***************************************************************************)
EXTENDS Integers

VARIABLES accepting, active      \* state

Init == accepting = TRUE /\ active = 0

Enter == accepting /\ active' = active + 1 /\ UNCHANGED accepting

\* enter answers null
Rejected == ~accepting /\ UNCHANGED <<accepting, active>>

\* RequestLease.release, which its caller's bracket calls once
Release == active' = active - 1 /\ UNCHANGED accepting

Quiesce == accepting' = FALSE /\ UNCHANGED active

\* Mutation of quiesce: the promise it returns is resolved at once.
DrainedAtOnce == ~accepting

\* The promise quiesce returned is resolved; nobody enters any more, so it stays so.
Drained == ~accepting /\ active = 0
=============================================================================
