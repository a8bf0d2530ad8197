------------------------ MODULE AttachmentOwner_proofs ------------------------
(***************************************************************************)
(* For any number of requests and any limit: a drained owner is quiet, a  *)
(* failed drain keeps its evidence, and the owner implements its contract. *)
(***************************************************************************)
EXTENDS AttachmentOwner, TLAPS

\* Where a ticket stands follows from where its request stands.
TicketInv ==
  /\ \A r \in Requests :
       /\ pc[r] = "new" => r \notin work
       /\ pc[r] \in {"using", "cleaning"} =>
             r \in work /\ r \notin blocked /\ done[r] = "open"
       /\ pc[r] = "over" => (r \in work <=> r \in blocked)
       /\ done[r] = "succeeded" => r \notin work /\ pc[r] = "over"
       /\ done[r] = "failed" <=> r \in blocked
  /\ blocked \subseteq work
  /\ blocked # {} => ~accepting

\* After the snapshot no ticket escapes the drain: whatever is still retained
\* was in the snapshot and has not been awaited.
DrainInv ==
  /\ closing => ~accepting
  /\ drain # "waiting" => closing
  /\ drain = "waiting" => awaited = NoRequest
  /\ awaited # NoRequest => awaited \in retained
  /\ drain = "awaiting" => work \subseteq retained
  /\ drain = "drained" => work = {} /\ sessions = {} /\ awaited = NoRequest
  /\ drain = "failed" => awaited # NoRequest /\ done[awaited] = "failed"

IInv == TypeOK /\ TicketInv /\ DrainInv

-----------------------------------------------------------------------------
\* Every variable keeps its type, whatever the request does.
LEMMA TypeStep == TypeOK /\ [Next]_vars => TypeOK'
  BY RequestsAssumption, ZenonT(60)
  DEF TypeOK, Next, vars, Request, Reject, Acquire, Adopt, LeaveUse, FinishOk,
      FinishBlocked, Withdraw, Close, DrainStep, Snapshot, AwaitNext, AwaitOk,
      AwaitFailed, ReleaseSessions, tickets, drainVars

\* A request's ticket follows it through every step.
LEMMA TicketStep == TypeOK /\ TicketInv /\ [Next]_vars => TicketInv'
<1> SUFFICES ASSUME TypeOK, TicketInv, [Next]_vars PROVE TicketInv'
  OBVIOUS
<1> USE DEF TypeOK, TicketInv
<1>1. ASSUME NEW r \in Requests, Reject(r) PROVE TicketInv'
  BY <1>1 DEF Reject, tickets, drainVars
<1>2. ASSUME NEW r \in Requests, Acquire(r) PROVE TicketInv'
  BY <1>2 DEF Acquire, drainVars
<1>3. ASSUME NEW r \in Requests, Adopt(r) \/ LeaveUse(r) PROVE TicketInv'
  BY <1>3 DEF Adopt, LeaveUse, tickets, drainVars
<1>4. ASSUME NEW r \in Requests, FinishOk(r) PROVE TicketInv'
  BY <1>4 DEF FinishOk, drainVars
<1>5. ASSUME NEW r \in Requests, FinishBlocked(r) PROVE TicketInv'
  BY <1>5 DEF FinishBlocked, drainVars
<1>6. CASE Withdraw \/ Close \/ DrainStep \/ UNCHANGED vars
  BY <1>6 DEF Withdraw, Close, DrainStep, Snapshot, AwaitNext, AwaitOk,
              AwaitFailed, ReleaseSessions, tickets, drainVars, vars
<1> QED BY <1>1, <1>2, <1>3, <1>4, <1>5, <1>6 DEF Next, Request

\* The drain loses no ticket: none is added once it has looked, and it lets go
\* of one only when that one has settled.
LEMMA DrainStepInv == TypeOK /\ TicketInv /\ DrainInv /\ [Next]_vars => DrainInv'
<1> SUFFICES ASSUME TypeOK, TicketInv, DrainInv, [Next]_vars PROVE DrainInv'
  OBVIOUS
<1> USE RequestsAssumption DEF TypeOK, TicketInv, DrainInv
<1>1. ASSUME NEW r \in Requests, Reject(r) \/ LeaveUse(r) PROVE DrainInv'
  BY <1>1 DEF Reject, LeaveUse, tickets, drainVars
<1>2. ASSUME NEW r \in Requests, Acquire(r) PROVE DrainInv'
  BY <1>2 DEF Acquire, drainVars
<1>3. ASSUME NEW r \in Requests, Adopt(r) PROVE DrainInv'
  BY <1>3 DEF Adopt, tickets, drainVars
<1>4. ASSUME NEW r \in Requests, FinishOk(r) \/ FinishBlocked(r) PROVE DrainInv'
  BY <1>4 DEF FinishOk, FinishBlocked, drainVars
<1>5. CASE Withdraw \/ Close \/ UNCHANGED vars
  BY <1>5 DEF Withdraw, Close, tickets, drainVars, vars
<1>6. CASE Snapshot \/ AwaitNext
  BY <1>6 DEF Snapshot, AwaitNext, tickets
<1>7. CASE AwaitOk \/ AwaitFailed \/ ReleaseSessions
  BY <1>7 DEF AwaitOk, AwaitFailed, ReleaseSessions, tickets
<1> QED BY <1>1, <1>2, <1>3, <1>4, <1>5, <1>6, <1>7 DEF Next, Request, DrainStep

\* The inductive invariant: tickets follow requests, and the drain misses none.
THEOREM Inductive == Spec => []IInv
<1>1. Init => IInv
  BY DEF Init, IInv, TypeOK, TicketInv, DrainInv
<1>2. IInv /\ [Next]_vars => IInv'
  BY TypeStep, TicketStep, DrainStepInv DEF IInv
<1> QED BY <1>1, <1>2, PTL DEF Spec

\* For every number of requests: a drained owner has nothing left, and a failed
\* drain leaves a blocked ticket to show for it.
THEOREM DrainSound == Spec => [](DrainedIsQuiet /\ FailedKeepsEvidence)
<1>1. IInv => DrainedIsQuiet /\ FailedKeepsEvidence
  <2> SUFFICES ASSUME IInv PROVE DrainedIsQuiet /\ FailedKeepsEvidence
    OBVIOUS
  <2>1. DrainedIsQuiet
    BY DEF DrainedIsQuiet, IInv, TypeOK, TicketInv, DrainInv
  <2>2. FailedKeepsEvidence
    <3> SUFFICES ASSUME drain = "failed" PROVE blocked \intersect work # {}
      BY DEF FailedKeepsEvidence
    <3>1. awaited \in Requests /\ done[awaited] = "failed"
      BY RequestsAssumption DEF IInv, TypeOK, DrainInv
    <3> QED BY <3>1 DEF IInv, TicketInv
  <2> QED BY <2>1, <2>2
<1> QED BY <1>1, Inductive, PTL

\* A running or cleaning request never loses its adapter's session.
THEOREM SessionSafe == Spec => SessionOutlivesWork
<1>1. IInv /\ [Next]_vars => [sessions # {} /\ sessions' = {} => work = {}]_vars
  <2> SUFFICES ASSUME IInv, [Next]_vars, sessions # {}, sessions' = {}
               PROVE  work = {}
    OBVIOUS
  <2>1. CASE ReleaseSessions
    BY <2>1 DEF ReleaseSessions, IInv, DrainInv
  <2>2. CASE ~ReleaseSessions
    BY <2>2 DEF Next, vars, Request, Reject, Acquire, Adopt, LeaveUse, FinishOk,
      FinishBlocked, Withdraw, Close, DrainStep, Snapshot, AwaitNext, AwaitOk,
      AwaitFailed
  <2> QED BY <2>1, <2>2
<1> QED BY <1>1, Inductive, PTL DEF Spec, SessionOutlivesWork

-----------------------------------------------------------------------------
\* The owner implements its contract: what the admission relies on is what the
\* tickets, the session and the drain fiber really do.
THEOREM Implements == Spec => ImplementsContract
<1> DEFINE answer == IF drain \in {"drained", "failed"} THEN drain ELSE "pending"
<1>1. Init => Contract!Init
  BY DEF Init, Contract!Init
<1>2. IInv /\ [Next]_vars => [Contract!Next]_Contract!vars
  <2> SUFFICES ASSUME IInv, [Next]_vars
               PROVE  Contract!Next \/ UNCHANGED Contract!vars
    OBVIOUS
  <2> USE DEF IInv, TypeOK, TicketInv, DrainInv
  <2>1. ASSUME NEW r \in Requests, Reject(r) \/ Adopt(r) \/ LeaveUse(r)
        PROVE  UNCHANGED Contract!vars
    BY <2>1 DEF Reject, Adopt, LeaveUse, tickets, drainVars, Contract!vars
  <2>2. ASSUME NEW r \in Requests, Acquire(r) PROVE Contract!Retain(r)
    <3>1. Contract!Cardinality(work) = Cardinality(work)
      BY DEF Cardinality, Contract!Cardinality, IsFiniteSet, Contract!IsFiniteSet
    <3> QED BY <2>2, <3>1 DEF Acquire, drainVars, Contract!Retain
  <2>3. ASSUME NEW r \in Requests, FinishOk(r) PROVE Contract!Discharge(r)
    BY <2>3 DEF FinishOk, drainVars, Contract!Discharge
  <2>4. ASSUME NEW r \in Requests, FinishBlocked(r) PROVE Contract!Stick(r)
    BY <2>4 DEF FinishBlocked, drainVars, Contract!Stick
  <2>5. CASE Close
    BY <2>5 DEF Close, tickets, Contract!Next, Contract!Ask
  <2>6. CASE Withdraw \/ Snapshot \/ AwaitNext \/ AwaitOk \/ UNCHANGED vars
    BY <2>6 DEF Withdraw, Snapshot, AwaitNext, AwaitOk, vars, tickets, drainVars,
                Contract!vars
  <2>7. CASE AwaitFailed
    <3>1. awaited \in blocked
      BY <2>7, RequestsAssumption DEF AwaitFailed
    <3> QED BY <2>7, <3>1 DEF AwaitFailed, tickets, Contract!Next, Contract!Answer
  <2>8. CASE ReleaseSessions
    <3>1. work = {}
      BY <2>8 DEF ReleaseSessions
    <3> QED BY <2>8, <3>1 DEF ReleaseSessions, tickets, Contract!Next, Contract!Answer
  <2> QED BY <2>1, <2>2, <2>3, <2>4, <2>5, <2>6, <2>7, <2>8
          DEF Next, Request, DrainStep, Contract!Next
<1> QED BY <1>1, <1>2, Inductive, PTL DEF Spec, ImplementsContract, Contract!Spec

\* Every variable keeps its type, whatever the constants.
THEOREM Typed == Spec => []TypeOK
<1>1. IInv => TypeOK
  BY DEF IInv
<1> QED BY <1>1, Inductive, PTL
=============================================================================
