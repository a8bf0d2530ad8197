------------------------- MODULE AdapterBridge_proofs -------------------------
(***************************************************************************)
(* For any number of requests, ids and places in the queue: what the host  *)
(* gets has one owner, finds its session open and is complete when the     *)
(* adapter says so.                                                        *)
(***************************************************************************)
EXTENDS AdapterBridge, SequenceTheorems, TLAPS

\* Where a reply is follows from how far its request has come.
ReplyInv ==
  \A q \in Requests :
    /\ fiber[q] \in {"none", "sending"} => phase[q] = "awaiting"
    /\ fiber[q] # "receiving" => offering[q] = "nothing"
    /\ phase[q] = "awaiting" => offering[q] # "reply" /\ Queued(q) = {} /\ q \notin written
    /\ \A m, n \in Queued(q) : m = n
    /\ q \in written \/ offering[q] = "reply" => Queued(q) = {}
    /\ q \in written => offering[q] # "reply"
    /\ phase[q] = "answered" /\ fiber[q] \in {"receiving", "ended"} =>
         offering[q] = "reply" \/ Queued(q) # {} \/ q \in written

IdInv == \A p, q \in Active : p # q /\ id[p] # None => id[p] # id[q]

\* The session is open before anything of the initialize request's response is read.
SessionInv ==
  /\ protocol = "fresh" => init = None
  /\ init # None /\ fiber[init] = "receiving" => protocol = "initialized"
  /\ init # None => fiber[init] # "none"
  /\ init # None /\ phase[init] = "answered" => protocol = "initialized"

\* What the bridge has come to is what its fibers and its queue allow.
EndInv ==
  /\ adapter = "admission" => \A q \in Requests : fiber[q] = "none"
  /\ adapter = "admission" \/ Bridging => outcome = "none"
  /\ adapter \in {"clearing", "flushing"} => input = "ended"
  /\ adapter = "flushing" => Active = {}
  /\ outcome = "ok" =>
       /\ adapter \in {"stopping", "releasing", "ended"}
       /\ input = "ended" /\ Active = {} /\ output = <<>>
       /\ adapter = "ended" => lease = "gone"

IInv == TypeOK /\ ReplyInv /\ IdInv /\ SessionInv /\ UnknownOutcomeIsFatal /\ EndInv

-----------------------------------------------------------------------------
(* The queue.                                                              *)

\* Queue.offer puts one line of a request at the end.
LEMMA OfferQueues ==
  ASSUME TypeOK, NEW p \in Requests, Offer(p), NEW q \in Requests
  PROVE  Queued(q)' = Queued(q) \union
           IF q = p /\ offering[p] = "reply" THEN {Len(output) + 1} ELSE {}
<1> DEFINE e == [of |-> p, line |-> offering[p]]
<1>1. output' = Append(output, e) /\ output \in Seq([of : Requests, line : {"progress", "reply"}])
      /\ e \in [of : Requests, line : {"progress", "reply"}]
  BY DEF TypeOK, Offer
<1>2. DOMAIN output' = 1 .. Len(output) + 1 /\ DOMAIN output = 1 .. Len(output) /\ Len(output) \in Nat
  BY <1>1
<1>3. \A n \in 1 .. Len(output) : output'[n] = output[n]
  BY <1>1
<1>4. output'[Len(output) + 1] = e
  BY <1>1
<1>5. e = [of |-> q, line |-> "reply"] <=> q = p /\ offering[p] = "reply"
  OBVIOUS
<1> HIDE DEF e
<1> QED BY <1>2, <1>3, <1>4, <1>5 DEF Queued

\* Head is the first element.
LEMMA HeadIsFirst == ASSUME NEW s PROVE Head(s) = s[1]
  BY SMT

\* The writer takes the first line.
LEMMA WriteDequeues ==
  ASSUME TypeOK, Write, NEW q \in Requests
  PROVE  /\ Queued(q)' = {n - 1 : n \in Queued(q) \ {1}}
         /\ 1 \in Queued(q) => q \in written'
         /\ q \in written' => q \in written \/ 1 \in Queued(q)
<1>1. output' = Tail(output) /\ output # <<>> /\ output \in Seq([of : Requests, line : {"progress", "reply"}])
  BY DEF TypeOK, Write
<1>2. /\ DOMAIN output = 1 .. Len(output) /\ Len(output) \in Nat \ {0}
      /\ DOMAIN output' = 1 .. Len(output) - 1
      /\ \A n \in 1 .. Len(output) - 1 : output'[n] = output[n + 1]
  BY <1>1
<1>3. Head(output) = output[1] /\ 1 \in DOMAIN output /\ Head(output) \in [of : Requests, line : {"progress", "reply"}]
  <2>1. 1 \in DOMAIN output
    BY <1>2
  <2>2. Head(output) = output[1]
    BY <1>1, HeadIsFirst
  <2>3. Head(output) \in [of : Requests, line : {"progress", "reply"}]
    BY <1>1, HeadTailProperties
  <2> QED BY <2>1, <2>2, <2>3
<1>4. Queued(q)' = {n - 1 : n \in Queued(q) \ {1}}
  <2>1. ASSUME NEW n \in Queued(q)' PROVE n + 1 \in Queued(q) \ {1} /\ n = (n + 1) - 1
    BY <1>2 DEF Queued
  <2>2. ASSUME NEW n \in Queued(q) \ {1} PROVE n - 1 \in Queued(q)'
    BY <1>2 DEF Queued
  <2> QED BY <2>1, <2>2
<1>5. 1 \in Queued(q) <=> Head(output).line = "reply" /\ Head(output).of = q
  BY <1>3 DEF Queued
<1>6. written' = IF Head(output).line = "reply" THEN written \union {Head(output).of} ELSE written
  BY DEF Write
<1> QED BY <1>4, <1>5, <1>6

\* What leaves the queue alone leaves every request's replies in it.
LEMMA QueueStays == ASSUME UNCHANGED output, NEW q PROVE Queued(q)' = Queued(q)
  BY DEF Queued

-----------------------------------------------------------------------------
(* The steps.                                                              *)

\* Every variable keeps its type.
LEMMA TypeStep == TypeOK /\ [Next]_vars => TypeOK'
<1> SUFFICES ASSUME TypeOK, [Next]_vars PROVE TypeOK'
  OBVIOUS
<1> USE ConstantsAssumption DEF TypeOK
<1>1. CASE Attachment
  BY <1>1 DEF Attachment, Admitted, NotAdmitted, LeaseLost, HeartbeatFails, Release, Released,
     Stop, reader, session, fibers, stdout, bridge
<1>2. CASE Reader \/ HostEnds \/ WriteFails
  BY <1>2 DEF Reader, Removed, ReadFails, InputEnds, Cleared, Flushed, HostEnds, WriteFails,
     Stop, reader, session, fibers, stdout, bridge
<1>3. CASE Write
  <2>1. output' \in Seq([of : Requests, line : {"progress", "reply"}]) /\ Len(output') <= Capacity
    BY <1>3 DEF Write
  <2>2. Head(output) \in [of : Requests, line : {"progress", "reply"}]
    <3>1. output \in Seq([of : Requests, line : {"progress", "reply"}]) /\ output # <<>>
      BY <1>3 DEF Write
    <3> QED BY <3>1, HeadTailProperties
  <2> QED BY <1>3, <2>1, <2>2 DEF Write, bridge, reader, session, fibers
<1>4. ASSUME NEW q \in Requests, Read(q) \/ Cancelled(q) \/ Interrupt(q) \/ FiberEnds(q) PROVE TypeOK'
  BY <1>4 DEF Read, Cancelled, Interrupt, FiberEnds, Active, Stop, reader, session, fibers, stdout, bridge
<1>5. ASSUME NEW q \in Requests, Exchange(q) PROVE TypeOK'
  BY <1>5 DEF Exchange, Accepted, Acknowledged, ExchangeFails, Progress, Reply, Advance, ResponseEnds, Finish,
     Fail, Running, Stop, reader, session, fibers, stdout, bridge
<1>6. ASSUME NEW q \in Requests, Offer(q) PROVE TypeOK'
  <2>1. [of |-> q, line |-> offering[q]] \in [of : Requests, line : {"progress", "reply"}]
    BY <1>6 DEF Offer
  <2>2. output' \in Seq([of : Requests, line : {"progress", "reply"}]) /\ Len(output') <= Capacity
    BY <1>6, <2>1 DEF Offer
  <2> QED BY <1>6, <2>2 DEF Offer, bridge, reader, session
<1>7. CASE UNCHANGED vars
  BY <1>7 DEF vars, bridge, reader, session, fibers, stdout
<1> QED BY <1>1, <1>2, <1>3, <1>4, <1>5, <1>6, <1>7 DEF Next

\* A reply is in one place at a time.
LEMMA ReplyStep == TypeOK /\ ReplyInv /\ [Next]_vars => ReplyInv'
<1> SUFFICES ASSUME TypeOK, ReplyInv, [Next]_vars PROVE ReplyInv'
  OBVIOUS
<1> USE DEF TypeOK
<1>1. CASE Attachment \/ Reader \/ HostEnds \/ WriteFails \/ UNCHANGED vars
  <2>1. UNCHANGED <<fiber, phase, offering, output, written>>
    BY <1>1 DEF Attachment, Admitted, NotAdmitted, LeaseLost, HeartbeatFails, Release, Released, Reader, Removed,
       ReadFails, InputEnds, Cleared, Flushed, HostEnds, WriteFails, reader, session, fibers, stdout, vars
  <2> QED BY <2>1, QueueStays DEF ReplyInv
<1>2. CASE Write
  <2> SUFFICES ASSUME NEW q \in Requests
               PROVE  /\ phase[q] = "awaiting" => Queued(q)' = {} /\ q \notin written'
                      /\ \A m, n \in Queued(q)' : m = n
                      /\ q \in written' \/ offering[q] = "reply" => Queued(q)' = {}
                      /\ q \in written' => offering[q] # "reply"
                      /\ phase[q] = "answered" /\ fiber[q] \in {"receiving", "ended"} =>
                           offering[q] = "reply" \/ Queued(q)' # {} \/ q \in written'
    BY <1>2 DEF ReplyInv, Write, fibers
  <2>1. Queued(q) \subseteq Int
    BY DEF Queued
  <2>2. /\ Queued(q)' = {n - 1 : n \in Queued(q) \ {1}}
        /\ 1 \in Queued(q) => q \in written'
        /\ q \in written' => q \in written \/ 1 \in Queued(q)
    BY <1>2, WriteDequeues
  <2>3. written \subseteq written'
    BY <1>2 DEF Write
  <2> QED BY <2>1, <2>2, <2>3 DEF ReplyInv
<1>3. ASSUME NEW p \in Requests, Offer(p) PROVE ReplyInv'
  <2> SUFFICES ASSUME NEW q \in Requests
               PROVE  /\ fiber[q] # "receiving" => offering'[q] = "nothing"
                      /\ phase[q] = "awaiting" => offering'[q] # "reply" /\ Queued(q)' = {} /\ q \notin written
                      /\ \A m, n \in Queued(q)' : m = n
                      /\ q \in written \/ offering'[q] = "reply" => Queued(q)' = {}
                      /\ q \in written => offering'[q] # "reply"
                      /\ phase[q] = "answered" /\ fiber[q] \in {"receiving", "ended"} =>
                           offering'[q] = "reply" \/ Queued(q)' # {} \/ q \in written
    BY <1>3 DEF ReplyInv, Offer
  <2>1. Queued(q)' = Queued(q) \union IF q = p /\ offering[p] = "reply" THEN {Len(output) + 1} ELSE {}
    BY <1>3, OfferQueues
  <2>2. offering' = [offering EXCEPT ![p] = "nothing"] /\ fiber[p] = "receiving"
    BY <1>3 DEF Offer
  <2> QED BY <2>1, <2>2 DEF ReplyInv
<1>4. ASSUME NEW p \in Requests, Read(p) \/ Cancelled(p) \/ Interrupt(p) \/ FiberEnds(p) \/ Exchange(p) PROVE ReplyInv'
  <2>1. UNCHANGED <<output, written>>
    BY <1>4 DEF Read, Cancelled, Interrupt, FiberEnds, Exchange, Accepted, Acknowledged, ExchangeFails, Progress,
       Reply, ResponseEnds, stdout
  <2>2. \A q : Queued(q)' = Queued(q)
    BY <2>1, QueueStays
  <2>3. CASE Read(p) \/ Cancelled(p) \/ Interrupt(p) \/ FiberEnds(p)
    BY <2>1, <2>2, <2>3 DEF ReplyInv, Read, Cancelled, Interrupt, FiberEnds, Running, Active, fibers, session
  <2>4. CASE Accepted(p) \/ Progress(p)
    BY <2>1, <2>2, <2>4 DEF ReplyInv, Accepted, Progress
  <2>5. CASE Acknowledged(p) \/ ExchangeFails(p) \/ ResponseEnds(p)
    BY <2>1, <2>2, <2>5 DEF ReplyInv, Acknowledged, ExchangeFails, ResponseEnds, Finish, Fail, Running
  <2>6. CASE Reply(p)
    BY <2>1, <2>2, <2>6 DEF ReplyInv, Reply, Advance, Fail
  <2> QED BY <1>4, <2>3, <2>4, <2>5, <2>6 DEF Exchange
<1> QED BY <1>1, <1>2, <1>3, <1>4 DEF Next

\* No id is given to two requests under way.
LEMMA IdStep == TypeOK /\ IdInv /\ [Next]_vars => IdInv'
<1> SUFFICES ASSUME TypeOK, IdInv, [Next]_vars PROVE IdInv'
  OBVIOUS
<1> USE DEF TypeOK
<1>1. CASE Attachment \/ Reader \/ HostEnds \/ WriteFails \/ Write \/ UNCHANGED vars
  <2>1. UNCHANGED <<fiber, id>>
    BY <1>1 DEF Attachment, Admitted, NotAdmitted, LeaseLost, HeartbeatFails, Release, Released, Reader, Removed,
       ReadFails, InputEnds, Cleared, Flushed, HostEnds, WriteFails, Write, reader, session, fibers, stdout, vars
  <2> QED BY <2>1 DEF IdInv, Active
<1>2. ASSUME NEW p \in Requests, Read(p) PROVE IdInv'
  <2>1. CASE UNCHANGED <<fiber, id>>
    BY <2>1 DEF IdInv, Active
  <2>2. CASE ~UNCHANGED <<fiber, id>>
    <3>1. PICK i \in Ids \union {None} :
            /\ i # None => \A q \in Active : id[q] # i
            /\ id' = [id EXCEPT ![p] = i] /\ fiber' = [fiber EXCEPT ![p] = "sending"]
      BY <1>2, <2>2 DEF Read, Refused
    <3>2. Active' = Active \union {p} /\ p \notin Active
      BY <1>2, <3>1 DEF Active, Read
    <3> QED BY <3>1, <3>2 DEF IdInv, Active
  <2> QED BY <2>1, <2>2
<1>3. ASSUME NEW p \in Requests, Cancelled(p) \/ Interrupt(p) \/ FiberEnds(p) \/ Exchange(p) \/ Offer(p) PROVE IdInv'
  <2>1. UNCHANGED id /\ Active' \subseteq Active
    BY <1>3 DEF Active, Cancelled, Interrupt, FiberEnds, Exchange, Accepted, Acknowledged, ExchangeFails, Progress,
       Reply, Advance, ResponseEnds, Finish, Fail, Offer, Running, reader, fibers
  <2> QED BY <2>1 DEF IdInv, Active
<1> QED BY <1>1, <1>2, <1>3 DEF Next

\* The initialize request opens the session with the head of its response.
LEMMA SessionStep == TypeOK /\ ReplyInv /\ SessionInv /\ [Next]_vars => SessionInv'
<1> SUFFICES ASSUME TypeOK, ReplyInv, SessionInv, [Next]_vars PROVE SessionInv'
  OBVIOUS
<1> USE ConstantsAssumption DEF TypeOK, SessionInv
<1>1. CASE Attachment \/ Reader \/ HostEnds \/ WriteFails \/ Write \/ UNCHANGED vars
  <2>1. UNCHANGED <<fiber, phase, protocol, init>>
    BY <1>1 DEF Attachment, Admitted, NotAdmitted, LeaseLost, HeartbeatFails, Release, Released, Reader, Removed,
       ReadFails, InputEnds, Cleared, Flushed, HostEnds, WriteFails, Write, reader, session, fibers, stdout, vars
  <2> QED BY <2>1
<1>2. ASSUME NEW p \in Requests, Read(p) PROVE SessionInv'
  <2>1. CASE UNCHANGED <<session, fiber>>
    BY <1>2, <2>1 DEF Read, session
  <2>2. CASE ~UNCHANGED <<session, fiber>>
    <3>1. fiber[p] = "none" /\ fiber' = [fiber EXCEPT ![p] = "sending"] /\ UNCHANGED phase
      BY <1>2, <2>2 DEF Read
    <3>2. \/ UNCHANGED session
          \/ protocol = "fresh" /\ protocol' = "initializing" /\ init' = p
      BY <1>2, <2>2 DEF Read, Refused
    <3>3. phase[p] = "awaiting"
      BY <3>1 DEF ReplyInv
    <3> QED BY <3>1, <3>2, <3>3 DEF session
  <2> QED BY <2>1, <2>2
<1>3. ASSUME NEW p \in Requests, Cancelled(p) \/ Interrupt(p) \/ FiberEnds(p) \/ Offer(p) PROVE SessionInv'
  BY <1>3 DEF Cancelled, Interrupt, FiberEnds, Offer, Running, session, fibers
<1>4. ASSUME NEW p \in Requests, Exchange(p) PROVE SessionInv'
  BY <1>4 DEF Exchange, Accepted, Acknowledged, ExchangeFails, Progress,
       Reply, Advance, ResponseEnds, Finish, Fail, Running, session
<1> QED BY <1>1, <1>2, <1>3, <1>4 DEF Next

\* A request that ends unanswered takes the bridge with it.
LEMMA OutcomeStep == TypeOK /\ EndInv /\ UnknownOutcomeIsFatal /\ [Next]_vars => UnknownOutcomeIsFatal'
<1> SUFFICES ASSUME TypeOK, EndInv, UnknownOutcomeIsFatal, [Next]_vars PROVE UnknownOutcomeIsFatal'
  OBVIOUS
<1> USE DEF TypeOK, UnknownOutcomeIsFatal
<1>1. CASE Attachment \/ Reader \/ HostEnds \/ WriteFails \/ Write \/ UNCHANGED vars
  BY <1>1 DEF EndInv, Attachment, Admitted, NotAdmitted, LeaseLost, HeartbeatFails, Release, Released, Reader, Removed,
     ReadFails, InputEnds, Cleared, Flushed, HostEnds, WriteFails, Write, Stop, bridge, reader, session, fibers, stdout, vars
<1>2. ASSUME NEW p \in Requests, Read(p) \/ Cancelled(p) \/ Interrupt(p) \/ FiberEnds(p) \/ Offer(p) PROVE UnknownOutcomeIsFatal'
  BY <1>2 DEF Read, Cancelled, Interrupt, FiberEnds, Offer, Stop, bridge, reader, fibers
<1>3. ASSUME NEW p \in Requests, Exchange(p) PROVE UnknownOutcomeIsFatal'
  BY <1>3 DEF Exchange, Accepted, Acknowledged, ExchangeFails, Progress,
       Reply, Advance, ResponseEnds, Finish, Fail, Stop, bridge, reader
<1> QED BY <1>1, <1>2, <1>3 DEF Next

\* The bridge comes to its end in the order its fibers allow.
LEMMA EndStep == TypeOK /\ EndInv /\ [Next]_vars => EndInv'
<1> SUFFICES ASSUME TypeOK, EndInv, [Next]_vars PROVE EndInv'
  OBVIOUS
<1> USE DEF TypeOK, EndInv, Bridging
<1>1. CASE Attachment \/ Reader \/ HostEnds \/ WriteFails \/ Write \/ UNCHANGED vars
  <2>1. UNCHANGED fiber /\ Active' = Active
    BY <1>1 DEF Attachment, Admitted, NotAdmitted, LeaseLost, HeartbeatFails, Release, Released, Reader, Removed,
       ReadFails, InputEnds, Cleared, Flushed, HostEnds, WriteFails, Write, reader, session, fibers, stdout, vars, Active
  <2>2. CASE Attachment
    BY <2>1, <2>2 DEF Attachment, Admitted, NotAdmitted, LeaseLost, HeartbeatFails, Release, Released, Stop,
       bridge, reader, stdout
  <2>3. CASE Reader \/ HostEnds
    BY <2>1, <2>3 DEF Reader, Removed, ReadFails, InputEnds, Cleared, Flushed, HostEnds, Stop, bridge, reader, stdout
  <2>4. CASE WriteFails \/ Write \/ UNCHANGED vars
    BY <2>1, <2>4 DEF WriteFails, Write, Stop, bridge, reader, stdout, vars
  <2> QED BY <1>1, <2>2, <2>3, <2>4
<1>2. ASSUME NEW p \in Requests, Read(p) PROVE EndInv'
  BY <1>2 DEF Read, Stop, bridge, stdout
<1>3. ASSUME NEW p \in Requests, Cancelled(p) \/ Interrupt(p) \/ FiberEnds(p) \/ Exchange(p) \/ Offer(p) PROVE EndInv'
  <2>1. p \in Active /\ Active' \subseteq Active
    BY <1>3 DEF Active, Cancelled, Interrupt, FiberEnds, Exchange, Accepted, Acknowledged, ExchangeFails, Progress,
       Reply, Advance, ResponseEnds, Finish, Fail, Offer, Running, fibers
  <2>2. UNCHANGED <<input, lease>> /\ outcome # "ok" /\ adapter # "admission"
    BY <1>3, <2>1 DEF Active, Cancelled, Interrupt, FiberEnds, Exchange, Accepted, Acknowledged, ExchangeFails, Progress,
       Reply, ResponseEnds, Offer, reader
  <2>3. \/ UNCHANGED bridge
        \/ adapter = "running" /\ adapter' = "stopping" /\ outcome' = "failed"
    BY <1>3 DEF Cancelled, Interrupt, FiberEnds, Exchange, Accepted, Acknowledged, ExchangeFails, Progress,
       Reply, Advance, ResponseEnds, Finish, Fail, Offer, Stop, bridge
  <2> QED BY <2>1, <2>2, <2>3 DEF bridge
<1> QED BY <1>1, <1>2, <1>3 DEF Next

\* The invariant holds in every state.
LEMMA Inductive == Spec => []IInv
<1>1. Init => IInv
  BY ConstantsAssumption DEF Init, IInv, TypeOK, ReplyInv, IdInv, SessionInv, UnknownOutcomeIsFatal, EndInv, Active, Bridging, Queued
<1>2. IInv /\ [Next]_vars => IInv'
  BY TypeStep, ReplyStep, IdStep, SessionStep, OutcomeStep, EndStep DEF IInv
<1> QED BY <1>1, <1>2, PTL DEF Spec

-----------------------------------------------------------------------------
\* For any number of requests, whatever ids the host gives them and whatever the
\* backend sends: one reply at most, to a request nobody can take for another.
THEOREM OneOwner == Spec => []RepliesAreOwned
<1>1. IInv => RepliesAreOwned
  BY DEF IInv, ReplyInv, IdInv, RepliesAreOwned
<1> QED BY <1>1, Inductive, PTL

\* Whatever the host can have read of the session is noted.
THEOREM SessionFirst == Spec => []SessionComesFirst
<1>1. IInv => SessionComesFirst
  BY ConstantsAssumption DEF IInv, TypeOK, ReplyInv, SessionInv, SessionComesFirst
<1> QED BY <1>1, Inductive, PTL

\* The bridge does not go on after a request whose outcome is unknown, and a
\* success is complete: every reply written, nothing under way, the lease gone.
THEOREM KnownOutcome == Spec => []OutcomeIsKnown
<1>1. IInv => CleanEnd
  <2> SUFFICES ASSUME IInv, adapter = "ended", outcome = "ok",
                      NEW q \in Requests, phase[q] = "answered", fiber[q] = "ended"
               PROVE  q \in written
    BY DEF IInv, EndInv, CleanEnd
  <2>1. Queued(q) = {}
    BY DEF IInv, EndInv, Queued
  <2> QED BY <2>1 DEF IInv, ReplyInv
<1>2. IInv => OutcomeIsKnown
  BY <1>1 DEF IInv, OutcomeIsKnown
<1> QED BY <1>2, Inductive, PTL

\* Every variable keeps its type, the queue its bound.
THEOREM Typed == Spec => []TypeOK
<1>1. IInv => TypeOK
  BY DEF IInv
<1> QED BY <1>1, Inductive, PTL
=============================================================================
