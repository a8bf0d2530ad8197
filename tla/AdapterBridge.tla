---------------------------- MODULE AdapterBridge ----------------------------
(***************************************************************************)
(* An adapter of the resident server, from its admission to its release    *)
(* (src/resident/adapter-attachment.ts), and the bridge it runs meanwhile  *)
(* between the host on its stdio and the backend (manual-adapter.ts,       *)
(* response-stream.ts): one reader of stdin, one fiber for each request,   *)
(* a bounded queue of lines and one writer of stdout.                      *)
(*                                                                         *)
(* The host and the backend may do anything the protocol lets them do and, *)
(* for the backend, everything the bridge defends itself against.  The     *)
(* backend's lease is what ResidentAdmissions says of it: here it is held  *)
(* until it is released or lost.                                           *)
(***************************************************************************)
EXTENDS Integers, Sequences, FiniteSets

CONSTANTS Requests,     \* the requests the host makes, one after the other
          Ids,          \* the ids it gives them
          MaxRequests,  \* MAX_ADAPTER_REQUESTS
          Capacity,     \* OUTPUT_CAPACITY
          None          \* no id: a notification; no request

ASSUME ConstantsAssumption ==
  /\ MaxRequests \in Nat \ {0} /\ Capacity \in Nat \ {0}
  /\ None \notin Ids \union Requests

VARIABLES
  adapter,     \* where it stands between admission and end
  outcome,     \* what it ends with
  lease,       \* the admission in the backend
  input,       \* stdin
  removing,    \* the request whose removal the reader waits for
  protocol, init,   \* AdapterProtocolState; the initialize request
  id, fiber,   \* of each request
  phase,       \* ResponsePhase of each request
  offering,    \* the line its fiber is putting into the queue
  output,      \* the queue
  writer,
  written      \* the requests whose reply the host has got

bridge == <<adapter, outcome>>
reader == <<input, removing, id>>
session == <<protocol, init>>
fibers == <<fiber, phase, offering>>
stdout == <<output, writer, written>>
vars == <<bridge, lease, reader, session, fibers, stdout>>

Init ==
  /\ adapter = "admission" /\ outcome = "none" /\ lease = "none"
  /\ input = "open" /\ removing = None /\ id = [q \in Requests |-> None]
  /\ protocol = "fresh" /\ init = None
  /\ fiber = [q \in Requests |-> "none"] /\ phase = [q \in Requests |-> "awaiting"]
  /\ offering = [q \in Requests |-> "nothing"]
  /\ output = <<>> /\ writer = "running" /\ written = {}

\* In the FiberMap: an interrupted fiber stays there until it has ended.
Active == {q \in Requests : fiber[q] \in {"sending", "receiving", "interrupted"}}
Running(q) == fiber[q] \in {"sending", "receiving"}
Bridging == adapter \in {"running", "clearing", "flushing"}

Stop == adapter' = "stopping" /\ outcome' = "failed"

-----------------------------------------------------------------------------
(* The admission, the heartbeat and the release.                           *)

\* AttachmentAdmitted arrives, or the admission fails: it was refused, or is
\* held by nobody who knows.
Admitted ==
  /\ adapter = "admission" /\ adapter' = "running" /\ lease' = "held"
  /\ UNCHANGED <<outcome, reader, session, fibers, stdout>>

NotAdmitted ==
  /\ adapter = "admission" /\ adapter' = "ended" /\ outcome' = "failed"
  /\ lease' \in {"none", "held"}
  /\ UNCHANGED <<reader, session, fibers, stdout>>

LeaseLost ==
  /\ lease = "held" /\ lease' = "gone"
  /\ UNCHANGED <<bridge, reader, session, fibers, stdout>>

\* Mutation of runAttached: the heartbeat is not raced with the bridge.
HeartbeatUnwatched == Bridging /\ UNCHANGED vars

\* A renewal is refused or gets no answer, which may also happen to a lease
\* that is held; or the adapter is interrupted.
HeartbeatFails ==
  /\ Bridging /\ Stop
  /\ UNCHANGED <<lease, reader, session, fibers, stdout>>

Release ==
  /\ adapter = "stopping" /\ Active = {}
  /\ adapter' = "releasing"
  /\ UNCHANGED <<outcome, lease, reader, session, fibers, stdout>>

\* Mutation of releaseAdmission: any answer will do.
ReleasedAnyhow ==
  /\ adapter = "releasing" /\ adapter' = "ended"
  /\ lease' \in {"held", "gone"} \intersect {lease, "gone"}
  /\ UNCHANGED <<outcome, reader, session, fibers, stdout>>

\* Only its confirmation shows that the lease is gone.
Released ==
  /\ adapter = "releasing" /\ adapter' = "ended"
  /\ \/ lease' = "gone" /\ UNCHANGED outcome
     \/ lease' \in {lease, "gone"} /\ outcome' = "failed"
  /\ UNCHANGED <<reader, session, fibers, stdout>>

-----------------------------------------------------------------------------
(* The reader.                                                             *)

\* Mutation of runAdapterBridge: an id is not looked for.
RefusedForSizeOnly(i, initialize) ==
  Cardinality(Active) >= MaxRequests \/ (initialize /\ protocol # "fresh")

Refused(i, initialize) ==
  \/ i # None /\ \E p \in Active : id[p] = i
  \/ Cardinality(Active) >= MaxRequests
  \/ initialize /\ protocol # "fresh"

Read(q) ==
  /\ adapter = "running" /\ input = "open" /\ removing = None
  /\ fiber[q] = "none" /\ q = CHOOSE p \in Requests : fiber[p] = "none"
  /\ \E i \in Ids \union {None}, initialize \in BOOLEAN :
       IF Refused(i, initialize)
       THEN Stop /\ UNCHANGED <<id, session, fiber>>
       ELSE /\ id' = [id EXCEPT ![q] = i]
            /\ fiber' = [fiber EXCEPT ![q] = "sending"]
            /\ IF initialize THEN protocol' = "initializing" /\ init' = q ELSE UNCHANGED session
            /\ UNCHANGED bridge
  /\ UNCHANGED <<lease, input, removing, phase, offering, stdout>>

\* notifications/cancelled: FiberMap.remove waits for the fiber.
Cancelled(q) ==
  /\ adapter = "running" /\ input = "open" /\ removing = None
  /\ q \in Active /\ id[q] # None
  /\ removing' = q
  /\ UNCHANGED <<bridge, lease, input, id, session, fibers, stdout>>

\* The fiber has ended, by its interruption or before it.
Removed ==
  /\ removing # None /\ removing \notin Active
  /\ removing' = None
  /\ UNCHANGED <<bridge, lease, input, id, session, fibers, stdout>>

\* A message that is too long, or none.
ReadFails ==
  /\ adapter = "running" /\ input = "open" /\ removing = None /\ Stop
  /\ UNCHANGED <<lease, reader, session, fibers, stdout>>

HostEnds ==
  /\ input = "open" /\ input' = "ended"
  /\ UNCHANGED <<bridge, lease, removing, id, session, fibers, stdout>>

\* Mutation of runAdapterBridge: the queue is not flushed.
InputEndsAbruptly ==
  /\ adapter = "running" /\ input = "ended" /\ removing = None
  /\ adapter' = "stopping" /\ outcome' = "ok"
  /\ UNCHANGED <<lease, reader, session, fibers, stdout>>

InputEnds ==
  /\ adapter = "running" /\ input = "ended" /\ removing = None
  /\ adapter' = "clearing"
  /\ UNCHANGED <<outcome, lease, reader, session, fibers, stdout>>

\* The FiberMap is empty: the queue is ended.
Cleared ==
  /\ adapter = "clearing" /\ Active = {}
  /\ adapter' = "flushing"
  /\ UNCHANGED <<outcome, lease, reader, session, fibers, stdout>>

\* The writer is joined.
Flushed ==
  /\ adapter = "flushing"
  /\ \/ writer = "running" /\ output = <<>> /\ adapter' = "stopping" /\ outcome' = "ok"
     \/ writer = "failed" /\ Stop
  /\ UNCHANGED <<lease, reader, session, fibers, stdout>>

-----------------------------------------------------------------------------
(* The fiber of a request.                                                 *)

\* A fiber that fails while the bridge joins the map ends the bridge.
Fail(q) ==
  /\ fiber' = [fiber EXCEPT ![q] = "ended"]
  /\ UNCHANGED offering
  /\ IF adapter = "running" THEN Stop ELSE UNCHANGED bridge

\* Mutation of forward: the session is noted when the response has ended.
AcceptedUnnoted(q) ==
  /\ fiber[q] = "sending"
  /\ fiber' = [fiber EXCEPT ![q] = "receiving"]
  /\ UNCHANGED <<bridge, lease, reader, session, phase, offering, stdout>>

\* A response with a stream.
Accepted(q) ==
  /\ fiber[q] = "sending"
  /\ fiber' = [fiber EXCEPT ![q] = "receiving"]
  /\ IF q = init THEN protocol' = "initialized" ELSE UNCHANGED protocol
  /\ UNCHANGED <<bridge, lease, reader, init, phase, offering, stdout>>

\* 202 or 204: all a notification needs.
Acknowledged(q) ==
  /\ fiber[q] = "sending"
  /\ IF q = init THEN protocol' = "initialized" ELSE UNCHANGED protocol
  /\ IF id[q] = None
     THEN fiber' = [fiber EXCEPT ![q] = "ended"] /\ UNCHANGED <<bridge, offering>>
     ELSE Fail(q)
  /\ UNCHANGED <<lease, reader, init, phase, stdout>>

\* The connection, the response's status or its stream fails.
ExchangeFails(q) ==
  /\ Running(q) /\ offering[q] = "nothing"
  /\ Fail(q)
  /\ UNCHANGED <<lease, reader, session, phase, stdout>>

Progress(q) ==
  /\ fiber[q] = "receiving" /\ offering[q] = "nothing"
  /\ offering' = [offering EXCEPT ![q] = "progress"]
  /\ UNCHANGED <<bridge, lease, reader, session, fiber, phase, stdout>>

\* Mutation of advanceBackendResponse: an answered response may be answered.
AdvanceAgain(q, i) ==
  IF i = id[q]
  THEN /\ phase' = [phase EXCEPT ![q] = "answered"]
       /\ offering' = [offering EXCEPT ![q] = "reply"]
       /\ UNCHANGED <<bridge, fiber>>
  ELSE Fail(q) /\ UNCHANGED phase

\* advanceBackendResponse for a reply with the id i
Advance(q, i) ==
  IF i = id[q] /\ phase[q] = "awaiting"
  THEN /\ phase' = [phase EXCEPT ![q] = "answered"]
       /\ offering' = [offering EXCEPT ![q] = "reply"]
       /\ UNCHANGED <<bridge, fiber>>
  ELSE Fail(q) /\ UNCHANGED phase

Reply(q) ==
  /\ fiber[q] = "receiving" /\ offering[q] = "nothing"
  /\ \E i \in Ids : Advance(q, i)
  /\ UNCHANGED <<lease, reader, session, stdout>>

\* Mutation of runAdapterBridge: the queue drops what does not fit.
OfferDropping(q) ==
  /\ fiber[q] = "receiving" /\ offering[q] # "nothing"
  /\ output' = IF Len(output) < Capacity THEN Append(output, [of |-> q, line |-> offering[q]]) ELSE output
  /\ offering' = [offering EXCEPT ![q] = "nothing"]
  /\ UNCHANGED <<bridge, lease, reader, session, fiber, phase, writer, written>>

Offer(q) ==
  /\ fiber[q] = "receiving" /\ offering[q] # "nothing" /\ Len(output) < Capacity
  /\ output' = Append(output, [of |-> q, line |-> offering[q]])
  /\ offering' = [offering EXCEPT ![q] = "nothing"]
  /\ UNCHANGED <<bridge, lease, reader, session, fiber, phase, writer, written>>

\* Mutation of finishBackendResponse: a stream may end without a reply.
FinishUnanswered(q) == fiber' = [fiber EXCEPT ![q] = "ended"] /\ UNCHANGED <<bridge, offering>>

\* finishBackendResponse
Finish(q) ==
  IF id[q] = None \/ phase[q] = "answered"
  THEN fiber' = [fiber EXCEPT ![q] = "ended"] /\ UNCHANGED <<bridge, offering>>
  ELSE Fail(q)

ResponseEnds(q) ==
  /\ fiber[q] = "receiving" /\ offering[q] = "nothing"
  /\ Finish(q)
  /\ UNCHANGED <<lease, reader, session, phase, stdout>>

\* By the reader, the clearing of the map or the end of the bridge's scope.
Interrupt(q) ==
  /\ Running(q) /\ (q = removing \/ adapter \in {"clearing", "stopping"})
  /\ fiber' = [fiber EXCEPT ![q] = "interrupted"]
  /\ offering' = [offering EXCEPT ![q] = "nothing"]
  /\ UNCHANGED <<bridge, lease, reader, session, phase, stdout>>

\* Its connection to the backend is closed.
FiberEnds(q) ==
  /\ fiber[q] = "interrupted"
  /\ fiber' = [fiber EXCEPT ![q] = "gone"]
  /\ UNCHANGED <<bridge, lease, reader, session, phase, offering, stdout>>

-----------------------------------------------------------------------------
(* The writer.                                                             *)

Write ==
  /\ Bridging /\ writer = "running" /\ output # <<>>
  /\ output' = Tail(output)
  /\ written' = IF Head(output).line = "reply" THEN written \union {Head(output).of} ELSE written
  /\ UNCHANGED <<bridge, lease, reader, session, fibers, writer>>

\* Stdout is closed, or the host has not read for ten seconds.
WriteFails ==
  /\ Bridging /\ writer = "running" /\ output # <<>>
  /\ writer' = "failed"
  /\ IF adapter = "running" THEN Stop ELSE UNCHANGED bridge
  /\ UNCHANGED <<lease, reader, session, fibers, output, written>>

-----------------------------------------------------------------------------
Attachment == Admitted \/ NotAdmitted \/ LeaseLost \/ HeartbeatFails \/ Release \/ Released
Reader == Removed \/ ReadFails \/ InputEnds \/ Cleared \/ Flushed
Exchange(q) ==
  \/ Accepted(q) \/ Acknowledged(q) \/ ExchangeFails(q)
  \/ Progress(q) \/ Reply(q) \/ ResponseEnds(q)

Next ==
  \/ Attachment \/ Reader \/ HostEnds \/ Write \/ WriteFails
  \/ \E q \in Requests : Read(q) \/ Cancelled(q) \/ Exchange(q) \/ Offer(q) \/ Interrupt(q) \/ FiberEnds(q)

Spec == Init /\ [][Next]_vars

\* The adapter's fibers run, its timeouts end what hangs, and connections it
\* closes are closed; lines that wait for room in the queue get it in turn.
\* Neither host nor backend has to do anything.
Fairness ==
  /\ WF_vars(NotAdmitted) /\ WF_vars(lease = "gone" /\ HeartbeatFails) /\ WF_vars(Release) /\ WF_vars(Released)
  /\ WF_vars(Removed \/ InputEnds) /\ WF_vars(Cleared \/ Flushed)
  /\ WF_vars(Write \/ WriteFails)
  /\ \A q \in Requests : SF_vars(Offer(q)) /\ WF_vars(Interrupt(q) \/ FiberEnds(q))

FairSpec == Spec /\ Fairness

-----------------------------------------------------------------------------
TypeOK ==
  /\ adapter \in {"admission", "running", "clearing", "flushing", "stopping", "releasing", "ended"}
  /\ outcome \in {"none", "ok", "failed"} /\ lease \in {"none", "held", "gone"}
  /\ input \in {"open", "ended"} /\ removing \in Requests \union {None}
  /\ id \in [Requests -> Ids \union {None}]
  /\ protocol \in {"fresh", "initializing", "initialized"} /\ init \in Requests \union {None}
  /\ fiber \in [Requests -> {"none", "sending", "receiving", "interrupted", "ended", "gone"}]
  /\ phase \in [Requests -> {"awaiting", "answered"}]
  /\ offering \in [Requests -> {"nothing", "progress", "reply"}]
  /\ output \in Seq([of : Requests, line : {"progress", "reply"}]) /\ Len(output) <= Capacity
  /\ writer \in {"running", "failed"} /\ written \subseteq Requests

Queued(q) == {n \in DOMAIN output : output[n] = [of |-> q, line |-> "reply"]}

\* The host gets one reply to a request at most, and knows whose it is: no two
\* requests under way have one id.
RepliesAreOwned ==
  /\ \A q \in Requests :
       /\ \A m, n \in Queued(q) : m = n
       /\ q \in written \/ offering[q] = "reply" => Queued(q) = {}
       /\ q \in written => offering[q] # "reply"
  /\ \A p, q \in Active : p # q /\ id[p] # None => id[p] # id[q]

\* Once the host can have read the reply to initialize, every request it makes
\* finds the session that reply opened.
SessionComesFirst ==
  \A q \in Requests : q = init /\ (Queued(q) # {} \/ q \in written) => protocol = "initialized"

\* While the bridge runs, a request is over only when it was answered or cancelled:
\* one whose outcome is unknown ends the bridge.
UnknownOutcomeIsFatal ==
  \A q \in Requests :
    adapter = "running" /\ id[q] # None /\ fiber[q] = "ended" => phase[q] = "answered"

\* An adapter that reports success left nothing behind: every reply it took is
\* with the host, no request is under way and its lease is gone.
CleanEnd ==
  adapter = "ended" /\ outcome = "ok" =>
    /\ input = "ended" /\ Active = {} /\ lease = "gone"
    /\ \A q \in Requests : phase[q] = "answered" /\ fiber[q] = "ended" => q \in written

\* No outcome is made up: neither that of a request while the bridge runs, nor
\* that of the adapter when it ends.
OutcomeIsKnown == UnknownOutcomeIsFatal /\ CleanEnd

\* Nothing outlives the host or the lease, whoever hangs.
AdapterEnds == (input = "ended" \/ lease = "gone") ~> adapter = "ended"

\* A reply the bridge took reaches the host, however many lines wait before it,
\* or the bridge ends, or the request is cancelled.
RepliesArrive ==
  \A q \in Requests :
    phase[q] = "answered" ~> (q \in written \/ fiber[q] \in {"interrupted", "gone"} \/ adapter # "running")

\* Nobody waits for ever: neither the host for a reply nor the process for its end.
NothingWaits == AdapterEnds /\ RepliesArrive
=============================================================================
