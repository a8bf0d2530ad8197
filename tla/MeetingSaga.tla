---------------------------- MODULE MeetingSaga ----------------------------
(***************************************************************************)
(* A call that gives a calendar event or schedule a meeting room, together *)
(* with its other fields (the calendar-meeting sagas of huly/operations):  *)
(* several writes, each of its own, that are taken back one by one when    *)
(* one fails or the call is interrupted.  What could not be taken back for *)
(* certain is named in the error, as residuals.                            *)
(*                                                                         *)
(* An event is a set of sibling records, one for each participant's        *)
(* calendar; the server adds and removes siblings by itself, and a call    *)
(* polls the set until it seems quiet.  A schedule is one record.          *)
(*                                                                         *)
(* The server is external: it applies a request or refuses it, and its     *)
(* answer may be lost.  Each request is an HTTP request of its own, which  *)
(* is neither aborted nor waited for when its caller is interrupted or its *)
(* connection fails: it stays on its way, while the call goes on to take   *)
(* it back, and may be handled after that, or when the call is over.       *)
(***************************************************************************)
EXTENDS Naturals, SequencesExt

CONSTANTS Originals,  \* the siblings of an event that is updated
          Target,     \* plan.baseTarget, or the record that is created
          Late,       \* siblings the server may add
          Reads,      \* EVENT_SIBLING_OBSERVATION_READS
          QuietReads, \* EVENT_SIBLING_QUIET_READS
          None

ASSUME ConstantsAssumption ==
  /\ Target \in Originals /\ Late \intersect Originals = {} /\ None \notin Originals \union Late
  /\ IsFiniteSet(Originals) /\ IsFiniteSet(Late)
  /\ Reads \in Nat /\ QuietReads \in 1..Reads

VARIABLES
  task,         \* what is asked
  here, room,   \* the server: the records, and the room of each
  base, text,   \* the target's other fields, and its description
  uploaded,     \* a description has been uploaded
  strayed,      \* siblings came or went since they were last read
  net,          \* requests the server has yet to handle
  overtaken,    \* history: those still on their way when what takes them back was applied
  phase, todo,  \* the call, and the steps before it
  wait, reply,  \* the request it waits for, and its answer
  attempted,    \* execution: the requests it has sent, recorded before they are
  reading,      \* the polls of readStableEventSiblings
  unattributed, \* ReconciliationState
  residuals, outcome

documents == <<here, room, base, text, uploaded, strayed>>
requests == <<net, overtaken, wait, reply>>
call == <<phase, todo, attempted, reading, unattributed>>
report == <<residuals, outcome>>
vars == <<task, documents, requests, call, report>>

Records == Originals \union Late
IsEvent == task.of = "event"
Planned == IF IsEvent THEN Originals ELSE {Target}

\* A request to set something to a value.
Kinds == {"room", "base", "text", "upload", "presence", "siblings", "meetings"}
Values == {"new", "old", "present", "absent"}
Requests == [what : Kinds, of : Records, to : Values]
ASSUME NoneAssumption == None \notin Requests

Set(what, of, to) == [what |-> what, of |-> of, to |-> to]
SetRoom(r, to) == Set("room", r, to)
Base(to) == Set("base", Target, to)
Text(to) == Set("text", Target, to)
Upload == Set("upload", Target, "new")
Create == Set("presence", Target, "present")
Delete(r) == Set("presence", r, "absent")
IsRead(s) == s.what \in {"siblings", "meetings"}
ReadSiblings == Set("siblings", Target, "new")
ReadMeetings == Set("meetings", Target, "new")
If(condition, steps) == IF condition THEN steps ELSE <<>>

\* Residuals
RoomAssignment(r) == <<"RoomAssignment", r>>
RecordPresence(r) == <<"RecordPresence", r>>
SiblingSet == <<"SiblingSet", Target>>
BaseFields == <<"BaseFields", Target>>
Content == <<"content-not-restored", Target>>
Orphan == <<"uploaded-markup-may-be-orphaned", Target>>

-----------------------------------------------------------------------------
(* What a call does, and what it does to take it back.                     *)

\* Mutation of applyOrder: as the siblings were read.
ApplyAsRead(S) == SetToSeq(S)
\* The owner's record is changed last and restored first.
ApplyOrder(S) == SetToSeq(S \ {task.owner}) \o SetToSeq(S \intersect {task.owner})
RestoreOrder(S) == SetToSeq(S \intersect {task.owner}) \o SetToSeq(S \ {task.owner})

SetRooms(order, to) == [n \in DOMAIN order |-> SetRoom(order[n], to)]

UpdateSteps ==
  SetRooms(ApplyOrder(Planned), "new")
    \o If(task.fields, <<Base("new")>>)
    \o If(IsEvent, <<ReadSiblings>>)
    \o If(task.markup = "upload", <<Upload>>) \o If(task.markup # "none", <<Text("new")>>)

CreateSteps ==
  If(task.markup = "upload", <<Upload>>) \o <<Create, SetRoom(Target, "new")>>
    \o If(IsEvent, <<ReadSiblings>>)

\* A schedule's room is restored in any case.
AttemptedRooms == {r \in Planned : ~IsEvent \/ SetRoom(r, "new") \in attempted}

\* Mutation of recover: what was sent and not acknowledged is not restored.
RestoreAcknowledged ==
  LET known == attempted \ {wait} IN
  If(Base("new") \in known, <<Base("old")>>) \o If(IsEvent, <<ReadSiblings>>)
    \o SetRooms(RestoreOrder({r \in Planned : SetRoom(r, "new") \in known}), "old")

\* What was sent is restored, acknowledged or not.
RestoreSteps ==
  If(Text("new") \in attempted, <<Text("old")>>)
    \o If(Base("new") \in attempted, <<Base("old")>>)
    \o If(IsEvent, <<ReadSiblings>>)
    \o SetRooms(RestoreOrder(AttemptedRooms), "old")

RemoveSteps ==
  If(Create \in attempted, <<IF IsEvent THEN ReadSiblings ELSE Delete(Target)>>)

\* What is named when a step of the recovery fails.
ResidualOf(q) ==
  CASE q.what = "room" -> RoomAssignment(q.of)
    [] q.what = "base" -> BaseFields
    [] q.what = "text" -> Content
    [] q.what = "presence" -> RecordPresence(q.of)

\* What a request of the recovery takes back.
TakenBack(q) == [q EXCEPT !.to = IF q.what = "presence" THEN "present" ELSE "new"]

\* recoveryFailureResiduals, eventRecoveryResiduals
Everything ==
  {Orphan : q \in {Upload} \intersect attempted}
    \union (IF IsEvent THEN {SiblingSet} ELSE {})
    \union IF task.new THEN {RecordPresence(Target)}
           ELSE {ResidualOf(q) : q \in {a \in attempted : a.what \in {"base", "text"}}}
                  \union {RoomAssignment(r) : r \in AttemptedRooms}
                  \union {RecordPresence(r) : r \in IF IsEvent THEN Planned ELSE {}}

-----------------------------------------------------------------------------
Nothing == [n |-> 0, seen |-> {}, same |-> 0]

Init ==
  /\ task \in [of : {"event", "schedule"}, new : BOOLEAN, fields : BOOLEAN,
               markup : {"none", "update", "upload"}, owner : Originals \union {None}]
  /\ task.new => ~task.fields /\ task.markup # "update" /\ task.owner = None
  /\ ~IsEvent => task.markup = "none" /\ task.owner = None
  /\ here = IF task.new THEN {} ELSE Planned
  /\ room = [r \in Records |-> IF r \in here THEN "old" ELSE "none"]
  /\ base = "old" /\ text = "old" /\ uploaded = FALSE /\ strayed = FALSE
  /\ net = {} /\ overtaken = {} /\ wait = None /\ reply = "none"
  /\ phase = "forward" /\ todo = IF task.new THEN CreateSteps ELSE UpdateSteps
  /\ attempted = {} /\ reading = Nothing /\ unattributed = {}
  /\ residuals = {} /\ outcome = "none"

-----------------------------------------------------------------------------
(* The server.                                                             *)

Apply(q) ==
  /\ here' = IF q = Create THEN here \union {q.of}
             ELSE IF q = Delete(q.of) THEN here \ {q.of} ELSE here
  /\ room' = IF q.what = "room" /\ q.of \in here THEN [room EXCEPT ![q.of] = q.to]
             ELSE IF q = Delete(q.of) THEN [room EXCEPT ![q.of] = "none"] ELSE room
  /\ base' = IF q.what = "base" THEN q.to ELSE base
  /\ text' = IF q.what = "text" THEN q.to ELSE text
  /\ uploaded' = (uploaded \/ q = Upload)
  /\ UNCHANGED strayed

\* In any order, and whether or not the call still waits for it.
Handle ==
  \E q \in net :
    /\ net' = net \ {q}
    /\ \/ /\ Apply(q)
          /\ overtaken' = overtaken \union (net' \intersect {TakenBack(q)})
          /\ reply' = IF q = wait /\ reply = "none" THEN "ok" ELSE reply
       \/ /\ UNCHANGED <<documents, overtaken>>
          /\ reply' = IF q = wait /\ reply = "none" THEN "failed" ELSE reply
    /\ UNCHANGED <<task, wait, call, report>>

\* The server, or another user, adds a participant's sibling or removes one; nobody
\* else changes a room or a field, or removes the target, during the call.  A new
\* one has no Meeting or, copied by a trigger, that of the target.
Appear(r) ==
  /\ IsEvent /\ Target \in here /\ r \in Late \ here /\ phase # "over"
  /\ here' = here \union {r}
  /\ \E to \in {"none", room[Target]} : room' = [room EXCEPT ![r] = to]
  /\ strayed' = TRUE
  /\ UNCHANGED <<task, base, text, uploaded, requests, call, report>>

Vanish(r) ==
  /\ IsEvent /\ r \in here \ {Target} /\ phase # "over"
  /\ here' = here \ {r} /\ room' = [room EXCEPT ![r] = "none"]
  /\ strayed' = TRUE
  /\ UNCHANGED <<task, base, text, uploaded, requests, call, report>>

-----------------------------------------------------------------------------
(* The call.                                                               *)

AtRead(what) == phase # "over" /\ wait = None /\ todo # <<>> /\ Head(todo).what = what
Goto(where, steps) == phase' = where /\ todo' = steps /\ reading' = Nothing

\* The forward part has failed, or was interrupted with a request on its way.
Recover ==
  /\ Goto("recovery", IF task.new THEN RemoveSteps ELSE RestoreSteps)
  /\ wait' = None /\ reply' = "none"
  /\ residuals' = {Orphan : q \in {Upload} \intersect attempted}
  /\ UNCHANGED <<task, documents, net, overtaken, attempted, unattributed, outcome>>

Interrupted == phase = "forward" /\ Recover

Send ==
  /\ phase # "over" /\ wait = None /\ todo # <<>> /\ ~IsRead(Head(todo))
  /\ wait' = Head(todo) /\ net' = net \union {Head(todo)} /\ reply' = "none"
  /\ attempted' = IF phase = "forward" THEN attempted \union {Head(todo)} ELSE attempted
  /\ todo' = Tail(todo)
  /\ UNCHANGED <<task, documents, overtaken, phase, reading, unattributed, report>>

\* The promise rejects before an answer is in: the server has not handled the
\* request, or it has and the answer is lost, which is the same to the call.
AnswerLost ==
  /\ wait # None /\ reply = "none" /\ reply' = "failed"
  /\ UNCHANGED <<task, documents, net, overtaken, wait, call, report>>

Acknowledged ==
  /\ wait # None /\ reply = "ok"
  /\ wait' = None /\ reply' = "none"
  /\ UNCHANGED <<task, documents, net, overtaken, call, report>>

ForwardFails == phase = "forward" /\ reply = "failed" /\ Recover

\* captureCompensation
RestoreFails ==
  /\ phase = "recovery" /\ reply = "failed"
  /\ residuals' = residuals \union {ResidualOf(wait)}
  /\ wait' = None /\ reply' = "none"
  /\ UNCHANGED <<task, documents, net, overtaken, call, outcome>>

\* captureCompensationProgram
RecoveryDies ==
  /\ phase = "recovery" /\ wait = None
  /\ residuals' = Everything /\ Goto("recovery", <<>>)
  /\ UNCHANGED <<task, documents, requests, attempted, unattributed, outcome>>

-----------------------------------------------------------------------------
(* Reading the siblings.                                                   *)

Poll ==
  /\ AtRead("siblings") /\ reading.n < Reads
  /\ reading' = [n |-> reading.n + 1, seen |-> here,
                 same |-> IF reading.n > 0 /\ reading.seen = here THEN reading.same + 1 ELSE 1]
  /\ strayed' = FALSE
  /\ UNCHANGED <<task, here, room, base, text, uploaded, requests,
                 phase, todo, attempted, unattributed, report>>

Expected == IF task.new THEN {Target} ELSE Planned
Converged == reading.n = Reads /\ reading.same >= QuietReads /\ Expected \subseteq reading.seen

\* A poll fails, or the set is not quiet or lacks a record.
ReadFails == (AtRead("siblings") /\ ~Converged) \/ AtRead("meetings")

\* Who has a Meeting already is asked only when there is a sibling to ask about.
SiblingsRead ==
  /\ phase = "forward" /\ AtRead("siblings") /\ Converged
  /\ LET found == IF task.new THEN reading.seen ELSE reading.seen \ Originals IN
       /\ unattributed' = IF task.new THEN {} ELSE found
       /\ todo' = If(found # {}, <<ReadMeetings>>) \o Tail(todo)
  /\ UNCHANGED <<task, documents, requests, phase, attempted, reading, report>>

MeetingsRead ==
  /\ phase = "forward" /\ AtRead("meetings")
  /\ LET without == {r \in reading.seen : room[r] = "none"}
         those == IF task.new THEN without ELSE unattributed
     IN todo' = SetRooms(SetToSeq(those), "new") \o Tail(todo)
  /\ UNCHANGED <<task, documents, requests, phase, attempted, reading, unattributed, report>>

ForwardReadFails == phase = "forward" /\ ReadFails /\ Recover

\* recoveredSiblingSetIssues, unattributedSiblingIssues
SetChecked ==
  /\ phase = "recovery" /\ ~task.new
  /\ \/ /\ AtRead("siblings") /\ Converged
        /\ residuals' = IF reading.seen # Planned \/ unattributed # {}
                        THEN residuals \union {SiblingSet} ELSE residuals
     \/ /\ ReadFails
        /\ residuals' = residuals \union {SiblingSet} \union {RecordPresence(r) : r \in Planned}
  /\ Goto(phase, Tail(todo))
  /\ UNCHANGED <<task, documents, requests, attempted, unattributed, outcome>>

\* Mutation of cleanupCreatedEvents: only what the read has found is removed.
ToRemoveFound(found) == found
\* The record that was to be created is removed although the read did not find it.
ToRemove(found) == found \union {Target}

CreatedFound ==
  /\ phase = "recovery" /\ task.new
  /\ \E found \in {reading.seen, {}} :
       /\ (AtRead("siblings") /\ Converged /\ found = reading.seen) \/ (ReadFails /\ found = {})
       /\ LET order == SetToSeq(ToRemove(found)) IN
            Goto(phase, [n \in DOMAIN order |-> Delete(order[n])] \o Tail(todo))
  /\ residuals' = residuals \union {SiblingSet}
  /\ UNCHANGED <<task, documents, requests, attempted, unattributed, outcome>>

-----------------------------------------------------------------------------
Ends ==
  /\ phase # "over" /\ todo = <<>> /\ wait = None
  /\ Goto("over", <<>>)
  /\ outcome' = IF phase = "forward" THEN "success"
                ELSE IF residuals = {} THEN "recovered" ELSE "unconfirmed"
  /\ UNCHANGED <<task, documents, requests, attempted, unattributed, residuals>>

Next ==
  \/ Handle \/ (\E r \in Records : Appear(r) \/ Vanish(r))
  \/ Send \/ AnswerLost \/ Acknowledged \/ ForwardFails \/ Interrupted \/ RestoreFails \/ RecoveryDies
  \/ Poll \/ SiblingsRead \/ MeetingsRead \/ ForwardReadFails \/ SetChecked \/ CreatedFound
  \/ Ends

Spec == Init /\ [][Next]_vars

-----------------------------------------------------------------------------
(* Properties.                                                             *)

\* What differs from before the call, as far as two seconds of polling can tell.
Left ==
  {RecordPresence(r) : r \in IF task.new THEN here \intersect {Target} ELSE {}}
    \union {RoomAssignment(r) : r \in {p \in Planned \intersect here : ~task.new /\ room[p] # "old"}}
    \union {SiblingSet : r \in {p \in Records \ {Target} : ~strayed /\ IsEvent
                                  /\ (p \in here) # (p \in Planned /\ ~task.new)}}
    \union {BaseFields : b \in {base} \intersect {"new"}}
    \union {Content : t \in {text} \intersect {"new"}}
    \union {Orphan : u \in {uploaded} \intersect {TRUE}}

\* The error of a call that failed names everything that is not as it was, even
\* what a request did whose answer was lost, with one exception: what the request
\* did that was on its way when the call gave it up, and that the server handled
\* only after what takes it back.  A call that succeeded has done it all.
OutcomeIsTrue ==
  /\ outcome \in {"recovered", "unconfirmed"} =>
       /\ Left \subseteq residuals \union {ResidualOf(q) : q \in overtaken}
       /\ \A p, q \in overtaken : p = q
  /\ outcome = "success" =>
       /\ Target \in here /\ (~strayed => \A r \in here : room[r] = "new")
       /\ task.fields => base = "new"
       /\ task.markup # "none" => text = "new" \/ (task.new /\ uploaded)

\* The owner's record is never in the new room with another of the planned ones
\* still, or again, in the old, unless the error will name it, or the change of
\* the owner's record was still on its way when that record was restored.
OwnerChangesLast ==
  \A r \in Planned \intersect here :
    task.owner \in here /\ room[task.owner] = "new" /\ room[r] = "old" =>
      RoomAssignment(task.owner) \in residuals \/ SetRoom(task.owner, "new") \in overtaken

\* What the error says when it names nothing: "every attempted mutation was
\* compensated" (errors-calendar-meetings.ts, message).
RecoveredMeansCompensated == outcome = "recovered" => Left = {}
=============================================================================
