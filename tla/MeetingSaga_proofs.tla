------------------------- MODULE MeetingSaga_proofs -------------------------
(***************************************************************************)
(* For any number of siblings, polls and moments at which a call fails:    *)
(* the error of a failed call names all that it may have left behind, a    *)
(* successful one has done what was asked, and the owner's record changes  *)
(* last; but for what a request did that was still on its way when what    *)
(* takes it back was applied, and there is one such request at most.       *)
(*                                                                         *)
(* Everything a call may send forward is taken back by one request.        *)
(* UndoInv follows each of these through the recovery: it is still ahead,  *)
(* or sent and not confirmed, or named as a residual, or what it takes     *)
(* back was overtaken, or there is nothing to undo and nothing on its way  *)
(* that would change that (Calm).  LineInv says what can be on its way: on *)
(* the way forward only what the call waits for, and so afterwards one     *)
(* forward request at most (LateInv).  DoneInv is the same for the way     *)
(* forward, and OrderInv the order of the steps ahead, of which OwnerInv   *)
(* follows when the owner's record is sent, either way.                    *)
(***************************************************************************)
EXTENDS MeetingSaga, FiniteSetTheorems, SequenceTheorems, TLAPS

-----------------------------------------------------------------------------
(* The invariant.                                                          *)

TypeInv ==
  /\ here \subseteq Records /\ room \in [Records -> {"old", "new", "none"}]
  /\ base \in {"old", "new"} /\ text \in {"old", "new"} /\ uploaded \in BOOLEAN /\ strayed \in BOOLEAN
  /\ net \subseteq Requests /\ overtaken \subseteq Requests /\ wait \in Requests \union {None} /\ reply \in {"none", "ok", "failed"}
  /\ phase \in {"forward", "recovery", "over"} /\ todo \in Seq(Requests) /\ attempted \subseteq Requests
  /\ reading \in [n : Nat, seen : SUBSET Records, same : Nat] /\ unattributed \subseteq Records
  /\ outcome \in {"none", "success", "recovered", "unconfirmed"}

TaskInv ==
  /\ task \in [of : {"event", "schedule"}, new : BOOLEAN, fields : BOOLEAN,
               markup : {"none", "update", "upload"}, owner : Originals \union {None}]
  /\ task.new => ~task.fields /\ task.markup # "update" /\ task.owner = None
  /\ ~IsEvent => task.markup = "none" /\ task.owner = None

\* What a call sends and reads on its way forward, and to take it back.
Forward ==
  {SetRoom(r, "new") : r \in Records} \union {Upload, ReadSiblings, ReadMeetings}
    \union (IF task.new THEN {Create} ELSE {Base("new"), Text("new")})
Undoes ==
  IF task.new THEN {Delete(Target)}
  ELSE {Base("old"), Text("old")} \union {SetRoom(r, "old") : r \in Planned}
Backward == Undoes \union {ReadSiblings} \union IF task.new THEN {Delete(r) : r \in Records} ELSE {}

Ahead == ToSet(todo)
Recovering == phase = "recovery" \/ outcome \in {"recovered", "unconfirmed"}

\* On the way forward only the request is on its way that the call waits for, and
\* nothing is after an answer, or after a success.
LineInv ==
  /\ reply # "none" => wait # None
  /\ reply = "ok" => wait \notin net
  /\ phase = "forward" \/ outcome = "success" => net \subseteq {wait}
  /\ net \subseteq Forward \union Backward /\ \A q \in net : ~IsRead(q)
  /\ phase = "forward" => Ahead \subseteq Forward /\ (wait # None => wait \in Forward)
  /\ phase = "recovery" => Ahead \subseteq Backward /\ (wait # None => wait \in Backward)
  /\ phase = "over" => todo = <<>> /\ wait = None
  /\ phase = "over" <=> outcome # "none"
  /\ phase = "forward" => residuals = {}
  /\ wait # None => ~IsRead(wait)
  /\ phase = "forward" /\ wait # None => wait \in attempted
  /\ net \intersect Forward \subseteq attempted /\ attempted \subseteq Forward

\* There is one forward request at most that may be, or was, overtaken.
LateInv ==
  /\ phase = "forward" => overtaken = {}
  /\ \A p, q \in (net \intersect Forward) \union overtaken : p = q

\* The siblings of a new event are in no room or in the new one; nobody but the
\* call changes what it has not been asked to.
RecordsInv ==
  /\ task.new => base = "old" /\ text = "old" /\ \A r \in Records : room[r] # "old"
  /\ ~task.new => Target \in here
  /\ ~IsEvent => here \subseteq {Target}
  /\ uploaded => Upload \in attempted
  /\ task.new /\ Create \notin attempted => here = {}

\* That there is nothing for an undoing q to undo; or nothing more; that the error
\* will say that there may be; or that what it undoes was overtaken.
IsUndone(q) ==
  CASE q.what = "room" -> q.of \in here => room[q.of] = "old"
    [] q.what = "base" -> base = "old"
    [] q.what = "text" -> text = "old"
    [] q.what = "presence" -> q.of \notin here
Calm(q) == IsUndone(q) /\ TakenBack(q) \notin net
Named(q) == ResidualOf(q) \in residuals
Overtaken(q) == TakenBack(q) \in overtaken

Untouched == \A q \in Undoes : TakenBack(q) \notin attempted => Calm(q)
UndoInv ==
  Recovering =>
    /\ \A q \in Undoes :
         \/ Named(q) \/ Calm(q) \/ Overtaken(q) \/ q \in Ahead \/ (wait = q /\ reply # "ok")
         \/ task.new /\ ReadSiblings \in Ahead
    /\ Upload \in attempted => Orphan \in residuals

\* A read tells what is there unless siblings have come or gone since.
ReadInv ==
  /\ (phase = "forward" \/ ~task.new) /\ reading.n > 0 /\ ~strayed => reading.seen = here
  /\ reading.n > 0 => phase # "over"
  /\ phase = "forward" /\ ReadMeetings \in Ahead => reading.n > 0
  /\ ~task.new => unattributed \intersect Originals = {}
SiblingInv ==
  Recovering /\ IsEvent =>
    \/ SiblingSet \in residuals \/ strayed \/ ReadSiblings \in Ahead
    \/ (IF task.new THEN Create \notin attempted ELSE here = Planned)

\* What is asked is done, or is still ahead of the call.
Yet(q) == q \in Ahead \/ (wait = q /\ reply # "ok")
DoneInv ==
  phase = "forward" =>
    /\ task.new => /\ Yet(Create) \/ Target \in here
                   /\ Yet(SetRoom(Target, "new")) \/ room[Target] = "new"
                   /\ task.markup # "none" => Yet(Upload) \/ uploaded
    /\ ~task.new => /\ \A r \in Planned : Yet(SetRoom(r, "new")) \/ (r \in here => room[r] = "new")
                    /\ task.fields => Yet(Base("new")) \/ base = "new"
                    /\ task.markup # "none" => Yet(Text("new")) \/ text = "new"
    /\ IsEvent /\ ReadSiblings \notin Ahead /\ ~strayed =>
         \A r \in here : \/ Yet(SetRoom(r, "new")) \/ room[r] = "new"
                         \/ ReadMeetings \in Ahead /\ (~task.new => r \in unattributed)
    /\ (IsEvent /\ ReadSiblings \notin Ahead) \/ reading.n > 0 => Create \notin Ahead /\ wait # Create

\* In a sequence of steps X comes before Y.
Precedes(s, X, Y) == \A a, b \in DOMAIN s : s[a] \in Y /\ s[b] \in X => b < a
InTurn(X, Y) == Precedes(todo, X, Y) /\ (wait \in Y => Ahead \intersect X = {})

Others == Originals \ {task.owner}
RoomsOf(S, to) == {SetRoom(r, to) : r \in S}
OrderInv ==
  /\ phase = "forward" /\ task.new => InTurn({Create}, {SetRoom(Target, "new"), ReadSiblings})
  /\ phase = "forward" /\ task.owner # None => InTurn(RoomsOf(Others, "new"), RoomsOf({task.owner}, "new"))
  /\ phase = "recovery" /\ task.owner # None => InTurn(RoomsOf({task.owner}, "old"), RoomsOf(Others, "old"))

\* The others are in the new room, and none is on its way back.
OthersMoved == (\A r \in Others \intersect here : room[r] = "new") /\ net \intersect RoomsOf(Others, "old") = {}
OwnerInv ==
  task.owner # None => \A q \in RoomsOf({task.owner}, "old") : Named(q) \/ Calm(q) \/ Overtaken(q) \/ OthersMoved

SuccessInv ==
  outcome = "success" =>
    /\ Target \in here /\ (~strayed => \A r \in here : room[r] = "new")
    /\ task.fields => base = "new"
    /\ task.markup # "none" => text = "new" \/ (task.new /\ uploaded)

SagaInv ==
  /\ TypeInv /\ TaskInv /\ LineInv /\ LateInv /\ RecordsInv /\ Untouched /\ UndoInv
  /\ ReadInv /\ SiblingInv /\ DoneInv /\ OrderInv /\ OwnerInv /\ SuccessInv

-----------------------------------------------------------------------------
(* Sequences of steps.                                                     *)

LEMMA SeqOfSet ==
  ASSUME NEW S, IsFiniteSet(S)
  PROVE  SetToSeq(S) \in Seq(S) /\ ToSet(SetToSeq(S)) = S
<1> DEFINE n == Cardinality(S)
           f == SetToSeq(S)
<1>1. n \in Nat /\ ExistsBijection(1..n, S)
  BY FS_CardinalityType
<1>2. f \in [1..n -> S] /\ IsInjective(f)
  BY <1>1 DEF SetToSeq, ExistsBijection, Bijection, Injection
<1> DEFINE T == ToSet(f)
<1>3. T \subseteq S /\ ExistsBijection(1..n, T)
  <2>1. f \in [1..n -> T] /\ T \subseteq S /\ \A t \in T : \E i \in 1..n : f[i] = t
    BY <1>2 DEF ToSet
  <2>2. f \in Bijection(1..n, T)
    BY <1>2, <2>1 DEF Bijection, Injection, Surjection
  <2> QED BY <2>1, <2>2 DEF ExistsBijection
<1>4. IsFiniteSet(T) /\ Cardinality(T) = n
  BY <1>1, <1>3, FS_Subset, FS_CountingElements
<1>5. T = S
  BY <1>3, <1>4, FS_Subset
<1>6. f \in Seq(S)
  BY <1>1, <1>2, IsASeq
<1> QED BY <1>5, <1>6

\* Step s of requests, each of S and all of S.
Steps(s, S) == s \in Seq(Requests) /\ ToSet(s) = S

LEMMA NoSteps == Steps(<<>>, {})
  BY DEF Steps, ToSet

LEMMA OneStep == ASSUME NEW q \in Requests PROVE Steps(<<q>>, {q})
  BY DEF Steps, ToSet

LEMMA IfSteps ==
  ASSUME NEW c \in BOOLEAN, NEW s, NEW S, Steps(s, S)
  PROVE  Steps(If(c, s), IF c THEN S ELSE {})
BY NoSteps DEF If

LEMMA JoinedSet ==
  ASSUME NEW X, NEW s \in Seq(X), NEW t \in Seq(X)
  PROVE  s \o t \in Seq(X) /\ ToSet(s \o t) = ToSet(s) \union ToSet(t)
<1>1. /\ s \o t \in Seq(X) /\ Len(s \o t) = Len(s) + Len(t)
      /\ \A i \in 1..Len(s) + Len(t) : (s \o t)[i] = IF i <= Len(s) THEN s[i] ELSE t[i - Len(s)]
  BY ConcatProperties
<1>2. DOMAIN s = 1..Len(s) /\ DOMAIN t = 1..Len(t) /\ DOMAIN (s \o t) = 1..Len(s) + Len(t)
      /\ Len(s) \in Nat /\ Len(t) \in Nat
  BY <1>1, LenProperties
<1> HIDE DEF Steps
<1>3. ASSUME NEW x \in ToSet(s \o t) PROVE x \in ToSet(s) \union ToSet(t)
  <2>1. PICK i \in 1..Len(s) + Len(t) : x = (s \o t)[i]
    BY <1>2 DEF ToSet
  <2>2. CASE i <= Len(s)
    BY <1>1, <1>2, <2>1, <2>2 DEF ToSet
  <2>3. CASE ~(i <= Len(s))
    <3>1. i - Len(s) \in 1..Len(t) /\ x = t[i - Len(s)]
      BY <1>1, <1>2, <2>1, <2>3
    <3> QED BY <1>2, <3>1 DEF ToSet
  <2> QED BY <2>2, <2>3
<1>4. ASSUME NEW x \in ToSet(s) PROVE x \in ToSet(s \o t)
  <2>1. PICK i \in 1..Len(s) : x = s[i]
    BY <1>2 DEF ToSet
  <2>2. i \in 1..Len(s) + Len(t) /\ (s \o t)[i] = x
    BY <1>1, <1>2, <2>1
  <2> QED BY <1>2, <2>2 DEF ToSet
<1>5. ASSUME NEW x \in ToSet(t) PROVE x \in ToSet(s \o t)
  <2>1. PICK i \in 1..Len(t) : x = t[i]
    BY <1>2 DEF ToSet
  <2>2. i + Len(s) \in 1..Len(s) + Len(t) /\ (s \o t)[i + Len(s)] = x
    BY <1>1, <1>2, <2>1
  <2> QED BY <1>2, <2>2 DEF ToSet
<1> QED BY <1>1, <1>3, <1>4, <1>5

LEMMA Joined ==
  ASSUME NEW s, NEW S, NEW t, NEW T, Steps(s, S), Steps(t, T)
  PROVE  Steps(s \o t, S \union T)
BY JoinedSet DEF Steps

LEMMA HeadAndTail ==
  ASSUME NEW X, NEW s \in Seq(X), s # <<>>
  PROVE  /\ Head(s) \in X /\ Tail(s) \in Seq(X) /\ ToSet(s) = {Head(s)} \union ToSet(Tail(s))
         /\ Len(Tail(s)) = Len(s) - 1 /\ \A i \in DOMAIN Tail(s) : i + 1 \in DOMAIN s /\ Tail(s)[i] = s[i + 1]
<1>1. /\ Head(s) = s[1] /\ Head(s) \in X /\ Tail(s) \in Seq(X) /\ Len(Tail(s)) = Len(s) - 1
      /\ \A i \in 1..Len(Tail(s)) : Tail(s)[i] = s[i + 1]
  BY HeadTailProperties
<1>2. DOMAIN s = 1..Len(s) /\ DOMAIN Tail(s) = 1..Len(Tail(s)) /\ Len(s) \in Nat /\ Len(s) # 0
  BY <1>1, LenProperties, EmptySeq
<1>3. \A i \in DOMAIN Tail(s) : i + 1 \in DOMAIN s /\ Tail(s)[i] = s[i + 1]
  BY <1>1, <1>2
<1>4. ASSUME NEW x \in ToSet(s) PROVE x = Head(s) \/ x \in ToSet(Tail(s))
  <2>1. PICK i \in DOMAIN s : x = s[i]
    BY DEF ToSet
  <2>2. CASE i = 1
    BY <1>1, <2>1, <2>2
  <2>3. CASE i # 1
    <3>1. i - 1 \in DOMAIN Tail(s) /\ Tail(s)[i - 1] = s[i]
      BY <1>1, <1>2, <1>3, <2>3
    <3> QED BY <2>1, <3>1 DEF ToSet
  <2> QED BY <2>2, <2>3
<1>5. Head(s) \in ToSet(s) /\ ToSet(Tail(s)) \subseteq ToSet(s)
  <2>1. 1 \in DOMAIN s
    BY <1>2
  <2> QED BY <1>1, <1>3, <2>1 DEF ToSet
<1> QED BY <1>1, <1>3, <1>4, <1>5

LEMMA Appended ==
  ASSUME NEW X, NEW s \in Seq(X), NEW x \in X
  PROVE  /\ Append(s, x) \in Seq(X) /\ ToSet(Append(s, x)) = ToSet(s) \union {x}
         /\ Len(Append(s, x)) = Len(s) + 1 /\ Append(s, x)[Len(s) + 1] = x
         /\ DOMAIN Append(s, x) = 1..Len(s) + 1 /\ \A i \in 1..Len(s) : Append(s, x)[i] = s[i]
<1>1. /\ Append(s, x) \in Seq(X) /\ Len(Append(s, x)) = Len(s) + 1 /\ Append(s, x)[Len(s) + 1] = x
      /\ \A i \in 1..Len(s) : Append(s, x)[i] = s[i]
  BY AppendProperties
<1>2. DOMAIN s = 1..Len(s) /\ DOMAIN Append(s, x) = 1..Len(s) + 1 /\ Len(s) \in Nat
  BY <1>1, LenProperties
<1>3. ToSet(Append(s, x)) = ToSet(s) \union {x}
  BY <1>1, <1>2 DEF ToSet
<1> QED BY <1>1, <1>2, <1>3

LEMMA RoomSteps ==
  ASSUME NEW order \in Seq(Records), NEW to \in Values
  PROVE  Steps(SetRooms(order, to), RoomsOf(ToSet(order), to))
<1>1. DOMAIN order = 1..Len(order) /\ Len(order) \in Nat /\ \A n \in 1..Len(order) : order[n] \in Records
  BY LenProperties, ElementOfSeq
<1>2. \A n \in 1..Len(order) : SetRoom(order[n], to) \in Requests
  BY <1>1 DEF SetRoom, Set, Requests, Kinds
<1>3. SetRooms(order, to) = [n \in 1..Len(order) |-> SetRoom(order[n], to)]
  BY <1>1 DEF SetRooms
<1>4. SetRooms(order, to) \in Seq(Requests)
  BY <1>1, <1>2, <1>3
<1>5. ToSet(SetRooms(order, to)) = RoomsOf(ToSet(order), to)
  BY <1>1, <1>3 DEF ToSet, RoomsOf
<1> QED BY <1>4, <1>5 DEF Steps

LEMMA InOrderByAbsence ==
  ASSUME NEW s, NEW X, NEW Y, ToSet(s) \intersect X = {} \/ ToSet(s) \intersect Y = {}
  PROVE  Precedes(s, X, Y)
BY DEF Precedes, ToSet

LEMMA InOrderJoined ==
  ASSUME NEW Q, NEW s \in Seq(Q), NEW t \in Seq(Q), NEW X, NEW Y,
         Precedes(s, X, Y), Precedes(t, X, Y),
         ToSet(s) \intersect Y = {} \/ ToSet(t) \intersect X = {}
  PROVE  Precedes(s \o t, X, Y)
<1>1. /\ \A i \in 1..Len(s) + Len(t) : (s \o t)[i] = IF i <= Len(s) THEN s[i] ELSE t[i - Len(s)]
      /\ DOMAIN s = 1..Len(s) /\ DOMAIN t = 1..Len(t) /\ DOMAIN (s \o t) = 1..Len(s) + Len(t)
      /\ Len(s) \in Nat /\ Len(t) \in Nat
  BY ConcatProperties, LenProperties
<1> SUFFICES ASSUME NEW a \in 1..Len(s) + Len(t), NEW b \in 1..Len(s) + Len(t), (s \o t)[a] \in Y, (s \o t)[b] \in X
             PROVE  b < a
  BY <1>1 DEF Precedes
<1>2. CASE a <= Len(s) /\ b <= Len(s)
  <2>1. a \in DOMAIN s /\ b \in DOMAIN s /\ s[a] \in Y /\ s[b] \in X
    BY <1>1, <1>2
  <2> QED BY <2>1 DEF Precedes
<1>3. CASE ~(a <= Len(s)) /\ ~(b <= Len(s))
  <2>1. a - Len(s) \in DOMAIN t /\ b - Len(s) \in DOMAIN t /\ t[a - Len(s)] \in Y /\ t[b - Len(s)] \in X
    BY <1>1, <1>3
  <2>2. b - Len(s) < a - Len(s)
    BY <2>1 DEF Precedes
  <2> QED BY <1>1, <2>2
<1>4. CASE a <= Len(s) /\ ~(b <= Len(s))
  <2>1. a \in DOMAIN s /\ b - Len(s) \in DOMAIN t /\ s[a] \in Y /\ t[b - Len(s)] \in X
    BY <1>1, <1>4
  <2> QED BY <2>1 DEF ToSet
<1>5. CASE ~(a <= Len(s)) /\ b <= Len(s)
  BY <1>1, <1>5
<1> QED BY <1>2, <1>3, <1>4, <1>5

LEMMA InOrderTail ==
  ASSUME NEW Q, NEW s \in Seq(Q), s # <<>>, NEW X, NEW Y, Precedes(s, X, Y)
  PROVE  Precedes(Tail(s), X, Y) /\ (Head(s) \in Y => ToSet(s) \intersect X = {})
<1>1. /\ DOMAIN s = 1..Len(s) /\ DOMAIN Tail(s) = 1..Len(Tail(s)) /\ Len(Tail(s)) = Len(s) - 1
      /\ Len(s) \in Nat \ {0} /\ Head(s) = s[1]
      /\ \A i \in DOMAIN Tail(s) : i + 1 \in DOMAIN s /\ Tail(s)[i] = s[i + 1]
  BY HeadAndTail, LenProperties, EmptySeq, HeadTailProperties
<1>2. Precedes(Tail(s), X, Y)
  <2> SUFFICES ASSUME NEW a \in DOMAIN Tail(s), NEW b \in DOMAIN Tail(s), Tail(s)[a] \in Y, Tail(s)[b] \in X
               PROVE  b < a
    BY DEF Precedes
  <2>1. b + 1 < a + 1
    BY <1>1 DEF Precedes
  <2> QED BY <1>1, <2>1
<1>3. ASSUME Head(s) \in Y, NEW b \in DOMAIN s PROVE s[b] \notin X
  BY <1>1, <1>3 DEF Precedes
<1> QED BY <1>2, <1>3 DEF ToSet

\* The requests there are.
LEMMA Known ==
  /\ Upload \in Requests /\ Create \in Requests /\ ReadSiblings \in Requests /\ ReadMeetings \in Requests
  /\ \A to \in Values : Base(to) \in Requests /\ Text(to) \in Requests
  /\ \A r \in Records : Delete(r) \in Requests /\ \A to \in Values : SetRoom(r, to) \in Requests
BY ConstantsAssumption DEF Upload, Create, ReadSiblings, ReadMeetings, Base, Text, Delete, SetRoom, Set, Requests, Kinds, Values, Records

\* Siblings in the order of a plan: those of first, then the others.
LEMMA TwoParts ==
  ASSUME NEW S, S \subseteq Records, NEW T, T \subseteq Records, NEW to \in Values
  PROVE  LET order == SetToSeq(S) \o SetToSeq(T) IN
         /\ Steps(SetRooms(order, to), RoomsOf(S \union T, to))
         /\ S \intersect T = {} => Precedes(SetRooms(order, to), RoomsOf(S, to), RoomsOf(T, to))
<1> DEFINE s == SetToSeq(S)
           t == SetToSeq(T)
<1>0. IsFiniteSet(Records)
  BY ConstantsAssumption, FS_Union DEF Records
<1>1. s \in Seq(Records) /\ ToSet(s) = S /\ t \in Seq(Records) /\ ToSet(t) = T
  <2>1. IsFiniteSet(S) /\ IsFiniteSet(T)
    BY <1>0, FS_Subset
  <2>2. s \in Seq(S) /\ ToSet(s) = S /\ t \in Seq(T) /\ ToSet(t) = T
    BY <2>1, SeqOfSet
  <2> QED BY <2>2
<1> HIDE DEF s, t
<1>2. s \o t \in Seq(Records) /\ ToSet(s \o t) = S \union T
  BY <1>1, JoinedSet
<1>3. Steps(SetRooms(s \o t, to), RoomsOf(S \union T, to))
  BY <1>2, RoomSteps
<1>4. ASSUME S \intersect T = {} PROVE Precedes(SetRooms(s \o t, to), RoomsOf(S, to), RoomsOf(T, to))
  <2>1. Precedes(s \o t, S, T)
    BY <1>1, <1>4, InOrderByAbsence, InOrderJoined
  <2>2. \A n \in DOMAIN (s \o t), R \in {S, T} : SetRoom((s \o t)[n], to) \in RoomsOf(R, to) => (s \o t)[n] \in R
    BY DEF RoomsOf, SetRoom, Set
  <2> QED BY <2>1, <2>2 DEF SetRooms, Precedes
<1> QED BY <1>3, <1>4 DEF s, t

\* What a call is to do when it starts, and the turns it keeps.
LEMMA UpdateStart ==
  ASSUME TaskInv, ~task.new
  PROVE  /\ Steps(UpdateSteps, RoomsOf(Planned, "new") \union (IF task.fields THEN {Base("new")} ELSE {})
                                 \union (IF IsEvent THEN {ReadSiblings} ELSE {})
                                 \union (IF task.markup = "upload" THEN {Upload} ELSE {})
                                 \union (IF task.markup # "none" THEN {Text("new")} ELSE {}))
         /\ task.owner # None => Precedes(UpdateSteps, RoomsOf(Others, "new"), RoomsOf({task.owner}, "new"))
<1> DEFINE rooms == SetRooms(ApplyOrder(Planned), "new")
           A == Planned \ {task.owner}
           B == Planned \intersect {task.owner}
           f == If(task.fields, <<Base("new")>>)
           e == If(IsEvent, <<ReadSiblings>>)
           u == If(task.markup = "upload", <<Upload>>)
           t == If(task.markup # "none", <<Text("new")>>)
<1>1. /\ Steps(rooms, RoomsOf(Planned, "new"))
      /\ Precedes(rooms, RoomsOf(A, "new"), RoomsOf(B, "new"))
  <2>1. A \subseteq Records /\ B \subseteq Records /\ A \intersect B = {} /\ A \union B = Planned /\ "new" \in Values
    BY ConstantsAssumption DEF Planned, Records, Values
  <2> HIDE DEF A, B
  <2>2. /\ Steps(SetRooms(SetToSeq(A) \o SetToSeq(B), "new"), RoomsOf(Planned, "new"))
        /\ Precedes(SetRooms(SetToSeq(A) \o SetToSeq(B), "new"), RoomsOf(A, "new"), RoomsOf(B, "new"))
    BY <2>1, TwoParts
  <2> QED BY <2>2 DEF ApplyOrder, A, B
<1>2. task.fields \in BOOLEAN /\ IsEvent \in BOOLEAN
  BY DEF TaskInv, IsEvent
<1>3. /\ Steps(f, IF task.fields THEN {Base("new")} ELSE {})
      /\ Steps(e, IF IsEvent THEN {ReadSiblings} ELSE {})
      /\ Steps(u, IF task.markup = "upload" THEN {Upload} ELSE {})
      /\ Steps(t, IF task.markup # "none" THEN {Text("new")} ELSE {})
  BY <1>2, Known, OneStep, IfSteps DEF Values
<1> DEFINE w == If(task.markup = "upload", <<Upload>>) \o If(task.markup # "none", <<Text("new")>>)
<1>4. UpdateSteps = rooms \o f \o e \o u \o t
  BY DEF UpdateSteps
<1> DEFINE F == IF task.fields THEN {Base("new")} ELSE {}
           E == IF IsEvent THEN {ReadSiblings} ELSE {}
           U == IF task.markup = "upload" THEN {Upload} ELSE {}
           T == IF task.markup # "none" THEN {Text("new")} ELSE {}
<1> HIDE DEF rooms, f, e, u, t, A, B
<1>5. Steps(rooms \o f, RoomsOf(Planned, "new") \union F)
  BY <1>1, <1>3, Joined
<1>6. Steps(rooms \o f \o e, RoomsOf(Planned, "new") \union F \union E)
  BY <1>3, <1>5, Joined
<1>7. Steps(rooms \o f \o e \o u, RoomsOf(Planned, "new") \union F \union E \union U)
  BY <1>3, <1>6, Joined
<1>8. Steps(rooms \o f \o e \o u \o t, RoomsOf(Planned, "new") \union F \union E \union U \union T)
  BY <1>3, <1>7, Joined
<1>9. ASSUME task.owner # None PROVE Precedes(UpdateSteps, RoomsOf(Others, "new"), RoomsOf({task.owner}, "new"))
  <2>1. A = Others /\ B = {task.owner}
    BY <1>9 DEF TaskInv, Others, Planned, A, B
  <2> DEFINE X == RoomsOf(Others, "new")
             Y == RoomsOf({task.owner}, "new")
  <2>2. F \intersect X = {} /\ E \intersect X = {} /\ U \intersect X = {} /\ T \intersect X = {}
    BY DEF RoomsOf, SetRoom, Base, ReadSiblings, Upload, Text, Set
  <2> HIDE DEF X, Y, F, E, U, T
  <2>3. Precedes(rooms, X, Y)
    BY <1>1, <2>1 DEF X, Y
  <2>4. ASSUME NEW s, NEW S, Steps(s, S), NEW v, NEW V, Steps(v, V), Precedes(s, X, Y), V \intersect X = {}
        PROVE  Precedes(s \o v, X, Y)
    BY <2>4, InOrderByAbsence, InOrderJoined DEF Steps
  <2>5. Precedes(rooms \o f, X, Y)
    BY <1>1, <1>3, <2>2, <2>3, <2>4 DEF F
  <2>6. Precedes(rooms \o f \o e, X, Y)
    BY <1>3, <1>5, <2>2, <2>4, <2>5 DEF E
  <2>7. Precedes(rooms \o f \o e \o u, X, Y)
    BY <1>3, <1>6, <2>2, <2>4, <2>6 DEF U
  <2>8. Precedes(rooms \o f \o e \o u \o t, X, Y)
    BY <1>3, <1>7, <2>2, <2>4, <2>7 DEF T
  <2> QED BY <1>4, <2>8 DEF X, Y
<1> QED BY <1>4, <1>8, <1>9

LEMMA CreateStart ==
  ASSUME TaskInv, task.new
  PROVE  /\ Steps(CreateSteps, (IF task.markup = "upload" THEN {Upload} ELSE {})
                                 \union {Create, SetRoom(Target, "new")}
                                 \union (IF IsEvent THEN {ReadSiblings} ELSE {}))
         /\ Precedes(CreateSteps, {Create}, {SetRoom(Target, "new"), ReadSiblings})
<1> DEFINE c == <<Create, SetRoom(Target, "new")>>
           u == If(task.markup = "upload", <<Upload>>)
           e == If(IsEvent, <<ReadSiblings>>)
           U == IF task.markup = "upload" THEN {Upload} ELSE {}
           E == IF IsEvent THEN {ReadSiblings} ELSE {}
           X == {Create}
           Y == {SetRoom(Target, "new"), ReadSiblings}
<1>1. Create \in Requests /\ SetRoom(Target, "new") \in Requests
  BY Known, ConstantsAssumption DEF Records, Values
<1>2. Steps(c, {Create, SetRoom(Target, "new")}) /\ DOMAIN c = 1..2 /\ c[1] = Create /\ c[2] = SetRoom(Target, "new")
  BY <1>1 DEF Steps, ToSet
<1>3. Create # SetRoom(Target, "new") /\ Create # ReadSiblings /\ Upload \notin Y /\ ReadSiblings # Create
  BY DEF Create, SetRoom, ReadSiblings, Upload, Set
<1>4. Precedes(c, X, Y)
  BY <1>2, <1>3 DEF Precedes
<1>5. Steps(u, U) /\ Steps(e, E)
  <2>1. IsEvent \in BOOLEAN
    BY DEF IsEvent
  <2> QED BY <2>1, Known, OneStep, IfSteps
<1>6. U \intersect Y = {} /\ E \intersect X = {}
  BY <1>3
<1> HIDE DEF c, u, e, U, E, X, Y
<1>7. Steps(u \o c, U \union {Create, SetRoom(Target, "new")})
  BY <1>2, <1>5, Joined
<1>8. Steps(u \o c \o e, U \union {Create, SetRoom(Target, "new")} \union E)
  BY <1>5, <1>7, Joined
<1>9. Precedes(u \o c, X, Y)
  BY <1>2, <1>4, <1>5, <1>6, InOrderByAbsence, InOrderJoined DEF Steps
<1>10. Precedes(u \o c \o e, X, Y)
  BY <1>5, <1>6, <1>7, <1>9, InOrderByAbsence, InOrderJoined DEF Steps
<1>11. CreateSteps = u \o c \o e
  BY DEF CreateSteps, u, c, e
<1> QED BY <1>8, <1>10, <1>11 DEF U, E, X, Y

LEMMA RestoreStart ==
  ASSUME TaskInv, ~task.new
  PROVE  /\ Steps(RestoreSteps, (IF Text("new") \in attempted THEN {Text("old")} ELSE {})
                                 \union (IF Base("new") \in attempted THEN {Base("old")} ELSE {})
                                 \union (IF IsEvent THEN {ReadSiblings} ELSE {})
                                 \union RoomsOf(AttemptedRooms, "old"))
         /\ task.owner # None => Precedes(RestoreSteps, RoomsOf({task.owner}, "old"), RoomsOf(Others, "old"))
<1> DEFINE rooms == SetRooms(RestoreOrder(AttemptedRooms), "old")
           A == AttemptedRooms \intersect {task.owner}
           B == AttemptedRooms \ {task.owner}
           t == If(Text("new") \in attempted, <<Text("old")>>)
           b == If(Base("new") \in attempted, <<Base("old")>>)
           e == If(IsEvent, <<ReadSiblings>>)
           T == IF Text("new") \in attempted THEN {Text("old")} ELSE {}
           F == IF Base("new") \in attempted THEN {Base("old")} ELSE {}
           E == IF IsEvent THEN {ReadSiblings} ELSE {}
           R == RoomsOf(AttemptedRooms, "old")
<1>1. Steps(rooms, R) /\ Precedes(rooms, RoomsOf(A, "old"), RoomsOf(B, "old"))
  <2>1. A \subseteq Records /\ B \subseteq Records /\ A \intersect B = {} /\ A \union B = AttemptedRooms /\ "old" \in Values
    BY ConstantsAssumption DEF AttemptedRooms, Planned, Records, Values
  <2> HIDE DEF A, B
  <2>2. /\ Steps(SetRooms(SetToSeq(A) \o SetToSeq(B), "old"), RoomsOf(AttemptedRooms, "old"))
        /\ Precedes(SetRooms(SetToSeq(A) \o SetToSeq(B), "old"), RoomsOf(A, "old"), RoomsOf(B, "old"))
    BY <2>1, TwoParts
  <2> QED BY <2>2 DEF RestoreOrder, A, B
<1>2. Steps(t, T) /\ Steps(b, F) /\ Steps(e, E)
  <2>1. IsEvent \in BOOLEAN /\ (Text("new") \in attempted) \in BOOLEAN /\ (Base("new") \in attempted) \in BOOLEAN
    BY DEF IsEvent
  <2> QED BY <2>1, Known, OneStep, IfSteps DEF Values
<1> HIDE DEF rooms, t, b, e, A, B, R
<1>3. Steps(t \o b, T \union F)
  BY <1>2, Joined
<1>4. Steps(t \o b \o e, T \union F \union E)
  BY <1>2, <1>3, Joined
<1>5. Steps(t \o b \o e \o rooms, T \union F \union E \union R)
  BY <1>1, <1>4, Joined
<1>6. RestoreSteps = t \o b \o e \o rooms
  BY DEF RestoreSteps, t, b, e, rooms
<1>7. ASSUME task.owner # None PROVE Precedes(RestoreSteps, RoomsOf({task.owner}, "old"), RoomsOf(Others, "old"))
  <2> DEFINE X == RoomsOf({task.owner}, "old")
             Y == RoomsOf(Others, "old")
             O == RoomsOf(A, "old")
             P == RoomsOf(B, "old")
  <2>1. (T \union F \union E) \intersect Y = {}
    BY DEF RoomsOf, SetRoom, Base, ReadSiblings, Text, Set
  <2>2. R = O \union P /\ O \subseteq X /\ R \intersect X \subseteq O /\ R \intersect Y \subseteq P
    <3>1. \A r, q : SetRoom(r, "old") = SetRoom(q, "old") => r = q
      BY DEF SetRoom, Set
    <3>2. A = AttemptedRooms \intersect {task.owner} /\ B = AttemptedRooms \ {task.owner}
      BY DEF A, B
    <3> QED BY <3>1, <3>2 DEF RoomsOf, Others, R
  <2> HIDE DEF X, Y, T, F, E, O, P
  <2>3. Precedes(rooms, O, P)
    BY <1>1 DEF O, P
  <2>4. Precedes(rooms, X, Y)
    <3>1. \A n \in DOMAIN rooms : rooms[n] \in R
      BY <1>1 DEF Steps, ToSet
    <3> QED BY <2>2, <2>3, <3>1 DEF Precedes
  <2>5. Precedes(t \o b \o e, X, Y)
    BY <1>4, <2>1, InOrderByAbsence DEF Steps
  <2>6. Precedes(t \o b \o e \o rooms, X, Y)
    BY <1>1, <1>4, <2>1, <2>4, <2>5, InOrderJoined DEF Steps
  <2> QED BY <1>6, <2>6 DEF X, Y
<1> QED BY <1>5, <1>6, <1>7 DEF R

LEMMA RemoveStart ==
  ASSUME TaskInv, task.new
  PROVE  Steps(RemoveSteps, IF Create \in attempted THEN {IF IsEvent THEN ReadSiblings ELSE Delete(Target)} ELSE {})
<1>1. ReadSiblings \in Requests /\ Delete(Target) \in Requests
  BY Known, ConstantsAssumption DEF Records
<1>2. (IF IsEvent THEN ReadSiblings ELSE Delete(Target)) \in Requests
  BY <1>1
<1>3. Steps(<<IF IsEvent THEN ReadSiblings ELSE Delete(Target)>>, {IF IsEvent THEN ReadSiblings ELSE Delete(Target)})
  BY <1>2, OneStep
<1>4. (Create \in attempted) \in BOOLEAN
  OBVIOUS
<1> DEFINE q == IF IsEvent THEN ReadSiblings ELSE Delete(Target)
<1> HIDE DEF q
<1>5. Steps(If(Create \in attempted, <<q>>), IF Create \in attempted THEN {q} ELSE {})
  BY <1>3, <1>4, IfSteps DEF q
<1> QED BY <1>5 DEF RemoveSteps, q

-----------------------------------------------------------------------------
(* It holds at the start.                                                  *)

\* An undoing is not among the steps forward, and undoes one of them.
LEMMA Undoings ==
  ASSUME TaskInv
  PROVE  /\ Forward \subseteq Requests /\ Backward \subseteq Requests
         /\ Forward \intersect Backward = {ReadSiblings} /\ IsRead(ReadSiblings) /\ IsRead(ReadMeetings)
         /\ Undoes \subseteq Backward /\ ReadSiblings \notin Undoes
         /\ \A q \in Undoes : TakenBack(q) \in Forward /\ ~IsRead(q) /\ ~IsRead(TakenBack(q))
<1>1. Forward \subseteq Requests /\ Backward \subseteq Requests
  BY Known, ConstantsAssumption DEF Forward, Backward, Undoes, Planned, Values, Records
<1>2. Forward \intersect Backward = {ReadSiblings}
  BY DEF Forward, Backward, Undoes, SetRoom, Base, Text, Upload, Create, Delete, ReadSiblings, ReadMeetings, Set
<1>3. /\ Undoes \subseteq Backward /\ ReadSiblings \notin Undoes /\ IsRead(ReadSiblings) /\ IsRead(ReadMeetings)
      /\ \A q \in Undoes : ~IsRead(q)
  BY DEF Backward, Undoes, SetRoom, Base, Text, Delete, ReadSiblings, ReadMeetings, IsRead, Set
<1>4. ASSUME NEW q \in Undoes PROVE TakenBack(q) \in Forward /\ ~IsRead(TakenBack(q))
  <2>1. CASE task.new
    BY <2>1 DEF TakenBack, Undoes, Forward, Create, Delete, IsRead, Set
  <2>2. CASE ~task.new
    <3>1. CASE q \in {Base("old"), Text("old")}
      BY <2>2, <3>1 DEF TakenBack, Forward, Base, Text, IsRead, Set
    <3>2. CASE \E r \in Planned : q = SetRoom(r, "old")
      <4>1. PICK r \in Planned : q = SetRoom(r, "old")
        BY <3>2
      <4>2. TakenBack(q) = SetRoom(r, "new")
        BY <2>2, <4>1 DEF TakenBack, SetRoom, Set
      <4> QED BY <4>1, <4>2, ConstantsAssumption DEF Forward, Planned, Records, SetRoom, IsRead, Set
    <3> QED BY <2>2, <3>1, <3>2 DEF Undoes
  <2> QED BY <2>1, <2>2
<1> QED BY <1>1, <1>2, <1>3, <1>4

LEMMA AtStart == ASSUME Init PROVE SagaInv
<1>1. TaskInv
  BY DEF Init, TaskInv
<1>2. TypeInv
  <2>1. /\ here \subseteq Records /\ room \in [Records -> {"old", "new", "none"}]
        /\ net \subseteq Requests /\ overtaken \subseteq Requests /\ wait \in Requests \union {None} /\ attempted \subseteq Requests
        /\ reading \in [n : Nat, seen : SUBSET Records, same : Nat] /\ unattributed \subseteq Records
    BY ConstantsAssumption DEF Init, Planned, Records, Nothing
  <2>2. todo \in Seq(Requests)
    BY <1>1, UpdateStart, CreateStart DEF Init, Steps
  <2> QED BY <2>1, <2>2 DEF Init, TypeInv
<1>3. /\ task.new => /\ Ahead = (IF task.markup = "upload" THEN {Upload} ELSE {}) \union {Create, SetRoom(Target, "new")}
                                \union (IF IsEvent THEN {ReadSiblings} ELSE {})
                     /\ Precedes(todo, {Create}, {SetRoom(Target, "new"), ReadSiblings})
      /\ ~task.new => /\ Ahead = RoomsOf(Planned, "new") \union (IF task.fields THEN {Base("new")} ELSE {})
                                 \union (IF IsEvent THEN {ReadSiblings} ELSE {})
                                 \union (IF task.markup = "upload" THEN {Upload} ELSE {})
                                 \union (IF task.markup # "none" THEN {Text("new")} ELSE {})
                      /\ task.owner # None => Precedes(todo, RoomsOf(Others, "new"), RoomsOf({task.owner}, "new"))
  BY <1>1, <1>2, UpdateStart, CreateStart DEF Init, Steps, Ahead
<1>4. net = {} /\ overtaken = {} /\ wait = None /\ reply = "none" /\ phase = "forward" /\ outcome = "none" /\ attempted = {}
      /\ reading.n = 0 /\ residuals = {}
  BY DEF Init, Nothing
<1>5. Ahead \subseteq Forward
  BY <1>3, ConstantsAssumption DEF Forward, RoomsOf, Planned, Records
<1>6. LineInv /\ LateInv
  BY <1>4, <1>5 DEF LineInv, LateInv
<1>7. RecordsInv
  BY ConstantsAssumption DEF Init, RecordsInv, Planned, Records, TaskInv
<1>8. \A q \in Undoes : Calm(q)
  <2> SUFFICES ASSUME NEW q \in Undoes PROVE IsUndone(q)
    BY <1>4 DEF Calm
  <2>1. CASE task.new
    BY <2>1 DEF Init, Undoes, IsUndone, Delete, Set
  <2>2. CASE q = Base("old") \/ q = Text("old")
    <3>1. q.what \in {"base", "text"} /\ base = "old" /\ text = "old"
      BY <2>2 DEF Init, Base, Text, Set
    <3> QED BY <3>1 DEF IsUndone
  <2>3. CASE ~task.new /\ \E r \in Planned : q = SetRoom(r, "old")
    BY <2>3, ConstantsAssumption DEF Init, IsUndone, SetRoom, Set, Planned, Records
  <2> QED BY <2>1, <2>2, <2>3 DEF Undoes
<1>9. OwnerInv
  <2> SUFFICES ASSUME task.owner # None, NEW q \in RoomsOf({task.owner}, "old") PROVE Calm(q)
    BY DEF OwnerInv
  <2>1. ~task.new /\ IsEvent /\ task.owner \in Planned
    BY <1>1 DEF TaskInv, Planned
  <2> QED BY <1>8, <2>1 DEF Undoes, RoomsOf
<1>10. DoneInv
  <2>1. CASE task.new
    BY <1>3, <1>4, <2>1 DEF DoneInv, Yet, TaskInv, Init
  <2>2. CASE ~task.new
    <3>1. RoomsOf(Planned, "new") \subseteq Ahead /\ (task.fields => Base("new") \in Ahead) /\ (task.markup # "none" => Text("new") \in Ahead)
          /\ (IsEvent => ReadSiblings \in Ahead) /\ Create \notin Ahead
      BY <1>3, <2>2 DEF Create, RoomsOf, SetRoom, Base, Text, Upload, ReadSiblings, Set
    <3> QED BY <1>4, <2>2, <3>1 DEF DoneInv, Yet, RoomsOf
  <2> QED BY <2>1, <2>2
<1>11. OrderInv
  <2>1. wait \notin Requests
    BY <1>4, NoneAssumption
  <2>2. RoomsOf({task.owner}, "new") \subseteq Requests \/ task.owner = None
    BY <1>1, Known DEF TaskInv, RoomsOf, Records, Values
  <2>3. SetRoom(Target, "new") \in Requests /\ ReadSiblings \in Requests
    BY Known, ConstantsAssumption DEF Records, Values
  <2> QED BY <1>1, <1>3, <1>4, <2>1, <2>2, <2>3 DEF OrderInv, InTurn, TaskInv
<1>12. ReadInv
  <2>1. ReadMeetings \notin Ahead
    BY <1>3 DEF RoomsOf, SetRoom, Base, Text, Upload, Create, ReadSiblings, ReadMeetings, Set
  <2> QED BY <1>4, <2>1 DEF ReadInv, Init
<1> QED
  BY <1>1, <1>2, <1>4, <1>6, <1>7, <1>8, <1>9, <1>10, <1>11, <1>12
  DEF SagaInv, Untouched, UndoInv, Recovering, SiblingInv, SuccessInv

-----------------------------------------------------------------------------
(* Steps of the server.                                                    *)

\* What only the task decides stays.
LEMMA SameTask ==
  ASSUME task' = task
  PROVE  /\ (IsEvent' <=> IsEvent) /\ Planned' = Planned /\ Forward' = Forward /\ Undoes' = Undoes
         /\ Backward' = Backward /\ Others' = Others /\ (TaskInv' <=> TaskInv)
         /\ \A q : TakenBack(q)' = TakenBack(q)
BY DEF IsEvent, Planned, Forward, Undoes, Backward, Others, TaskInv, TakenBack

\* A request leaves undone what it does not do again, and an undoing undoes.
LEMMA AppliedUndone ==
  ASSUME TypeInv, TaskInv, NEW x \in Forward \union Backward, Apply(x), task' = task,
         NEW q \in Undoes, x = q \/ (IsUndone(q) /\ x # TakenBack(q))
  PROVE  IsUndone(q)'
<1>0. x \in Requests
  BY Undoings
<1>1. CASE q = Base("old")
  <2>1. x = q \/ (base = "old" /\ x # [q EXCEPT !.to = "new"] /\ ~task.new)
    BY <1>1 DEF IsUndone, TakenBack, Undoes, Base, Delete, Set
  <2>2. x.what = "base" => x = Base("old") \/ x = Base("new")
    BY <2>1 DEF Forward, Backward, Undoes, Base, Text, SetRoom, Upload, ReadSiblings, ReadMeetings, Create, Delete, Set
  <2>3. base' = "old"
    BY <1>1, <2>1, <2>2 DEF Apply, Base, Set, TypeInv
  <2> QED BY <1>1, <2>3 DEF IsUndone, Base, Set
<1>2. CASE q = Text("old")
  <2>1. x = q \/ (text = "old" /\ x # [q EXCEPT !.to = "new"] /\ ~task.new)
    BY <1>2 DEF IsUndone, TakenBack, Undoes, Text, Delete, Set
  <2>2. x.what = "text" => x = Text("old") \/ x = Text("new")
    BY <2>1 DEF Forward, Backward, Undoes, Base, Text, SetRoom, Upload, ReadSiblings, ReadMeetings, Create, Delete, Set
  <2>3. text' = "old"
    BY <1>2, <2>1, <2>2 DEF Apply, Text, Set, TypeInv
  <2> QED BY <1>2, <2>3 DEF IsUndone, Text, Set
<1>3. CASE ~task.new /\ \E r \in Planned : q = SetRoom(r, "old")
  <2>1. PICK r \in Planned : q = SetRoom(r, "old")
    BY <1>3
  <2>2. r \in Records /\ q.what = "room" /\ q.of = r /\ q.to = "old"
    BY <2>1, ConstantsAssumption DEF Planned, Records, SetRoom, Set
  <2>3. x # Create /\ x # Delete(x.of)
    BY <1>3 DEF Forward, Backward, Undoes, Base, Text, SetRoom, Upload, ReadSiblings, ReadMeetings, Create, Delete, Set
  <2>4. here' = here /\ room' = IF x.what = "room" /\ x.of \in here THEN [room EXCEPT ![x.of] = x.to] ELSE room
    BY <2>3 DEF Apply
  <2>5. x.what = "room" /\ x.of = r => x = SetRoom(r, "old") \/ x = SetRoom(r, "new")
    BY DEF Forward, Backward, Undoes, Base, Text, SetRoom, Upload, ReadSiblings, ReadMeetings, Create, Delete, Set
  <2>6. TakenBack(q) = SetRoom(r, "new")
    BY <1>3, <2>1 DEF TakenBack, SetRoom, Set
  <2>7. CASE x = q
    BY <2>2, <2>4, <2>7 DEF IsUndone, TypeInv
  <2>8. CASE x # q /\ IsUndone(q) /\ x # TakenBack(q)
    <3>1. ~(x.what = "room" /\ x.of = r)
      BY <2>1, <2>5, <2>6, <2>8
    <3>2. room'[r] = room[r]
      BY <2>2, <2>4, <3>1 DEF TypeInv
    <3> QED BY <2>2, <2>4, <2>8, <3>2 DEF IsUndone
  <2> QED BY <2>7, <2>8
<1>4. CASE task.new /\ q = Delete(Target)
  <2>1. q.what = "presence" /\ q.of = Target /\ TakenBack(q) = Create
    BY <1>4 DEF Delete, Create, Set, TakenBack
  <2>2. x = q => here' = here \ {Target}
    BY <1>4 DEF Apply, Delete, Create, Set
  <2>3. x # Create => here' \subseteq here
    BY DEF Apply
  <2> QED BY <2>1, <2>2, <2>3 DEF IsUndone
<1> QED BY <1>1, <1>2, <1>3, <1>4 DEF Undoes

LEMMA HandleKeeps == ASSUME SagaInv, Handle PROVE SagaInv'
<1> USE DEF SagaInv
<1>0. PICK x \in net :
        /\ net' = net \ {x}
        /\ \/ /\ Apply(x)
              /\ overtaken' = overtaken \union (net' \intersect {TakenBack(x)})
              /\ reply' = IF x = wait /\ reply = "none" THEN "ok" ELSE reply
           \/ /\ UNCHANGED <<documents, overtaken>>
              /\ reply' = IF x = wait /\ reply = "none" THEN "failed" ELSE reply
        /\ UNCHANGED <<task, wait, call, report>>
  BY DEF Handle
<1>1. /\ x \in Requests /\ x \in Forward \union Backward /\ ~IsRead(x) /\ x # None
      /\ x \in Forward => x \in attempted
      /\ phase = "forward" => x = wait /\ x \in Forward
      /\ outcome # "success" /\ (x = wait => reply # "ok")
      /\ Apply(x) \/ UNCHANGED documents
  <2>1. x \in Requests /\ x # None
    BY <1>0, NoneAssumption DEF TypeInv
  <2>2. wait = x => wait # None
    BY <2>1
  <2>3. outcome = "success" => wait = None
    BY DEF LineInv
  <2> QED BY <1>0, <2>1, <2>2, <2>3 DEF LineInv
<1>2. /\ task' = task /\ wait' = wait /\ phase' = phase /\ todo' = todo /\ attempted' = attempted /\ reading' = reading
      /\ unattributed' = unattributed /\ residuals' = residuals /\ outcome' = outcome /\ Ahead' = Ahead
      /\ (Recovering' <=> Recovering) /\ net' \subseteq net /\ x \notin net'
      /\ overtaken \subseteq overtaken' /\ overtaken' \subseteq overtaken \union (net' \intersect {TakenBack(x)})
  BY <1>0 DEF call, report, Ahead, Recovering
<1>3. /\ (IsEvent' <=> IsEvent) /\ Planned' = Planned /\ Forward' = Forward /\ Undoes' = Undoes
      /\ Backward' = Backward /\ Others' = Others /\ (TaskInv' <=> TaskInv)
      /\ \A q : TakenBack(q)' = TakenBack(q) /\ Named(q)' = Named(q)
  BY <1>2, SameTask DEF Named, ResidualOf
<1>4. /\ here' \subseteq Records /\ room' \in [Records -> {"old", "new", "none"}]
      /\ base' \in {"old", "new"} /\ text' \in {"old", "new"} /\ uploaded' \in BOOLEAN /\ strayed' = strayed
  <2>1. CASE UNCHANGED documents
    BY <2>1 DEF documents, TypeInv
  <2>2. CASE Apply(x)
    <3>1. x.what = "base" \/ x.what = "text" \/ x.what = "room" => x.to \in {"old", "new"}
      BY <1>1 DEF Forward, Backward, Undoes, SetRoom, Upload, ReadSiblings, ReadMeetings, Create, Base, Text, Delete, Set
    <3>2. x.of \in Records
      BY <1>1 DEF Requests
    <3> QED BY <2>2, <3>1, <3>2 DEF Apply, TypeInv
  <2> QED BY <1>1, <2>1, <2>2
<1>5. TypeInv'
  <2>1. reply' \in {"none", "ok", "failed"}
    BY <1>0 DEF TypeInv
  <2>2. net' \subseteq Requests /\ overtaken' \subseteq Requests
    BY <1>2 DEF TypeInv
  <2> QED BY <1>2, <1>3, <1>4, <2>1, <2>2 DEF TypeInv
<1>6. LineInv' /\ LateInv'
  <2>1. LineInv'
    <3>1. reply' = reply \/ (reply = "none" /\ x = wait /\ reply' \in {"ok", "failed"})
      BY <1>0
    <3>2. reply' = "ok" => wait \notin net'
      BY <1>2, <3>1 DEF LineInv
    <3> QED BY <1>1, <1>2, <1>3, <3>1, <3>2 DEF LineInv
  <2>2. TakenBack(x) \in net' => TakenBack(x) \in Forward
    <3>1. TakenBack(x).to \in {"present", "new"}
      BY <1>1 DEF TakenBack, Requests
    <3>2. \A q \in Backward : IsRead(q) \/ q.to \in {"old", "absent"}
      BY DEF Backward, Undoes, SetRoom, Base, Text, ReadSiblings, Delete, IsRead, Set
    <3> QED BY <1>2, <3>1, <3>2 DEF LineInv
  <2>3. phase = "forward" => net' = {}
    BY <1>1, <1>2 DEF LineInv
  <2>4. (net' \intersect Forward) \union overtaken' \subseteq (net \intersect Forward) \union overtaken
    BY <1>2, <2>2
  <2> QED BY <1>2, <1>3, <2>1, <2>3, <2>4 DEF LateInv
<1>7. \A q \in Undoes : /\ Calm(q) => Calm(q)'
                        /\ Overtaken(q) => Overtaken(q)'
                        /\ wait = q /\ reply # "ok" => reply' # "ok" \/ Calm(q)' \/ Overtaken(q)'
  <2> SUFFICES ASSUME NEW q \in Undoes
               PROVE  /\ Calm(q) => Calm(q)'
                      /\ Overtaken(q) => Overtaken(q)'
                      /\ wait = q /\ reply # "ok" => reply' # "ok" \/ Calm(q)' \/ Overtaken(q)'
    OBVIOUS
  <2>1. TakenBack(q) \notin net => TakenBack(q)' \notin net'
    BY <1>2, <1>3
  <2>2. Calm(q) => IsUndone(q)'
    <3>1. CASE Apply(x)
      BY <1>1, <1>2, <3>1, AppliedUndone DEF Calm
    <3>2. CASE UNCHANGED documents
      BY <3>2 DEF documents, Calm, IsUndone
    <3> QED BY <1>1, <3>1, <3>2
  <2>3. ASSUME wait = q, reply # "ok", reply' = "ok" PROVE Calm(q)' \/ Overtaken(q)'
    <3>1. x = q /\ Apply(x) /\ overtaken' = overtaken \union (net' \intersect {TakenBack(x)})
      BY <1>0, <2>3
    <3>2. IsUndone(q)'
      BY <1>1, <1>2, <3>1, AppliedUndone
    <3> QED BY <3>1, <3>2 DEF Calm, Overtaken
  <2> QED BY <1>2, <2>1, <2>2, <2>3 DEF Calm, Overtaken
<1>8. Untouched'
  BY <1>2, <1>3, <1>7 DEF Untouched
<1>9. UndoInv'
  BY <1>2, <1>3, <1>7 DEF UndoInv
<1>10. ASSUME task.new PROVE x # Base("new") /\ x # Text("new") /\ x.what # "base" /\ x.what # "text" /\ (x.what = "room" => x.to = "new")
  BY <1>1, <1>10 DEF Forward, Backward, Undoes, SetRoom, Upload, ReadSiblings, ReadMeetings, Create, Base, Text, Delete, Set
<1>11. ASSUME ~task.new PROVE here' = here /\ \A r \in Records : x # Create /\ x # Delete(r)
  <2>1. x.what # "presence"
    BY <1>1, <1>11 DEF Forward, Backward, Undoes, SetRoom, Upload, ReadSiblings, ReadMeetings, Create, Base, Text, Delete, Set
  <2> QED BY <1>1, <2>1 DEF Apply, documents, Create, Delete, Set
<1>12. RecordsInv'
  <2>1. task.new => base' = "old" /\ text' = "old" /\ \A r \in Records : room'[r] # "old"
    BY <1>1, <1>10 DEF Apply, documents, RecordsInv, TypeInv
  <2>2. ~task.new => Target \in here'
    BY <1>11 DEF RecordsInv
  <2>3. ~IsEvent => here' \subseteq {Target}
    BY <1>1 DEF Apply, documents, RecordsInv, Create, Set
  <2>4. uploaded' => Upload \in attempted
    <3>1. Upload \in Forward
      BY DEF Forward
    <3> QED BY <1>1, <3>1 DEF Apply, documents, RecordsInv
  <2>5. task.new /\ Create \notin attempted => here' = {}
    <3>1. task.new => Create \in Forward
      BY DEF Forward
    <3> QED BY <1>1, <3>1 DEF Apply, documents, RecordsInv
  <2> QED BY <1>2, <1>3, <2>1, <2>2, <2>3, <2>4, <2>5 DEF RecordsInv
<1>13. ASSUME phase = "forward"
       PROVE  x = wait /\ x \in Forward /\ reply # "ok" /\ \A r : x # Delete(r)
  BY <1>1, <1>13 DEF Forward, SetRoom, Upload, ReadSiblings, ReadMeetings, Create, Base, Text, Delete, Set
<1>14. ReadInv'
  <2>1. ASSUME phase = "forward" \/ ~task.new, reading.n > 0, ~strayed PROVE reading.seen = here'
    <3>1. CASE ~task.new
      BY <1>11, <2>1, <3>1 DEF ReadInv
    <3>2. CASE task.new /\ phase = "forward"
      <4>1. x # Create
        BY <1>13, <2>1, <3>2 DEF DoneInv, RecordsInv, TypeInv
      <4>2. here' = here
        BY <1>1, <1>13, <3>2, <4>1 DEF Apply, documents
      <4> QED BY <2>1, <3>2, <4>2 DEF ReadInv
    <3> QED BY <2>1, <3>1, <3>2
  <2> QED BY <1>2, <1>3, <1>4, <2>1 DEF ReadInv
<1>15. SiblingInv'
  BY <1>2, <1>3, <1>4, <1>11 DEF SiblingInv
<1>16. DoneInv'
  <2> SUFFICES ASSUME phase = "forward" PROVE DoneInv'
    BY <1>2 DEF DoneInv
  <2>0. x = wait /\ x \in Forward /\ (\A r : x # Delete(r)) /\ reply # "ok"
    BY <1>13
  <2>1. \A q : Yet(q) /\ q # x => Yet(q)'
    BY <1>2, <2>0 DEF Yet
  <2>2. Yet(x)' \/ Apply(x)
    BY <1>0, <1>2, <2>0 DEF Yet
  <2>3. /\ (base = "new" => base' = "new") /\ (text = "new" => text' = "new") /\ (uploaded => uploaded')
        /\ here \subseteq here' /\ here' \subseteq here \union {r \in {Target} : x = Create}
        /\ \A r \in Records : room[r] = "new" => room'[r] = "new"
    <3>1. /\ x.what \in {"base", "text", "room"} => x.to = "new"
          /\ x.what = "presence" => x = Create
      BY <2>0 DEF Forward, SetRoom, Upload, ReadSiblings, ReadMeetings, Create, Base, Text, Set
    <3>2. x = Create => x.of = Target
      BY DEF Create, Set
    <3> QED BY <1>1, <2>0, <3>1, <3>2 DEF Apply, documents, TypeInv
  <2>4. Apply(x) => /\ x = Create => Target \in here'
                    /\ x = Upload => uploaded'
                    /\ x = Base("new") => base' = "new"
                    /\ x = Text("new") => text' = "new"
                    /\ \A r \in Records : x = SetRoom(r, "new") /\ r \in here => room'[r] = "new"
    <3>1. Apply(x) /\ x = Create => Target \in here'
      BY DEF Apply, Create, Set
    <3>2. /\ Apply(x) /\ x = Upload => uploaded'
          /\ Apply(x) /\ x = Base("new") => base' = "new"
          /\ Apply(x) /\ x = Text("new") => text' = "new"
      <4>1. /\ Base("new").what = "base" /\ Base("new").to = "new"
            /\ Text("new").what = "text" /\ Text("new").to = "new"
        BY DEF Base, Text, Set
      <4> QED BY <4>1 DEF Apply
    <3>3. ASSUME Apply(x), NEW r \in Records, x = SetRoom(r, "new"), r \in here PROVE room'[r] = "new"
      <4>1. x.what = "room" /\ x.of = r /\ x.to = "new"
        BY <3>3 DEF SetRoom, Set
      <4>2. room' = [room EXCEPT ![r] = "new"]
        BY <3>3, <4>1 DEF Apply
      <4> QED BY <4>2 DEF TypeInv
    <3> QED BY <3>1, <3>2, <3>3
  <2>5. ASSUME task.new
        PROVE  /\ Yet(Create)' \/ Target \in here'
               /\ Yet(SetRoom(Target, "new"))' \/ room'[Target] = "new"
               /\ task.markup # "none" => Yet(Upload)' \/ uploaded'
    <3>1. Target \in Records
      BY ConstantsAssumption DEF Records
    <3>2. x = SetRoom(Target, "new") => Target \in here
      <4>1. ASSUME x = SetRoom(Target, "new") PROVE ~Yet(Create)
        <5>1. Create # SetRoom(Target, "new")
          BY DEF Create, SetRoom, Set
        <5> QED BY <2>0, <2>5, <4>1, <5>1 DEF OrderInv, InTurn, Yet
      <4> QED BY <2>5, <4>1 DEF DoneInv
    <3> QED BY <2>1, <2>2, <2>3, <2>4, <2>5, <3>1, <3>2 DEF DoneInv
  <2>6. ASSUME ~task.new
        PROVE  /\ \A r \in Planned : Yet(SetRoom(r, "new"))' \/ (r \in here' => room'[r] = "new")
               /\ task.fields => Yet(Base("new"))' \/ base' = "new"
               /\ task.markup # "none" => Yet(Text("new"))' \/ text' = "new"
    <3>1. Planned \subseteq Records
      BY ConstantsAssumption DEF Planned, Records
    <3>2. here' = here
      BY <1>11, <2>6
    <3>3. DoneInv
      OBVIOUS
    <3> QED BY <2>1, <2>2, <2>3, <2>4, <2>6, <3>1, <3>2, <3>3 DEF DoneInv
  <2>7. ASSUME IsEvent, ReadSiblings \notin Ahead, ~strayed, NEW r \in here'
        PROVE  \/ Yet(SetRoom(r, "new"))' \/ room'[r] = "new"
               \/ ReadMeetings \in Ahead /\ (~task.new => r \in unattributed)
    <3>1. x # Create
      BY <2>0, <2>7 DEF DoneInv
    <3>2. r \in here /\ r \in Records
      BY <2>3, <2>7, <3>1 DEF TypeInv
    <3>3. \/ Yet(SetRoom(r, "new")) \/ room[r] = "new"
          \/ ReadMeetings \in Ahead /\ (~task.new => r \in unattributed)
      BY <2>7, <3>2 DEF DoneInv
    <3> QED BY <2>1, <2>2, <2>3, <2>4, <3>2, <3>3
  <2>8. (IsEvent /\ ReadSiblings \notin Ahead) \/ reading.n > 0 => Create \notin Ahead /\ wait # Create
    BY DEF DoneInv
  <2> QED BY <1>2, <1>3, <1>4, <2>5, <2>6, <2>7, <2>8, SameTask DEF DoneInv, Yet, SetRoom, Set, Create, Upload, Base, Text, ReadSiblings, ReadMeetings
<1>17. OrderInv'
  BY <1>2, <1>3 DEF OrderInv, InTurn
<1>18. OwnerInv'
  <2> SUFFICES ASSUME task.owner # None, NEW q \in RoomsOf({task.owner}, "old")
               PROVE  Named(q) \/ Calm(q)' \/ Overtaken(q)' \/ OthersMoved'
    BY <1>2, <1>3 DEF OwnerInv, RoomsOf, SetRoom, Set
  <2>1. ~task.new /\ q \in Undoes
    BY DEF TaskInv, Undoes, Planned, RoomsOf
  <2>2. ASSUME OthersMoved PROVE OthersMoved'
    <3>1. \A r \in Others : x # SetRoom(r, "old") /\ r \in Records
      BY <1>1, <2>2 DEF OthersMoved, RoomsOf, Others, Records
    <3>2. x.what = "room" /\ x.of \in Others => x.to = "new"
      <4>1. x.what = "room" => x = SetRoom(x.of, "new") \/ x = SetRoom(x.of, "old")
        BY <1>1 DEF Forward, Backward, Undoes, SetRoom, Upload, ReadSiblings, ReadMeetings, Create, Base, Text, Delete, Set
      <4> QED BY <3>1, <4>1 DEF SetRoom, Set
    <3>3. here' = here /\ \A r \in Records : x # Delete(r)
      BY <1>11, <2>1
    <3>4. \A r \in Others : room[r] = "new" => room'[r] = "new"
      BY <1>1, <3>1, <3>2, <3>3 DEF Apply, documents, TypeInv, Requests
    <3>5. \A r \in Others \intersect here : room'[r] = "new"
      BY <2>2, <3>4 DEF OthersMoved
    <3>6. net' \intersect {SetRoom(r, "old") : r \in Others} = {}
      BY <1>2, <2>2 DEF OthersMoved, RoomsOf
    <3>7. (\A r \in Others \intersect here : room[r] = "new")'
      BY <1>3, <3>3, <3>5
    <3>8. (net \intersect RoomsOf(Others, "old") = {})'
      BY <1>3, <3>6 DEF RoomsOf, SetRoom, Set
    <3> QED BY <3>7, <3>8 DEF OthersMoved
  <2>3. Named(q) \/ Calm(q) \/ Overtaken(q) \/ OthersMoved
    BY DEF OwnerInv
  <2> QED BY <1>7, <2>1, <2>2, <2>3
<1>19. SuccessInv'
  BY <1>1, <1>2 DEF SuccessInv, LineInv
<1> QED BY <1>3, <1>5, <1>6, <1>8, <1>9, <1>12, <1>14, <1>15, <1>16, <1>17, <1>18, <1>19

\* Siblings come and go.
LEMMA StrayKeeps == ASSUME SagaInv, NEW s \in Records, Appear(s) \/ Vanish(s) PROVE SagaInv'
<1>0. TypeInv /\ TaskInv /\ LineInv /\ LateInv /\ RecordsInv /\ Untouched /\ UndoInv /\ ReadInv /\ SiblingInv /\ DoneInv /\ OrderInv
      /\ OwnerInv /\ SuccessInv
  BY DEF SagaInv
<1>1. /\ UNCHANGED <<task, base, text, uploaded, net, overtaken, wait, reply, phase, todo, attempted, reading, unattributed, residuals, outcome>>
      /\ strayed' = TRUE /\ IsEvent /\ phase # "over"
  BY DEF Appear, Vanish, requests, call, report
<1>2. /\ here' \subseteq Records /\ room' \in [Records -> {"old", "new", "none"}]
      /\ Target \in here' <=> Target \in here
      /\ \A r \in Originals : r \in here' => r \in here /\ room'[r] = room[r]
      /\ task.new => \A r \in Records : room'[r] # "old"
      /\ here = {} => here' = {}
      /\ \A r \in Records \ {s} : room'[r] = room[r]
      /\ room'[Target] = room[Target]
  <2>1. CASE Appear(s)
    <3>1. Target \in Records /\ s \notin Originals /\ s # Target /\ s \in Records
      BY <2>1, ConstantsAssumption DEF Appear, Records
    <3>2. PICK to \in {"none", room[Target]} : room' = [room EXCEPT ![s] = to]
      BY <2>1 DEF Appear
    <3>3. here' = here \union {s} /\ Target \in here
      BY <2>1 DEF Appear
    <3> QED BY <1>0, <3>1, <3>2, <3>3, ConstantsAssumption DEF TypeInv, RecordsInv, Records
  <2>2. CASE Vanish(s)
    <3>1. here' = here \ {s} /\ room' = [room EXCEPT ![s] = "none"] /\ s # Target
      BY <2>2 DEF Vanish
    <3> QED BY <1>0, <3>1, ConstantsAssumption DEF TypeInv, RecordsInv, Records
  <2> QED BY <2>1, <2>2
<1>3. /\ (IsEvent' <=> IsEvent) /\ Planned' = Planned /\ Forward' = Forward /\ Undoes' = Undoes
      /\ Backward' = Backward /\ Others' = Others /\ (TaskInv' <=> TaskInv)
      /\ \A q : TakenBack(q)' = TakenBack(q)
  BY <1>1, SameTask
<1>4. Ahead' = Ahead /\ (Recovering' <=> Recovering) /\ (\A q : Named(q)' = Named(q)) /\ (\A q : Yet(q)' <=> Yet(q))
      /\ \A q : Overtaken(q)' <=> Overtaken(q)
  BY <1>1 DEF Overtaken, Ahead, Recovering, Named, ResidualOf, Yet
<1>5. TypeInv' /\ LineInv' /\ LateInv' /\ RecordsInv' /\ ReadInv' /\ SiblingInv' /\ SuccessInv'
  <2>1. TypeInv'
    BY <1>0, <1>1, <1>2, <1>3 DEF TypeInv
  <2>2. LineInv' /\ LateInv'
    BY <1>0, <1>1, <1>3, <1>4 DEF LineInv, LateInv
  <2>3. RecordsInv'
    BY <1>0, <1>1, <1>2, <1>3 DEF RecordsInv
  <2>4. ReadInv' /\ SiblingInv'
    BY <1>0, <1>1, <1>3, <1>4 DEF ReadInv, SiblingInv
  <2>5. SuccessInv'
    BY <1>0, <1>1 DEF LineInv, SuccessInv
  <2> QED BY <2>1, <2>2, <2>3, <2>4, <2>5
<1>6. ASSUME NEW q \in Undoes, Calm(q) PROVE Calm(q)'
  <2>1. IsUndone(q)'
    <3>1. CASE q = Base("old") \/ q = Text("old")
      <4>1. q.what = "base" \/ q.what = "text"
        BY <3>1 DEF Base, Text, Set
      <4> QED BY <1>1, <1>6, <4>1 DEF Calm, IsUndone
    <3>2. CASE \E r \in Planned : q = SetRoom(r, "old")
      <4>1. q.what = "room" /\ q.of \in Originals
        BY <3>2, ConstantsAssumption DEF SetRoom, Set, Planned
      <4> QED BY <1>2, <1>6, <4>1 DEF Calm, IsUndone
    <3>3. CASE q = Delete(Target)
      <4>1. q.what = "presence" /\ q.of = Target
        BY <3>3 DEF Delete, Set
      <4> QED BY <1>2, <1>6, <4>1 DEF Calm, IsUndone
    <3> QED BY <3>1, <3>2, <3>3 DEF Undoes
  <2> QED BY <1>1, <1>3, <1>6, <2>1 DEF Calm
<1>7. Untouched' /\ UndoInv'
  BY <1>0, <1>1, <1>3, <1>4, <1>6 DEF Untouched, UndoInv
<1>8. DoneInv'
  <2>1. Planned \subseteq Originals
    BY ConstantsAssumption DEF Planned
  <2>2. SetRoom(Target, "new")' = SetRoom(Target, "new") /\ \A r : SetRoom(r, "new")' = SetRoom(r, "new")
    OBVIOUS
  <2> QED BY <1>0, <1>1, <1>2, <1>3, <1>4, <2>1 DEF DoneInv
<1>9. OrderInv'
  BY <1>0, <1>1, <1>3, <1>4 DEF OrderInv, InTurn
<1>10. OwnerInv'
  <2> SUFFICES ASSUME task.owner # None, NEW q \in RoomsOf({task.owner}, "old") PROVE Named(q)' \/ Calm(q)' \/ Overtaken(q)' \/ OthersMoved'
    BY <1>1 DEF OwnerInv, RoomsOf
  <2>1. q \in Undoes
    BY <1>0 DEF TaskInv, Undoes, Planned, RoomsOf
  <2>2. ASSUME OthersMoved PROVE OthersMoved'
    <3>1. (\A r \in Others \intersect here : room[r] = "new")'
      BY <1>2, <1>3, <2>2 DEF OthersMoved, Others
    <3>2. (net \intersect RoomsOf(Others, "old") = {})'
      BY <1>1, <1>3, <2>2 DEF OthersMoved, RoomsOf
    <3> QED BY <3>1, <3>2 DEF OthersMoved
  <2> QED BY <1>0, <1>4, <1>6, <2>1, <2>2 DEF OwnerInv
<1> QED BY <1>0, <1>3, <1>5, <1>7, <1>8, <1>9, <1>10 DEF SagaInv

-----------------------------------------------------------------------------
(* Steps of the call, which leave the records alone.                       *)

\* What stays when a call does anything.
LEMMA RecordsStay ==
  ASSUME SagaInv, UNCHANGED <<task, here, room, base, text, uploaded>>, attempted \subseteq attempted'
  PROVE  /\ RecordsInv' /\ TaskInv'
         /\ \A q : IsUndone(q)' <=> IsUndone(q)
         /\ (IsEvent' <=> IsEvent) /\ Planned' = Planned /\ Forward' = Forward /\ Undoes' = Undoes
         /\ Backward' = Backward /\ Others' = Others /\ \A q : TakenBack(q)' = TakenBack(q)
<1>1. /\ (IsEvent' <=> IsEvent) /\ Planned' = Planned /\ Forward' = Forward /\ Undoes' = Undoes
      /\ Backward' = Backward /\ Others' = Others /\ TaskInv' /\ \A q : TakenBack(q)' = TakenBack(q)
  BY SameTask DEF SagaInv
<1>2. RecordsInv'
  BY <1>1 DEF SagaInv, RecordsInv
<1> QED BY <1>1, <1>2 DEF IsUndone

\* An owner is safe while nothing more to its siblings is on its way.
LEMMA OwnerStays ==
  ASSUME SagaInv, UNCHANGED <<task, here, room, base, text, uploaded, overtaken>>, attempted \subseteq attempted', OwnerInv,
         net' \intersect (Forward \union RoomsOf(Others, "old")) \subseteq net,
         \A q \in Undoes : Named(q) => Named(q)' \/ Calm(q)
  PROVE  OwnerInv'
<1> SUFFICES ASSUME task.owner # None, NEW q \in RoomsOf({task.owner}, "old") PROVE Named(q)' \/ Calm(q)' \/ Overtaken(q)' \/ OthersMoved'
  BY DEF OwnerInv, RoomsOf
<1>0. TaskInv
  BY DEF SagaInv
<1>1. q \in Undoes
  BY <1>0 DEF TaskInv, Undoes, Planned, RoomsOf
<1>2. Calm(q) => Calm(q)'
  <2>1. TakenBack(q) \in Forward
    BY <1>0, <1>1, Undoings
  <2> QED BY <2>1, RecordsStay DEF Calm
<1>3. ASSUME OthersMoved PROVE OthersMoved'
  <2>1. Others' = Others
    BY RecordsStay
  <2>2. (\A r \in Others \intersect here : room[r] = "new")'
    BY <1>3, <2>1 DEF OthersMoved
  <2>3. (net \intersect RoomsOf(Others, "old") = {})'
    BY <1>3, <2>1 DEF OthersMoved, RoomsOf
  <2> QED BY <2>2, <2>3 DEF OthersMoved
<1> QED BY <1>1, <1>2, <1>3 DEF OwnerInv, Overtaken

LEMMA RecoverKeeps == ASSUME SagaInv, phase = "forward", Recover PROVE SagaInv'
<1>0. TypeInv /\ TaskInv /\ LineInv /\ LateInv /\ RecordsInv /\ Untouched /\ ReadInv /\ OwnerInv
  BY DEF SagaInv
<1>1. /\ UNCHANGED <<task, here, room, base, text, uploaded, strayed, net, overtaken, attempted, unattributed, outcome>>
      /\ phase' = "recovery" /\ reading' = Nothing /\ wait' = None /\ reply' = "none"
      /\ todo' = IF task.new THEN RemoveSteps ELSE RestoreSteps
      /\ residuals' = {Orphan : q \in {Upload} \intersect attempted}
      /\ outcome = "none" /\ residuals = {}
  BY <1>0 DEF Recover, Goto, documents, LineInv
<1>2. /\ RecordsInv' /\ TaskInv'
      /\ \A q : IsUndone(q)' <=> IsUndone(q)
      /\ (IsEvent' <=> IsEvent) /\ Planned' = Planned /\ Forward' = Forward /\ Undoes' = Undoes
      /\ Backward' = Backward /\ Others' = Others /\ \A q : TakenBack(q)' = TakenBack(q)
  BY <1>1, RecordsStay
<1>3. \A q : Calm(q)' <=> Calm(q)
  BY <1>1, <1>2 DEF Calm
<1>4. /\ todo' \in Seq(Requests)
      /\ task.new => Ahead' = IF Create \in attempted THEN {IF IsEvent THEN ReadSiblings ELSE Delete(Target)} ELSE {}
      /\ ~task.new => /\ Ahead' = (IF Text("new") \in attempted THEN {Text("old")} ELSE {})
                                 \union (IF Base("new") \in attempted THEN {Base("old")} ELSE {})
                                 \union (IF IsEvent THEN {ReadSiblings} ELSE {})
                                 \union RoomsOf(AttemptedRooms, "old")
                      /\ task.owner # None => Precedes(todo', RoomsOf({task.owner}, "old"), RoomsOf(Others, "old"))
  BY <1>0, <1>1, RestoreStart, RemoveStart DEF Steps, Ahead
<1>5. TypeInv'
  BY <1>0, <1>1, <1>2, <1>4 DEF TypeInv, Nothing
<1>6. Ahead' \subseteq Backward
  <2>1. CASE task.new
    BY <1>4, <2>1 DEF Backward, Undoes
  <2>2. CASE ~task.new
    BY <1>4, <2>2 DEF Backward, Undoes, RoomsOf, AttemptedRooms
  <2> QED BY <2>1, <2>2
<1>7. LineInv'
  <2>1. None \notin net
    BY <1>0, NoneAssumption DEF TypeInv
  <2>2. outcome # "success"
    BY <1>1
  <2> QED BY <1>0, <1>1, <1>2, <1>6, <2>1, <2>2 DEF LineInv
<1>8. Untouched' /\ LateInv'
  BY <1>0, <1>1, <1>2, <1>3 DEF Untouched, LateInv
<1>9. UndoInv'
  <2>1. ASSUME NEW q \in Undoes PROVE Calm(q) \/ q \in Ahead' \/ (task.new /\ ReadSiblings \in Ahead')
    <3>1. TakenBack(q) \notin attempted => Calm(q)
      BY <1>0 DEF Untouched
    <3>2. CASE task.new
      <4>1. TakenBack(q) = Create /\ q = Delete(Target)
        BY <3>2 DEF TakenBack, Undoes, Delete, Create, Set
      <4> QED BY <1>4, <3>1, <3>2, <4>1
    <3>3. CASE ~task.new /\ (q = Base("old") \/ q = Text("old"))
      <4>1. TakenBack(q) = IF q = Base("old") THEN Base("new") ELSE Text("new")
        BY <3>3 DEF TakenBack, Base, Text, Set
      <4> QED BY <1>4, <3>1, <3>3, <4>1
    <3>4. CASE ~task.new /\ \E r \in Planned : q = SetRoom(r, "old")
      <4>1. PICK r \in Planned : q = SetRoom(r, "old")
        BY <3>4
      <4>2. TakenBack(q) = SetRoom(r, "new")
        BY <3>4, <4>1 DEF TakenBack, SetRoom, Set
      <4> QED BY <1>4, <3>1, <3>4, <4>1, <4>2 DEF RoomsOf, AttemptedRooms
    <3> QED BY <3>2, <3>3, <3>4 DEF Undoes
  <2>2. Upload \in attempted => Orphan \in residuals'
    BY <1>1
  <2> QED BY <1>1, <1>2, <1>3, <2>1, <2>2 DEF UndoInv
<1>10. ReadInv' /\ DoneInv' /\ SuccessInv'
  BY <1>0, <1>1 DEF ReadInv, DoneInv, SuccessInv, Nothing
<1>11. SiblingInv'
  BY <1>1, <1>2, <1>4 DEF SiblingInv
<1>12. OrderInv'
  <2>1. RoomsOf(Others, "old") \subseteq Requests
    BY Known, ConstantsAssumption DEF RoomsOf, Others, Records, Values
  <2>2. wait' \notin RoomsOf(Others, "old")
    BY <1>1, <2>1, NoneAssumption
  <2>3. task.owner # None => ~task.new
    BY <1>0 DEF TaskInv
  <2>4. RoomsOf(Others, "old")' = RoomsOf(Others, "old") /\ RoomsOf({task.owner}, "old")' = RoomsOf({task.owner}, "old")
    BY <1>1, <1>2 DEF RoomsOf
  <2> QED BY <1>1, <1>4, <2>2, <2>3, <2>4 DEF OrderInv, InTurn
<1>13. OwnerInv'
  BY <1>0, <1>1, <1>3, OwnerStays DEF Named
<1> QED BY <1>2, <1>5, <1>7, <1>8, <1>9, <1>10, <1>11, <1>12, <1>13 DEF SagaInv

LEMMA SendKeeps == ASSUME SagaInv, Send PROVE SagaInv'
<1>0. TypeInv /\ TaskInv /\ LineInv /\ LateInv /\ RecordsInv /\ Untouched /\ UndoInv /\ ReadInv /\ SiblingInv /\ DoneInv /\ OrderInv
      /\ OwnerInv /\ SuccessInv
  BY DEF SagaInv
<1> DEFINE x == Head(todo)
<1>1. /\ UNCHANGED <<task, here, room, base, text, uploaded, strayed, overtaken, phase, reading, unattributed, residuals, outcome>>
      /\ phase # "over" /\ wait = None /\ todo # <<>> /\ ~IsRead(x)
      /\ wait' = x /\ net' = net \union {x} /\ reply' = "none" /\ todo' = Tail(todo)
      /\ attempted' = IF phase = "forward" THEN attempted \union {x} ELSE attempted
  BY DEF Send, documents, report
<1>2. /\ x \in Requests /\ todo' \in Seq(Requests) /\ Ahead = {x} \union Ahead'
  BY <1>0, <1>1, HeadAndTail DEF TypeInv, Ahead
<1>3. /\ RecordsInv' /\ TaskInv'
      /\ \A q : IsUndone(q)' <=> IsUndone(q)
      /\ (IsEvent' <=> IsEvent) /\ Planned' = Planned /\ Forward' = Forward /\ Undoes' = Undoes
      /\ Backward' = Backward /\ Others' = Others /\ \A q : TakenBack(q)' = TakenBack(q)
  BY <1>1, RecordsStay
<1>4. /\ phase = "forward" => x \in Forward /\ net = {}
      /\ phase # "forward" => phase = "recovery" /\ x \in Backward /\ x \notin Forward
      /\ reply = "none" /\ x # None
  <2>1. phase = "forward" => x \in Forward
    BY <1>0, <1>2 DEF LineInv
  <2>2. phase # "forward" => phase = "recovery" /\ x \in Backward /\ x \notin Forward
    BY <1>0, <1>1, <1>2, Undoings DEF LineInv, TypeInv
  <2>3. phase = "forward" => net = {}
    BY <1>0, <1>1, NoneAssumption DEF LineInv, TypeInv
  <2>4. reply = "none" /\ x # None
    BY <1>0, <1>1, <1>2, NoneAssumption DEF LineInv
  <2> QED BY <2>1, <2>2, <2>3, <2>4
<1> HIDE DEF x
<1>5. TypeInv'
  BY <1>0, <1>1, <1>2, <1>3 DEF TypeInv
<1>6. LineInv' /\ LateInv'
  <2>1. outcome # "success"
    BY <1>0, <1>1 DEF LineInv
  <2>2. net' \intersect Forward \subseteq attempted' /\ attempted' \subseteq Forward
    BY <1>0, <1>1, <1>2, <1>4 DEF LineInv
  <2>3. net' \subseteq Forward \union Backward /\ \A q \in net' : ~IsRead(q)
    BY <1>0, <1>1, <1>4 DEF LineInv
  <2>4. Ahead' \subseteq Ahead
    BY <1>2
  <2>5. LineInv'
    <3>1. phase = "forward" => net' \subseteq {wait'}
      BY <1>1, <1>4
    <3>2. /\ phase = "forward" => Ahead' \subseteq Forward /\ wait' \in Forward
          /\ phase = "recovery" => Ahead' \subseteq Backward /\ wait' \in Backward
      BY <1>0, <1>1, <1>4, <2>4 DEF LineInv
    <3>3. /\ (phase = "over" <=> outcome # "none") /\ (phase = "forward" => residuals = {})
          /\ phase = "forward" => wait' \in attempted'
      BY <1>0, <1>1 DEF LineInv
    <3> QED BY <1>1, <1>3, <2>1, <2>2, <2>3, <3>1, <3>2, <3>3 DEF LineInv
  <2>6. \A p, q \in (net' \intersect Forward) \union overtaken : p = q
    <3>1. CASE phase = "forward"
      <4>1. net' = {x} /\ overtaken = {}
        BY <1>0, <1>1, <1>4, <3>1 DEF LateInv
      <4> QED BY <4>1
    <3>2. CASE phase # "forward"
      <4>1. net' \intersect Forward = net \intersect Forward
        BY <1>1, <1>4, <3>2
      <4> QED BY <1>0, <4>1 DEF LateInv
    <3> QED BY <3>1, <3>2
  <2>7. LateInv'
    BY <1>0, <1>1, <1>3, <2>6 DEF LateInv
  <2> QED BY <2>5, <2>7
<1>7. \A q \in Undoes : Calm(q) /\ TakenBack(q) # x => Calm(q)'
  BY <1>1, <1>3 DEF Calm
<1>8. Untouched'
  <2>1. ASSUME NEW q \in Undoes, TakenBack(q) \notin attempted' PROVE Calm(q)'
    <3>1. TakenBack(q) # x
      BY <1>0, <1>1, <1>4, <2>1, Undoings
    <3>2. TakenBack(q) \notin attempted
      BY <1>1, <2>1
    <3> QED BY <1>0, <1>7, <3>1, <3>2 DEF Untouched
  <2> QED BY <1>3, <2>1 DEF Untouched
<1>9. UndoInv'
  <2> SUFFICES ASSUME Recovering' PROVE UndoInv'
    BY DEF UndoInv
  <2>1. Recovering /\ phase = "recovery"
    BY <1>0, <1>1 DEF Recovering, LineInv
  <2>2. ASSUME NEW q \in Undoes PROVE TakenBack(q) # x
    BY <1>0, <1>4, <2>1, Undoings
  <2>3. \A q : Named(q)' <=> Named(q)
    BY <1>1 DEF Named, ResidualOf
  <2>4. ReadSiblings # x
    BY <1>0, <1>1, Undoings
  <2>5. ASSUME NEW q \in Undoes
        PROVE  \/ Named(q)' \/ Calm(q)' \/ Overtaken(q)' \/ q \in Ahead' \/ (wait' = q /\ reply' # "ok")
               \/ task.new /\ ReadSiblings \in Ahead'
    <3>1. \/ Named(q) \/ Calm(q) \/ Overtaken(q) \/ q \in Ahead \/ (wait = q /\ reply # "ok")
          \/ task.new /\ ReadSiblings \in Ahead
      BY <1>0, <2>1 DEF UndoInv
    <3>2. q # None
      BY <1>0, Undoings, NoneAssumption
    <3>3. Overtaken(q)' <=> Overtaken(q)
      BY <1>1 DEF Overtaken
    <3> QED BY <1>1, <1>2, <1>7, <2>2, <2>3, <2>4, <3>1, <3>2, <3>3
  <2> QED BY <1>0, <1>1, <1>3, <2>1, <2>5 DEF UndoInv
<1>10. ReadInv' /\ SuccessInv'
  BY <1>0, <1>1, <1>2 DEF ReadInv, SuccessInv, LineInv
<1>11. SiblingInv'
  <2>1. ReadSiblings # x
    BY <1>0, <1>1, Undoings
  <2>2. Recovering' => Recovering
    BY <1>1 DEF Recovering
  <2>3. task.new => Create \in Forward
    BY DEF Forward
  <2>4. Recovering => phase = "recovery"
    BY <1>0, <1>1 DEF Recovering, LineInv
  <2> QED BY <1>0, <1>1, <1>2, <1>3, <2>1, <2>2, <2>4 DEF SiblingInv
<1>12. DoneInv'
  <2>1. \A q \in Requests : Yet(q) => Yet(q)'
    <3>1. \A q \in Requests : Yet(q) => q \in Ahead
      BY <1>1, NoneAssumption DEF Yet
    <3> QED BY <1>1, <1>2, <3>1 DEF Yet
  <2>2. ReadSiblings # x /\ ReadMeetings # x
    BY <1>0, <1>1, Undoings
  <2>3. Target \in Records /\ Planned \subseteq Records /\ here \subseteq Records
    BY <1>0, ConstantsAssumption DEF TypeInv, Planned, Records
  <2>4. /\ Create \in Requests /\ Upload \in Requests /\ Base("new") \in Requests /\ Text("new") \in Requests
        /\ \A r \in Records : SetRoom(r, "new") \in Requests
    BY Known DEF Values
  <2>5. phase = "forward" /\ ((IsEvent /\ ReadSiblings \notin Ahead) \/ reading.n > 0) => x # Create
    BY <1>0, <1>2 DEF DoneInv
  <2>6. (ReadSiblings \in Ahead' <=> ReadSiblings \in Ahead) /\ (ReadMeetings \in Ahead' <=> ReadMeetings \in Ahead)
    BY <1>2, <2>2
  <2>7. CASE phase # "forward"
    BY <1>1, <2>7 DEF DoneInv
  <2>8. CASE phase = "forward"
    <3>1. /\ task.new => /\ Yet(Create)' \/ Target \in here
                         /\ Yet(SetRoom(Target, "new"))' \/ room[Target] = "new"
                         /\ task.markup # "none" => Yet(Upload)' \/ uploaded
          /\ ~task.new => /\ \A r \in Planned : Yet(SetRoom(r, "new"))' \/ (r \in here => room[r] = "new")
                          /\ task.fields => Yet(Base("new"))' \/ base = "new"
                          /\ task.markup # "none" => Yet(Text("new"))' \/ text = "new"
      BY <1>0, <2>1, <2>3, <2>4, <2>8 DEF DoneInv
    <3>2. IsEvent /\ ReadSiblings \notin Ahead /\ ~strayed =>
            \A r \in here : \/ Yet(SetRoom(r, "new"))' \/ room[r] = "new"
                            \/ ReadMeetings \in Ahead' /\ (~task.new => r \in unattributed)
      BY <1>0, <2>1, <2>3, <2>4, <2>6, <2>8 DEF DoneInv
    <3>3. (IsEvent /\ ReadSiblings \notin Ahead) \/ reading.n > 0 => Create \notin Ahead' /\ wait' # Create
      BY <1>0, <1>1, <1>2, <2>5, <2>8 DEF DoneInv
    <3>4. (~strayed)' <=> ~strayed
      BY <1>1
    <3>5. (IsEvent /\ ReadSiblings \notin Ahead /\ ~strayed)' => IsEvent /\ ReadSiblings \notin Ahead /\ ~strayed
      BY <1>3, <2>6, <3>4
    <3>6. (IsEvent /\ ReadSiblings \notin Ahead)' \/ reading'.n > 0 => (IsEvent /\ ReadSiblings \notin Ahead) \/ reading.n > 0
      BY <1>1, <1>3, <2>6
    <3>7. UNCHANGED <<task, here, room, base, text, uploaded, unattributed>> /\ Planned' = Planned
      BY <1>1, <1>3
    <3> QED BY <3>1, <3>2, <3>3, <3>5, <3>6, <3>7 DEF DoneInv
  <2> QED BY <2>7, <2>8
<1>13. OrderInv'
  <2>1. ASSUME NEW X, NEW Y, InTurn(X, Y)
        PROVE  Precedes(todo', X, Y) /\ (wait' \in Y => Ahead' \intersect X = {})
    <3>1. Precedes(Tail(todo), X, Y) /\ (x \in Y => Ahead \intersect X = {})
      BY <1>0, <1>1, <2>1, InOrderTail DEF TypeInv, InTurn, Ahead, x
    <3> QED BY <1>1, <1>2, <3>1
  <2>2. RoomsOf(Others, "old")' = RoomsOf(Others, "old") /\ RoomsOf({task.owner}, "old")' = RoomsOf({task.owner}, "old")
        /\ RoomsOf(Others, "new")' = RoomsOf(Others, "new") /\ RoomsOf({task.owner}, "new")' = RoomsOf({task.owner}, "new")
    BY <1>1, <1>3 DEF RoomsOf
  <2> QED BY <1>0, <1>1, <2>1, <2>2 DEF OrderInv, InTurn
<1>14. OwnerInv'
  <2> SUFFICES ASSUME task.owner # None, NEW q \in RoomsOf({task.owner}, "old") PROVE Named(q)' \/ Calm(q)' \/ Overtaken(q)' \/ OthersMoved'
    BY <1>1 DEF OwnerInv, RoomsOf
  <2>0. ~task.new /\ IsEvent /\ q \in Undoes /\ q = SetRoom(task.owner, "old") /\ TakenBack(q) = SetRoom(task.owner, "new")
        /\ task.owner \in Originals /\ Planned = Originals
    BY <1>0 DEF TaskInv, Undoes, Planned, RoomsOf, TakenBack, SetRoom, Set
  <2>1. (Named(q)' <=> Named(q)) /\ (Overtaken(q)' <=> Overtaken(q))
    BY <1>1 DEF Named, ResidualOf, Overtaken
  <2>2. OthersMoved /\ x \notin RoomsOf(Others, "old") => OthersMoved'
    <3>1. (\A r \in Others \intersect here : room[r] = "new")' <=> (\A r \in Others \intersect here : room[r] = "new")
      BY <1>1, <1>3
    <3>2. net \intersect RoomsOf(Others, "old") = {} /\ x \notin RoomsOf(Others, "old") =>
            (net \intersect RoomsOf(Others, "old") = {})'
      BY <1>1, <1>3 DEF RoomsOf
    <3> QED BY <3>1, <3>2 DEF OthersMoved
  <2>3. CASE x = TakenBack(q)
    <3>1. phase = "forward"
      BY <1>0, <1>4, <2>0, <2>3, Undoings
    <3>2. x \in RoomsOf({task.owner}, "new")
      BY <2>0, <2>3 DEF RoomsOf
    <3>3. Ahead \intersect RoomsOf(Others, "new") = {}
      BY <1>0, <1>1, <3>1, <3>2, InOrderTail DEF OrderInv, InTurn, TypeInv, Ahead, x
    <3>4. \A r \in Others \intersect here : room[r] = "new"
      <4> SUFFICES ASSUME NEW r \in Others \intersect here PROVE room[r] = "new"
        OBVIOUS
      <4>1. r \in Originals /\ r \in Records
        BY DEF Others, Records
      <4>2. SetRoom(r, "new") \in RoomsOf(Others, "new") /\ SetRoom(r, "new") \in Requests
        BY <4>1, Known DEF RoomsOf, Values
      <4>3. ~Yet(SetRoom(r, "new"))
        BY <1>1, <3>3, <4>2, NoneAssumption DEF Yet
      <4> QED BY <1>0, <2>0, <3>1, <4>1, <4>3 DEF DoneInv
    <3>5. net = {} /\ x \notin RoomsOf(Others, "old")
      <4>1. net = {}
        BY <1>4, <3>1
      <4>2. x.to = "new" /\ \A y \in RoomsOf(Others, "old") : y.to = "old"
        BY <2>0, <2>3 DEF RoomsOf, SetRoom, Set
      <4> QED BY <4>1, <4>2
    <3> QED BY <2>2, <3>4, <3>5 DEF OthersMoved
  <2>4. CASE x \in RoomsOf(Others, "old")
    <3>1. x \notin Forward /\ phase = "recovery"
      <4>1. x \notin Forward
        BY <2>4 DEF RoomsOf, Forward, SetRoom, Upload, ReadSiblings, ReadMeetings, Create, Base, Text, Set
      <4> QED BY <1>4, <4>1
    <3>2. q \notin Ahead
      BY <1>0, <1>1, <2>4, <3>1, InOrderTail DEF OrderInv, InTurn, TypeInv, Ahead, x
    <3>3. q # None
      BY <1>0, <2>0, Undoings, NoneAssumption
    <3>4. Named(q) \/ Calm(q) \/ Overtaken(q)
      BY <1>0, <1>1, <2>0, <3>1, <3>2, <3>3 DEF UndoInv, Recovering
    <3>5. TakenBack(q) # x
      BY <1>0, <2>0, <3>1, Undoings
    <3> QED BY <1>7, <2>0, <2>1, <3>4, <3>5
  <2>5. CASE x # TakenBack(q) /\ x \notin RoomsOf(Others, "old")
    BY <1>0, <1>7, <2>0, <2>1, <2>2, <2>5 DEF OwnerInv
  <2> QED BY <2>3, <2>4, <2>5
<1> QED BY <1>3, <1>5, <1>6, <1>8, <1>9, <1>10, <1>11, <1>12, <1>13, <1>14 DEF SagaInv

\* An answer has come, good or, in the recovery, bad.
LEMMA AnswerKeeps == ASSUME SagaInv, Acknowledged \/ RestoreFails PROVE SagaInv'
<1>0. TypeInv /\ TaskInv /\ LineInv /\ LateInv /\ RecordsInv /\ Untouched /\ UndoInv /\ ReadInv /\ SiblingInv /\ DoneInv /\ OrderInv
      /\ OwnerInv /\ SuccessInv
  BY DEF SagaInv
<1>1. /\ UNCHANGED <<task, here, room, base, text, uploaded, strayed, net, overtaken, phase, todo, attempted, reading, unattributed, outcome>>
      /\ wait # None /\ wait' = None /\ reply' = "none"
      /\ \/ reply = "ok" /\ residuals' = residuals
         \/ reply = "failed" /\ phase = "recovery" /\ residuals' = residuals \union {ResidualOf(wait)}
  BY <1>0, NoneAssumption DEF Acknowledged, RestoreFails, documents, call, report, LineInv
<1>2. /\ RecordsInv' /\ TaskInv'
      /\ \A q : IsUndone(q)' <=> IsUndone(q)
      /\ (IsEvent' <=> IsEvent) /\ Planned' = Planned /\ Forward' = Forward /\ Undoes' = Undoes
      /\ Backward' = Backward /\ Others' = Others /\ \A q : TakenBack(q)' = TakenBack(q)
  BY <1>1, RecordsStay
<1>3. /\ Ahead' = Ahead /\ (\A q : Calm(q)' <=> Calm(q)) /\ (Recovering' <=> Recovering)
      /\ (\A q : Named(q) => Named(q)') /\ \A q : Overtaken(q)' <=> Overtaken(q)
  <2>1. Ahead' = Ahead /\ (Recovering' <=> Recovering)
    BY <1>1 DEF Ahead, Recovering
  <2>2. (\A q : Calm(q)' <=> Calm(q)) /\ \A q : Overtaken(q)' <=> Overtaken(q)
    BY <1>1, <1>2 DEF Calm, Overtaken
  <2>3. \A q : ResidualOf(q)' = ResidualOf(q)
    BY DEF ResidualOf, RoomAssignment, RecordPresence, BaseFields, Content
  <2>4. \A q : Named(q) => Named(q)'
    BY <1>1, <2>3 DEF Named
  <2> QED BY <2>1, <2>2, <2>4
<1>4. TypeInv'
  BY <1>0, <1>1, <1>2 DEF TypeInv
<1>5. LineInv' /\ LateInv'
  <2>1. phase = "forward" => net = {}
    BY <1>0, <1>1 DEF LineInv
  <2>2. outcome # "success"
    BY <1>0, <1>1 DEF LineInv
  <2> QED BY <1>0, <1>1, <1>2, <1>3, <2>1, <2>2 DEF LineInv, LateInv
<1>6. Untouched' /\ ReadInv' /\ SuccessInv'
  BY <1>0, <1>1, <1>2, <1>3 DEF Untouched, ReadInv, SuccessInv, LineInv
<1>7. UndoInv'
  <2>1. ASSUME NEW q \in Undoes, wait = q, reply # "ok" PROVE Named(q)'
    BY <1>1, <2>1 DEF Named, ResidualOf
  <2> QED BY <1>0, <1>1, <1>2, <1>3, <2>1 DEF UndoInv
<1>8. SiblingInv'
  BY <1>0, <1>1, <1>2, <1>3 DEF SiblingInv
<1>9. DoneInv'
  <2>1. phase = "forward" => \A q : Yet(q) => Yet(q)'
    BY <1>0, <1>1, <1>3 DEF Yet, LineInv
  <2>2. Create # None
    BY Known, NoneAssumption
  <2> QED BY <1>0, <1>1, <1>2, <1>3, <2>1, <2>2 DEF DoneInv
<1>10. OrderInv'
  <2>1. ASSUME NEW Y, Y \subseteq Requests PROVE wait' \notin Y
    BY <1>1, <2>1, NoneAssumption
  <2>2. /\ {SetRoom(Target, "new"), ReadSiblings} \subseteq Requests
        /\ task.owner # None => RoomsOf({task.owner}, "new") \subseteq Requests
        /\ RoomsOf(Others, "old") \subseteq Requests
    BY <1>0, Known, ConstantsAssumption DEF TaskInv, RoomsOf, Others, Records, Values
  <2>3. \A S, to : RoomsOf(S, to)' = RoomsOf(S, to)
    BY DEF RoomsOf
  <2> QED BY <1>0, <1>1, <1>2, <1>3, <2>1, <2>2, <2>3 DEF OrderInv, InTurn, RoomsOf
<1>11. OwnerInv'
  BY <1>0, <1>1, <1>3, OwnerStays
<1> QED BY <1>2, <1>4, <1>5, <1>6, <1>7, <1>8, <1>9, <1>10, <1>11 DEF SagaInv

\* An answer is lost: what was to be confirmed stays so.
LEMMA AnswerLostKeeps == ASSUME SagaInv, AnswerLost PROVE SagaInv'
<1>0. TypeInv /\ TaskInv /\ LineInv /\ LateInv /\ RecordsInv /\ Untouched /\ UndoInv /\ ReadInv /\ SiblingInv /\ DoneInv
      /\ OrderInv /\ OwnerInv /\ SuccessInv
  BY DEF SagaInv
<1>1. /\ UNCHANGED <<task, here, room, base, text, uploaded, strayed, net, overtaken, wait, phase, todo, attempted, reading,
                     unattributed, residuals, outcome>>
      /\ wait # None /\ reply = "none" /\ reply' = "failed"
  BY DEF AnswerLost, documents, call, report
<1>2. /\ RecordsInv' /\ TaskInv'
      /\ \A q : IsUndone(q)' <=> IsUndone(q)
      /\ (IsEvent' <=> IsEvent) /\ Planned' = Planned /\ Forward' = Forward /\ Undoes' = Undoes
      /\ Backward' = Backward /\ Others' = Others
  BY <1>1, RecordsStay
<1>3. /\ Ahead' = Ahead /\ (Recovering' <=> Recovering) /\ (\A q : Calm(q)' <=> Calm(q)) /\ (\A q : Named(q)' <=> Named(q))
      /\ (\A q : Overtaken(q)' <=> Overtaken(q)) /\ \A q : Yet(q)' <=> Yet(q)
  BY <1>1, <1>2 DEF Ahead, Recovering, Calm, Named, ResidualOf, Overtaken, Yet
<1>4. TypeInv' /\ LineInv' /\ LateInv'
  BY <1>0, <1>1, <1>2, <1>3 DEF TypeInv, LineInv, LateInv
<1>5. Untouched' /\ UndoInv'
  BY <1>0, <1>1, <1>2, <1>3 DEF Untouched, UndoInv
<1>6. ReadInv' /\ SiblingInv' /\ SuccessInv'
  BY <1>0, <1>1, <1>2, <1>3 DEF ReadInv, SiblingInv, SuccessInv
<1>7. DoneInv'
  BY <1>0, <1>1, <1>2, <1>3 DEF DoneInv
<1>8. OrderInv'
  BY <1>0, <1>1, <1>2, <1>3 DEF OrderInv, InTurn, RoomsOf
<1>9. OwnerInv'
  BY <1>0, <1>1, <1>3, OwnerStays
<1> QED BY <1>2, <1>4, <1>5, <1>6, <1>7, <1>8, <1>9 DEF SagaInv

\* What the error will name if the recovery dies covers all that was attempted.
LEMMA EverythingNames ==
  ASSUME SagaInv, NEW q \in Undoes, TakenBack(q) \in attempted
  PROVE  ResidualOf(q) \in Everything
<1>0. TaskInv
  BY DEF SagaInv
<1>1. CASE task.new
  BY <1>1 DEF Undoes, Everything, ResidualOf, Delete, Set
<1>2. CASE ~task.new /\ (q = Base("old") \/ q = Text("old"))
  <2>1. /\ TakenBack(q).what = q.what /\ q.what \in {"base", "text"}
    BY <1>2 DEF TakenBack, Base, Text, Set
  <2>2. ResidualOf(TakenBack(q)) = ResidualOf(q)
    BY <2>1 DEF ResidualOf
  <2>3. ResidualOf(TakenBack(q)) \in Everything
    BY <1>2, <2>1 DEF Everything
  <2> QED BY <2>2, <2>3
<1>3. CASE ~task.new /\ \E r \in Planned : q = SetRoom(r, "old")
  <2>1. PICK r \in Planned : q = SetRoom(r, "old")
    BY <1>3
  <2>2. TakenBack(q) = SetRoom(r, "new") /\ ResidualOf(q) = RoomAssignment(r)
    BY <1>3, <2>1 DEF TakenBack, SetRoom, Set, ResidualOf
  <2> QED BY <1>3, <2>2 DEF Everything, AttemptedRooms
<1> QED BY <1>1, <1>2, <1>3 DEF Undoes

LEMMA DiesKeeps == ASSUME SagaInv, RecoveryDies PROVE SagaInv'
<1>0. TypeInv /\ TaskInv /\ LineInv /\ LateInv /\ RecordsInv /\ Untouched /\ ReadInv /\ OwnerInv
  BY DEF SagaInv
<1>1. /\ UNCHANGED <<task, here, room, base, text, uploaded, strayed, net, overtaken, wait, reply, attempted, unattributed, outcome>>
      /\ phase = "recovery" /\ phase' = "recovery" /\ wait = None /\ todo' = <<>> /\ reading' = Nothing
      /\ residuals' = Everything
  BY DEF RecoveryDies, Goto, documents, requests
<1>2. /\ RecordsInv' /\ TaskInv'
      /\ \A q : IsUndone(q)' <=> IsUndone(q)
      /\ (IsEvent' <=> IsEvent) /\ Planned' = Planned /\ Forward' = Forward /\ Undoes' = Undoes
      /\ Backward' = Backward /\ Others' = Others /\ \A q : TakenBack(q)' = TakenBack(q)
  BY <1>1, RecordsStay
<1>3. Ahead' = {} /\ (\A q : Calm(q)' <=> Calm(q)) /\ \A q : (ResidualOf(q) \in Everything) <=> Named(q)'
  BY <1>1, <1>2 DEF ToSet, Ahead, Calm, Named, ResidualOf
<1>4. \A q \in Undoes : Named(q)' \/ Calm(q)
  BY <1>0, <1>3, EverythingNames DEF Untouched
<1>5. TypeInv' /\ LineInv' /\ LateInv' /\ Untouched' /\ ReadInv' /\ DoneInv' /\ SuccessInv'
  <2>1. TypeInv'
    BY <1>0, <1>1 DEF TypeInv, Nothing
  <2>2. LineInv'
    BY <1>0, <1>1, <1>2, <1>3 DEF LineInv
  <2>3. LateInv'
    BY <1>0, <1>1, <1>2 DEF LateInv
  <2> QED BY <1>0, <1>1, <1>2, <1>3, <2>1, <2>2, <2>3 DEF Untouched, ReadInv, DoneInv, SuccessInv, Nothing, LineInv
<1>6. UndoInv'
  <2>1. Upload \in attempted => Orphan \in residuals'
    BY <1>1 DEF Everything
  <2> QED BY <1>1, <1>2, <1>3, <1>4, <2>1 DEF UndoInv
<1>7. SiblingInv'
  BY <1>1, <1>2 DEF SiblingInv, Everything
<1>8. OrderInv'
  BY <1>1 DEF OrderInv, InTurn, Precedes, Ahead, ToSet
<1>9. OwnerInv'
  BY <1>0, <1>1, <1>3, <1>4, OwnerStays
<1> QED BY <1>2, <1>5, <1>6, <1>7, <1>8, <1>9 DEF SagaInv

-----------------------------------------------------------------------------
(* Steps that read.                                                        *)

LEMMA PollKeeps == ASSUME SagaInv, Poll PROVE SagaInv'
<1>0. TypeInv /\ TaskInv /\ LineInv /\ LateInv /\ RecordsInv /\ Untouched /\ UndoInv /\ ReadInv /\ SiblingInv /\ DoneInv /\ OrderInv
      /\ OwnerInv /\ SuccessInv
  BY DEF SagaInv
<1>1. /\ UNCHANGED <<task, here, room, base, text, uploaded, net, overtaken, wait, reply, phase, todo, attempted, unattributed, residuals, outcome>>
      /\ phase # "over" /\ wait = None /\ strayed' = FALSE
      /\ todo # <<>> /\ Head(todo).what = "siblings"
      /\ reading'.seen = here /\ reading'.n > 0 /\ reading' \in [n : Nat, seen : SUBSET Records, same : Nat]
  BY <1>0 DEF Poll, AtRead, requests, report, TypeInv
<1>2. /\ RecordsInv' /\ TaskInv'
      /\ \A q : IsUndone(q)' <=> IsUndone(q)
      /\ (IsEvent' <=> IsEvent) /\ Planned' = Planned /\ Forward' = Forward /\ Undoes' = Undoes
      /\ Backward' = Backward /\ Others' = Others /\ \A q : TakenBack(q)' = TakenBack(q)
  BY <1>1, RecordsStay
<1>3. /\ Ahead' = Ahead /\ (Recovering' <=> Recovering) /\ (\A q : Overtaken(q)' <=> Overtaken(q))
      /\ (\A q : Calm(q)' <=> Calm(q)) /\ (\A q : Named(q)' <=> Named(q)) /\ \A q : Yet(q)' <=> Yet(q)
  BY <1>1, <1>2 DEF Ahead, Recovering, Calm, Named, ResidualOf, Overtaken, Yet
<1>4. Head(todo) = ReadSiblings /\ ReadSiblings \in Ahead
  <2>1. Head(todo) \in Ahead
    BY <1>0, <1>1, HeadAndTail DEF TypeInv, Ahead
  <2>2. Ahead \subseteq Forward \union Backward
    BY <1>0, <1>1 DEF LineInv, TypeInv
  <2> QED BY <1>1, <2>1, <2>2
       DEF Forward, Backward, Undoes, SetRoom, Upload, ReadSiblings, ReadMeetings, Create, Base, Text, Delete, Set
<1>5. TypeInv'
  BY <1>0, <1>1 DEF TypeInv
<1>6. LineInv' /\ LateInv'
  BY <1>0, <1>1, <1>2, <1>3 DEF LineInv, LateInv
<1>7. Untouched' /\ UndoInv'
  BY <1>0, <1>1, <1>2, <1>3 DEF Untouched, UndoInv
<1>8. ReadInv'
  BY <1>0, <1>1 DEF ReadInv
<1>9. SiblingInv'
  BY <1>3, <1>4 DEF SiblingInv
<1>10. DoneInv'
  <2>1. phase = "forward" => Create \notin Ahead /\ wait # Create
    <3>1. Create \in Requests /\ ReadSiblings # Create
      BY Known DEF ReadSiblings, Create, Set
    <3>2. ~task.new => Create \notin Forward
      BY DEF Forward, SetRoom, Upload, ReadSiblings, ReadMeetings, Create, Base, Text, Set
    <3>3. phase = "forward" /\ task.new => Ahead \intersect {Create} = {}
      BY <1>0, <1>1, <1>4, InOrderTail DEF OrderInv, InTurn, TypeInv, Ahead
    <3> QED BY <1>0, <1>1, <3>1, <3>2, <3>3, NoneAssumption DEF LineInv
  <2> QED BY <1>0, <1>1, <1>2, <1>3, <1>4, <2>1 DEF DoneInv
<1>11. OrderInv'
  BY <1>0, <1>1, <1>2, <1>3 DEF OrderInv, InTurn, RoomsOf
<1>12. OwnerInv' /\ SuccessInv'
  <2>1. OwnerInv'
    BY <1>0, <1>1, <1>3, OwnerStays
  <2> QED BY <1>0, <1>1, <2>1 DEF SuccessInv, LineInv
<1> QED BY <1>2, <1>5, <1>6, <1>7, <1>8, <1>9, <1>10, <1>11, <1>12 DEF SagaInv

\* A read that is over is of a kind, and has been the only thing to do.
LEMMA AtReadKnown ==
  ASSUME SagaInv, AtRead("siblings") \/ AtRead("meetings")
  PROVE  /\ Head(todo) = (IF AtRead("siblings") THEN ReadSiblings ELSE ReadMeetings)
         /\ Tail(todo) \in Seq(Requests) /\ Ahead = {Head(todo)} \union ToSet(Tail(todo))
         /\ wait = None /\ todo # <<>> /\ (phase = "forward" \/ phase = "recovery")
         /\ phase = "forward" => net = {}
<1>0. TypeInv /\ LineInv
  BY DEF SagaInv
<1>1. wait = None /\ todo # <<>> /\ phase # "over" /\ (Head(todo).what = "siblings" \/ Head(todo).what = "meetings")
      /\ (AtRead("siblings") <=> Head(todo).what = "siblings")
  BY DEF AtRead
<1>2. Tail(todo) \in Seq(Requests) /\ Ahead = {Head(todo)} \union ToSet(Tail(todo))
  BY <1>0, <1>1, HeadAndTail DEF TypeInv, Ahead
<1>3. Head(todo) = (IF AtRead("siblings") THEN ReadSiblings ELSE ReadMeetings)
  <2>1. Head(todo) \in Forward \union Backward
    BY <1>0, <1>1, <1>2 DEF LineInv, TypeInv
  <2> QED BY <1>1, <2>1
       DEF Forward, Backward, Undoes, SetRoom, Upload, ReadSiblings, ReadMeetings, Create, Base, Text, Delete, Set
<1>4. phase = "forward" => net = {}
  BY <1>0, <1>1, NoneAssumption DEF LineInv, TypeInv
<1> QED BY <1>0, <1>1, <1>2, <1>3, <1>4 DEF TypeInv

\* A forward read that adds steps s of rooms or the next read to what is left keeps
\* everything but, perhaps, what is to be done yet.
LEMMA ForwardReadKeeps ==
  ASSUME SagaInv, phase = "forward", AtRead("siblings") \/ AtRead("meetings"), reading.n > 0,
         UNCHANGED <<task, documents, requests, phase, attempted, reading, report>>,
         NEW s, NEW S, Steps(s, S), todo' = s \o Tail(todo), S \subseteq Forward \ {Create, ReadSiblings},
         ~task.new => S \intersect RoomsOf(Originals, "new") = {},
         unattributed' \subseteq Records, ~task.new => unattributed' \intersect Originals = {}
  PROVE  /\ DoneInv' => SagaInv'
         /\ Ahead' = S \union ToSet(Tail(todo))
         /\ \A q \in Requests : Yet(q) /\ ~IsRead(q) => Yet(q)'
         /\ Create \notin Ahead' /\ wait' # Create
<1>0. TypeInv /\ TaskInv /\ LineInv /\ LateInv /\ RecordsInv /\ Untouched /\ ReadInv /\ DoneInv /\ OrderInv /\ OwnerInv
  BY DEF SagaInv
<1>1. /\ Head(todo) \in {ReadSiblings, ReadMeetings} /\ Tail(todo) \in Seq(Requests) /\ Ahead = {Head(todo)} \union ToSet(Tail(todo))
      /\ wait = None /\ todo # <<>> /\ net = {}
  BY AtReadKnown
<1>2. /\ UNCHANGED <<task, here, room, base, text, uploaded, strayed, net, overtaken, wait, reply, phase, attempted, reading, residuals, outcome>>
  BY DEF documents, requests, report
<1>3. /\ RecordsInv' /\ TaskInv'
      /\ \A q : IsUndone(q)' <=> IsUndone(q)
      /\ (IsEvent' <=> IsEvent) /\ Planned' = Planned /\ Forward' = Forward /\ Undoes' = Undoes
      /\ Backward' = Backward /\ Others' = Others /\ \A q : TakenBack(q)' = TakenBack(q)
  BY <1>2, RecordsStay
<1>4. todo' \in Seq(Requests) /\ Ahead' = S \union ToSet(Tail(todo))
  BY <1>1, JoinedSet, ZenonT(60) DEF Steps, Ahead
<1>5. (\A q : Calm(q)' <=> Calm(q)) /\ ~Recovering'
  BY <1>0, <1>2, <1>3 DEF LineInv, Recovering, Calm
<1>6. TypeInv'
  BY <1>0, <1>2, <1>4 DEF TypeInv
<1>7. LineInv' /\ LateInv'
  BY <1>0, <1>1, <1>2, <1>3, <1>4, <1>5 DEF LineInv, LateInv
<1>8. Untouched' /\ UndoInv' /\ SiblingInv' /\ SuccessInv'
  BY <1>0, <1>2, <1>3, <1>5 DEF Untouched, UndoInv, SiblingInv, SuccessInv, LineInv
<1>9. ReadInv'
  BY <1>0, <1>2, <1>3 DEF ReadInv
<1>10. Create \notin Ahead /\ Create \notin Ahead' /\ wait' # Create
  BY <1>0, <1>1, <1>2, <1>4 DEF DoneInv
<1>11. OrderInv'
  <2>1. ASSUME NEW X, NEW Y, Precedes(todo, X, Y), Y \subseteq Requests,
               ToSet(s) \intersect X = {} \/ ToSet(s) \intersect Y = {},
               ToSet(s) \intersect Y = {} \/ ToSet(Tail(todo)) \intersect X = {}
        PROVE  Precedes(todo', X, Y) /\ wait' \notin Y
    <3>1. Precedes(Tail(todo), X, Y)
      BY <1>0, <1>1, <2>1, InOrderTail DEF TypeInv
    <3>2. Precedes(s, X, Y)
      BY <2>1, InOrderByAbsence
    <3>3. Precedes(s \o Tail(todo), X, Y)
      BY <1>1, <2>1, <3>1, <3>2, InOrderJoined DEF Steps
    <3> QED BY <1>1, <1>2, <2>1, <3>3, NoneAssumption
  <2>2. ASSUME task.new PROVE InTurn({Create}, {SetRoom(Target, "new"), ReadSiblings})'
    <3>1. {SetRoom(Target, "new"), ReadSiblings} \subseteq Requests
      BY Known, ConstantsAssumption DEF Records, Values
    <3>2. Precedes(todo, {Create}, {SetRoom(Target, "new"), ReadSiblings})
      BY <1>0, <2>2 DEF OrderInv, InTurn
    <3> HIDE DEF Create, SetRoom, ReadSiblings
    <3>3. ToSet(s) \intersect {Create} = {} /\ ToSet(Tail(todo)) \intersect {Create} = {}
      BY <1>1, <1>10 DEF Steps
    <3>4. Precedes(todo', {Create}, {SetRoom(Target, "new"), ReadSiblings}) /\ wait' \notin {SetRoom(Target, "new"), ReadSiblings}
      BY <2>1, <3>1, <3>2, <3>3
    <3> QED BY <3>4 DEF InTurn
  <2>3. ASSUME task.owner # None PROVE InTurn(RoomsOf(Others, "new"), RoomsOf({task.owner}, "new"))'
    <3>1. ~task.new /\ RoomsOf(Others, "new") \subseteq RoomsOf(Originals, "new") /\ RoomsOf({task.owner}, "new") \subseteq RoomsOf(Originals, "new")
      BY <1>0, <2>3 DEF TaskInv, RoomsOf, Others
    <3>2. RoomsOf(Originals, "new") \subseteq Requests
      BY Known DEF RoomsOf, Records, Values
    <3>3. Precedes(todo, RoomsOf(Others, "new"), RoomsOf({task.owner}, "new"))
      BY <1>0, <2>3 DEF OrderInv, InTurn
    <3>4. ToSet(s) \intersect RoomsOf(Others, "new") = {} /\ ToSet(s) \intersect RoomsOf({task.owner}, "new") = {}
      BY <3>1 DEF Steps
    <3>5. Precedes(todo', RoomsOf(Others, "new"), RoomsOf({task.owner}, "new")) /\ wait' \notin RoomsOf({task.owner}, "new")
      BY <2>1, <3>1, <3>2, <3>3, <3>4
    <3> QED BY <1>2, <1>3, <3>5 DEF InTurn, RoomsOf
  <2> QED BY <1>2, <2>2, <2>3 DEF OrderInv
<1>12. OwnerInv'
  BY <1>0, <1>2, <1>5, OwnerStays DEF Named
<1>13. ASSUME NEW q \in Requests, Yet(q), ~IsRead(q) PROVE Yet(q)'
  <2>1. q \in Ahead /\ q # Head(todo)
    BY <1>0, <1>1, <1>13, NoneAssumption, Undoings DEF Yet
  <2> QED BY <1>1, <1>4, <2>1 DEF Yet
<1> QED BY <1>3, <1>4, <1>6, <1>7, <1>8, <1>9, <1>10, <1>11, <1>12, <1>13 DEF SagaInv

\* What a forward read leaves to be done of the call's own records.
LEMMA OwnStepsKept ==
  ASSUME SagaInv, phase = "forward", UNCHANGED <<task, here, room, base, text, uploaded>>,
         \A q \in Requests : Yet(q) /\ ~IsRead(q) => Yet(q)'
  PROVE  /\ task.new => /\ Yet(Create)' \/ Target \in here
                        /\ Yet(SetRoom(Target, "new"))' \/ room[Target] = "new"
                        /\ task.markup # "none" => Yet(Upload)' \/ uploaded
         /\ ~task.new => /\ \A r \in Planned : Yet(SetRoom(r, "new"))' \/ (r \in here => room[r] = "new")
                         /\ task.fields => Yet(Base("new"))' \/ base = "new"
                         /\ task.markup # "none" => Yet(Text("new"))' \/ text = "new"
         /\ \A r \in Records : Yet(SetRoom(r, "new")) => Yet(SetRoom(r, "new"))'
<1>1. /\ Create \in Requests /\ Upload \in Requests /\ Base("new") \in Requests /\ Text("new") \in Requests
      /\ \A r \in Records : SetRoom(r, "new") \in Requests
  BY Known DEF Values
<1>2. /\ ~IsRead(Create) /\ ~IsRead(Upload) /\ ~IsRead(Base("new")) /\ ~IsRead(Text("new")) /\ \A r \in Records : ~IsRead(SetRoom(r, "new"))
  BY DEF IsRead, Create, Upload, Base, Text, SetRoom, Set
<1>3. Target \in Records /\ Planned \subseteq Records
  BY ConstantsAssumption DEF Planned, Records
<1> HIDE DEF Create, Upload
<1> QED BY <1>1, <1>2, <1>3 DEF SagaInv, DoneInv

LEMMA SiblingsReadKeeps == ASSUME SagaInv, SiblingsRead PROVE SagaInv'
<1> DEFINE found == IF task.new THEN reading.seen ELSE reading.seen \ Originals
           s == If(found # {}, <<ReadMeetings>>)
           S == IF found # {} THEN {ReadMeetings} ELSE {}
<1>0. TypeInv /\ TaskInv /\ ReadInv /\ DoneInv
  BY DEF SagaInv
<1>1. /\ phase = "forward" /\ AtRead("siblings") /\ reading.n > 0
      /\ UNCHANGED <<task, documents, requests, phase, attempted, reading, report>>
      /\ todo' = s \o Tail(todo) /\ unattributed' = IF task.new THEN {} ELSE found
  <2>1. reading.n = Reads
    BY DEF SiblingsRead, Converged
  <2> QED BY <2>1, ConstantsAssumption DEF SiblingsRead
<1>2. UNCHANGED <<task, here, room, base, text, uploaded, strayed>>
  BY <1>1 DEF documents
<1>3. Steps(s, S) /\ S \subseteq Forward \ {Create, ReadSiblings} /\ S \intersect RoomsOf(Originals, "new") = {} /\ found \subseteq Records
  <2>1. Steps(s, S)
    BY Known, OneStep, IfSteps
  <2>2. S \subseteq Forward \ {Create, ReadSiblings} /\ S \intersect RoomsOf(Originals, "new") = {}
    BY DEF Forward, Create, ReadMeetings, ReadSiblings, RoomsOf, SetRoom, Set
  <2> QED BY <1>0, <2>1, <2>2 DEF TypeInv
<1> HIDE DEF s, S
<1>4. /\ DoneInv' => SagaInv'
      /\ Ahead' = S \union ToSet(Tail(todo))
      /\ \A q \in Requests : Yet(q) /\ ~IsRead(q) => Yet(q)'
      /\ Create \notin Ahead' /\ wait' # Create
  BY <1>1, <1>3, ForwardReadKeeps
<1>5. /\ task.new => /\ Yet(Create)' \/ Target \in here
                     /\ Yet(SetRoom(Target, "new"))' \/ room[Target] = "new"
                     /\ task.markup # "none" => Yet(Upload)' \/ uploaded
      /\ ~task.new => /\ \A r \in Planned : Yet(SetRoom(r, "new"))' \/ (r \in here => room[r] = "new")
                      /\ task.fields => Yet(Base("new"))' \/ base = "new"
                      /\ task.markup # "none" => Yet(Text("new"))' \/ text = "new"
  BY <1>1, <1>2, <1>4, OwnStepsKept
<1>6. ASSUME IsEvent, ~strayed, NEW r \in here
      PROVE  \/ Yet(SetRoom(r, "new"))' \/ room[r] = "new"
             \/ ReadMeetings \in Ahead' /\ (~task.new => r \in unattributed')
  <2>1. reading.seen = here
    BY <1>0, <1>1, <1>6 DEF ReadInv
  <2>2. CASE r \in found
    <3>1. ReadMeetings \in Ahead'
      BY <1>4, <2>2 DEF S
    <3> QED BY <1>1, <2>2, <3>1
  <2>3. CASE r \notin found
    BY <1>5, <1>6, <2>1, <2>3 DEF Planned
  <2> QED BY <2>2, <2>3
<1>7. DoneInv'
  BY <1>1, <1>2, <1>4, <1>5, <1>6, SameTask DEF DoneInv
<1> QED BY <1>4, <1>7

LEMMA MeetingsReadKeeps == ASSUME SagaInv, MeetingsRead PROVE SagaInv'
<1> DEFINE those == IF task.new THEN {r \in reading.seen : room[r] = "none"} ELSE unattributed
           s == SetRooms(SetToSeq(those), "new")
           S == RoomsOf(those, "new")
<1>0. TypeInv /\ TaskInv /\ RecordsInv /\ ReadInv /\ DoneInv
  BY DEF SagaInv
<1>1. /\ phase = "forward" /\ AtRead("meetings") /\ ~AtRead("siblings")
      /\ UNCHANGED <<task, documents, requests, phase, attempted, reading, report>>
      /\ todo' = s \o Tail(todo) /\ unattributed' = unattributed
  BY DEF MeetingsRead, AtRead
<1>2. UNCHANGED <<task, here, room, base, text, uploaded, strayed>>
  BY <1>1 DEF documents
<1>3. ReadMeetings \in Ahead /\ reading.n > 0
  <2>1. ReadMeetings \in Ahead
    BY <1>1, AtReadKnown
  <2> QED BY <1>0, <1>1, <2>1 DEF ReadInv
<1>4. Steps(s, S) /\ S \subseteq Forward \ {Create, ReadSiblings} /\ (~task.new => S \intersect RoomsOf(Originals, "new") = {})
  <2>1. those \subseteq Records
    BY <1>0 DEF TypeInv
  <2>2. IsFiniteSet(those)
    BY <2>1, ConstantsAssumption, FS_Union, FS_Subset DEF Records
  <2>3. SetToSeq(those) \in Seq(Records) /\ ToSet(SetToSeq(those)) = those
    <3>1. SetToSeq(those) \in Seq(those) /\ ToSet(SetToSeq(those)) = those
      BY <2>2, SeqOfSet
    <3> QED BY <2>1, <3>1
  <2>4. Steps(s, S)
    BY <2>3, RoomSteps DEF Values
  <2>5. S \subseteq Forward \ {Create, ReadSiblings}
    BY <2>1 DEF Forward, Create, ReadSiblings, RoomsOf, SetRoom, Set
  <2>6. ASSUME ~task.new PROVE S \intersect RoomsOf(Originals, "new") = {}
    <3>1. those \intersect Originals = {}
      BY <1>0, <2>6 DEF ReadInv
    <3>2. \A r, q : SetRoom(r, "new") = SetRoom(q, "new") => r = q
      BY DEF SetRoom, Set
    <3> QED BY <3>1, <3>2 DEF RoomsOf
  <2> QED BY <2>4, <2>5, <2>6
<1>5. unattributed' \subseteq Records /\ (~task.new => unattributed' \intersect Originals = {})
  BY <1>0, <1>1 DEF TypeInv, ReadInv
<1> HIDE DEF s, S
<1>6. /\ DoneInv' => SagaInv'
      /\ Ahead' = S \union ToSet(Tail(todo))
      /\ \A q \in Requests : Yet(q) /\ ~IsRead(q) => Yet(q)'
      /\ Create \notin Ahead' /\ wait' # Create
  BY <1>1, <1>3, <1>4, <1>5, ForwardReadKeeps
<1>7. /\ task.new => /\ Yet(Create)' \/ Target \in here
                     /\ Yet(SetRoom(Target, "new"))' \/ room[Target] = "new"
                     /\ task.markup # "none" => Yet(Upload)' \/ uploaded
      /\ ~task.new => /\ \A r \in Planned : Yet(SetRoom(r, "new"))' \/ (r \in here => room[r] = "new")
                      /\ task.fields => Yet(Base("new"))' \/ base = "new"
                      /\ task.markup # "none" => Yet(Text("new"))' \/ text = "new"
      /\ \A r \in Records : Yet(SetRoom(r, "new")) => Yet(SetRoom(r, "new"))'
  BY <1>1, <1>2, <1>6, OwnStepsKept
<1>8. ReadSiblings \in Ahead => ReadSiblings \in Ahead'
  <2>1. Head(todo) = ReadMeetings /\ Ahead = {Head(todo)} \union ToSet(Tail(todo))
    BY <1>1, AtReadKnown
  <2>2. ReadMeetings # ReadSiblings
    BY DEF ReadMeetings, ReadSiblings, Set
  <2> QED BY <1>6, <2>1, <2>2
<1>9. ASSUME IsEvent, ReadSiblings \notin Ahead', ~strayed, NEW r \in here
      PROVE  Yet(SetRoom(r, "new"))' \/ room[r] = "new"
  <2>1. r \in Records /\ reading.seen = here
    BY <1>0, <1>1, <1>3, <1>9 DEF ReadInv, TypeInv
  <2>2. \/ Yet(SetRoom(r, "new")) \/ room[r] = "new"
        \/ ReadMeetings \in Ahead /\ (~task.new => r \in unattributed)
    BY <1>0, <1>1, <1>8, <1>9 DEF DoneInv
  <2>3. r \in those => Yet(SetRoom(r, "new"))'
    BY <1>6 DEF S, RoomsOf, Yet
  <2>4. task.new => r \in those \/ room[r] = "new"
    BY <1>0, <2>1 DEF TypeInv, RecordsInv
  <2> QED BY <1>7, <2>1, <2>2, <2>3, <2>4
<1>10. DoneInv'
  BY <1>1, <1>2, <1>6, <1>7, <1>9, SameTask DEF DoneInv
<1> QED BY <1>6, <1>10

\* A read of the recovery is over: what is left is to undo, in the same order.
LEMMA RecoveryReadKeeps ==
  ASSUME SagaInv, phase = "recovery", AtRead("siblings") \/ AtRead("meetings"),
         UNCHANGED <<task, documents, requests, phase, attempted, unattributed, outcome>>,
         reading' = Nothing, residuals \subseteq residuals',
         todo' \in Seq(Requests), Ahead' \subseteq Backward,
         \A q \in Undoes : q \in Ahead \/ task.new => q \in Ahead',
         task.owner # None => Precedes(todo', RoomsOf({task.owner}, "old"), RoomsOf(Others, "old")),
         SiblingInv'
  PROVE  SagaInv'
<1>0. TypeInv /\ TaskInv /\ LineInv /\ LateInv /\ RecordsInv /\ Untouched /\ UndoInv /\ ReadInv /\ OwnerInv
  BY DEF SagaInv
<1>1. /\ UNCHANGED <<task, here, room, base, text, uploaded, strayed, net, overtaken, wait, reply, phase, attempted, unattributed, outcome>>
      /\ wait = None /\ outcome = "none"
  BY <1>0, AtReadKnown DEF documents, requests, LineInv
<1>2. /\ RecordsInv' /\ TaskInv'
      /\ \A q : IsUndone(q)' <=> IsUndone(q)
      /\ (IsEvent' <=> IsEvent) /\ Planned' = Planned /\ Forward' = Forward /\ Undoes' = Undoes
      /\ Backward' = Backward /\ Others' = Others /\ \A q : TakenBack(q)' = TakenBack(q)
  BY <1>1, RecordsStay
<1>3. /\ (\A q : Calm(q)' <=> Calm(q)) /\ (\A q : Named(q) => Named(q)') /\ (Recovering' <=> Recovering)
      /\ \A q : Overtaken(q)' <=> Overtaken(q)
  <2>1. \A q : ResidualOf(q)' = ResidualOf(q)
    BY DEF ResidualOf, RoomAssignment, RecordPresence, BaseFields, Content
  <2> QED BY <1>1, <1>2, <2>1 DEF Calm, Named, Recovering, Overtaken
<1>4. TypeInv'
  BY <1>0, <1>1 DEF TypeInv, Nothing
<1>5. LineInv' /\ LateInv'
  BY <1>0, <1>1, <1>2, <1>3 DEF LineInv, LateInv
<1>6. Untouched' /\ DoneInv' /\ SuccessInv'
  BY <1>0, <1>1, <1>2, <1>3 DEF Untouched, DoneInv, SuccessInv
<1>7. ReadInv'
  BY <1>0, <1>1, <1>2 DEF ReadInv, Nothing
<1>8. UndoInv'
  <2>1. \A q \in Undoes : q # wait
    BY <1>0, <1>1, Undoings, NoneAssumption
  <2>2. ASSUME NEW q \in Undoes PROVE Named(q)' \/ Calm(q)' \/ Overtaken(q)' \/ q \in Ahead'
    <3>1. CASE task.new
      BY <3>1
    <3>2. CASE ~task.new
      BY <1>0, <1>3, <2>1, <3>2 DEF UndoInv, Recovering
    <3> QED BY <3>1, <3>2
  <2>3. Upload \in attempted => Orphan \in residuals'
    BY <1>0 DEF UndoInv, Recovering
  <2> QED BY <1>1, <1>2, <2>2, <2>3 DEF UndoInv
<1>9. OrderInv'
  <2>1. RoomsOf(Others, "old") \subseteq Requests
    BY Known, ConstantsAssumption DEF RoomsOf, Others, Records, Values
  <2>2. wait' \notin RoomsOf(Others, "old")
    BY <1>1, <2>1, NoneAssumption
  <2>3. RoomsOf(Others, "old")' = RoomsOf(Others, "old") /\ RoomsOf({task.owner}, "old")' = RoomsOf({task.owner}, "old")
    BY <1>1, <1>2 DEF RoomsOf
  <2> QED BY <1>1, <2>2, <2>3 DEF OrderInv, InTurn
<1>10. OwnerInv'
  BY <1>0, <1>1, <1>3, OwnerStays
<1> QED BY <1>2, <1>4, <1>5, <1>6, <1>7, <1>8, <1>9, <1>10 DEF SagaInv

LEMMA SetCheckedKeeps == ASSUME SagaInv, SetChecked PROVE SagaInv'
<1>0. TypeInv /\ TaskInv /\ LineInv /\ LateInv /\ ReadInv /\ OrderInv
  BY DEF SagaInv
<1>1. /\ phase = "recovery" /\ ~task.new /\ (AtRead("siblings") \/ AtRead("meetings"))
      /\ UNCHANGED <<task, documents, requests, phase, attempted, unattributed, outcome>>
      /\ reading' = Nothing /\ residuals \subseteq residuals' /\ todo' = Tail(todo)
      /\ SiblingSet \in residuals' \/ (Converged /\ reading.seen = Planned)
  BY DEF SetChecked, Goto, ReadFails
<1>2. /\ IsRead(Head(todo)) /\ todo' \in Seq(Requests) /\ Ahead = {Head(todo)} \union Ahead' /\ todo # <<>>
  <2>1. /\ Head(todo) \in {ReadSiblings, ReadMeetings} /\ Tail(todo) \in Seq(Requests)
        /\ Ahead = {Head(todo)} \union ToSet(Tail(todo)) /\ todo # <<>>
    BY <1>1, AtReadKnown
  <2>2. IsRead(Head(todo))
    BY <1>0, <2>1, Undoings
  <2> QED BY <1>1, <2>1, <2>2 DEF Ahead
<1>3. Ahead' \subseteq Backward
  BY <1>0, <1>1, <1>2 DEF LineInv
<1>4. \A q \in Undoes : q \in Ahead \/ task.new => q \in Ahead'
  BY <1>0, <1>1, <1>2, Undoings
<1>5. task.owner # None => Precedes(todo', RoomsOf({task.owner}, "old"), RoomsOf(Others, "old"))
  BY <1>0, <1>1, <1>2, InOrderTail DEF OrderInv, InTurn, TypeInv
<1>6. SiblingInv'
  <2>1. UNCHANGED <<task, here, strayed>>
    BY <1>1 DEF documents
  <2>2. CASE SiblingSet \in residuals'
    BY <2>2 DEF SiblingInv, SiblingSet
  <2>3. CASE Converged /\ reading.seen = Planned
    <3>1. reading.n > 0
      BY <2>3, ConstantsAssumption DEF Converged
    <3>2. strayed \/ here = Planned
      BY <1>0, <1>1, <2>3, <3>1 DEF ReadInv
    <3>3. Planned' = Planned
      BY <2>1, SameTask
    <3> QED BY <1>1, <2>1, <3>2, <3>3 DEF SiblingInv
  <2> QED BY <1>1, <2>2, <2>3
<1> QED BY <1>1, <1>2, <1>3, <1>4, <1>5, <1>6, RecoveryReadKeeps

LEMMA CreatedFoundKeeps == ASSUME SagaInv, CreatedFound PROVE SagaInv'
<1>0. TypeInv /\ TaskInv /\ LineInv
  BY DEF SagaInv
<1>1. PICK found \in {reading.seen, {}} :
         LET order == SetToSeq(ToRemove(found)) IN
           Goto(phase, [n \in DOMAIN order |-> Delete(order[n])] \o Tail(todo))
  BY DEF CreatedFound
<1> DEFINE order == SetToSeq(ToRemove(found))
           s == [n \in DOMAIN order |-> Delete(order[n])]
<1>2. /\ phase = "recovery" /\ task.new /\ (AtRead("siblings") \/ AtRead("meetings"))
      /\ UNCHANGED <<task, documents, requests, phase, attempted, unattributed, outcome>>
      /\ reading' = Nothing /\ residuals' = residuals \union {SiblingSet} /\ todo' = s \o Tail(todo)
  BY <1>1 DEF CreatedFound, Goto, ReadFails
<1>3. s \in Seq(Requests) /\ ToSet(s) \subseteq {Delete(r) : r \in Records} /\ Delete(Target) \in ToSet(s)
  <2>1. ToRemove(found) \subseteq Records /\ Target \in ToRemove(found)
    BY <1>0, ConstantsAssumption DEF ToRemove, Records, TypeInv
  <2>2. IsFiniteSet(ToRemove(found))
    BY <2>1, ConstantsAssumption, FS_Union, FS_Subset DEF Records
  <2>3. order \in Seq(ToRemove(found)) /\ ToSet(order) = ToRemove(found)
    BY <2>2, SeqOfSet
  <2> HIDE DEF order
  <2>4. DOMAIN order = 1..Len(order) /\ Len(order) \in Nat /\ \A n \in 1..Len(order) : order[n] \in Records
    BY <2>1, <2>3, LenProperties, ElementOfSeq
  <2>5. \A n \in 1..Len(order) : Delete(order[n]) \in Requests
    BY <2>4, Known
  <2>6. s = [n \in 1..Len(order) |-> Delete(order[n])]
    BY <2>4
  <2> HIDE DEF s
  <2>7. s \in Seq(Requests)
    BY <2>4, <2>5, <2>6
  <2>8. DOMAIN s = 1..Len(order) /\ \A n \in 1..Len(order) : s[n] = Delete(order[n])
    BY <2>6
  <2>9. PICK n \in 1..Len(order) : order[n] = Target
    BY <2>1, <2>3, <2>4 DEF ToSet
  <2> QED BY <2>4, <2>7, <2>8, <2>9 DEF ToSet
<1> HIDE DEF s
<1>4. /\ Tail(todo) \in Seq(Requests) /\ ToSet(Tail(todo)) \subseteq Ahead
  BY <1>2, AtReadKnown
<1>5. todo' \in Seq(Requests) /\ Ahead' = ToSet(s) \union ToSet(Tail(todo))
  BY <1>2, <1>3, <1>4, JoinedSet, ZenonT(60) DEF Ahead
<1>6. Ahead' \subseteq Backward
  BY <1>0, <1>2, <1>3, <1>4, <1>5 DEF LineInv, Backward
<1>7. \A q \in Undoes : q \in Ahead'
  BY <1>2, <1>3, <1>5 DEF Undoes
<1>8. task.owner = None
  BY <1>0, <1>2 DEF TaskInv
<1>9. SiblingInv'
  BY <1>2 DEF SiblingInv, SiblingSet
<1> QED BY <1>2, <1>5, <1>6, <1>7, <1>8, <1>9, RecoveryReadKeeps

-----------------------------------------------------------------------------
(* The end.                                                                *)

LEMMA EndsKeeps == ASSUME SagaInv, Ends PROVE SagaInv'
<1>0. TypeInv /\ TaskInv /\ LineInv /\ LateInv /\ RecordsInv /\ Untouched /\ UndoInv /\ ReadInv /\ SiblingInv /\ DoneInv /\ OwnerInv
  BY DEF SagaInv
<1>1. /\ UNCHANGED <<task, here, room, base, text, uploaded, strayed, net, overtaken, wait, reply, attempted, unattributed, residuals>>
      /\ phase # "over" /\ todo = <<>> /\ wait = None /\ phase' = "over" /\ todo' = <<>> /\ reading' = Nothing
      /\ outcome' = IF phase = "forward" THEN "success" ELSE IF residuals = {} THEN "recovered" ELSE "unconfirmed"
  BY DEF Ends, Goto, documents, requests
<1>2. /\ RecordsInv' /\ TaskInv'
      /\ \A q : IsUndone(q)' <=> IsUndone(q)
      /\ (IsEvent' <=> IsEvent) /\ Planned' = Planned /\ Forward' = Forward /\ Undoes' = Undoes
      /\ Backward' = Backward /\ Others' = Others /\ \A q : TakenBack(q)' = TakenBack(q)
  BY <1>1, RecordsStay
<1>3. /\ Ahead = {} /\ Ahead' = {} /\ (\A q : Overtaken(q)' <=> Overtaken(q))
      /\ (\A q : Calm(q)' <=> Calm(q)) /\ (\A q : Named(q)' <=> Named(q))
      /\ outcome' \in {"success", "recovered", "unconfirmed"} /\ (outcome' = "success" <=> phase = "forward")
      /\ (Recovering' => Recovering /\ phase = "recovery")
  <2>1. Ahead = {} /\ Ahead' = {}
    BY <1>1 DEF Ahead, ToSet
  <2>2. outcome' \in {"success", "recovered", "unconfirmed"} /\ (outcome' = "success" <=> phase = "forward")
    BY <1>1
  <2>3. Recovering' => phase = "recovery"
    BY <1>0, <1>1, <2>2 DEF Recovering, TypeInv
  <2> QED BY <1>1, <1>2, <2>1, <2>2, <2>3 DEF Calm, Named, ResidualOf, Overtaken, Recovering
<1>4. phase = "forward" => net = {}
  BY <1>0, <1>1, NoneAssumption DEF LineInv, TypeInv
<1>5. TypeInv' /\ Untouched' /\ ReadInv' /\ DoneInv' /\ OrderInv'
  <2>1. TypeInv'
    BY <1>0, <1>1, <1>3 DEF TypeInv, Nothing
  <2>2. ReadInv' /\ DoneInv' /\ OrderInv'
    BY <1>0, <1>1, <1>2 DEF ReadInv, DoneInv, OrderInv, Nothing
  <2> QED BY <1>0, <1>1, <1>2, <1>3, <2>1, <2>2 DEF Untouched
<1>6. LineInv' /\ LateInv'
  BY <1>0, <1>1, <1>2, <1>3, <1>4 DEF LineInv, LateInv
<1>7. UndoInv' /\ SiblingInv'
  <2>1. UndoInv'
    BY <1>0, <1>1, <1>2, <1>3 DEF UndoInv
  <2> QED BY <1>0, <1>1, <1>2, <1>3, <2>1 DEF SiblingInv
<1>8. OwnerInv'
  BY <1>0, <1>1, <1>3, OwnerStays
<1>9. SuccessInv'
  <2> SUFFICES ASSUME phase = "forward" PROVE SuccessInv'
    BY <1>3 DEF SuccessInv
  <2>1. \A q \in Requests : ~Yet(q)
    BY <1>1, <1>3, NoneAssumption DEF Yet
  <2>2. /\ Create \in Requests /\ Upload \in Requests /\ Base("new") \in Requests /\ Text("new") \in Requests
        /\ \A r \in Records : SetRoom(r, "new") \in Requests
    BY Known DEF Values
  <2>3. Target \in Records /\ Target \in Planned /\ Planned \subseteq Records /\ here \subseteq Records
    BY <1>0, ConstantsAssumption DEF TypeInv, Planned, Records
  <2>4. /\ Target \in here /\ room[Target] = "new"
        /\ task.fields => base = "new"
        /\ task.markup # "none" => text = "new" \/ (task.new /\ uploaded)
    <3>1. CASE task.new
      BY <1>0, <2>1, <2>2, <2>3, <3>1 DEF DoneInv, TaskInv
    <3>2. CASE ~task.new
      BY <1>0, <2>1, <2>2, <2>3, <3>2 DEF DoneInv, RecordsInv
    <3> QED BY <3>1, <3>2
  <2>5. ~strayed => \A r \in here : room[r] = "new"
    <3>1. CASE IsEvent
      BY <1>0, <1>3, <2>1, <2>2, <2>3, <3>1 DEF DoneInv
    <3>2. CASE ~IsEvent
      BY <1>0, <2>4, <3>2 DEF RecordsInv
    <3> QED BY <3>1, <3>2
  <2> QED BY <1>1, <2>4, <2>5 DEF SuccessInv
<1> QED BY <1>2, <1>5, <1>6, <1>7, <1>8, <1>9 DEF SagaInv

LEMMA NextKeeps == ASSUME SagaInv, [Next]_vars PROVE SagaInv'
<1>1. CASE Handle
  BY <1>1, HandleKeeps
<1>2. CASE \E r \in Records : Appear(r) \/ Vanish(r)
  BY <1>2, StrayKeeps
<1>3. CASE Send
  BY <1>3, SendKeeps
<1>4. CASE Acknowledged \/ RestoreFails
  BY <1>4, AnswerKeeps
<1>5. CASE AnswerLost
  BY <1>5, AnswerLostKeeps
<1>6. CASE ForwardFails \/ Interrupted \/ ForwardReadFails
  BY <1>6, RecoverKeeps DEF ForwardFails, Interrupted, ForwardReadFails
<1>7. CASE RecoveryDies
  BY <1>7, DiesKeeps
<1>8. CASE Poll
  BY <1>8, PollKeeps
<1>9. CASE SiblingsRead
  BY <1>9, SiblingsReadKeeps
<1>10. CASE MeetingsRead
  BY <1>10, MeetingsReadKeeps
<1>11. CASE SetChecked
  BY <1>11, SetCheckedKeeps
<1>12. CASE CreatedFound
  BY <1>12, CreatedFoundKeeps
<1>13. CASE Ends
  BY <1>13, EndsKeeps
<1>14. CASE UNCHANGED vars
  <2>1. /\ UNCHANGED <<task, here, room, base, text, uploaded, strayed, net, overtaken, wait, reply, phase, todo, attempted,
                       reading, unattributed, residuals, outcome>>
    BY <1>14 DEF vars, documents, requests, call, report
  <2>2. /\ RecordsInv' /\ TaskInv' /\ (\A q : IsUndone(q)' <=> IsUndone(q))
        /\ (IsEvent' <=> IsEvent) /\ Planned' = Planned /\ Forward' = Forward /\ Undoes' = Undoes
        /\ Backward' = Backward /\ Others' = Others /\ \A q : TakenBack(q)' = TakenBack(q)
    BY <2>1, RecordsStay
  <2>3. Ahead' = Ahead /\ (Recovering' <=> Recovering) /\ \A q : Overtaken(q)' <=> Overtaken(q)
    BY <2>1 DEF Ahead, Recovering, Overtaken
  <2>4. (\A q : Calm(q)' <=> Calm(q)) /\ (\A q : Named(q)' <=> Named(q)) /\ \A q : Yet(q)' <=> Yet(q)
    BY <2>1, <2>2, <2>3 DEF Calm, Named, ResidualOf, Yet
  <2>5. TypeInv' /\ LineInv' /\ LateInv' /\ ReadInv' /\ SiblingInv' /\ SuccessInv'
    <3>1. TypeInv'
      BY <2>1 DEF SagaInv, TypeInv
    <3>2. LineInv' /\ LateInv'
      BY <2>1, <2>2, <2>3 DEF SagaInv, LineInv, LateInv
    <3>3. ReadInv' /\ SiblingInv' /\ SuccessInv'
      BY <2>1, <2>2, <2>3 DEF SagaInv, ReadInv, SiblingInv, SuccessInv
    <3> QED BY <3>1, <3>2, <3>3
  <2>6. Untouched' /\ UndoInv'
    BY <2>1, <2>2, <2>3, <2>4 DEF SagaInv, Untouched, UndoInv
  <2>7. DoneInv'
    BY <2>1, <2>2, <2>3, <2>4 DEF SagaInv, DoneInv
  <2>8. OrderInv'
    BY <2>1, <2>2, <2>3 DEF SagaInv, OrderInv, InTurn, RoomsOf
  <2>9. OwnerInv'
    BY <2>1, <2>3, <2>4, OwnerStays DEF SagaInv
  <2> QED BY <2>2, <2>5, <2>6, <2>7, <2>8, <2>9 DEF SagaInv
<1> QED BY <1>1, <1>2, <1>3, <1>4, <1>5, <1>6, <1>7, <1>8, <1>9, <1>10, <1>11, <1>12, <1>13, <1>14 DEF Next

-----------------------------------------------------------------------------
(* The theorems.                                                           *)

LEMMA SagaKept == Spec => []SagaInv
<1>1. Init => SagaInv
  BY AtStart
<1>2. SagaInv /\ [Next]_vars => SagaInv'
  BY NextKeeps
<1> QED BY <1>1, <1>2, PTL DEF Spec

LEMMA NothingUnsaid == ASSUME SagaInv PROVE OutcomeIsTrue
<1> DEFINE said == residuals \union {ResidualOf(q) : q \in overtaken}
<1>0. TypeInv /\ TaskInv /\ LineInv /\ LateInv /\ RecordsInv /\ UndoInv /\ SiblingInv /\ SuccessInv
  BY DEF SagaInv
<1>1. outcome = "success" => /\ Target \in here /\ (~strayed => \A r \in here : room[r] = "new")
                             /\ task.fields => base = "new"
                             /\ task.markup # "none" => text = "new" \/ (task.new /\ uploaded)
  BY <1>0 DEF SuccessInv
<1>2. ASSUME outcome \in {"recovered", "unconfirmed"} PROVE Left \subseteq said
  <2>1. /\ Recovering /\ Ahead = {} /\ wait = None /\ ReadSiblings \notin Ahead
    BY <1>0, <1>2 DEF Recovering, LineInv, Ahead, ToSet
  <2>2. ASSUME NEW q \in Undoes PROVE ResidualOf(q) \in said \/ IsUndone(q)
    <3>1. q # None
      BY <1>0, Undoings, NoneAssumption
    <3>2. Named(q) \/ Calm(q) \/ Overtaken(q)
      BY <1>0, <2>1, <3>1 DEF UndoInv
    <3>3. Overtaken(q) => ResidualOf(q) \in {ResidualOf(p) : p \in overtaken}
      <4>1. q \in Requests
        BY <1>0, Undoings
      <4>2. q.what \in {"room", "base", "text", "presence"}
        BY DEF Undoes, SetRoom, Base, Text, Delete, Set
      <4>3. ResidualOf(TakenBack(q)) = ResidualOf(q)
        BY <4>1, <4>2 DEF TakenBack, ResidualOf, Requests
      <4> QED BY <4>3 DEF Overtaken
    <3> QED BY <3>2, <3>3 DEF Named, Calm
  <2>3. ASSUME task.new, Target \in here PROVE RecordPresence(Target) \in said
    <3>1. Delete(Target) \in Undoes /\ Delete(Target).what = "presence" /\ Delete(Target).of = Target
      BY <2>3 DEF Undoes, Delete, Set
    <3> QED BY <2>2, <2>3, <3>1 DEF ResidualOf, IsUndone
  <2>4. ASSUME ~task.new, NEW r \in Planned \intersect here, room[r] # "old" PROVE RoomAssignment(r) \in said
    <3>1. SetRoom(r, "old") \in Undoes /\ SetRoom(r, "old").what = "room" /\ SetRoom(r, "old").of = r
      BY <2>4 DEF Undoes, SetRoom, Set
    <3> QED BY <2>2, <2>4, <3>1 DEF ResidualOf, IsUndone
  <2>5. ASSUME base = "new" PROVE BaseFields \in said
    <3>1. ~task.new
      BY <1>0, <2>5 DEF RecordsInv
    <3>2. Base("old") \in Undoes /\ Base("old").what = "base"
      BY <3>1 DEF Undoes, Base, Set
    <3> QED BY <2>2, <2>5, <3>2 DEF ResidualOf, IsUndone
  <2>6. ASSUME text = "new" PROVE Content \in said
    <3>1. ~task.new
      BY <1>0, <2>6 DEF RecordsInv
    <3>2. Text("old") \in Undoes /\ Text("old").what = "text"
      BY <3>1 DEF Undoes, Text, Set
    <3> QED BY <2>2, <2>6, <3>2 DEF ResidualOf, IsUndone
  <2>7. ASSUME uploaded PROVE Orphan \in said
    BY <1>0, <2>1, <2>7 DEF RecordsInv, UndoInv
  <2>8. ASSUME NEW p \in Records, ~strayed, IsEvent, (p \in here) # (p \in Planned /\ ~task.new)
        PROVE  SiblingSet \in said
    <3>1. SiblingSet \in said \/ (IF task.new THEN Create \notin attempted ELSE here = Planned)
      BY <1>0, <2>1, <2>8 DEF SiblingInv
    <3>2. CASE task.new /\ Create \notin attempted
      BY <1>0, <2>8, <3>2 DEF RecordsInv
    <3>3. CASE ~task.new /\ here = Planned
      BY <2>8, <3>3
    <3> QED BY <3>1, <3>2, <3>3
  <2> QED BY <2>3, <2>4, <2>5, <2>6, <2>7, <2>8 DEF Left
<1>3. \A p, q \in overtaken : p = q
  BY <1>0 DEF LateInv
<1> QED BY <1>1, <1>2, <1>3 DEF OutcomeIsTrue

LEMMA OwnerNeverFirst == ASSUME SagaInv PROVE OwnerChangesLast
<1>0. TypeInv /\ TaskInv /\ OwnerInv
  BY DEF SagaInv
<1> SUFFICES ASSUME NEW r \in Planned \intersect here, task.owner \in here, room[task.owner] = "new", room[r] = "old"
             PROVE  RoomAssignment(task.owner) \in residuals \/ SetRoom(task.owner, "new") \in overtaken
  BY DEF OwnerChangesLast
<1>1. task.owner # None /\ task.owner \in Originals /\ IsEvent /\ r \in Others
  BY <1>0, ConstantsAssumption DEF TypeInv, TaskInv, Records, Planned, Others
<1> DEFINE q == SetRoom(task.owner, "old")
<1>2. q \in RoomsOf({task.owner}, "old") /\ q.what = "room" /\ q.of = task.owner /\ TakenBack(q) = SetRoom(task.owner, "new")
  BY DEF RoomsOf, SetRoom, Set, TakenBack
<1>3. Named(q) \/ Calm(q) \/ Overtaken(q) \/ OthersMoved
  BY <1>0, <1>1, <1>2 DEF OwnerInv
<1> HIDE DEF q
<1>4. ~Calm(q)
  BY <1>2 DEF Calm, IsUndone
<1>5. ~OthersMoved
  BY <1>1 DEF OthersMoved
<1> QED BY <1>2, <1>3, <1>4, <1>5 DEF Named, ResidualOf, Overtaken

\* The error of a call that failed names everything that is not as it was, however
\* its requests were lost, refused or late, but for what the one request did that
\* was overtaken; a call that succeeded has done it all.
THEOREM FailuresAreNamed == Spec => []OutcomeIsTrue
<1>1. SagaInv => OutcomeIsTrue
  BY NothingUnsaid
<1> QED BY <1>1, SagaKept, PTL

\* At no moment of a call, nor after it, is the owner's record in the new room and
\* another of the planned ones in the old, unless the error will name the owner's or
\* the change of the owner's record was overtaken by its restoration.
THEOREM OwnerLast == Spec => []OwnerChangesLast
<1>1. SagaInv => OwnerChangesLast
  BY OwnerNeverFirst
<1> QED BY <1>1, SagaKept, PTL
=============================================================================
