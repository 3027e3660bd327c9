-------------------------- MODULE ChatStream_proofs --------------------------
(***************************************************************************)
(* Proofs about BodyObserver and ChatStream, whose steps on the network    *)
(* body are those of the observer: first what the SDK is handed of an SSE  *)
(* body, what the operation knows of its end and of its usage, and that    *)
(* the network body is released, then that a whole streaming call keeps    *)
(* the promise of StreamContract, and what a caller that has seen EOF may  *)
(* rely on; for every set of events, body length, size of the network      *)
(* reads, event limit and capacity of the SDK's pipe.                      *)
(*                                                                         *)
(* About the observer the properties speak of what is exposed.  Its        *)
(* inductive invariant adds where the rest of the wire is (in the event in *)
(* progress or in the batch still to be scanned, until Read drops it) and  *)
(* why Read never goes back to the network once the stream has ended.      *)
(*                                                                         *)
(* The invariant of the stream says where the messages are on their way    *)
(* from the SDK to the caller: the caller has the first of them, then at   *)
(* most one is in the pipe before it, one is held by the normalizing       *)
(* goroutine, and the others are in the SDK's pipe or about to be sent     *)
(* into it, mixed with messages that hold nothing but usage.               *)
(***************************************************************************)
EXTENDS ChatStream, Pipe_proofs

-----------------------------------------------------------------------------
(* The observer *)

(* The types of the variables. *)
Typed ==
  /\ state \in State
  /\ ctx \in {"live", "canceled", "deadline"}
  /\ wire \in Seq(Units) /\ batch \in Seq(Units) /\ eventRaw \in Seq(Units)
  /\ output \in Seq(Units) /\ delivered \in Seq(Units)
  /\ reader \in {"idle", "loop", "source", "scan"}
  /\ readErr \in ReadErrors \cup {"none"}
  /\ pendingErr \in BodyErrors \cup {"none"}
  /\ result \in BodyErrors \cup {"none", "EOF"}
  /\ terminal \in BOOLEAN /\ closed \in BOOLEAN
  /\ source \in {"open", "closed"} /\ closer \in {"idle", "closing", "done"}

(* Whatever the network has returned is exposed, part of the event in      *)
(* progress or still to be scanned, until Read drops what follows the end  *)
(* of the stream; then it never reads the network again.                   *)
Dropped == closed /\ reader \in {"idle", "loop"} /\ eventRaw = <<>> /\ batch = <<>>

Joined(s, t, u) == (s \o t) \o u

NothingIsLost ==
  /\ reader # "scan" => batch = <<>>
  /\ \/ wire = Joined(Exposed, eventRaw, batch)
     \/ Dropped /\ IsPrefix(Exposed, wire)

(* The event in progress has no complete event in it. *)
EventIsInProgress ==
  /\ \A i \in 1 .. Len(eventRaw) : eventRaw[i].kind = "part"
  /\ Len(eventRaw) <= EventLimit

(* Whole events of legal size, the terminal one last. *)
WholeEvents(s) ==
  \A i \in 1 .. Len(s) :
    /\ \E j \in 1 .. Len(s) : s[j].kind # "part" /\ i <= j /\ j < i + EventLimit
    /\ s[i].kind \notin {"bad", "badUsage"}
    /\ s[i].kind = "stop" => i = Len(s)

ExposedIsWhole ==
  /\ WholeEvents(Exposed)
  /\ terminal <=> Exposed # <<>> /\ Exposed[Len(Exposed)].kind = "stop"

(* After the end of the stream Read leaves the network alone; it closed    *)
(* the body for that reason, or somebody else has called Close.            *)
ReaderHasStopped ==
  /\ terminal \/ pendingErr # "none" => closed /\ reader \in {"idle", "loop"}
  /\ result # "none" => closed /\ reader = "idle" /\ output = <<>>
  /\ closed => source = "closed" \/ closer = "closing"
  /\ closed /\ closer = "idle" => terminal \/ pendingErr # "none" \/ result # "none"
  /\ result = "EOF" /\ closer = "idle" => terminal

(* The operation knows how the stream of its current attempt ended. *)
OperationKnows ==
  state.attempt = ThisAttempt =>
    /\ pendingErr # "none" \/ result \notin {"none", "EOF"} => state.body.err # "none"
    /\ state.body.terminal <=> terminal

(* The count that the last setter among the exposed events brought. *)
SetsInput(event) == event.kind \in {"usage", "start"}
SetsOutput(event) ==
  event.kind = "usage" \/ (event.kind \in {"start", "delta"} /\ event.usage.output.present)

InputIsLast(s, count) ==
  \/ count = Absent /\ \A i \in 1 .. Len(s) : ~SetsInput(s[i])
  \/ \E m \in 1 .. Len(s) :
       /\ SetsInput(s[m]) /\ count = s[m].usage.input
       /\ \A i \in 1 .. Len(s) : SetsInput(s[i]) => i <= m

OutputIsLast(s, count) ==
  \/ count = Absent /\ \A i \in 1 .. Len(s) : ~SetsOutput(s[i])
  \/ \E m \in 1 .. Len(s) :
       /\ SetsOutput(s[m]) /\ count = s[m].usage.output
       /\ \A i \in 1 .. Len(s) : SetsOutput(s[i]) => i <= m

UsageIsLast ==
  state.attempt = ThisAttempt /\ state.body.err = "none" =>
    /\ InputIsLast(Exposed, state.body.usage.input)
    /\ OutputIsLast(Exposed, state.body.usage.output)

Inv ==
  /\ Typed /\ NothingIsLost /\ EventIsInProgress /\ ExposedIsWhole
  /\ ReaderHasStopped /\ OperationKnows /\ UsageIsLast

-----------------------------------------------------------------------------
(* Sequences of units, and what the operators return. *)

(* What has been exposed of a longer sequence is a prefix of it. *)
LEMMA PrefixOfConcat ==
  ASSUME NEW s \in Seq(Units), NEW t \in Seq(Units), NEW u \in Seq(Units)
  PROVE  IsPrefix(s, Joined(s, t, u))
<1>1. (s \o t) \o u = s \o (t \o u) /\ t \o u \in Seq(Units)
  BY ConcatAssociative, ConcatProperties
<1>2. ASSUME NEW v \in Seq(Units) PROVE IsPrefix(s, s \o v)
  BY <1>2 DEF IsPrefix
<1> QED
  BY <1>1, <1>2 DEF Joined

(* Handing over the first n elements keeps the sequence as a whole. *)
LEMMA HandOver ==
  ASSUME NEW d \in Seq(Units), NEW o \in Seq(Units), NEW n \in 1 .. Len(o)
  PROVE  /\ SubSeq(o, 1, n) \in Seq(Units) /\ SubSeq(o, n + 1, Len(o)) \in Seq(Units)
         /\ (d \o SubSeq(o, 1, n)) \o SubSeq(o, n + 1, Len(o)) = d \o o
<1>1. SubSeq(o, 1, n) \in Seq(Units) /\ SubSeq(o, n + 1, Len(o)) \in Seq(Units)
  OBVIOUS
<1>2. SubSeq(o, 1, n) \o SubSeq(o, n + 1, Len(o)) = SubSeq(o, 1, Len(o))
  <2>1. 1 \in 1 .. Len(o) + 1 /\ n \in 1 - 1 .. Len(o) /\ Len(o) \in n .. Len(o)
    OBVIOUS
  <2> QED
    BY <2>1, ConcatAdjacentSubSeq
<1>3. SubSeq(o, 1, Len(o)) = o
  BY SubSeqFull
<1> DEFINE a == SubSeq(o, 1, n)
           b == SubSeq(o, n + 1, Len(o))
<1>4. (d \o a) \o b = d \o (a \o b)
  <2>1. a \in Seq(Units) /\ b \in Seq(Units)
    BY <1>1
  <2> HIDE DEF a, b
  <2> QED
    BY <2>1
<1> QED
  BY <1>1, <1>2, <1>3, <1>4

(* A unit that moves from the batch to the event in progress. *)
LEMMA MoveUnit ==
  ASSUME NEW s \in Seq(Units), NEW t \in Seq(Units), NEW b \in Seq(Units), b # <<>>
  PROVE  /\ Head(b) \in Units /\ Tail(b) \in Seq(Units) /\ Append(t, Head(b)) \in Seq(Units)
         /\ Joined(s, t, b) = Joined(s, Append(t, Head(b)), Tail(b))
<1>1. /\ Head(b) \in Units /\ Tail(b) \in Seq(Units) /\ <<Head(b)>> \in Seq(Units)
      /\ Append(t, Head(b)) \in Seq(Units)
  OBVIOUS
<1>2. b = <<Head(b)>> \o Tail(b)
  OBVIOUS
<1>3. Append(t, Head(b)) = t \o <<Head(b)>>
  BY <1>1, AppendIsConcat
<1> DEFINE h == <<Head(b)>>
           r == Tail(b)
<1>4. h \in Seq(Units) /\ r \in Seq(Units)
  BY <1>1
<1> HIDE DEF h, r
<1>5. (s \o t) \o (h \o r) = ((s \o t) \o h) \o r
  <2> DEFINE x == s \o t
  <2>1. x \in Seq(Units)
    OBVIOUS
  <2> HIDE DEF x
  <2>2. x \o (h \o r) = (x \o h) \o r
    BY <1>4, <2>1
  <2> QED
    BY <2>2 DEF x
<1>6. (s \o t) \o h = s \o (t \o h)
  BY <1>4, ConcatAssociative, SMTT(30)
<1> QED
  BY <1>1, <1>2, <1>3, <1>5, <1>6 DEF h, r, Joined

(* What joins the output joins what is exposed. *)
LEMMA ExposeMore ==
  ASSUME NEW d \in Seq(Units), NEW o \in Seq(Units), NEW x \in Seq(Units)
  PROVE  o \o x \in Seq(Units) /\ d \o (o \o x) = (d \o o) \o x
OBVIOUS

(* The elements of what is exposed with a new event. *)
LEMMA ExposedElements ==
  ASSUME NEW e \in Seq(Units), NEW t \in Seq(Units), NEW u \in Units
  PROVE  /\ e \o Append(t, u) \in Seq(Units)
         /\ Len(e \o Append(t, u)) = Len(e) + Len(t) + 1
         /\ \A i \in 1 .. Len(e) : (e \o Append(t, u))[i] = e[i]
         /\ \A i \in Len(e) + 1 .. Len(e) + Len(t) :
              (e \o Append(t, u))[i] = t[i - Len(e)]
         /\ (e \o Append(t, u))[Len(e) + Len(t) + 1] = u
OBVIOUS

(* A unit is an event, or a part of one that brings nothing. *)
LEMMA UnitType ==
  ASSUME NEW u \in Units
  PROVE  /\ u.kind \in EventKinds \cup {"part"} /\ u.usage \in Usage
         /\ u.kind # "part" => u \in Event
<1>1. CASE u = Part
  BY <1>1, MaxIntAssumption DEF Part, NoUsage, Usage, Absent, Count
<1>2. CASE u \in Events
  BY <1>2, ObserverAssumption DEF Event
<1> QED
  BY <1>1, <1>2 DEF Units

(* A new attempt has a state of its own. *)
LEMMA FreshAttempt ==
  ASSUME NEW s \in State
  PROVE  /\ BeginAttempt(s) \in State
         /\ BeginAttempt(s).attempt = s.attempt + 1
         /\ BeginAttempt(s).body = EmptyObservation
BY MaxIntAssumption
   DEF BeginAttempt, State, EmptyObservation, BodyObservation, NoUsage, Usage, Absent, Count

(* recordError of the observer: the operation has an error afterwards. *)
LEMMA RecordErrorFacts ==
  ASSUME NEW s \in State, NEW e \in BodyErrors
  PROVE  LET t == RecordError(s, ThisAttempt, e)
         IN  /\ t \in State /\ t.attempt = s.attempt
             /\ t.body.terminal = s.body.terminal
             /\ s.attempt = ThisAttempt => t.body.err # "none"
<1>1. s.attempt \in Nat /\ s.body \in BodyObservation /\ e # "none"
  BY DEF State, BodyErrors
<1> DEFINE o == [s.body EXCEPT !.err = e]
           t == RecordError(s, ThisAttempt, e)
<1>2. o \in BodyObservation /\ o.err = e /\ o.terminal = s.body.terminal
  BY <1>1 DEF BodyObservation
<1>3. t = IF s.body.err = "none" /\ s.attempt = ThisAttempt THEN [s EXCEPT !.body = o] ELSE s
  BY DEF RecordError, UpdateBodyForAttempt
<1> HIDE DEF o, t
<1>4. CASE s.body.err = "none" /\ s.attempt = ThisAttempt
  <2>1. t = [s EXCEPT !.body = o]
    BY <1>3, <1>4
  <2> QED
    BY <1>1, <1>2, <2>1 DEF State, t
<1>5. CASE ~(s.body.err = "none" /\ s.attempt = ThisAttempt)
  BY <1>3, <1>5 DEF t
<1> QED
  BY <1>4, <1>5

(* What observeSSEUsage and finishEvent make of an event: an error once    *)
(* recorded stays, only the terminal event completes the observation, and  *)
(* an observation without an error has the counts that the event sets.     *)
LEMMA ObservedEventFacts ==
  ASSUME NEW o \in BodyObservation, NEW u \in Event
  PROVE  LET t == ObservedEvent(o, u)
         IN  /\ t \in BodyObservation
             /\ o.err # "none" => t.err # "none"
             /\ t.terminal = (o.terminal \/ u.kind = "stop")
             /\ t.err = "none" =>
                  /\ t.usage.input = IF SetsInput(u) THEN u.usage.input ELSE o.usage.input
                  /\ t.usage.output = IF SetsOutput(u) THEN u.usage.output ELSE o.usage.output
<1> DEFINE t == ObservedEvent(o, u)
<1>1. /\ o.usage \in Usage /\ u.usage \in Usage /\ u.kind \in EventKinds
      /\ o.terminal \in BOOLEAN /\ o.err \in BodyErrors \cup {"none"}
      /\ "malformedUsage" \in BodyErrors
  BY DEF BodyObservation, Event, BodyErrors
<1>2. /\ u.kind = "usage" => t = [o EXCEPT !.usage = u.usage]
      /\ u.kind = "start" => t = [o EXCEPT !.usage = StartUsage(o.usage, u.usage)]
      /\ u.kind = "delta" => t = DeltaObservation(o, u.usage)
      /\ u.kind = "stop" => t = [o EXCEPT !.terminal = TRUE]
      /\ u.kind \notin {"usage", "start", "delta", "stop"} => t = o
  <2>1. u.kind = "usage" => t = [o EXCEPT !.usage = u.usage]
    BY Zenon DEF ObservedEvent
  <2>2. u.kind = "start" => t = [o EXCEPT !.usage = StartUsage(o.usage, u.usage)]
    BY Zenon DEF ObservedEvent
  <2>3. u.kind = "delta" => t = DeltaObservation(o, u.usage)
    BY Zenon DEF ObservedEvent
  <2>4. u.kind = "stop" => t = [o EXCEPT !.terminal = TRUE]
    BY Zenon DEF ObservedEvent
  <2>5. u.kind \notin {"usage", "start", "delta", "stop"} => t = o
    BY Zenon DEF ObservedEvent
  <2> QED
    BY <2>1, <2>2, <2>3, <2>4, <2>5
<1> HIDE DEF t
<1>3. CASE u.kind = "usage"
  <2>1. t = [o EXCEPT !.usage = u.usage]
    BY <1>2, <1>3
  <2> QED
    BY <1>1, <1>3, <2>1 DEF t, BodyObservation, SetsInput, SetsOutput
<1>4. CASE u.kind = "start"
  <2> DEFINE usage == StartUsage(o.usage, u.usage)
  <2>1. /\ usage \in Usage /\ usage.input = u.usage.input
        /\ usage.output = IF u.usage.output.present THEN u.usage.output ELSE o.usage.output
    BY <1>1 DEF StartUsage, Usage
  <2>2. t = [o EXCEPT !.usage = usage]
    BY <1>2, <1>4
  <2> HIDE DEF usage
  <2> QED
    BY <1>1, <1>4, <2>1, <2>2 DEF t, BodyObservation, SetsInput, SetsOutput
<1>5. CASE u.kind = "delta"
  <2>1. CASE ~u.usage.output.present
    BY <1>1, <1>2, <1>5, <2>1 DEF t, DeltaObservation, SetsInput, SetsOutput
  <2>2. CASE u.usage.output.present
    <3> DEFINE over == o.usage.input.present /\ o.usage.input.value > MaxInt - u.usage.output.value
               usage == [o.usage EXCEPT !.output = u.usage.output]
    <3>1. CASE over
      <4>1. t = [o EXCEPT !.err = "malformedUsage"]
        BY <1>2, <1>5, <2>2, <3>1 DEF DeltaObservation
      <4> QED
        BY <1>1, <1>5, <4>1 DEF t, BodyObservation
    <3>2. CASE ~over
      <4>1. t = [o EXCEPT !.usage = usage]
        BY <1>2, <1>5, <2>2, <3>2 DEF DeltaObservation
      <4>2. usage \in Usage /\ usage.input = o.usage.input /\ usage.output = u.usage.output
        BY <1>1 DEF Usage
      <4> HIDE DEF usage
      <4> QED
        BY <1>1, <1>5, <2>2, <4>1, <4>2 DEF t, BodyObservation, SetsInput, SetsOutput
    <3> QED
      BY <3>1, <3>2
  <2> QED
    BY <2>1, <2>2
<1>6. CASE u.kind = "stop"
  <2>1. t = [o EXCEPT !.terminal = TRUE]
    BY <1>2, <1>6
  <2> QED
    BY <1>1, <1>6, <2>1 DEF t, BodyObservation, SetsInput, SetsOutput
<1>7. CASE u.kind \notin {"usage", "start", "delta", "stop"}
  BY <1>1, <1>2, <1>7 DEF t, SetsInput, SetsOutput
<1> QED
  BY <1>3, <1>4, <1>5, <1>6, <1>7

(* An event of legal size that is exposed keeps the events whole. *)
LEMMA NewEventIsWhole ==
  ASSUME NEW e \in Seq(Units), NEW t \in Seq(Units), NEW u \in Units,
         WholeEvents(e), \A i \in 1 .. Len(e) : e[i].kind # "stop",
         \A i \in 1 .. Len(t) : t[i].kind = "part", Len(t) + 1 <= EventLimit,
         u.kind \notin {"part", "bad", "badUsage"}
  PROVE  WholeEvents(e \o Append(t, u))
<1> DEFINE s == e \o Append(t, u)
           n == Len(e) + Len(t) + 1
<1>1. /\ Len(s) = n /\ s[n] = u /\ Len(e) \in Nat /\ Len(t) \in Nat
      /\ \A i \in 1 .. Len(e) : s[i] = e[i]
      /\ \A i \in Len(e) + 1 .. Len(e) + Len(t) : s[i] = t[i - Len(e)]
  BY ExposedElements
<1> HIDE DEF s
<1>2. ASSUME NEW i \in 1 .. Len(s)
      PROVE  /\ \E j \in 1 .. Len(s) : s[j].kind # "part" /\ i <= j /\ j < i + EventLimit
             /\ s[i].kind \notin {"bad", "badUsage"}
             /\ s[i].kind = "stop" => i = Len(s)
  <2>1. CASE i <= Len(e)
    <3>1. i \in 1 .. Len(e)
      BY <1>1, <2>1
    <3>2. \E j \in 1 .. Len(e) : e[j].kind # "part" /\ i <= j /\ j < i + EventLimit
      BY <3>1 DEF WholeEvents
    <3>3. e[i].kind \notin {"bad", "badUsage", "stop"}
      BY <3>1 DEF WholeEvents
    <3> QED
      BY <1>1, <3>1, <3>2, <3>3
  <2>2. CASE i > Len(e)
    <3>1. s[n].kind # "part" /\ i <= n /\ n < i + EventLimit /\ n \in 1 .. Len(s)
      BY <1>1, <2>2, ObserverAssumption
    <3>2. i = n \/ s[i].kind = "part"
      <4>1. i \in Len(e) + 1 .. Len(e) + Len(t) => i - Len(e) \in 1 .. Len(t)
        BY <1>1
      <4> QED
        BY <1>1, <2>2, <4>1, SMTT(30)
    <3> QED
      BY <1>1, <3>1, <3>2
  <2> QED
    BY <1>1, <2>1, <2>2
<1> QED
  BY <1>2 DEF WholeEvents, s

(* The last setter of a count after an event is exposed. *)
LEMMA NewEventSetsInput ==
  ASSUME NEW e \in Seq(Units), NEW t \in Seq(Units), NEW u \in Units, NEW count,
         InputIsLast(e, count), \A i \in 1 .. Len(t) : t[i].kind = "part"
  PROVE  InputIsLast(e \o Append(t, u), IF SetsInput(u) THEN u.usage.input ELSE count)
<1> DEFINE s == e \o Append(t, u)
           n == Len(e) + Len(t) + 1
<1>1. /\ Len(s) = n /\ s[n] = u /\ Len(e) \in Nat /\ Len(t) \in Nat
      /\ \A i \in 1 .. Len(e) : s[i] = e[i]
      /\ \A i \in Len(e) + 1 .. Len(e) + Len(t) : s[i] = t[i - Len(e)]
  BY ExposedElements
<1> HIDE DEF s
<1>2. \A i \in Len(e) + 1 .. Len(e) + Len(t) : ~SetsInput(s[i])
  <2>1. \A i \in Len(e) + 1 .. Len(e) + Len(t) : i - Len(e) \in 1 .. Len(t)
    BY <1>1
  <2> QED
    BY <1>1, <2>1 DEF SetsInput
<1>3. \A i \in 1 .. n : i \in 1 .. Len(e) \/ i \in Len(e) + 1 .. Len(e) + Len(t) \/ i = n
  <2>1. Len(e) \in Nat /\ Len(t) \in Nat
    OBVIOUS
  <2> QED
    BY <2>1
<1>4. CASE SetsInput(u)
  BY <1>1, <1>4 DEF InputIsLast, s
<1>5. CASE ~SetsInput(u)
  <2>1. \A i \in 1 .. n : SetsInput(s[i]) => i \in 1 .. Len(e) /\ SetsInput(e[i])
    BY <1>1, <1>2, <1>3, <1>5
  <2>2. 1 .. Len(e) \subseteq 1 .. n
    BY <1>1
  <2> QED
    BY <1>1, <1>5, <2>1, <2>2 DEF InputIsLast, s
<1> QED
  BY <1>4, <1>5

(* The same of the output count. *)
LEMMA NewEventSetsOutput ==
  ASSUME NEW e \in Seq(Units), NEW t \in Seq(Units), NEW u \in Units, NEW count,
         OutputIsLast(e, count), \A i \in 1 .. Len(t) : t[i].kind = "part"
  PROVE  OutputIsLast(e \o Append(t, u), IF SetsOutput(u) THEN u.usage.output ELSE count)
<1> DEFINE s == e \o Append(t, u)
           n == Len(e) + Len(t) + 1
<1>1. /\ Len(s) = n /\ s[n] = u /\ Len(e) \in Nat /\ Len(t) \in Nat
      /\ \A i \in 1 .. Len(e) : s[i] = e[i]
      /\ \A i \in Len(e) + 1 .. Len(e) + Len(t) : s[i] = t[i - Len(e)]
  BY ExposedElements
<1> HIDE DEF s
<1>2. \A i \in Len(e) + 1 .. Len(e) + Len(t) : ~SetsOutput(s[i])
  <2>1. \A i \in Len(e) + 1 .. Len(e) + Len(t) : i - Len(e) \in 1 .. Len(t)
    BY <1>1
  <2> QED
    BY <1>1, <2>1 DEF SetsOutput
<1>3. \A i \in 1 .. n : i \in 1 .. Len(e) \/ i \in Len(e) + 1 .. Len(e) + Len(t) \/ i = n
  <2>1. Len(e) \in Nat /\ Len(t) \in Nat
    OBVIOUS
  <2> QED
    BY <2>1
<1>4. CASE SetsOutput(u)
  BY <1>1, <1>4 DEF OutputIsLast, s
<1>5. CASE ~SetsOutput(u)
  <2>1. \A i \in 1 .. n : SetsOutput(s[i]) => i \in 1 .. Len(e) /\ SetsOutput(e[i])
    BY <1>1, <1>2, <1>3, <1>5
  <2>2. 1 .. Len(e) \subseteq 1 .. n
    BY <1>1
  <2> QED
    BY <1>1, <1>5, <2>1, <2>2 DEF OutputIsLast, s
<1> QED
  BY <1>4, <1>5

-----------------------------------------------------------------------------
(* Inv holds initially, and the steps that expose nothing keep it. *)

(* A body that has not been read keeps the invariant. *)
LEMMA InitInv == Init => Inv
<1> SUFFICES ASSUME Init PROVE Inv
  OBVIOUS
<1>1. NewState \in State /\ NewState.attempt = 0
  BY MaxIntAssumption
     DEF NewState, State, EmptyObservation, BodyObservation, NoUsage, Usage, Absent, Count
<1>2. state \in State /\ state.attempt = 1 /\ state.body = EmptyObservation
  BY <1>1, FreshAttempt DEF Init
<1>3. /\ Exposed = <<>> /\ eventRaw = <<>> /\ batch = <<>> /\ wire = <<>>
      /\ output = <<>> /\ delivered = <<>> /\ <<>> \in Seq(Units)
      /\ (<<>> \o <<>>) \o <<>> = <<>>
  BY DEF Init, Exposed
<1>4. Typed
  BY <1>2, <1>3 DEF Init, Typed
<1>5. NothingIsLost /\ EventIsInProgress
  BY <1>3, ObserverAssumption DEF NothingIsLost, EventIsInProgress, Joined
<1>6. ExposedIsWhole
  BY <1>3 DEF Init, ExposedIsWhole, WholeEvents
<1>7. ReaderHasStopped
  BY DEF Init, ReaderHasStopped
<1>8. OperationKnows
  BY <1>2 DEF Init, OperationKnows, EmptyObservation
<1>9. UsageIsLast
  BY <1>2, <1>3 DEF UsageIsLast, InputIsLast, OutputIsLast, EmptyObservation, NoUsage
<1> QED
  BY <1>4, <1>5, <1>6, <1>7, <1>8, <1>9 DEF Inv

(* What is exposed is a sequence of units, and a prefix of the wire. *)
LEMMA ExposedType ==
  ASSUME Inv
  PROVE  Exposed \in Seq(Units) /\ IsPrefix(Exposed, wire)
<1>1. Exposed \in Seq(Units)
  BY DEF Inv, Typed, Exposed
<1>2. eventRaw \in Seq(Units) /\ batch \in Seq(Units)
  BY DEF Inv, Typed
<1> QED
  BY <1>1, <1>2, PrefixOfConcat DEF Inv, NothingIsLost

(* A step that neither reads nor scans nor exposes anything. *)
LEMMA QuietStep ==
  ASSUME Inv, UNCHANGED <<wire, batch, eventRaw, output, delivered, terminal>>,
         state' = state \/ state'.attempt # ThisAttempt,
         reader' # reader => reader' # "scan" /\ reader # "scan",
         closed => closed' /\ (reader \in {"idle", "loop"} => reader' \in {"idle", "loop"}),
         Typed', ReaderHasStopped', OperationKnows'
  PROVE  Inv'
<1>1. Exposed' = Exposed
  BY DEF Exposed
<1>2. NothingIsLost' /\ EventIsInProgress'
  BY <1>1 DEF Inv, NothingIsLost, EventIsInProgress, Dropped
<1>3. ExposedIsWhole'
  BY <1>1 DEF Inv, ExposedIsWhole
<1>4. UsageIsLast'
  BY <1>1 DEF Inv, UsageIsLast
<1> QED
  BY <1>2, <1>3, <1>4 DEF Inv

(* The end of the context and the next attempt keep the invariant. *)
LEMMA EnvironmentStep ==
  ASSUME Inv, (\E e \in {"canceled", "deadline"} : Cancel(e)) \/ NextAttempt
  PROVE  Inv'
<1>1. UNCHANGED observerVars
  BY DEF Cancel, NextAttempt
<1>2. \/ state' = state
      \/ state' \in State /\ state'.attempt # ThisAttempt
  BY FreshAttempt DEF Cancel, NextAttempt, ThisAttempt, Inv, Typed
<1>3. ctx' \in {"live", "canceled", "deadline"}
  BY DEF Cancel, NextAttempt, Inv, Typed
<1>4. Typed' /\ ReaderHasStopped' /\ OperationKnows'
  BY <1>1, <1>2, <1>3 DEF observerVars, Inv, Typed, ReaderHasStopped, OperationKnows
<1> QED
  BY <1>1, <1>2, <1>4, QuietStep DEF observerVars

(* A Read that begins, or enters the network, keeps the invariant. *)
LEMMA ReadStartStep ==
  ASSUME Inv, ReadBegins \/ EntersSource
  PROVE  Inv'
<1>1. /\ UNCHANGED <<state, ctx, wire, batch, readErr, eventRaw, output, pendingErr,
                     terminal, closed, source, closer, delivered, result>>
      /\ reader \in {"idle", "loop"} /\ reader' \in {"loop", "source"}
      /\ closed => reader' = "loop"
      /\ result = "none"
  BY DEF ReadBegins, EntersSource, KeepsReading, Inv, ReaderHasStopped
<1>2. Typed' /\ ReaderHasStopped' /\ OperationKnows'
  BY <1>1 DEF Inv, Typed, ReaderHasStopped, OperationKnows
<1> QED
  BY <1>1, <1>2, QuietStep

(* The error that a Read returns was recorded before. *)
LEMMA ReadReturnsErrorStep == Inv /\ ReadReturnsError => Inv'
<1> SUFFICES ASSUME Inv, ReadReturnsError PROVE Inv'
  OBVIOUS
<1>1. /\ UNCHANGED <<state, ctx, wire, batch, readErr, eventRaw, output, terminal,
                     closed, source, closer, delivered>>
      /\ reader = "loop" /\ reader' = "idle" /\ output = <<>>
      /\ pendingErr # "none" \/ terminal \/ closed
      /\ result' = IF pendingErr # "none" THEN pendingErr ELSE "EOF"
      /\ pendingErr' = "none"
  BY DEF ReadReturnsError, KeepsReading
<1>2. result = "none" /\ closed
  BY <1>1 DEF Inv, ReaderHasStopped
<1>3. Typed'
  BY <1>1 DEF Inv, Typed
<1>4. ReaderHasStopped'
  BY <1>1, <1>2 DEF Inv, ReaderHasStopped, Typed, BodyErrors
<1>5. OperationKnows'
  BY <1>1 DEF Inv, OperationKnows
<1> QED
  BY <1>1, <1>3, <1>4, <1>5, QuietStep

(* Close keeps the invariant, whatever Read is doing. *)
LEMMA CloseStep ==
  ASSUME Inv, CloseBegins \/ CloseEnds
  PROVE  Inv'
<1>1. /\ UNCHANGED <<state, ctx, wire, reader, batch, readErr, eventRaw, output,
                     pendingErr, terminal, delivered, result>>
      /\ \/ closer = "idle" /\ closed' = TRUE /\ closer' = "closing" /\ source' = source
         \/ closer = "closing" /\ closed' = closed /\ source' = "closed" /\ closer' = "done"
  BY DEF CloseBegins, CloseEnds
<1>2. Typed' /\ ReaderHasStopped' /\ OperationKnows'
  BY <1>1 DEF Inv, Typed, ReaderHasStopped, OperationKnows
<1> QED
  BY <1>1, <1>2, QuietStep DEF Inv, Typed

-----------------------------------------------------------------------------
(* The steps that move units. *)

(* What the network returns is still to be scanned. *)
LEMMA NetworkStep == Inv /\ Network => Inv'
<1> SUFFICES ASSUME Inv, NEW units \in BoundedSeq(Units, MaxBatch),
                    NEW e \in ReadErrors \cup {"none"}, SourceReturns(units, e)
             PROVE  Inv'
  BY DEF Network
<1>1. units \in Seq(Units)
  BY DEF BoundedSeq, SeqOf
<1>2. /\ reader = "source" /\ wire' = wire \o units /\ batch' = units /\ readErr' = e
      /\ reader' = IF units = <<>> /\ e = "none" THEN "idle" ELSE "scan"
      /\ UNCHANGED <<state, ctx, eventRaw, output, pendingErr, terminal, closed,
                     source, closer, delivered, result>>
  BY DEF SourceReturns
<1>3. Exposed' = Exposed
  BY <1>2 DEF Exposed
<1>4. Typed'
  <2>1. wire \o units \in Seq(Units)
    BY <1>1 DEF Inv, Typed
  <2> QED
    BY <1>1, <1>2, <2>1 DEF Inv, Typed
<1>5. NothingIsLost'
  <2> DEFINE shown == Exposed
  <2>1. /\ batch = <<>> /\ wire = Joined(shown, eventRaw, batch)
        /\ shown \in Seq(Units) /\ eventRaw \in Seq(Units)
    BY <1>2, ExposedType DEF Inv, NothingIsLost, Dropped, Typed
  <2> HIDE DEF shown
  <2>2. wire = shown \o eventRaw
    <3>1. shown \o eventRaw \in Seq(Units)
      BY <2>1
    <3>2. (shown \o eventRaw) \o <<>> = shown \o eventRaw
      BY <3>1
    <3> QED
      BY <2>1, <3>2 DEF Joined
  <2>3. wire' = Joined(shown, eventRaw', batch')
    BY <1>2, <2>2 DEF Joined
  <2>4. Exposed' = shown
    BY <1>3 DEF shown
  <2> QED
    BY <1>2, <2>3, <2>4 DEF NothingIsLost
<1>6. EventIsInProgress' /\ ExposedIsWhole' /\ UsageIsLast'
  BY <1>2, <1>3 DEF Inv, EventIsInProgress, ExposedIsWhole, UsageIsLast
<1>7. ReaderHasStopped' /\ OperationKnows'
  BY <1>2 DEF Inv, ReaderHasStopped, OperationKnows
<1> QED
  BY <1>4, <1>5, <1>6, <1>7 DEF Inv

(* What Read hands over stays exposed. *)
LEMMA ReadReturnsDataStep ==
  ASSUME Inv, NEW n \in 1 .. MaxUnits, ReadReturnsData(n)
  PROVE  Inv'
<1>1. /\ reader = "loop" /\ output # <<>> /\ n \in 1 .. Len(output)
      /\ delivered' = delivered \o SubSeq(output, 1, n)
      /\ output' = SubSeq(output, n + 1, Len(output)) /\ reader' = "idle"
      /\ UNCHANGED <<state, ctx, wire, batch, readErr, eventRaw, pendingErr, terminal,
                     closed, source, closer, result>>
  BY DEF ReadReturnsData
<1>2. delivered \in Seq(Units) /\ output \in Seq(Units)
  BY DEF Inv, Typed
<1>3. /\ SubSeq(output, 1, n) \in Seq(Units) /\ output' \in Seq(Units)
      /\ Exposed' = Exposed
  BY <1>1, <1>2, HandOver DEF Exposed
<1>4. Typed'
  <2>1. delivered' \in Seq(Units)
    BY <1>1, <1>2, <1>3
  <2> QED
    BY <1>1, <1>3, <2>1 DEF Inv, Typed
<1>5. NothingIsLost' /\ EventIsInProgress' /\ ExposedIsWhole' /\ UsageIsLast'
  BY <1>1, <1>3 DEF Inv, NothingIsLost, Dropped, EventIsInProgress, ExposedIsWhole, UsageIsLast
<1>6. ReaderHasStopped' /\ OperationKnows'
  BY <1>1 DEF Inv, ReaderHasStopped, OperationKnows
<1> QED
  BY <1>4, <1>5, <1>6 DEF Inv

(* The unit scanned next moves from the batch to the event in progress. *)
LEMMA ScannedUnit ==
  ASSUME Inv, batch # <<>>
  PROVE  /\ Head(batch) \in Units /\ Tail(batch) \in Seq(Units)
         /\ Append(eventRaw, Head(batch)) \in Seq(Units)
         /\ Joined(Exposed, eventRaw, batch)
              = Joined(Exposed, Append(eventRaw, Head(batch)), Tail(batch))
<1> DEFINE e == Exposed
<1>1. e \in Seq(Units) /\ eventRaw \in Seq(Units) /\ batch \in Seq(Units)
  BY ExposedType DEF Inv, Typed
<1> HIDE DEF e
<1>2. /\ Head(batch) \in Units /\ Tail(batch) \in Seq(Units)
      /\ Append(eventRaw, Head(batch)) \in Seq(Units)
      /\ Joined(e, eventRaw, batch) = Joined(e, Append(eventRaw, Head(batch)), Tail(batch))
  BY <1>1, MoveUnit
<1> QED
  BY <1>2 DEF e

(* A parse error drops the event in progress and what follows. *)
LEMMA ScanErrorStep == Inv /\ ScanError => Inv'
<1> SUFFICES ASSUME Inv, ScanError PROVE Inv'
  OBVIOUS
<1>1. /\ reader = "scan" /\ pendingErr' # "none" /\ pendingErr' \in BodyErrors
      /\ state' = RecordError(state, ThisAttempt, pendingErr')
      /\ eventRaw' = <<>> /\ batch' = <<>> /\ reader' = "loop"
      /\ closed' = TRUE /\ source' = "closed"
      /\ UNCHANGED <<ctx, wire, readErr, output, terminal, closer, delivered, result>>
  BY DEF ScanError, ReadCloses, ParseError, BodyErrors
<1>2. /\ state' \in State /\ state'.attempt = state.attempt
      /\ state'.body.terminal = state.body.terminal
      /\ state.attempt = ThisAttempt => state'.body.err # "none"
  BY <1>1, RecordErrorFacts DEF Inv, Typed
<1>3. Exposed' = Exposed
  BY <1>1 DEF Exposed
<1>4. Typed'
  BY <1>1, <1>2 DEF Inv, Typed
<1>5. NothingIsLost' /\ EventIsInProgress'
  BY <1>1, <1>3, ExposedType, ObserverAssumption DEF NothingIsLost, Dropped, EventIsInProgress
<1>6. ExposedIsWhole' /\ UsageIsLast'
  BY <1>1, <1>2, <1>3 DEF Inv, ExposedIsWhole, UsageIsLast
<1>7. ReaderHasStopped' /\ OperationKnows'
  BY <1>1, <1>2 DEF Inv, ReaderHasStopped, OperationKnows
<1> QED
  BY <1>4, <1>5, <1>6, <1>7 DEF Inv

(* A part joins the event in progress. *)
LEMMA ScanPartStep == Inv /\ ScanPart => Inv'
<1> SUFFICES ASSUME Inv, ScanPart PROVE Inv'
  OBVIOUS
<1> DEFINE u == Head(batch)
<1>1. /\ reader = "scan" /\ batch # <<>> /\ u.kind = "part" /\ ParseError(u) = "none"
      /\ eventRaw' = Append(eventRaw, u) /\ batch' = Tail(batch)
      /\ UNCHANGED <<state, ctx, wire, reader, readErr, output, pendingErr, terminal,
                     closed, source, closer, delivered, result>>
  BY DEF ScanPart
<1>2. Len(eventRaw) + 1 <= EventLimit
  BY <1>1, ObserverAssumption DEF ParseError, Inv, Typed
<1>3. Exposed' = Exposed
  BY <1>1 DEF Exposed
<1>4. eventRaw \in Seq(Units) /\ batch \in Seq(Units)
  BY DEF Inv, Typed
<1>5. /\ u \in Units /\ batch' \in Seq(Units) /\ eventRaw' \in Seq(Units)
      /\ Joined(Exposed, eventRaw, batch) = Joined(Exposed, eventRaw', batch')
  BY <1>1, ScannedUnit
<1> HIDE DEF u
<1>6. Typed'
  BY <1>1, <1>5 DEF Inv, Typed
<1>7. NothingIsLost'
  BY <1>1, <1>3, <1>5 DEF Inv, NothingIsLost, Dropped
<1>8. EventIsInProgress'
  <2>1. /\ Len(eventRaw') = Len(eventRaw) + 1 /\ eventRaw'[Len(eventRaw) + 1] = u
        /\ \A i \in 1 .. Len(eventRaw) : eventRaw'[i] = eventRaw[i]
        /\ Len(eventRaw) \in Nat
    BY <1>1, <1>4, <1>5, AppendProperties
  <2> QED
    BY <1>1, <1>2, <2>1 DEF Inv, EventIsInProgress
<1>9. ExposedIsWhole' /\ ReaderHasStopped' /\ OperationKnows' /\ UsageIsLast'
  BY <1>1, <1>3 DEF Inv, ExposedIsWhole, ReaderHasStopped, OperationKnows, UsageIsLast
<1> QED
  BY <1>6, <1>7, <1>8, <1>9 DEF Inv

(* The network's error, after the batch that came with it is scanned. *)
LEMMA ScanEndsStep == Inv /\ ScanEnds => Inv'
<1> SUFFICES ASSUME Inv, ScanEnds PROVE Inv'
  OBVIOUS
<1>1. /\ reader = "scan" /\ batch = <<>> /\ reader' = "loop" /\ readErr' = "none"
      /\ UNCHANGED <<ctx, wire, batch, eventRaw, output, terminal, closer, delivered, result>>
  BY DEF ScanEnds
<1>2. /\ state' \in State /\ state'.attempt = state.attempt
      /\ state'.body.terminal = state.body.terminal
      /\ \/ /\ pendingErr' \in BodyErrors /\ pendingErr' # "none"
            /\ closed' = TRUE /\ source' = "closed"
            /\ state.attempt = ThisAttempt => state'.body.err # "none"
         \/ UNCHANGED <<pendingErr, state, closed, source>>
  <2>1. CASE readErr # "none"
    <3>1. /\ pendingErr' = StreamReadError(readErr) /\ closed' = TRUE /\ source' = "closed"
          /\ state' = RecordError(state, ThisAttempt, pendingErr')
      BY <2>1 DEF ScanEnds, ReadCloses
    <3>2. pendingErr' \in BodyErrors /\ pendingErr' # "none"
      BY <2>1, <3>1 DEF StreamReadError, BodyErrors, ReadErrors, Inv, Typed
    <3> QED
      BY <3>1, <3>2, RecordErrorFacts DEF Inv, Typed
  <2>2. CASE readErr = "none"
    BY <2>2 DEF ScanEnds, Inv, Typed
  <2> QED
    BY <2>1, <2>2
<1>3. Exposed' = Exposed
  BY <1>1 DEF Exposed
<1>4. Typed'
  BY <1>1, <1>2 DEF Inv, Typed
<1>5. NothingIsLost'
  BY <1>1, <1>3 DEF Inv, NothingIsLost, Dropped
<1>6. EventIsInProgress' /\ ExposedIsWhole' /\ UsageIsLast'
  BY <1>1, <1>2, <1>3 DEF Inv, EventIsInProgress, ExposedIsWhole, UsageIsLast
<1>7. ReaderHasStopped' /\ OperationKnows'
  BY <1>1, <1>2 DEF Inv, ReaderHasStopped, OperationKnows
<1> QED
  BY <1>4, <1>5, <1>6, <1>7 DEF Inv

(* A complete event is exposed with the parts before it, and observed; a   *)
(* terminal one ends the stream.                                           *)
LEMMA ScanEventStep == Inv /\ ScanEvent => Inv'
<1> SUFFICES ASSUME Inv, ScanEvent PROVE Inv'
  OBVIOUS
<1> DEFINE u == Head(batch)
           x == Append(eventRaw, u)
           o == ObservedEvent(state.body, u)
<1>1. /\ reader = "scan" /\ batch # <<>> /\ u.kind # "part" /\ ParseError(u) = "none"
      /\ output' = output \o x /\ eventRaw' = <<>>
      /\ state' = UpdateBodyForAttempt(state, ThisAttempt, o)
      /\ UNCHANGED <<ctx, wire, pendingErr, closer, delivered, result>>
  BY DEF ScanEvent
<1>2. IF u.kind = "stop"
      THEN /\ terminal' = TRUE /\ batch' = <<>> /\ readErr' = "none" /\ reader' = "loop"
           /\ closed' = TRUE /\ source' = "closed"
      ELSE /\ batch' = Tail(batch)
           /\ UNCHANGED <<readErr, reader, terminal, closed, source>>
  BY DEF ScanEvent, EndsStream, ReadCloses
<1>3. /\ state \in State /\ eventRaw \in Seq(Units) /\ batch \in Seq(Units)
      /\ output \in Seq(Units) /\ delivered \in Seq(Units) /\ wire \in Seq(Units)
      /\ Exposed \in Seq(Units) /\ terminal \in BOOLEAN
  BY ExposedType DEF Inv, Typed
<1>4. /\ u \in Units /\ x \in Seq(Units) /\ Tail(batch) \in Seq(Units)
      /\ Joined(Exposed, eventRaw, batch) = Joined(Exposed, x, Tail(batch))
  BY <1>1, ScannedUnit
<1>5. /\ output \o x \in Seq(Units)
      /\ delivered \o (output \o x) = (delivered \o output) \o x
  <2>1. x \in Seq(Units) /\ output \in Seq(Units) /\ delivered \in Seq(Units)
    BY <1>3, <1>4
  <2> HIDE DEF x
  <2> QED
    BY <2>1, ExposeMore
<1>6. Exposed' = Exposed \o x
  BY <1>1, <1>5 DEF Exposed
<1>7. /\ ~terminal /\ pendingErr = "none" /\ result = "none"
      /\ \A i \in 1 .. Len(Exposed) : Exposed[i].kind # "stop"
  <2>1. ~terminal /\ pendingErr = "none" /\ result = "none"
    BY <1>1 DEF Inv, ReaderHasStopped
  <2>2. ASSUME NEW i \in 1 .. Len(Exposed), Exposed[i].kind = "stop" PROVE FALSE
    <3>1. i = Len(Exposed)
      BY <2>2 DEF Inv, ExposedIsWhole, WholeEvents
    <3>2. Exposed # <<>>
      BY <2>2
    <3> QED
      BY <2>1, <2>2, <3>1, <3>2 DEF Inv, ExposedIsWhole
  <2> QED
    BY <2>1, <2>2
<1>8. /\ u \in Event /\ u.kind \notin {"bad", "badUsage"} /\ Len(eventRaw) + 1 <= EventLimit
  <2>1. u \in Event
    BY <1>1, <1>4, UnitType
  <2>2. ~(Len(eventRaw) + 1 > EventLimit) /\ u.kind \notin {"bad", "badUsage"}
    BY <1>1 DEF ParseError
  <2>3. Len(eventRaw) \in Nat
    BY <1>3
  <2> QED
    BY <2>1, <2>2, <2>3, ObserverAssumption
<1>9. /\ o \in BodyObservation
      /\ state.body.err # "none" => o.err # "none"
      /\ o.terminal = (state.body.terminal \/ u.kind = "stop")
      /\ o.err = "none" =>
           /\ o.usage.input = IF SetsInput(u) THEN u.usage.input ELSE state.body.usage.input
           /\ o.usage.output = IF SetsOutput(u) THEN u.usage.output ELSE state.body.usage.output
  BY <1>3, <1>8, ObservedEventFacts DEF State
<1>10. /\ \A i \in 1 .. Len(eventRaw) : eventRaw[i].kind = "part"
       /\ WholeEvents(Exposed)
  BY DEF Inv, EventIsInProgress, ExposedIsWhole
<1> HIDE DEF o
<1>11. /\ state' \in State /\ state'.attempt = state.attempt
       /\ state.attempt = ThisAttempt => state'.body = o
  <2>1. state' = IF state.attempt = ThisAttempt THEN [state EXCEPT !.body = o] ELSE state
    BY <1>1 DEF UpdateBodyForAttempt
  <2>2. CASE state.attempt = ThisAttempt
    <3>1. state' = [state EXCEPT !.body = o]
      BY <2>1, <2>2
    <3> QED
      BY <1>3, <1>9, <3>1 DEF State
  <2>3. CASE state.attempt # ThisAttempt
    BY <1>3, <2>1, <2>3
  <2> QED
    BY <2>2, <2>3
<1>12. /\ WholeEvents(Exposed \o x)
       /\ Exposed \o x # <<>>
       /\ (Exposed \o x)[Len(Exposed \o x)] = u
  <2>1. WholeEvents(Exposed \o Append(eventRaw, u))
    BY <1>1, <1>3, <1>4, <1>7, <1>8, <1>10, NewEventIsWhole
  <2>2. /\ Len(Exposed \o Append(eventRaw, u)) = Len(Exposed) + Len(eventRaw) + 1
        /\ (Exposed \o Append(eventRaw, u))[Len(Exposed) + Len(eventRaw) + 1] = u
    BY <1>3, <1>4, ExposedElements
  <2>3. Len(Exposed) \in Nat /\ Len(eventRaw) \in Nat /\ Len(<<>>) = 0
    BY <1>3
  <2> QED
    BY <2>1, <2>2, <2>3
<1>13. UsageIsLast'
  <2>1. SUFFICES ASSUME state'.attempt = ThisAttempt, state'.body.err = "none"
                 PROVE  /\ InputIsLast(Exposed', state'.body.usage.input)
                        /\ OutputIsLast(Exposed', state'.body.usage.output)
    BY DEF UsageIsLast
  <2>2. /\ state.attempt = ThisAttempt /\ state'.body = o /\ o.err = "none"
        /\ state.body.err = "none"
    BY <1>9, <1>11, <2>1
  <2>3. /\ InputIsLast(Exposed, state.body.usage.input)
        /\ OutputIsLast(Exposed, state.body.usage.output)
    BY <2>2 DEF Inv, UsageIsLast
  <2>4. InputIsLast(Exposed \o x,
                    IF SetsInput(u) THEN u.usage.input ELSE state.body.usage.input)
    BY <1>3, <1>4, <1>10, <2>3, NewEventSetsInput
  <2>5. OutputIsLast(Exposed \o x,
                     IF SetsOutput(u) THEN u.usage.output ELSE state.body.usage.output)
    BY <1>3, <1>4, <1>10, <2>3, NewEventSetsOutput
  <2> HIDE DEF x, u
  <2> QED
    BY <1>6, <1>9, <2>2, <2>4, <2>5
<1>14. NothingIsLost'
  <2> DEFINE e == Exposed \o x
             r == Tail(batch)
  <2>1. wire = e \o r
    BY <1>1, <1>4 DEF Inv, NothingIsLost, Dropped, Joined
  <2>2. e \in Seq(Units) /\ r \in Seq(Units) /\ <<>> \in Seq(Units)
    BY <1>3, <1>4
  <2>3. IF u.kind = "stop"
        THEN batch' = <<>> /\ reader' = "loop" /\ closed' = TRUE
        ELSE batch' = r /\ reader' = "scan"
    BY <1>1, <1>2
  <2>4. Exposed' = e /\ eventRaw' = <<>> /\ wire' = wire
    BY <1>1, <1>6
  <2> HIDE DEF e, r, x, u, o
  <2>5. e \o <<>> = e /\ Joined(e, r, <<>>) = e \o r
    BY <2>2 DEF Joined
  <2>6. IsPrefix(e, Joined(e, r, <<>>))
    BY <2>2, PrefixOfConcat
  <2>7. e \o r = Joined(e, <<>>, r)
    BY <2>5 DEF Joined
  <2> QED
    BY <2>1, <2>3, <2>4, <2>5, <2>6, <2>7 DEF NothingIsLost, Dropped
<1> HIDE DEF x, u
<1>15. Typed'
  <2>1. output' \in Seq(Units)
    BY <1>1, <1>5
  <2>2. <<>> \in Seq(Units)
    OBVIOUS
  <2>3. batch' \in Seq(Units)
    BY <1>2, <1>4, <2>2
  <2>4. eventRaw' \in Seq(Units)
    BY <1>1, <2>2
  <2> QED
    BY <1>1, <1>2, <1>11, <2>1, <2>3, <2>4 DEF Inv, Typed
<1>16. ExposedIsWhole'
  BY <1>2, <1>6, <1>7, <1>12 DEF ExposedIsWhole
<1>17. EventIsInProgress'
  BY <1>1, ObserverAssumption DEF EventIsInProgress
<1>18. ReaderHasStopped'
  BY <1>1, <1>2, <1>7 DEF Inv, ReaderHasStopped
<1>19. OperationKnows'
  BY <1>1, <1>2, <1>3, <1>7, <1>9, <1>11 DEF Inv, OperationKnows
<1> QED
  BY <1>13, <1>14, <1>15, <1>16, <1>17, <1>18, <1>19 DEF Inv

-----------------------------------------------------------------------------
(* Inv is inductive, and what follows from it. *)

(* Every step of the reader, the network and Close keeps the invariant. *)
LEMMA NextInv == Inv /\ [Next]_vars => Inv'
<1> SUFFICES ASSUME Inv, [Next]_vars PROVE Inv'
  OBVIOUS
<1>1. CASE UNCHANGED vars
  BY <1>1 DEF vars, observerVars, Inv, Typed, NothingIsLost, Dropped, EventIsInProgress,
              ExposedIsWhole, Exposed, ReaderHasStopped, OperationKnows, UsageIsLast
<1>2. CASE (\E e \in {"canceled", "deadline"} : Cancel(e)) \/ NextAttempt
  BY <1>2, EnvironmentStep
<1>3. CASE Network
  BY <1>3, NetworkStep
<1>4. CASE Read
  BY <1>4, ReadStartStep, ScanErrorStep, ScanPartStep, ScanEventStep, ScanEndsStep,
     ReadReturnsDataStep, ReadReturnsErrorStep DEF Read, Scan
<1>5. CASE CloseBegins \/ CloseEnds
  BY <1>5, CloseStep
<1> QED
  BY <1>1, <1>2, <1>3, <1>4, <1>5 DEF Next

(* The inductive invariant holds in every state of an observed body.       *)
THEOREM InvHolds == Spec => []Inv
<1> QED
  BY InitInv, NextInv, PTL DEF Spec

(* ExposesWholeEvents: however the network cuts and joins the events, the  *)
(* SDK is handed a prefix of the body that consists of whole, legal events *)
(* and ends at the terminal one.                                           *)
THEOREM OnlyWholeEvents == Spec => []ExposesWholeEvents
<1>1. Inv => ExposesWholeEvents
  <2> SUFFICES ASSUME Inv PROVE ExposesWholeEvents
    OBVIOUS
  <2>1. Exposed \in Seq(Units) /\ IsPrefix(Exposed, wire)
    BY ExposedType
  <2>2. DOMAIN Exposed = 1 .. Len(Exposed)
    BY <2>1
  <2>3. WholeEvents(Exposed)
    BY DEF Inv, ExposedIsWhole
  <2> QED
    BY <2>1, <2>2, <2>3 DEF ExposesWholeEvents, WholeEvents
<1> QED
  BY <1>1, InvHolds, PTL

(* CleanEndIsComplete: the SDK sees EOF only behind the terminal event,    *)
(* unless somebody has called Close.                                       *)
THEOREM EndIsClean == Spec => []CleanEndIsComplete
<1>1. Inv => CleanEndIsComplete
  <2> SUFFICES ASSUME Inv, result = "EOF", closer = "idle"
               PROVE  /\ delivered # <<>> /\ Last(delivered).kind = "stop"
                      /\ state.attempt = ThisAttempt => state.body.terminal
    BY DEF CleanEndIsComplete
  <2>1. terminal /\ output = <<>> /\ delivered \in Seq(Units)
    BY DEF Inv, ReaderHasStopped, Typed
  <2>2. delivered \o <<>> = delivered
    BY <2>1
  <2>3. Exposed = delivered
    BY <2>1, <2>2 DEF Exposed
  <2> QED
    BY <2>1, <2>3 DEF Inv, ExposedIsWhole, OperationKnows, Last
<1> QED
  BY <1>1, InvHolds, PTL

(* EndIsRecorded: the operation knows of every error before the SDK, and   *)
(* of the completion exactly when the terminal event is exposed.           *)
THEOREM OperationKnowsTheEnd == Spec => []EndIsRecorded
<1>1. Inv => EndIsRecorded
  BY DEF Inv, EndIsRecorded, OperationKnows, ExposedIsWhole, Last
<1> QED
  BY <1>1, InvHolds, PTL

(* SourceIsReleased: a Read that has ended the stream leaves the network   *)
(* body closed, or to a Close that is about to close it.                   *)
THEOREM BodyIsReleased == Spec => []SourceIsReleased
<1>1. Inv => SourceIsReleased
  BY DEF Inv, SourceIsReleased, ReaderHasStopped
<1> QED
  BY <1>1, InvHolds, PTL

(* The last setter of a count is the greatest. *)
LEMMA GreatestIsMax ==
  ASSUME NEW S \in SUBSET Nat, NEW m \in S, \A i \in S : i <= m
  PROVE  Max(S) = m
<1> DEFINE P(x) == x \in S /\ \A y \in S : x >= y
<1>1. \A x \in S : x \in Nat
  OBVIOUS
<1>2. P(m)
  BY <1>1
<1>3. \A x : P(x) => x = m
  BY <1>1
<1>4. (CHOOSE x : P(x)) = m
  <2> HIDE DEF P
  <2> QED
    BY <1>2, <1>3
<1>5. Max(S) = CHOOSE x : P(x)
  BY DEF Max
<1> QED
  BY <1>4, <1>5

(* With the invariant, the usage observed is that of the wire. *)
LEMMA InvGivesUsage == Inv => UsageIsThatOfTheWire
<1> SUFFICES ASSUME Inv, state.attempt = ThisAttempt, state.body.err = "none"
             PROVE  /\ state.body.usage.input = LastCount(InputSetters, "input")
                    /\ state.body.usage.output = LastCount(OutputSetters, "output")
  BY DEF UsageIsThatOfTheWire
<1>1. /\ InputIsLast(Exposed, state.body.usage.input)
      /\ OutputIsLast(Exposed, state.body.usage.output)
  BY DEF Inv, UsageIsLast
<1>2. /\ DOMAIN Exposed = 1 .. Len(Exposed) /\ Len(Exposed) \in Nat
      /\ 1 .. Len(Exposed) \subseteq Nat
  BY ExposedType
<1>3. /\ InputSetters = {i \in 1 .. Len(Exposed) : SetsInput(Exposed[i])}
      /\ InputSetters \in SUBSET Nat
  BY <1>2 DEF InputSetters, SetsInput
<1>4. /\ OutputSetters = {i \in 1 .. Len(Exposed) : SetsOutput(Exposed[i])}
      /\ OutputSetters \in SUBSET Nat
  BY <1>2 DEF OutputSetters, SetsOutput
<1>5. state.body.usage.input = LastCount(InputSetters, "input")
  <2>1. CASE InputSetters = {}
    BY <1>1, <1>3, <2>1 DEF InputIsLast, LastCount
  <2>2. CASE InputSetters # {}
    <3>1. PICK m \in InputSetters :
            /\ state.body.usage.input = Exposed[m].usage.input
            /\ \A i \in InputSetters : i <= m
      BY <1>1, <1>3, <2>2 DEF InputIsLast
    <3>2. Max(InputSetters) = m
      BY <1>3, <3>1, GreatestIsMax
    <3> QED
      BY <2>2, <3>1, <3>2 DEF LastCount
  <2> QED
    BY <2>1, <2>2
<1>6. state.body.usage.output = LastCount(OutputSetters, "output")
  <2>1. CASE OutputSetters = {}
    BY <1>1, <1>4, <2>1 DEF OutputIsLast, LastCount
  <2>2. CASE OutputSetters # {}
    <3>1. PICK m \in OutputSetters :
            /\ state.body.usage.output = Exposed[m].usage.output
            /\ \A i \in OutputSetters : i <= m
      BY <1>1, <1>4, <2>2 DEF OutputIsLast
    <3>2. Max(OutputSetters) = m
      BY <1>4, <3>1, GreatestIsMax
    <3> QED
      BY <2>2, <3>1, <3>2 DEF LastCount
  <2> QED
    BY <2>1, <2>2
<1> QED
  BY <1>5, <1>6

(* UsageIsThatOfTheWire: the counts the operation has observed are those   *)
(* of the last events that set them.                                       *)
THEOREM UsageIsObserved == Spec => []UsageIsThatOfTheWire
BY InvGivesUsage, InvHolds, PTL

-----------------------------------------------------------------------------
(* The stream *)

(* The types of the variables. *)
Errors == BodyErrors \cup {"none", "EOF", "decode", "panic"}
Items == [type : {"message", "error", "usage", "EOF"}, id : Nat, keep : BOOLEAN,
          err : Errors]

StreamTyped ==
  /\ sdk \in {"loop", "send", "ending", "done"} /\ decoded \in Nat /\ sdkItem \in Items
  /\ norm \in {"recv", "got", "send", "ending", "done"} /\ normItem \in Items
  /\ sdkPipe \in Pipes(Items) /\ outPipe \in Pipes(Items)
  /\ produced \in Seq(Nat) /\ received \in Seq(Nat) /\ closing \in BOOLEAN
  /\ end \in {"open", "EOF", "error", "closed"}

(* Only the SDK reads the body, and only when it has decoded everything it *)
(* was handed; it ends after having closed the body.                       *)
BodyIsTheSDKs ==
  /\ state.attempt = ThisAttempt /\ Len(wire) <= MaxUnits
  /\ decoded <= Len(delivered)
  /\ reader # "idle" => sdk = "loop" /\ decoded = Len(delivered)
  /\ closer # "idle" => closed
  /\ sdk = "done" => closer = "done"
  /\ sdkPipe.sendClosed => sdk = "done"

(* Messages are numbered upwards, in the list of those produced and in the *)
(* queue of the SDK's pipe.  An error ends the SDK's sending.              *)
Kept(item) == item.type = "message" /\ item.keep

ProducedInOrder ==
  \A j \in 1 .. Len(produced) :
    produced[j] <= decoded /\ \A i \in 1 .. j - 1 : produced[i] < produced[j]

QueueIsInOrder ==
  \A k \in 1 .. Len(sdkPipe.queue) :
    LET item == sdkPipe.queue[k]
    IN  /\ \/ item.type = "message" /\ item.id <= decoded
           \/ item.type = "error" /\ item.keep /\ sdk \in {"ending", "done"}
        /\ item.type = "message" =>
             \A l \in 1 .. k - 1 :
               sdkPipe.queue[l].type = "message" => sdkPipe.queue[l].id < item.id

SDKHoldsTheLatest ==
  sdk = "send" =>
    \/ sdkItem.type = "error" /\ sdkItem.keep
    \/ /\ sdkItem.type = "message" /\ sdkItem.id = decoded
       /\ \A k \in 1 .. Len(sdkPipe.queue) :
            sdkPipe.queue[k].type = "message" => sdkPipe.queue[k].id < decoded
       /\ sdkItem.keep => produced # <<>> /\ produced[Len(produced)] = decoded

(* How many messages have been put before the caller, and how many have    *)
(* left the SDK's pipe, as long as the goroutine between them has seen     *)
(* neither an error nor the end.                                           *)
Receiving == norm \in {"recv", "got"} \/ (norm = "send" /\ normItem.type = "message")

HandedOver ==
  Len(received) + (IF outPipe.queue # <<>> /\ outPipe.queue[1].type = "message" THEN 1 ELSE 0)

Passed == HandedOver + (IF norm \in {"got", "send"} /\ Kept(normItem) THEN 1 ELSE 0)

InFlight(id) ==
  \/ \E k \in 1 .. Len(sdkPipe.queue) : Kept(sdkPipe.queue[k]) /\ sdkPipe.queue[k].id = id
  \/ sdk = "send" /\ Kept(sdkItem) /\ sdkItem.id = id

(* The messages that have not left the SDK's pipe are in it or on their    *)
(* way into it, unless a cancellation has closed it.                       *)
NothingIsDropped ==
  Receiving /\ ~sdkPipe.recvClosed =>
    /\ Passed <= Len(produced)
    /\ \A j \in Passed + 1 .. Len(produced) : InFlight(produced[j])
    /\ \A k \in 1 .. Len(sdkPipe.queue) :
         Kept(sdkPipe.queue[k]) =>
           \E j \in Passed + 1 .. Len(produced) : sdkPipe.queue[k].id = produced[j]
    /\ sdk = "send" /\ Kept(sdkItem) => Passed < Len(produced)

(* What the goroutine holds: the next message, an error, or the end.       *)
NormHoldsTheNext ==
  /\ Receiving /\ sdkPipe.recvClosed => ctx # "live"
  /\ norm = "got" =>
       \/ normItem.type = "message"
       \/ normItem.type = "error" /\ normItem.keep
       \/ normItem = EOFItem /\ sdkPipe.sendClosed /\ sdkPipe.queue = <<>>
  /\ norm = "send" => normItem.type \in {"message", "error", "usage"} /\ normItem.keep
  /\ Kept(normItem) /\ (norm = "send" \/ (norm = "got" /\ ~sdkPipe.recvClosed)) =>
       Passed <= Len(produced) /\ normItem.id = produced[Passed]

(* The response is complete, and the SDK has ended. *)
Answered == sdk = "done" /\ state.body.terminal /\ state.body.err = "none"
UsageIsKnown == TokenUsage(state.body.usage).known

(* The caller has the first of the messages; at most one item awaits it.   *)
CallerHasTheFirst ==
  /\ Len(received) <= Len(produced)
  /\ \A i \in 1 .. Len(received) : received[i] = produced[i]
  /\ Len(outPipe.queue) <= 1
  /\ outPipe.queue # <<>> =>
       LET item == outPipe.queue[1]
       IN  /\ ~closing
           /\ \/ /\ item.type = "message" /\ Len(received) < Len(produced)
                 /\ item.id = produced[Len(received) + 1]
              \/ item.type = "error" /\ norm \in {"ending", "done"}
              \/ /\ item.type = "usage" /\ norm \in {"ending", "done"}
                 /\ Answered /\ UsageIsKnown /\ Len(received) = Len(produced)

(* The goroutine ends the stream without an error only when everything of  *)
(* a completed response has been put before the caller.                    *)
EndIsEarned ==
  /\ norm = "send" /\ normItem.type = "usage" =>
       Answered /\ UsageIsKnown /\ HandedOver = Len(produced)
  /\ closing =>
       /\ norm \in {"ending", "done"} /\ Answered /\ UsageIsKnown
       /\ Len(received) = Len(produced)
  /\ norm \in {"ending", "done"} /\ end = "open" =>
       \/ outPipe.queue # <<>> /\ outPipe.queue[1].type \in {"error", "usage"}
       \/ closing
       \/ Answered /\ ~UsageIsKnown /\ HandedOver = Len(produced)
  /\ outPipe.sendClosed => norm = "done"
  /\ outPipe.recvClosed => end # "open"
  /\ end = "EOF" =>
       /\ norm = "done" /\ Answered /\ (closing <=> UsageIsKnown)
       /\ Len(received) = Len(produced)

StreamInv ==
  /\ Inv /\ StreamTyped /\ BodyIsTheSDKs
  /\ ProducedInOrder /\ QueueIsInOrder /\ SDKHoldsTheLatest
  /\ NothingIsDropped /\ NormHoldsTheNext /\ CallerHasTheFirst /\ EndIsEarned

-----------------------------------------------------------------------------
(* The body *)

(* Every step of the stream is a step of the body observer, or leaves what *)
(* it works on alone.                                                      *)
LEMMA BodyStepKeepsInv == Inv /\ [StreamNext]_allVars => Inv'
<1> SUFFICES ASSUME [StreamNext]_allVars PROVE [Next]_vars
  BY NextInv
<1>1. CASE UNCHANGED allVars
  BY <1>1 DEF allVars, vars
<1>2. CASE StreamNetwork
  BY <1>2 DEF StreamNetwork, Next
<1>3. CASE StreamRead
  BY <1>3 DEF StreamRead, Next, Read
<1>4. CASE SDK
  <2>1. CASE SDKReads
    BY <2>1 DEF SDKReads, Next, Read
  <2>2. CASE SDKCloses \/ SDKClosed
    BY <2>2 DEF SDKCloses, SDKClosed, Next
  <2>3. CASE \/ SDKSkips \/ SDKStops \/ SDKRejects \/ SDKEnds \/ SDKSends \/ SDKFinishes
             \/ \E keep \in BOOLEAN : SDKDecodes(keep)
    BY <2>3 DEF SDKSkips, SDKStops, SDKRejects, SDKEnds, SDKSends, SDKFinishes, SDKDecodes,
                vars
  <2> QED
    BY <1>4, <2>1, <2>2, <2>3 DEF SDK
<1>5. CASE Normalize \/ CancellationCloses
  BY <1>5 DEF Normalize, NormReceives, NormDecides, NormSends, NormPanics, NormEnds,
              CancellationCloses, NormUnchanged, vars
<1>6. CASE CallerReceives \/ CallerCloses
  BY <1>6 DEF CallerReceives, CallerCloses, vars
<1>7. CASE \E e \in ContextErrors : CallerCancels(e)
  BY <1>7, PipeAssumption DEF CallerCancels, Next
<1> QED
  BY <1>1, <1>2, <1>3, <1>4, <1>5, <1>6, <1>7 DEF StreamNext

(* A step on the body changes the operation's state only while the SDK is  *)
(* reading, so that it disturbs nothing said of the messages.              *)
LEMMA StepOnTheBody ==
  ASSUME StreamInv, Inv', UNCHANGED streamVars, state' = state \/ sdk = "loop",
         ctx' = ctx \/ ctx' # "live", BodyIsTheSDKs'
  PROVE  StreamInv'
<1>1. UNCHANGED <<sdk, decoded, sdkItem, sdkPipe, norm, normItem, outPipe, produced, received,
                  closing, end>>
  BY DEF streamVars, sdkVars, normVars, callerVars
<1>2. StreamTyped'
  BY <1>1 DEF StreamInv, StreamTyped
<1>3. ProducedInOrder' /\ QueueIsInOrder' /\ SDKHoldsTheLatest'
  BY <1>1 DEF StreamInv, ProducedInOrder, QueueIsInOrder, SDKHoldsTheLatest
<1>4. UNCHANGED <<Receiving, HandedOver, Passed>>
  BY <1>1 DEF Receiving, HandedOver, Passed, Kept
<1>5. NothingIsDropped'
  BY <1>1, <1>4 DEF StreamInv, NothingIsDropped, InFlight
<1>6. NormHoldsTheNext'
  BY <1>1, <1>4 DEF StreamInv, NormHoldsTheNext
<1>7. /\ Answered => Answered' /\ UsageIsKnown' = UsageIsKnown
  BY <1>1 DEF Answered, UsageIsKnown
<1>8. CallerHasTheFirst'
  BY <1>1, <1>7 DEF StreamInv, CallerHasTheFirst
<1>9. EndIsEarned'
  BY <1>1, <1>4, <1>7 DEF StreamInv, EndIsEarned
<1> QED
  BY <1>2, <1>3, <1>5, <1>6, <1>8, <1>9 DEF StreamInv

(* What is delivered is not longer than the wire. *)
LEMMA DeliveredIsBounded ==
  ASSUME Inv
  PROVE  Len(delivered) \in Nat /\ Len(wire) \in Nat /\ Len(delivered) <= Len(wire)
<1>1. delivered \in Seq(Units) /\ output \in Seq(Units) /\ wire \in Seq(Units)
  BY DEF Inv, Typed
<1>2. Len(Exposed) = Len(delivered) + Len(output)
  BY <1>1 DEF Exposed
<1>3. IsPrefix(Exposed, wire) /\ Exposed \in Seq(Units)
  BY ExposedType
<1>4. Len(Exposed) <= Len(wire)
  BY <1>1, <1>3 DEF IsPrefix
<1> QED
  BY <1>1, <1>2, <1>4

(* The SDK starts reading. *)
LEMMA SDKReadsStep == StreamInv /\ Inv' /\ SDKReads => StreamInv'
<1> SUFFICES ASSUME StreamInv, Inv', SDKReads PROVE StreamInv'
  OBVIOUS
<1>1. BodyIsTheSDKs'
  BY DEF SDKReads, ReadBegins, streamVars, sdkVars, StreamInv, BodyIsTheSDKs
<1> QED
  BY <1>1, StepOnTheBody DEF SDKReads, ReadBegins

(* The network returns something to the SDK's Read. *)
LEMMA StreamNetworkStep == StreamInv /\ Inv' /\ StreamNetwork => StreamInv'
<1> SUFFICES ASSUME StreamInv, Inv', NEW units \in BoundedSeq(Units, MaxBatch),
                    NEW e \in ReadErrors \cup {"none"}, SourceReturns(units, e),
                    UNCHANGED streamVars
             PROVE  StreamInv'
  BY DEF StreamNetwork, Network
<1>1. /\ reader = "source" /\ Len(wire) + Len(units) <= MaxUnits /\ wire' = wire \o units
      /\ UNCHANGED <<state, ctx, closed, closer, delivered>>
      /\ UNCHANGED <<sdk, decoded, sdkPipe>>
  BY DEF SourceReturns, streamVars, sdkVars
<1>2. Len(wire') = Len(wire) + Len(units)
  <2>1. units \in Seq(Units)
    BY DEF BoundedSeq, SeqOf
  <2>2. wire \in Seq(Units)
    BY DEF StreamInv, Inv, Typed
  <2> QED
    BY <1>1, <2>1, <2>2
<1>3. BodyIsTheSDKs'
  BY <1>1, <1>2 DEF StreamInv, BodyIsTheSDKs
<1> QED
  BY <1>1, <1>3, StepOnTheBody

(* The SDK's Read runs in the observer. *)
LEMMA StreamReadStep == StreamInv /\ Inv' /\ StreamRead => StreamInv'
<1> SUFFICES ASSUME StreamInv, Inv', StreamRead PROVE StreamInv'
  OBVIOUS
<1>1. /\ UNCHANGED <<ctx, wire, closer>> /\ UNCHANGED streamVars
      /\ (closed => closed') /\ reader # "idle"
      /\ UNCHANGED delivered \/ reader' = "idle"
  <2>1. CASE EntersSource
    BY <2>1 DEF StreamRead, EntersSource
  <2>2. CASE ReadReturnsError
    BY <2>2 DEF StreamRead, ReadReturnsError
  <2>3. CASE \E n \in 1 .. MaxUnits : ReadReturnsData(n)
    BY <2>3 DEF StreamRead, ReadReturnsData
  <2>4. CASE ScanError
    BY <2>4 DEF StreamRead, ScanError, ReadCloses
  <2>5. CASE ScanPart
    BY <2>5 DEF StreamRead, ScanPart
  <2>6. CASE ScanEvent
    BY <2>6 DEF StreamRead, ScanEvent, ReadCloses
  <2>7. CASE ScanEnds
    BY <2>7 DEF StreamRead, ScanEnds, ReadCloses
  <2> QED
    BY <2>1, <2>2, <2>3, <2>4, <2>5, <2>6, <2>7 DEF StreamRead, Scan
<1>2. Len(delivered) <= Len(delivered')
  <2>1. CASE \E n \in 1 .. MaxUnits : ReadReturnsData(n)
    <3>1. PICK n \in 1 .. MaxUnits : ReadReturnsData(n)
      BY <2>1
    <3>2. delivered' = delivered \o SubSeq(output, 1, n) /\ n \in 1 .. Len(output)
      BY <3>1 DEF ReadReturnsData
    <3>3. delivered \in Seq(Units) /\ output \in Seq(Units)
      BY DEF StreamInv, Inv, Typed
    <3>4. SubSeq(output, 1, n) \in Seq(Units)
      BY <3>2, <3>3
    <3> QED
      BY <3>2, <3>3, <3>4
  <2>2. CASE delivered' = delivered
    BY <2>2, DeliveredIsBounded DEF StreamInv
  <2> QED
    BY <2>1, <2>2
       DEF StreamRead, EntersSource, ReadReturnsError, Scan, ScanError, ScanPart, ScanEvent,
           ScanEnds
<1>3. UNCHANGED <<sdk, decoded, sdkPipe>> /\ state'.attempt = state.attempt
  <2>1. state' \in State /\ state \in State
    BY DEF StreamInv, Inv, Typed
  <2>2. state'.attempt = state.attempt
    <3>1. CASE state' = state
      BY <3>1
    <3>2. CASE ScanError \/ ScanEnds
      <4>1. \/ state' = state
            \/ pendingErr' # "none" /\ state' = RecordError(state, ThisAttempt, pendingErr')
        BY <3>2 DEF ScanError, ScanEnds, StreamReadError
      <4>2. pendingErr' \in BodyErrors \cup {"none"}
        BY DEF StreamInv, Inv, Typed
      <4> QED
        BY <2>1, <4>1, <4>2, RecordErrorFacts
    <3>3. CASE ScanEvent
      BY <2>1, <3>3 DEF ScanEvent, UpdateBodyForAttempt, State
    <3> QED
      BY <3>1, <3>2, <3>3
         DEF StreamRead, EntersSource, ReadReturnsError, ReadReturnsData, Scan, ScanPart
  <2> QED
    BY <1>1, <2>2 DEF streamVars, sdkVars
<1>4. decoded \in Nat /\ Len(delivered) \in Nat /\ Len(delivered') \in Nat
  BY DeliveredIsBounded DEF StreamInv, StreamTyped, Inv, Typed
<1>5. sdk = "loop" /\ decoded = Len(delivered)
  BY <1>1 DEF StreamInv, BodyIsTheSDKs
<1>6. decoded' <= Len(delivered') /\ (reader' # "idle" => decoded' = Len(delivered'))
  BY <1>1, <1>2, <1>3, <1>4, <1>5
<1>7. BodyIsTheSDKs'
  BY <1>1, <1>3, <1>5, <1>6 DEF StreamInv, BodyIsTheSDKs
<1> QED
  BY <1>1, <1>5, <1>7, StepOnTheBody

(* Closing the body. *)
LEMMA SDKClosesStep == StreamInv /\ Inv' /\ (SDKCloses \/ SDKClosed) => StreamInv'
<1> SUFFICES ASSUME StreamInv, Inv', SDKCloses \/ SDKClosed PROVE StreamInv'
  OBVIOUS
<1>1. /\ UNCHANGED <<state, ctx, wire, reader, delivered>> /\ UNCHANGED streamVars
      /\ closed => closed'
      /\ \/ sdk = "ending" /\ closed' = TRUE
         \/ closer = "closing" /\ closer' = "done"
  BY DEF SDKCloses, SDKClosed, CloseBegins, CloseEnds
<1>2. UNCHANGED <<sdk, decoded, sdkPipe>>
  BY <1>1 DEF streamVars, sdkVars
<1>3. BodyIsTheSDKs'
  BY <1>1, <1>2 DEF StreamInv, BodyIsTheSDKs
<1> QED
  BY <1>1, <1>3, StepOnTheBody

(* The caller's context ends. *)
LEMMA CallerCancelsStep ==
  ASSUME StreamInv, Inv', NEW e \in ContextErrors, CallerCancels(e)
  PROVE  StreamInv'
<1>1. /\ ctx' # "live" /\ UNCHANGED <<state, observerVars>> /\ UNCHANGED streamVars
  BY PipeAssumption DEF CallerCancels, Cancel
<1>2. BodyIsTheSDKs'
  BY <1>1 DEF streamVars, sdkVars, observerVars, StreamInv, BodyIsTheSDKs
<1> QED
  BY <1>1, <1>2, StepOnTheBody

-----------------------------------------------------------------------------
(* The SDK *)

(* The numbers of messages. *)
LEMMA Counts ==
  ASSUME StreamInv
  PROVE  /\ HandedOver \in Nat /\ Passed \in Nat
         /\ Passed = IF norm \in {"got", "send"} /\ Kept(normItem) THEN HandedOver + 1
                     ELSE HandedOver
         /\ HandedOver = IF outPipe.queue # <<>> /\ outPipe.queue[1].type = "message"
                         THEN Len(received) + 1 ELSE Len(received)
         /\ Len(received) \in Nat /\ Len(produced) \in Nat /\ Len(sdkPipe.queue) \in Nat
<1>1. /\ received \in Seq(Nat) /\ produced \in Seq(Nat) /\ sdkPipe.queue \in Seq(Items)
  BY DEF StreamInv, StreamTyped, Pipes
<1>2. /\ Len(received) \in Nat /\ Len(produced) \in Nat /\ Len(sdkPipe.queue) \in Nat
  BY <1>1
<1>3. HandedOver \in Nat
  BY <1>2 DEF HandedOver
<1>4. HandedOver = IF outPipe.queue # <<>> /\ outPipe.queue[1].type = "message"
                   THEN Len(received) + 1 ELSE Len(received)
  BY <1>2 DEF HandedOver
<1>5. CASE norm \in {"got", "send"} /\ Kept(normItem)
  BY <1>2, <1>3, <1>4, <1>5 DEF Passed
<1>6. CASE ~(norm \in {"got", "send"} /\ Kept(normItem))
  <2>1. Passed = HandedOver + 0
    BY <1>6 DEF Passed
  <2> QED
    BY <1>2, <1>3, <1>4, <1>6, <2>1
<1> QED
  BY <1>5, <1>6

(* What is put before the caller, and the other pipe's state, in a step of *)
(* the SDK that changes neither.                                           *)
SDKStep == UNCHANGED <<state, ctx, observerVars, norm, normItem, outPipe, received, closing, end>>

(* A step of the SDK that leaves its pipe and its messages alone keeps     *)
(* everything but what is said of its own place.                           *)
LEMMA StepWithoutAMessage ==
  ASSUME StreamInv, SDKStep, Inv', UNCHANGED <<sdkPipe, produced>>,
         sdk = "loop", sdk' \in {"loop", "send", "ending"},
         decoded' \in Nat, decoded <= decoded', sdkItem' \in Items,
         sdk' = "send" => ~Kept(sdkItem'),
         BodyIsTheSDKs', SDKHoldsTheLatest'
  PROVE  StreamInv'
<1> USE DEF SDKStep
<1>1. StreamTyped'
  BY DEF StreamInv, StreamTyped
<1>2. ProducedInOrder'
  <2>1. produced \in Seq(Nat) /\ decoded \in Nat
    BY DEF StreamInv, StreamTyped
  <2>2. \A j \in 1 .. Len(produced) : produced[j] \in Nat /\ produced[j] <= decoded'
    BY <2>1 DEF StreamInv, ProducedInOrder
  <2> QED
    BY <2>2 DEF StreamInv, ProducedInOrder
<1>3. QueueIsInOrder'
  <2>1. sdkPipe.queue \in Seq(Items) /\ decoded \in Nat
    BY DEF StreamInv, StreamTyped, Pipes
  <2>2. ASSUME NEW k \in 1 .. Len(sdkPipe.queue)
        PROVE  sdkPipe.queue[k].type = "message" /\ sdkPipe.queue[k].id <= decoded'
    <3>1. sdkPipe.queue[k] \in Items
      BY <2>1
    <3>2. sdkPipe.queue[k].id \in Nat
      BY <3>1 DEF Items
    <3>3. sdkPipe.queue[k].type = "message" /\ sdkPipe.queue[k].id <= decoded
      BY DEF StreamInv, QueueIsInOrder
    <3> QED
      BY <2>1, <3>2, <3>3
  <2> QED
    BY <2>2 DEF StreamInv, QueueIsInOrder
<1>4. UNCHANGED <<Receiving, HandedOver, Passed>>
  BY DEF Receiving, HandedOver, Passed, Kept
<1>5. NothingIsDropped'
  BY <1>4 DEF StreamInv, NothingIsDropped, InFlight
<1>6. NormHoldsTheNext'
  BY <1>4 DEF StreamInv, NormHoldsTheNext
<1>7. ~Answered
  BY DEF Answered
<1>8. CallerHasTheFirst'
  BY <1>7 DEF StreamInv, CallerHasTheFirst
<1>9. EndIsEarned'
  BY <1>4, <1>7 DEF StreamInv, EndIsEarned
<1> QED
  BY <1>1, <1>2, <1>3, <1>5, <1>6, <1>8, <1>9 DEF StreamInv

(* The SDK passes over a unit, or stops at the terminal one. *)
LEMMA SDKSkipsStep == StreamInv /\ Inv' /\ (SDKSkips \/ SDKStops) => StreamInv'
<1> SUFFICES ASSUME StreamInv, Inv', SDKSkips \/ SDKStops PROVE StreamInv'
  OBVIOUS
<1>1. /\ sdk = "loop" /\ sdk' \in {"loop", "ending"} /\ decoded < Len(delivered)
      /\ decoded' = decoded + 1
      /\ UNCHANGED <<state, ctx, observerVars, sdkItem, sdkPipe, normVars, outPipe,
                     produced, callerVars>>
  BY DEF SDKSkips, SDKStops
<1>2. decoded \in Nat /\ Len(delivered) \in Nat /\ sdkItem \in Items
  BY DeliveredIsBounded DEF StreamInv, StreamTyped
<1>3. BodyIsTheSDKs' /\ SDKHoldsTheLatest'
  BY <1>1, <1>2 DEF observerVars, StreamInv, BodyIsTheSDKs, SDKHoldsTheLatest
<1>4. SDKStep
  BY <1>1 DEF SDKStep, normVars, callerVars
<1> QED
  BY <1>1, <1>2, <1>3, <1>4, StepWithoutAMessage

(* The SDK has an error to send, or has come to the end. *)
LEMMA SDKEndsStep == StreamInv /\ Inv' /\ (SDKRejects \/ SDKEnds) => StreamInv'
<1> SUFFICES ASSUME StreamInv, Inv', SDKRejects \/ SDKEnds PROVE StreamInv'
  OBVIOUS
<1>1. decoded \in Nat /\ Len(delivered) \in Nat /\ sdkItem \in Items
      /\ result \in Errors
  BY DeliveredIsBounded DEF StreamInv, StreamTyped, Inv, Typed, Errors
<1>2. /\ sdk = "loop" /\ sdk' \in {"send", "ending"}
      /\ decoded <= decoded' /\ decoded' <= Len(delivered) /\ decoded' \in Nat
      /\ reader = "idle" \/ decoded < Len(delivered)
      /\ UNCHANGED <<state, ctx, observerVars, sdkPipe, normVars, outPipe, produced,
                     callerVars>>
      /\ \/ sdkItem' = sdkItem /\ sdk' = "ending"
         \/ \E e \in Errors : sdkItem' = Failed(e)
  <2>1. CASE SDKRejects
    BY <1>1, <2>1 DEF SDKRejects, Errors
  <2>2. CASE SDKEnds
    BY <1>1, <2>2 DEF SDKEnds
  <2> QED
    BY <2>1, <2>2
<1>3. /\ sdkItem' \in Items
      /\ sdk' = "send" => sdkItem'.type = "error" /\ sdkItem'.keep
  <2>1. ASSUME NEW e \in Errors, sdkItem' = Failed(e)
        PROVE  sdkItem' \in Items /\ sdkItem'.type = "error" /\ sdkItem'.keep
    BY <2>1 DEF Items, Failed
  <2> QED
    BY <1>1, <1>2, <2>1
<1>4. BodyIsTheSDKs' /\ SDKHoldsTheLatest'
  BY <1>1, <1>2, <1>3 DEF observerVars, StreamInv, BodyIsTheSDKs, SDKHoldsTheLatest
<1>5. SDKStep
  BY <1>2 DEF SDKStep, normVars, callerVars
<1> QED
  BY <1>2, <1>3, <1>4, <1>5, StepWithoutAMessage DEF Kept

(* The SDK makes a message, which it is about to send. *)
LEMMA SDKDecodesStep ==
  ASSUME StreamInv, Inv', NEW keep \in BOOLEAN, SDKDecodes(keep)
  PROVE  StreamInv'
<1> DEFINE n == decoded + 1
           m == Message(n, keep)
<1>1. /\ sdk = "loop" /\ sdk' = "send" /\ decoded < Len(delivered) /\ decoded' = n
      /\ sdkItem' = m /\ produced' = IF keep THEN Append(produced, n) ELSE produced
      /\ UNCHANGED <<state, ctx, observerVars, sdkPipe, norm, normItem, outPipe, received,
                     closing, end>>
  BY DEF SDKDecodes, normVars, callerVars
<1>2. /\ decoded \in Nat /\ n \in Nat /\ decoded < n /\ Len(delivered) \in Nat
      /\ produced \in Seq(Nat) /\ Len(produced) \in Nat /\ sdkPipe.queue \in Seq(Items)
      /\ Len(received) \in Nat /\ received \in Seq(Nat) /\ outPipe \in Pipes(Items)
  BY DeliveredIsBounded DEF StreamInv, StreamTyped, Pipes
<1>3. m \in Items /\ m.type = "message" /\ m.id = n /\ m.keep = keep
  BY <1>2 DEF Message, Items, Errors
<1> HIDE DEF n, m
<1>4. /\ produced' \in Seq(Nat)
      /\ Len(produced') = IF keep THEN Len(produced) + 1 ELSE Len(produced)
      /\ \A j \in 1 .. Len(produced) : produced'[j] = produced[j]
      /\ keep => produced'[Len(produced')] = n
  <2>1. /\ Append(produced, n) \in Seq(Nat) /\ Len(Append(produced, n)) = Len(produced) + 1
        /\ \A j \in 1 .. Len(produced) : Append(produced, n)[j] = produced[j]
        /\ Append(produced, n)[Len(produced) + 1] = n
    BY <1>2, AppendProperties
  <2> QED
    BY <1>1, <1>2, <2>1
<1>5. StreamTyped'
  BY <1>1, <1>2, <1>3, <1>4 DEF StreamInv, StreamTyped
<1>6. BodyIsTheSDKs'
  BY <1>1, <1>2 DEF n, observerVars, StreamInv, BodyIsTheSDKs
<1>7. ProducedInOrder'
  <2>1. ASSUME NEW j \in 1 .. Len(produced')
        PROVE  produced'[j] <= decoded' /\ \A i \in 1 .. j - 1 : produced'[i] < produced'[j]
    <3>1. CASE j \in 1 .. Len(produced)
      <4>1. /\ produced[j] \in Nat /\ produced[j] <= decoded
            /\ \A i \in 1 .. j - 1 : produced[i] < produced[j]
        BY <1>2, <3>1 DEF StreamInv, ProducedInOrder
      <4>2. \A i \in 1 .. j - 1 : i \in 1 .. Len(produced)
        BY <1>2, <3>1
      <4> QED
        BY <1>1, <1>2, <1>4, <3>1, <4>1, <4>2
    <3>2. CASE keep /\ j = Len(produced) + 1
      <4>1. \A i \in 1 .. Len(produced) : produced[i] \in Nat /\ produced[i] <= decoded
        BY <1>2 DEF StreamInv, ProducedInOrder
      <4>2. \A i \in 1 .. j - 1 : i \in 1 .. Len(produced)
        BY <1>2, <3>2
      <4>3. produced'[j] = n /\ n <= decoded'
        BY <1>1, <1>2, <1>4, <3>2
      <4> QED
        BY <1>1, <1>2, <1>4, <4>1, <4>2, <4>3
    <3> QED
      BY <1>2, <1>4, <3>1, <3>2
  <2> QED
    BY <2>1 DEF ProducedInOrder
<1>8. \A k \in 1 .. Len(sdkPipe.queue) :
        /\ sdkPipe.queue[k].type = "message" /\ sdkPipe.queue[k].id \in Nat
        /\ sdkPipe.queue[k].id < n /\ sdkPipe.queue[k].id <= n
  <2> SUFFICES ASSUME NEW k \in 1 .. Len(sdkPipe.queue)
               PROVE  /\ sdkPipe.queue[k].type = "message" /\ sdkPipe.queue[k].id \in Nat
                      /\ sdkPipe.queue[k].id < n /\ sdkPipe.queue[k].id <= n
    OBVIOUS
  <2>1. sdkPipe.queue[k] \in Items
    BY <1>2
  <2>2. sdkPipe.queue[k].id \in Nat
    BY <2>1 DEF Items
  <2>3. sdkPipe.queue[k].type = "message" /\ sdkPipe.queue[k].id <= decoded
    BY <1>1 DEF StreamInv, QueueIsInOrder
  <2> QED
    BY <1>2, <2>2, <2>3
<1>9. QueueIsInOrder'
  BY <1>1, <1>8 DEF StreamInv, QueueIsInOrder
<1>10. SDKHoldsTheLatest'
  <2>1. keep => produced' # <<>>
    BY <1>2, <1>4
  <2> QED
    BY <1>1, <1>3, <1>4, <1>8, <2>1 DEF SDKHoldsTheLatest
<1>11. UNCHANGED <<Receiving, HandedOver, Passed>> /\ HandedOver \in Nat /\ Passed \in Nat
  BY <1>1, Counts DEF Receiving, HandedOver, Passed, Kept
<1>12. NothingIsDropped'
  <2> SUFFICES ASSUME Receiving, ~sdkPipe.recvClosed
               PROVE  /\ Passed <= Len(produced')
                      /\ \A j \in Passed + 1 .. Len(produced') : InFlight(produced[j])'
                      /\ \A k \in 1 .. Len(sdkPipe.queue) :
                           Kept(sdkPipe.queue[k]) =>
                             \E j \in Passed + 1 .. Len(produced') :
                               sdkPipe.queue[k].id = produced'[j]
                      /\ Kept(sdkItem') => Passed < Len(produced')
    BY <1>1, <1>11 DEF NothingIsDropped
  <2>1. /\ Passed <= Len(produced)
        /\ \A j \in Passed + 1 .. Len(produced) : InFlight(produced[j])
        /\ \A k \in 1 .. Len(sdkPipe.queue) :
             Kept(sdkPipe.queue[k]) =>
               \E j \in Passed + 1 .. Len(produced) : sdkPipe.queue[k].id = produced[j]
    BY DEF StreamInv, NothingIsDropped
  <2>2. Passed <= Len(produced') /\ (Kept(sdkItem') => Passed < Len(produced'))
    BY <1>1, <1>2, <1>3, <1>4, <1>11, <2>1 DEF Kept
  <2>3. ASSUME NEW j \in Passed + 1 .. Len(produced')
        PROVE  InFlight(produced[j])'
    <3>1. CASE j \in 1 .. Len(produced)
      <4>1. j \in Passed + 1 .. Len(produced)
        BY <1>2, <1>11, <3>1
      <4>2. InFlight(produced[j])
        BY <2>1, <4>1
      <4>3. produced'[j] = produced[j]
        BY <1>4, <3>1
      <4> QED
        BY <1>1, <4>2, <4>3 DEF InFlight
    <3>2. CASE keep /\ j = Len(produced) + 1
      BY <1>1, <1>3, <1>4, <3>2 DEF InFlight, Kept
    <3> QED
      BY <1>2, <1>4, <1>11, <3>1, <3>2
  <2>4. ASSUME NEW k \in 1 .. Len(sdkPipe.queue), Kept(sdkPipe.queue[k])
        PROVE  \E j \in Passed + 1 .. Len(produced') : sdkPipe.queue[k].id = produced'[j]
    <3>1. PICK j \in Passed + 1 .. Len(produced) : sdkPipe.queue[k].id = produced[j]
      BY <2>1, <2>4
    <3>2. j \in Passed + 1 .. Len(produced') /\ produced'[j] = produced[j]
      BY <1>2, <1>4, <1>11
    <3> QED
      BY <3>1, <3>2
  <2> QED
    BY <2>2, <2>3, <2>4
<1>13. NormHoldsTheNext'
  <2> SUFFICES ASSUME Kept(normItem), norm = "send" \/ (norm = "got" /\ ~sdkPipe.recvClosed)
               PROVE  Passed <= Len(produced') /\ normItem.id = produced'[Passed]
    BY <1>1, <1>11 DEF StreamInv, NormHoldsTheNext
  <2>1. Passed <= Len(produced) /\ normItem.id = produced[Passed]
    BY DEF StreamInv, NormHoldsTheNext
  <2>2. Passed \in 1 .. Len(produced)
    BY Counts, <2>1
  <2> QED
    BY <1>2, <1>4, <1>11, <2>1, <2>2
<1>14. ~Answered /\ ~Answered'
  BY <1>1 DEF Answered
<1>15. CallerHasTheFirst'
  <2>1. Len(received) <= Len(produced') /\ \A i \in 1 .. Len(received) : received[i] = produced'[i]
    BY <1>2, <1>4 DEF StreamInv, CallerHasTheFirst
  <2>2. Len(received) < Len(produced) =>
          /\ Len(received) < Len(produced')
          /\ produced'[Len(received) + 1] = produced[Len(received) + 1]
    BY <1>2, <1>4
  <2> QED
    BY <1>1, <1>14, <2>1, <2>2 DEF StreamInv, CallerHasTheFirst
<1>16. EndIsEarned'
  BY <1>1, <1>11, <1>14 DEF StreamInv, EndIsEarned
<1> QED
  BY <1>5, <1>6, <1>7, <1>9, <1>10, <1>12, <1>13, <1>15, <1>16 DEF StreamInv

(* The SDK sends what it holds, or finds its reader closed. *)
LEMMA SDKSendsStep == StreamInv /\ Inv' /\ SDKSends => StreamInv'
<1> SUFFICES ASSUME StreamInv, Inv', SDKSends PROVE StreamInv'
  OBVIOUS
<1>1. /\ sdk = "send"
      /\ UNCHANGED <<state, ctx, observerVars, decoded, sdkItem, norm, normItem, outPipe,
                     produced, received, closing, end>>
      /\ \/ sdkPipe.recvClosed /\ sdk' = "ending" /\ sdkPipe' = sdkPipe
         \/ /\ ~sdkPipe.recvClosed /\ sdkPipe' = Sent(sdkPipe, sdkItem)
            /\ sdk' = IF sdkItem.type = "error" THEN "ending" ELSE "loop"
  BY DEF SDKSends, normVars, callerVars
<1>2. /\ sdkPipe \in Pipes(Items) /\ sdkItem \in Items /\ sdkPipe.queue \in Seq(Items)
      /\ produced \in Seq(Nat) /\ decoded \in Nat
  BY DEF StreamInv, StreamTyped, Pipes
<1>3. UNCHANGED <<Receiving, HandedOver, Passed>>
  BY <1>1 DEF Receiving, HandedOver, Passed, Kept
<1>4. ~Answered /\ ~Answered'
  BY <1>1 DEF Answered
<1>5. BodyIsTheSDKs' /\ ProducedInOrder' /\ CallerHasTheFirst' /\ EndIsEarned'
  <2>1. sdkPipe'.sendClosed = sdkPipe.sendClosed /\ sdk' \in {"ending", "loop"}
    BY <1>1, <1>2, SentProperties
  <2>2. BodyIsTheSDKs' /\ ProducedInOrder'
    BY <1>1, <2>1 DEF observerVars, StreamInv, BodyIsTheSDKs, ProducedInOrder
  <2>3. CallerHasTheFirst'
    BY <1>1, <1>4 DEF StreamInv, CallerHasTheFirst
  <2>4. EndIsEarned'
    BY <1>1, <1>3, <1>4 DEF StreamInv, EndIsEarned
  <2> QED
    BY <2>2, <2>3, <2>4
<1>6. SDKHoldsTheLatest'
  BY <1>1 DEF SDKHoldsTheLatest
<1>7. CASE sdkPipe.recvClosed
  <2>1. /\ sdkPipe' = sdkPipe /\ sdk' = "ending"
    BY <1>1, <1>7
  <2>2. StreamTyped' /\ QueueIsInOrder'
    BY <1>1, <2>1 DEF StreamInv, StreamTyped, QueueIsInOrder
  <2>3. NothingIsDropped'
    BY <1>7, <2>1 DEF NothingIsDropped
  <2>4. NormHoldsTheNext'
    BY <1>1, <1>3, <2>1 DEF StreamInv, NormHoldsTheNext
  <2> QED
    BY <1>5, <1>6, <2>2, <2>3, <2>4 DEF StreamInv
<1>8. CASE ~sdkPipe.recvClosed
  <2> DEFINE n == Len(sdkPipe.queue)
             q == sdkPipe'.queue
  <2>1. /\ sdkPipe' \in Pipes(Items)
        /\ sdkPipe'.sendClosed = sdkPipe.sendClosed /\ sdkPipe'.recvClosed = sdkPipe.recvClosed
        /\ Len(q) = n + 1 /\ \A k \in 1 .. n : q[k] = sdkPipe.queue[k]
        /\ q[n + 1] = sdkItem
    BY <1>1, <1>2, <1>8, SentProperties, SMTT(30)
  <2>2. n \in Nat /\ sdk' = IF sdkItem.type = "error" THEN "ending" ELSE "loop"
    BY <1>1, <1>2, <1>8
  <2> HIDE DEF n
  <2>3. StreamTyped'
    BY <1>1, <2>1, <2>2 DEF StreamInv, StreamTyped
  <2>4. ASSUME NEW k \in 1 .. n
        PROVE  /\ sdkPipe.queue[k].type = "message" /\ sdkPipe.queue[k].id <= decoded
               /\ \A l \in 1 .. k - 1 :
                    sdkPipe.queue[l].type = "message" => sdkPipe.queue[l].id < sdkPipe.queue[k].id
               /\ sdkItem.type = "message" => sdkPipe.queue[k].id < sdkItem.id
    BY <1>1 DEF n, StreamInv, QueueIsInOrder, SDKHoldsTheLatest
  <2>5. QueueIsInOrder'
    <3> SUFFICES ASSUME NEW k \in 1 .. Len(q)
                 PROVE  /\ \/ q[k].type = "message" /\ q[k].id <= decoded'
                           \/ q[k].type = "error" /\ q[k].keep /\ sdk' \in {"ending", "done"}
                        /\ q[k].type = "message" =>
                             \A l \in 1 .. k - 1 : q[l].type = "message" => q[l].id < q[k].id
      BY DEF QueueIsInOrder
    <3>1. CASE k \in 1 .. n
      <4>1. \A l \in 1 .. k - 1 : l \in 1 .. n
        BY <2>2, <3>1
      <4> QED
        BY <1>1, <2>1, <2>4, <3>1, <4>1
    <3>2. CASE k = n + 1
      <4>1. \A l \in 1 .. k - 1 : l \in 1 .. n
        BY <2>2, <3>2
      <4>2. \/ sdkItem.type = "error" /\ sdkItem.keep
            \/ sdkItem.type = "message" /\ sdkItem.id <= decoded
        BY <1>1, <1>2 DEF StreamInv, SDKHoldsTheLatest
      <4> QED
        BY <1>1, <2>1, <2>2, <2>4, <3>2, <4>1, <4>2
    <3> QED
      BY <2>1, <2>2, <3>1, <3>2
  <2>6. NothingIsDropped'
    <3> SUFFICES ASSUME Receiving
                 PROVE  /\ Passed <= Len(produced)
                        /\ \A j \in Passed + 1 .. Len(produced) : InFlight(produced[j])'
                        /\ \A k \in 1 .. Len(q) :
                             Kept(q[k]) => \E j \in Passed + 1 .. Len(produced) : q[k].id = produced[j]
      BY <1>1, <1>3, <2>2 DEF NothingIsDropped
    <3>1. /\ Passed <= Len(produced)
          /\ \A j \in Passed + 1 .. Len(produced) : InFlight(produced[j])
          /\ \A k \in 1 .. n :
               Kept(sdkPipe.queue[k]) =>
                 \E j \in Passed + 1 .. Len(produced) : sdkPipe.queue[k].id = produced[j]
          /\ Kept(sdkItem) => Passed < Len(produced)
      BY <1>1, <1>8 DEF n, StreamInv, NothingIsDropped
    <3>2. ASSUME NEW j \in Passed + 1 .. Len(produced)
          PROVE  InFlight(produced[j])'
      <4>1. \/ \E k \in 1 .. n : Kept(sdkPipe.queue[k]) /\ sdkPipe.queue[k].id = produced[j]
            \/ Kept(sdkItem) /\ sdkItem.id = produced[j]
        BY <3>1 DEF InFlight, n
      <4>2. \E k \in 1 .. Len(q) : Kept(q[k]) /\ q[k].id = produced[j]
        <5>1. CASE \E k \in 1 .. n : Kept(sdkPipe.queue[k]) /\ sdkPipe.queue[k].id = produced[j]
          <6>1. PICK k \in 1 .. n : Kept(sdkPipe.queue[k]) /\ sdkPipe.queue[k].id = produced[j]
            BY <5>1
          <6>2. k \in 1 .. Len(q) /\ q[k] = sdkPipe.queue[k]
            BY <2>1, <2>2
          <6> QED
            BY <6>1, <6>2
        <5>2. CASE Kept(sdkItem) /\ sdkItem.id = produced[j]
          <6>1. n + 1 \in 1 .. Len(q)
            BY <2>1, <2>2
          <6> QED
            BY <2>1, <5>2, <6>1
        <5> QED
          BY <4>1, <5>1, <5>2
      <4> QED
        BY <1>1, <4>2 DEF InFlight
    <3>3. ASSUME NEW k \in 1 .. Len(q), Kept(q[k])
          PROVE  \E j \in Passed + 1 .. Len(produced) : q[k].id = produced[j]
      <4>1. CASE k \in 1 .. n
        BY <2>1, <3>1, <3>3, <4>1
      <4>2. CASE k = n + 1
        <5>1. Kept(sdkItem) /\ q[k] = sdkItem
          BY <2>1, <3>3, <4>2
        <5>2. sdkItem.id = produced[Len(produced)]
          BY <1>1, <5>1 DEF StreamInv, SDKHoldsTheLatest, Kept
        <5>3. Len(produced) \in Passed + 1 .. Len(produced)
          BY <3>1, <5>1, Counts
        <5> QED
          BY <5>1, <5>2, <5>3
      <4> QED
        BY <2>1, <2>2, <4>1, <4>2
    <3> QED
      BY <3>1, <3>2, <3>3
  <2>7. NormHoldsTheNext'
    <3>1. norm = "got" /\ normItem = EOFItem => ~sdkPipe.sendClosed \/ sdk = "done"
      BY DEF StreamInv, BodyIsTheSDKs
    <3>2. norm = "got" => normItem.type = "message" \/ (normItem.type = "error" /\ normItem.keep)
      BY <1>1, <3>1 DEF StreamInv, NormHoldsTheNext
    <3> QED
      BY <1>1, <1>3, <1>8, <2>1, <3>2 DEF StreamInv, NormHoldsTheNext
  <2> QED
    BY <1>5, <1>6, <2>3, <2>5, <2>6, <2>7 DEF StreamInv
<1> QED
  BY <1>7, <1>8

(* The SDK has closed the body, and closes its writer. *)
LEMMA SDKFinishesStep == StreamInv /\ Inv' /\ SDKFinishes => StreamInv'
<1> SUFFICES ASSUME StreamInv, Inv', SDKFinishes PROVE StreamInv'
  OBVIOUS
<1>1. /\ sdk = "ending" /\ closer = "done" /\ sdk' = "done"
      /\ sdkPipe' = [sdkPipe EXCEPT !.sendClosed = TRUE]
      /\ UNCHANGED <<state, ctx, observerVars, decoded, sdkItem, norm, normItem, outPipe,
                     produced, received, closing, end>>
  BY DEF SDKFinishes, normVars, callerVars
<1>2. /\ sdkPipe' \in Pipes(Items) /\ sdkPipe'.queue = sdkPipe.queue
      /\ sdkPipe'.recvClosed = sdkPipe.recvClosed /\ sdkPipe'.sendClosed
  BY <1>1, ClosedProperties DEF StreamInv, StreamTyped
<1>3. UNCHANGED <<Receiving, HandedOver, Passed>>
  BY <1>1 DEF Receiving, HandedOver, Passed, Kept
<1>4. StreamTyped' /\ BodyIsTheSDKs' /\ ProducedInOrder' /\ SDKHoldsTheLatest'
  BY <1>1, <1>2
     DEF observerVars, StreamInv, StreamTyped, BodyIsTheSDKs, ProducedInOrder,
         SDKHoldsTheLatest
<1>5. QueueIsInOrder'
  BY <1>1, <1>2 DEF StreamInv, QueueIsInOrder
<1>6. NothingIsDropped'
  BY <1>1, <1>2, <1>3 DEF StreamInv, NothingIsDropped, InFlight
<1>7. NormHoldsTheNext'
  BY <1>1, <1>2, <1>3 DEF StreamInv, NormHoldsTheNext
<1>8. ~Answered /\ UsageIsKnown' = UsageIsKnown
  BY <1>1 DEF Answered, UsageIsKnown
<1>9. CallerHasTheFirst' /\ EndIsEarned'
  BY <1>1, <1>3, <1>8 DEF StreamInv, CallerHasTheFirst, EndIsEarned
<1> QED
  BY <1>4, <1>5, <1>6, <1>7, <1>9 DEF StreamInv

-----------------------------------------------------------------------------
(* The normalizing goroutine *)

(* The SDK's side and the caller's in a step of the goroutine between.     *)
NormStep ==
  UNCHANGED <<state, ctx, observerVars, sdk, decoded, sdkItem, produced, received, closing,
              end>>

(* What such a step keeps when it leaves the queue of the SDK's pipe       *)
(* alone, or shortens it.                                                  *)
LEMMA StepOfNorm ==
  ASSUME StreamInv, NormStep, sdkPipe'.sendClosed = sdkPipe.sendClosed,
         sdkPipe'.queue = sdkPipe.queue
  PROVE  /\ BodyIsTheSDKs' /\ ProducedInOrder' /\ QueueIsInOrder' /\ SDKHoldsTheLatest'
         /\ Answered' = Answered /\ UsageIsKnown' = UsageIsKnown
         /\ \A id : InFlight(id)' = InFlight(id)
<1> USE DEF NormStep
<1>1. BodyIsTheSDKs' /\ ProducedInOrder'
  BY DEF observerVars, StreamInv, BodyIsTheSDKs, ProducedInOrder
<1>2. QueueIsInOrder' /\ SDKHoldsTheLatest'
  BY DEF StreamInv, QueueIsInOrder, SDKHoldsTheLatest
<1>3. Answered' = Answered /\ UsageIsKnown' = UsageIsKnown
  BY DEF Answered, UsageIsKnown
<1>4. \A id : InFlight(id)' = InFlight(id)
  BY DEF InFlight
<1> QED
  BY <1>1, <1>2, <1>3, <1>4

(* The goroutine receives the next item of the SDK, if it is a message     *)
(* that is kept the first of those that have not left the pipe.            *)
LEMMA NormReceivesStep == StreamInv /\ Inv' /\ NormReceives => StreamInv'
<1> SUFFICES ASSUME StreamInv, Inv', NormReceives PROVE StreamInv'
  OBVIOUS
<1>1. /\ norm = "recv" /\ norm' = "got" /\ CanRecv(sdkPipe)
      /\ normItem' = NextItem(sdkPipe) /\ sdkPipe' = Received(sdkPipe)
      /\ outPipe' = outPipe /\ NormStep
  BY DEF NormReceives, NormUnchanged, NormStep, sdkVars, callerVars
<1>2. /\ sdkPipe \in Pipes(Items) /\ sdkPipe.queue \in Seq(Items) /\ outPipe \in Pipes(Items)
      /\ produced \in Seq(Nat) /\ decoded \in Nat /\ sdkItem \in Items
  BY DEF StreamInv, StreamTyped, Pipes
<1>3. /\ sdkPipe' \in Pipes(Items)
      /\ sdkPipe'.sendClosed = sdkPipe.sendClosed /\ sdkPipe'.recvClosed = sdkPipe.recvClosed
      /\ \/ /\ sdkPipe.queue = <<>> /\ sdkPipe.sendClosed
            /\ normItem' = EOFItem /\ sdkPipe' = sdkPipe
         \/ /\ Len(sdkPipe.queue) > 0
            /\ normItem' = sdkPipe.queue[1] /\ sdkPipe.queue[1] \in Items
            /\ Len(sdkPipe'.queue) = Len(sdkPipe.queue) - 1
            /\ \A k \in 1 .. Len(sdkPipe'.queue) : sdkPipe'.queue[k] = sdkPipe.queue[k + 1]
  BY <1>1, <1>2, ReceivedProperties
<1>4. normItem' \in Items
  <2>1. EOFItem \in Items
    BY DEF EOFItem, Items, Errors
  <2> QED
    BY <1>3, <2>1
<1>5. StreamTyped'
  BY <1>1, <1>3, <1>4 DEF NormStep, StreamInv, StreamTyped
<1>6. /\ BodyIsTheSDKs' /\ ProducedInOrder' /\ HandedOver' = HandedOver
      /\ Answered' = Answered /\ UsageIsKnown' = UsageIsKnown
  BY <1>1, <1>3
     DEF NormStep, observerVars, StreamInv, BodyIsTheSDKs, ProducedInOrder, HandedOver,
         Answered, UsageIsKnown
<1>7. CallerHasTheFirst' /\ EndIsEarned'
  BY <1>1, <1>6 DEF NormStep, StreamInv, CallerHasTheFirst, EndIsEarned
<1>8. /\ Passed = HandedOver /\ HandedOver \in Nat /\ Len(produced) \in Nat
      /\ Len(sdkPipe.queue) \in Nat
      /\ Passed' = IF Kept(normItem') THEN Passed + 1 ELSE Passed
  <2>1. Passed = HandedOver /\ HandedOver \in Nat /\ Len(produced) \in Nat
        /\ Len(sdkPipe.queue) \in Nat
    BY <1>1, Counts
  <2>2. Passed' = HandedOver + (IF Kept(normItem') THEN 1 ELSE 0)
    BY <1>1, <1>6 DEF Passed, Kept
  <2>3. HandedOver + 0 = HandedOver
    BY <2>1
  <2> QED
    BY <2>1, <2>2, <2>3
<1>9. CASE sdkPipe.queue = <<>> /\ sdkPipe.sendClosed /\ normItem' = EOFItem /\ sdkPipe' = sdkPipe
  <2>1. ~Kept(normItem') /\ Passed' = Passed
    BY <1>8, <1>9 DEF Kept, EOFItem
  <2>2. QueueIsInOrder' /\ SDKHoldsTheLatest'
    BY <1>1, <1>9, StepOfNorm
  <2>3. NothingIsDropped'
    BY <1>1, <1>9, <2>1 DEF NormStep, StreamInv, NothingIsDropped, InFlight, Receiving
  <2>4. NormHoldsTheNext'
    BY <1>1, <1>9, <2>1 DEF NormStep, StreamInv, NormHoldsTheNext, Receiving
  <2> QED
    BY <1>5, <1>6, <1>7, <2>2, <2>3, <2>4 DEF StreamInv
<1>10. CASE Len(sdkPipe.queue) > 0
  <2> DEFINE q == sdkPipe'.queue
             n == Len(sdkPipe.queue)
             head == sdkPipe.queue[1]
  <2>1. /\ n \in Nat /\ n > 0 /\ normItem' = head /\ head \in Items /\ Len(q) = n - 1
        /\ \A k \in 1 .. Len(q) : q[k] = sdkPipe.queue[k + 1] /\ k + 1 \in 2 .. n
    BY <1>2, <1>3, <1>8, <1>10
  <2>2. \A k \in 2 .. n : k - 1 \in 1 .. Len(q) /\ q[k - 1] = sdkPipe.queue[k]
    BY <2>1
  <2>3. \A k \in 1 .. n : sdkPipe.queue[k] \in Items
    BY <1>2
  <2>4. ASSUME NEW k \in 1 .. n
        PROVE  /\ \/ sdkPipe.queue[k].type = "message" /\ sdkPipe.queue[k].id <= decoded
                  \/ /\ sdkPipe.queue[k].type = "error" /\ sdkPipe.queue[k].keep
                     /\ sdk \in {"ending", "done"}
               /\ sdkPipe.queue[k].type = "message" =>
                    \A l \in 1 .. k - 1 :
                      sdkPipe.queue[l].type = "message" => sdkPipe.queue[l].id < sdkPipe.queue[k].id
    BY DEF StreamInv, QueueIsInOrder
  <2> HIDE DEF n, head
  <2>5. QueueIsInOrder'
    <3> SUFFICES ASSUME NEW k \in 1 .. Len(q)
                 PROVE  /\ \/ q[k].type = "message" /\ q[k].id <= decoded
                           \/ q[k].type = "error" /\ q[k].keep /\ sdk \in {"ending", "done"}
                        /\ q[k].type = "message" =>
                             \A l \in 1 .. k - 1 : q[l].type = "message" => q[l].id < q[k].id
      BY <1>1 DEF QueueIsInOrder, NormStep
    <3>1. q[k] = sdkPipe.queue[k + 1] /\ k + 1 \in 1 .. n
      BY <2>1
    <3>2. \A l \in 1 .. k - 1 : q[l] = sdkPipe.queue[l + 1] /\ l + 1 \in 1 .. (k + 1) - 1
      BY <2>1
    <3> QED
      BY <2>4, <3>1, <3>2
  <2>6. SDKHoldsTheLatest'
    <3>1. \A k \in 1 .. Len(q) : q[k] = sdkPipe.queue[k + 1] /\ k + 1 \in 1 .. n
      BY <2>1
    <3> QED
      BY <1>1, <3>1 DEF n, NormStep, StreamInv, SDKHoldsTheLatest
  <2>7. Kept(head) => \A k \in 2 .. n : Kept(sdkPipe.queue[k]) => head.id < sdkPipe.queue[k].id
    <3> SUFFICES ASSUME Kept(head), NEW k \in 2 .. n, Kept(sdkPipe.queue[k])
                 PROVE  head.id < sdkPipe.queue[k].id
      OBVIOUS
    <3>1. k \in 1 .. n /\ 1 \in 1 .. k - 1
      BY <2>1
    <3> QED
      BY <2>4, <3>1 DEF Kept, head
  <2>8. ASSUME ~sdkPipe.recvClosed
        PROVE  /\ Passed <= Len(produced)
               /\ \A j \in Passed + 1 .. Len(produced) : InFlight(produced[j])
               /\ \A k \in 1 .. n :
                    Kept(sdkPipe.queue[k]) =>
                      \E j \in Passed + 1 .. Len(produced) : sdkPipe.queue[k].id = produced[j]
               /\ sdk = "send" /\ Kept(sdkItem) => Passed < Len(produced)
    BY <1>1, <2>8 DEF n, StreamInv, NothingIsDropped, Receiving
  <2>9. ASSUME NEW i \in 1 .. Len(produced), NEW j \in 1 .. Len(produced), i < j
        PROVE  produced[i] < produced[j] /\ produced[i] \in Nat /\ produced[j] \in Nat
    BY <1>2, <1>8, <2>9 DEF StreamInv, ProducedInOrder
  <2>10. ASSUME ~sdkPipe.recvClosed, Kept(head)
         PROVE  Passed + 1 <= Len(produced) /\ head.id = produced[Passed + 1]
    <3>1. PICK j \in Passed + 1 .. Len(produced) : head.id = produced[j]
      <4>1. 1 \in 1 .. n
        BY <2>1
      <4> QED
        BY <2>8, <2>10, <4>1 DEF head
    <3>2. Passed + 1 \in 1 .. Len(produced) /\ j \in 1 .. Len(produced)
      BY <1>8, <3>1
    <3>3. CASE j = Passed + 1
      BY <1>8, <3>1, <3>2, <3>3
    <3>4. CASE Passed + 1 < j
      <4>1. produced[Passed + 1] < head.id /\ produced[Passed + 1] \in Nat /\ head.id \in Nat
        BY <2>9, <3>1, <3>2, <3>4
      <4>2. InFlight(produced[Passed + 1])
        BY <2>8, <2>10, <3>2, <1>8
      <4>3. CASE \E k \in 1 .. n : Kept(sdkPipe.queue[k]) /\ sdkPipe.queue[k].id = produced[Passed + 1]
        <5>1. PICK k \in 1 .. n : Kept(sdkPipe.queue[k]) /\ sdkPipe.queue[k].id = produced[Passed + 1]
          BY <4>3
        <5>2. k # 1
          BY <4>1, <5>1 DEF head
        <5>3. k \in 2 .. n
          BY <2>1, <5>1, <5>2
        <5> QED
          BY <2>7, <2>10, <4>1, <5>1, <5>3
      <4>4. CASE sdk = "send" /\ Kept(sdkItem) /\ sdkItem.id = produced[Passed + 1]
        <5>1. head.id < sdkItem.id
          <6>1. 1 \in 1 .. n
            BY <2>1
          <6> QED
            BY <2>10, <4>4, <6>1 DEF head, n, Kept, StreamInv, SDKHoldsTheLatest
        <5> QED
          BY <4>1, <4>4, <5>1
      <4> QED
        BY <4>2, <4>3, <4>4 DEF InFlight, n
    <3> QED
      BY <1>8, <3>1, <3>2, <3>3, <3>4
  <2>11. NothingIsDropped'
    <3> DEFINE p == IF Kept(head) THEN Passed + 1 ELSE Passed
    <3>1. Passed' = p
      BY <1>8, <2>1
    <3> SUFFICES ASSUME ~sdkPipe.recvClosed
                 PROVE  /\ p <= Len(produced)
                        /\ \A j \in p + 1 .. Len(produced) : InFlight(produced[j])'
                        /\ \A k \in 1 .. Len(q) :
                             Kept(q[k]) => \E j \in p + 1 .. Len(produced) : q[k].id = produced[j]
                        /\ sdk = "send" /\ Kept(sdkItem) => p < Len(produced)
      BY <1>1, <1>3, <3>1 DEF NormStep, NothingIsDropped, Kept
    <3>2. p <= Len(produced)
      BY <2>8, <2>10
    <3>3. /\ p \in Nat /\ Passed <= p
          /\ Kept(head) => p = Passed + 1 /\ head.id = produced[p] /\ p \in 1 .. Len(produced)
          /\ ~Kept(head) => p = Passed
      BY <1>8, <2>10
    <3> HIDE DEF p
    <3>4. ASSUME NEW j \in p + 1 .. Len(produced)
          PROVE  InFlight(produced[j])'
      <4>1. j \in Passed + 1 .. Len(produced)
        BY <1>8, <3>3
      <4>2. CASE \E k \in 1 .. n : Kept(sdkPipe.queue[k]) /\ sdkPipe.queue[k].id = produced[j]
        <5>1. PICK k \in 1 .. n : Kept(sdkPipe.queue[k]) /\ sdkPipe.queue[k].id = produced[j]
          BY <4>2
        <5>2. k # 1
          <6> SUFFICES ASSUME k = 1 PROVE FALSE
            OBVIOUS
          <6>1. Kept(head) /\ head.id = produced[j]
            BY <5>1 DEF head
          <6>2. p < j /\ p \in 1 .. Len(produced) /\ j \in 1 .. Len(produced)
            BY <1>8, <3>3, <6>1
          <6>3. produced[p] < produced[j] /\ produced[p] = produced[j] /\ produced[j] \in Nat
            BY <2>9, <3>3, <6>1, <6>2
          <6> QED
            BY <6>3
        <5>3. k - 1 \in 1 .. Len(q) /\ q[k - 1] = sdkPipe.queue[k]
          BY <2>1, <2>2, <5>2
        <5> QED
          BY <1>1, <5>1, <5>3 DEF InFlight, NormStep
      <4>3. CASE sdk = "send" /\ Kept(sdkItem) /\ sdkItem.id = produced[j]
        BY <1>1, <4>3 DEF InFlight, NormStep
      <4> QED
        BY <2>8, <4>1, <4>2, <4>3 DEF InFlight, n
    <3>5. ASSUME NEW k \in 1 .. Len(q), Kept(q[k])
          PROVE  \E j \in p + 1 .. Len(produced) : q[k].id = produced[j]
      <4>1. q[k] = sdkPipe.queue[k + 1] /\ k + 1 \in 2 .. n /\ k + 1 \in 1 .. n
        BY <2>1
      <4>2. PICK j \in Passed + 1 .. Len(produced) : q[k].id = produced[j]
        BY <2>8, <3>5, <4>1
      <4>3. Kept(head) => j # p
        <5> SUFFICES ASSUME Kept(head), j = p PROVE FALSE
          OBVIOUS
        <5>1. head.id < q[k].id
          BY <2>7, <3>5, <4>1
        <5>2. head.id = q[k].id /\ head.id \in Nat
          BY <2>1, <3>3, <4>2 DEF Items
        <5> QED
          BY <5>1, <5>2
      <4>4. j \in p + 1 .. Len(produced)
        BY <1>8, <3>3, <4>3
      <4> QED
        BY <4>2, <4>4
    <3>6. ASSUME sdk = "send", Kept(sdkItem)
          PROVE  p < Len(produced)
      <4>1. CASE Kept(head)
        <5>1. head.id < decoded /\ head.id \in Nat
          <6>1. 1 \in 1 .. n
            BY <2>1
          <6> QED
            BY <2>1, <3>6, <4>1, <6>1
               DEF head, n, Kept, Items, StreamInv, SDKHoldsTheLatest
        <5>2. produced[Len(produced)] = decoded
          BY <3>6 DEF Kept, StreamInv, SDKHoldsTheLatest
        <5>3. p # Len(produced)
          BY <1>2, <3>3, <4>1, <5>1, <5>2
        <5> QED
          BY <1>8, <3>2, <3>3, <5>3
      <4>2. CASE ~Kept(head)
        BY <2>8, <3>3, <3>6, <4>2
      <4> QED
        BY <4>1, <4>2
    <3> QED
      BY <3>2, <3>4, <3>5, <3>6
  <2>12. NormHoldsTheNext'
    <3>1. head.type = "message" \/ (head.type = "error" /\ head.keep)
      <4>1. 1 \in 1 .. n
        BY <2>1
      <4> QED
        BY <2>4, <4>1 DEF head
    <3>2. Kept(head) /\ ~sdkPipe.recvClosed => Passed' <= Len(produced) /\ head.id = produced[Passed']
      BY <1>8, <2>1, <2>10
    <3>3. Receiving /\ sdkPipe'.recvClosed => ctx' # "live"
      BY <1>1, <1>3 DEF NormStep, StreamInv, NormHoldsTheNext
    <3> QED
      BY <1>1, <1>3, <2>1, <3>1, <3>2, <3>3 DEF NormStep, NormHoldsTheNext, Receiving, Kept
  <2> QED
    BY <1>5, <1>6, <1>7, <2>5, <2>6, <2>11, <2>12 DEF StreamInv
<1> QED
  BY <1>3, <1>9, <1>10

(* At the end of the SDK's messages, and while the context lives, none is  *)
(* on its way any more.                                                    *)
LEMMA EndOfTheMessages ==
  ASSUME StreamInv, norm = "got", normItem = EOFItem, ctx = "live"
  PROVE  sdk = "done" /\ HandedOver = Len(produced)
<1>1. sdkPipe.sendClosed /\ sdkPipe.queue = <<>> /\ sdk = "done"
  BY DEF StreamInv, NormHoldsTheNext, BodyIsTheSDKs, EOFItem
<1>2. Receiving /\ ~sdkPipe.recvClosed
  BY DEF StreamInv, NormHoldsTheNext, Receiving
<1>3. Passed <= Len(produced) /\ \A j \in Passed + 1 .. Len(produced) : InFlight(produced[j])
  BY <1>2 DEF StreamInv, NothingIsDropped
<1>4. \A id : ~InFlight(id)
  BY <1>1 DEF InFlight
<1>5. Passed = HandedOver /\ HandedOver \in Nat /\ Len(produced) \in Nat
  BY Counts DEF Kept, EOFItem
<1>6. Len(produced) \notin Passed + 1 .. Len(produced)
  BY <1>3, <1>4
<1> QED
  BY <1>1, <1>3, <1>5, <1>6

(* What the goroutine makes of the item it got. *)
LEMMA NormalizedFacts ==
  ASSUME StreamInv, norm = "got"
  PROVE  /\ Normalized \in Items
         /\ \/ Normalized = normItem /\ normItem.type = "message" /\ ctx = "live"
            \/ Normalized.type = "error" /\ Normalized.keep
            \/ /\ Normalized = UsageChunk /\ Answered /\ UsageIsKnown
               /\ HandedOver = Len(produced)
            \/ /\ Normalized = EOFItem /\ Answered /\ ~UsageIsKnown
               /\ HandedOver = Len(produced)
<1>1. /\ normItem \in Items /\ ctx \in {"live", "canceled", "deadline"}
      /\ state.body.err \in BodyErrors \cup {"none"} /\ state.body.terminal \in BOOLEAN
  BY DEF StreamInv, StreamTyped, Inv, Typed, State, BodyObservation
<1>2. \A e \in Errors : Failed(e) \in Items /\ Failed(e).type = "error" /\ Failed(e).keep
  BY DEF Failed, Items
<1>3. UsageChunk \in Items /\ EOFItem \in Items
  BY DEF UsageChunk, EOFItem, Items, Errors
<1>4. CASE ctx # "live"
  BY <1>1, <1>2, <1>4 DEF Normalized, Errors, BodyErrors
<1>5. CASE ctx = "live" /\ normItem.type # "EOF"
  BY <1>1, <1>5 DEF Normalized, StreamInv, NormHoldsTheNext, EOFItem
<1>6. CASE ctx = "live" /\ normItem.type = "EOF"
  <2>1. normItem = EOFItem /\ Normalized = AtEOF
    BY <1>6 DEF Normalized, StreamInv, NormHoldsTheNext
  <2>2. sdk = "done" /\ HandedOver = Len(produced)
    BY <1>6, <2>1, EndOfTheMessages
  <2>3. CASE state.body.err # "none"
    BY <1>1, <1>2, <2>1, <2>3 DEF AtEOF, Errors
  <2>4. CASE state.body.err = "none" /\ ~state.body.terminal
    BY <1>2, <2>1, <2>4 DEF AtEOF, Errors, BodyErrors
  <2>5. CASE state.body.err = "none" /\ state.body.terminal
    BY <1>3, <2>1, <2>2, <2>5 DEF AtEOF, Answered, UsageIsKnown
  <2> QED
    BY <1>1, <2>3, <2>4, <2>5
<1> QED
  BY <1>4, <1>5, <1>6

(* The goroutine decides what to send for it. *)
LEMMA NormDecidesStep == StreamInv /\ Inv' /\ NormDecides => StreamInv'
<1> SUFFICES ASSUME StreamInv, Inv', NormDecides PROVE StreamInv'
  OBVIOUS
<1> DEFINE item == Normalized
<1>1. /\ norm = "got" /\ normItem' = item
      /\ norm' = IF item.type = "EOF" THEN "ending" ELSE IF ~item.keep THEN "recv" ELSE "send"
      /\ sdkPipe' = sdkPipe /\ outPipe' = outPipe /\ NormStep
  BY DEF NormDecides, NormUnchanged, NormStep, sdkVars, callerVars
<1>2. /\ item \in Items
      /\ \/ item = normItem /\ normItem.type = "message" /\ ctx = "live"
         \/ item.type = "error" /\ item.keep
         \/ item = UsageChunk /\ Answered /\ UsageIsKnown /\ HandedOver = Len(produced)
         \/ item = EOFItem /\ Answered /\ ~UsageIsKnown /\ HandedOver = Len(produced)
  BY <1>1, NormalizedFacts
<1> HIDE DEF item
<1>3. /\ BodyIsTheSDKs' /\ ProducedInOrder' /\ QueueIsInOrder' /\ SDKHoldsTheLatest'
      /\ Answered' = Answered /\ UsageIsKnown' = UsageIsKnown
      /\ \A id : InFlight(id)' = InFlight(id)
  BY <1>1, StepOfNorm
<1>4. StreamTyped'
  BY <1>1, <1>2 DEF NormStep, StreamInv, StreamTyped
<1>5. HandedOver' = HandedOver /\ ~closing
  BY <1>1 DEF NormStep, HandedOver, StreamInv, EndIsEarned
<1>6. CallerHasTheFirst'
  BY <1>1, <1>3 DEF NormStep, StreamInv, CallerHasTheFirst
<1>7. EndIsEarned'
  <2>1. norm' = "send" /\ normItem'.type = "usage" => Answered /\ UsageIsKnown /\ HandedOver = Len(produced)
    BY <1>1, <1>2 DEF EOFItem
  <2>2. norm' \in {"ending", "done"} => Answered /\ ~UsageIsKnown /\ HandedOver = Len(produced)
    BY <1>1, <1>2 DEF EOFItem, UsageChunk
  <2> QED
    BY <1>1, <1>3, <1>5, <2>1, <2>2 DEF NormStep, StreamInv, EndIsEarned
<1>8. CASE item = normItem /\ normItem.type = "message" /\ ctx = "live"
  <2>1. norm' = IF item.keep THEN "send" ELSE "recv"
    BY <1>1, <1>8
  <2>2. Passed' = Passed
    BY <1>1, <1>5, <1>8, <2>1 DEF Passed, Kept
  <2>3. Receiving /\ Receiving' /\ ~sdkPipe.recvClosed
    BY <1>1, <1>8, <2>1 DEF Receiving, StreamInv, NormHoldsTheNext
  <2>4. NothingIsDropped'
    BY <1>1, <1>3, <2>2, <2>3 DEF NormStep, StreamInv, NothingIsDropped
  <2>5. NormHoldsTheNext'
    BY <1>1, <1>8, <2>1, <2>2, <2>3 DEF NormStep, StreamInv, NormHoldsTheNext, Kept
  <2> QED
    BY <1>3, <1>4, <1>6, <1>7, <2>4, <2>5 DEF StreamInv
<1>9. CASE item.type # "message"
  <2>1. /\ ~Receiving' /\ norm' \in {"ending", "send"}
        /\ norm' = "send" => item.type \in {"error", "usage"} /\ item.keep
    BY <1>1, <1>2, <1>9 DEF Receiving, EOFItem, UsageChunk
  <2>2. NothingIsDropped'
    BY <2>1 DEF NothingIsDropped
  <2>3. NormHoldsTheNext'
    BY <1>1, <1>9, <2>1 DEF NormHoldsTheNext, Kept
  <2> QED
    BY <1>3, <1>4, <1>6, <1>7, <2>2, <2>3 DEF StreamInv
<1> QED
  BY <1>2, <1>8, <1>9 DEF EOFItem, UsageChunk

(* The goroutine puts an item before the caller, or finds it gone. *)
LEMMA NormSendsStep == StreamInv /\ Inv' /\ NormSends => StreamInv'
<1> SUFFICES ASSUME StreamInv, Inv', NormSends PROVE StreamInv'
  OBVIOUS
<1>1. /\ norm = "send" /\ normItem' = normItem /\ sdkPipe' = sdkPipe /\ NormStep
      /\ norm' = IF normItem.type = "message" /\ ~outPipe.recvClosed THEN "recv" ELSE "ending"
      /\ \/ outPipe.recvClosed /\ outPipe' = outPipe
         \/ ~outPipe.recvClosed /\ CanSend(outPipe, 1) /\ outPipe' = Sent(outPipe, normItem)
  BY DEF NormSends, NormUnchanged, NormStep, sdkVars, callerVars
<1>2. /\ outPipe \in Pipes(Items) /\ outPipe.queue \in Seq(Items) /\ normItem \in Items
      /\ normItem.type \in {"message", "error", "usage"} /\ normItem.keep
  BY <1>1 DEF StreamInv, StreamTyped, Pipes, NormHoldsTheNext
<1>3. /\ BodyIsTheSDKs' /\ ProducedInOrder' /\ QueueIsInOrder' /\ SDKHoldsTheLatest'
      /\ Answered' = Answered /\ UsageIsKnown' = UsageIsKnown
      /\ \A id : InFlight(id)' = InFlight(id)
  BY <1>1, StepOfNorm
<1>4. ~closing /\ end # "EOF"
  BY <1>1 DEF StreamInv, EndIsEarned
<1>5. CASE outPipe.recvClosed
  <2>1. /\ outPipe' = outPipe /\ norm' = "ending" /\ end # "open" /\ ~Receiving'
    BY <1>1, <1>5 DEF StreamInv, EndIsEarned, Receiving
  <2>2. StreamTyped' /\ NothingIsDropped' /\ NormHoldsTheNext'
    BY <1>1, <2>1 DEF NormStep, StreamInv, StreamTyped, NothingIsDropped, NormHoldsTheNext
  <2>3. CallerHasTheFirst'
    BY <1>1, <1>3, <2>1 DEF NormStep, StreamInv, CallerHasTheFirst
  <2>4. EndIsEarned'
    BY <1>1, <1>3, <1>4, <2>1 DEF NormStep, StreamInv, EndIsEarned
  <2> QED
    BY <1>3, <2>2, <2>3, <2>4 DEF StreamInv
<1>6. CASE ~outPipe.recvClosed
  <2>1. outPipe.queue = <<>> /\ Len(outPipe.queue) = 0
    BY <1>1, <1>2, <1>6 DEF CanSend
  <2>2. /\ outPipe' \in Pipes(Items)
        /\ outPipe'.sendClosed = outPipe.sendClosed /\ ~outPipe'.recvClosed
        /\ Len(outPipe'.queue) = 1 /\ outPipe'.queue[1] = normItem /\ outPipe'.queue # <<>>
    <3>1. outPipe' = Sent(outPipe, normItem)
      BY <1>1, <1>6
    <3>2. /\ outPipe' \in Pipes(Items)
          /\ outPipe'.sendClosed = outPipe.sendClosed
          /\ outPipe'.recvClosed = outPipe.recvClosed
          /\ Len(outPipe'.queue) = Len(outPipe.queue) + 1
          /\ outPipe'.queue[Len(outPipe.queue) + 1] = normItem
      BY <1>2, <3>1, SentProperties
    <3>3. Len(outPipe'.queue) = 1 /\ outPipe'.queue[1] = normItem
      BY <2>1, <3>2
    <3>4. outPipe'.queue # <<>>
      BY <3>3
    <3> QED
      BY <1>6, <3>2, <3>3, <3>4
  <2>3. HandedOver = Len(received) /\ Len(received) \in Nat /\ Len(produced) \in Nat
    BY <2>1, Counts
  <2>4. StreamTyped'
    BY <1>1, <2>2 DEF NormStep, StreamInv, StreamTyped
  <2>5. CASE normItem.type = "message"
    <3>1. norm' = "recv" /\ Receiving /\ Receiving'
      BY <1>1, <1>6, <2>5 DEF Receiving
    <3>2. /\ Passed = Len(received) + 1 /\ Passed <= Len(produced)
          /\ normItem.id = produced[Passed]
      BY <1>1, <1>2, <2>3, <2>5, Counts DEF Kept, StreamInv, NormHoldsTheNext
    <3>3. Passed' = Passed /\ HandedOver' = Passed
      <4>1. HandedOver' = Len(received) + 1
        BY <1>1, <2>2, <2>5 DEF HandedOver, NormStep
      <4>2. Passed' = HandedOver' + 0
        BY <3>1 DEF Passed
      <4> QED
        BY <2>3, <3>2, <4>1, <4>2
    <3>4. NothingIsDropped'
      BY <1>1, <1>3, <3>1, <3>3 DEF NormStep, StreamInv, NothingIsDropped
    <3>5. NormHoldsTheNext'
      BY <1>1, <3>1 DEF NormStep, StreamInv, NormHoldsTheNext
    <3>6. CallerHasTheFirst'
      BY <1>1, <1>4, <2>2, <2>3, <2>5, <3>2 DEF NormStep, StreamInv, CallerHasTheFirst
    <3>7. EndIsEarned'
      BY <1>1, <1>3, <1>4, <2>2, <3>1 DEF NormStep, StreamInv, EndIsEarned
    <3> QED
      BY <1>3, <2>4, <3>4, <3>5, <3>6, <3>7 DEF StreamInv
  <2>6. CASE normItem.type # "message"
    <3>1. norm' = "ending" /\ ~Receiving' /\ normItem.type \in {"error", "usage"}
      BY <1>1, <1>2, <2>6 DEF Receiving
    <3>2. normItem.type = "usage" => Answered /\ UsageIsKnown /\ Len(received) = Len(produced)
      BY <1>1, <2>3 DEF StreamInv, EndIsEarned
    <3>3. NothingIsDropped' /\ NormHoldsTheNext'
      BY <1>1, <3>1 DEF NothingIsDropped, NormHoldsTheNext
    <3>4. CallerHasTheFirst'
      BY <1>1, <1>3, <1>4, <2>2, <3>1, <3>2 DEF NormStep, StreamInv, CallerHasTheFirst
    <3>5. EndIsEarned'
      BY <1>1, <1>3, <1>4, <2>2, <3>1 DEF NormStep, StreamInv, EndIsEarned
    <3> QED
      BY <1>3, <2>4, <3>3, <3>4, <3>5 DEF StreamInv
  <2> QED
    BY <2>5, <2>6
<1> QED
  BY <1>5, <1>6

(* A panic of the SDK's reader becomes the error to be sent. *)
LEMMA NormPanicsStep == StreamInv /\ Inv' /\ NormPanics => StreamInv'
<1> SUFFICES ASSUME StreamInv, Inv', NormPanics PROVE StreamInv'
  OBVIOUS
<1>1. /\ norm = "recv" /\ norm' = "send" /\ normItem' = Failed("panic")
      /\ sdkPipe' = [sdkPipe EXCEPT !.recvClosed = TRUE] /\ outPipe' = outPipe /\ NormStep
  BY DEF NormPanics, NormUnchanged, NormStep, sdkVars, callerVars
<1>2. /\ sdkPipe' \in Pipes(Items) /\ sdkPipe'.queue = sdkPipe.queue
      /\ sdkPipe'.sendClosed = sdkPipe.sendClosed
  BY <1>1, ClosedProperties DEF StreamInv, StreamTyped
<1>3. normItem' \in Items /\ normItem'.type = "error" /\ normItem'.keep
  BY <1>1 DEF Failed, Items, Errors
<1>4. /\ BodyIsTheSDKs' /\ ProducedInOrder' /\ QueueIsInOrder' /\ SDKHoldsTheLatest'
      /\ Answered' = Answered /\ UsageIsKnown' = UsageIsKnown
  BY <1>1, <1>2, StepOfNorm
<1>5. StreamTyped'
  BY <1>1, <1>2, <1>3 DEF NormStep, StreamInv, StreamTyped
<1>6. ~Receiving' /\ HandedOver' = HandedOver
  BY <1>1, <1>3 DEF Receiving, HandedOver, NormStep
<1>7. NothingIsDropped' /\ NormHoldsTheNext'
  BY <1>1, <1>3, <1>6 DEF NothingIsDropped, NormHoldsTheNext, Kept
<1>8. CallerHasTheFirst'
  BY <1>1, <1>4 DEF NormStep, StreamInv, CallerHasTheFirst
<1>9. EndIsEarned'
  BY <1>1, <1>3, <1>4, <1>6 DEF NormStep, StreamInv, EndIsEarned
<1> QED
  BY <1>4, <1>5, <1>7, <1>8, <1>9 DEF StreamInv

(* The goroutine closes the source and its writer. *)
LEMMA NormEndsStep == StreamInv /\ Inv' /\ NormEnds => StreamInv'
<1> SUFFICES ASSUME StreamInv, Inv', NormEnds PROVE StreamInv'
  OBVIOUS
<1>1. /\ norm = "ending" /\ norm' = "done" /\ normItem' = normItem
      /\ sdkPipe' = [sdkPipe EXCEPT !.recvClosed = TRUE]
      /\ outPipe' = [outPipe EXCEPT !.sendClosed = TRUE] /\ NormStep
  BY DEF NormEnds, NormUnchanged, NormStep, sdkVars, callerVars
<1>2. /\ sdkPipe' \in Pipes(Items) /\ sdkPipe'.queue = sdkPipe.queue
      /\ sdkPipe'.sendClosed = sdkPipe.sendClosed
      /\ outPipe' \in Pipes(Items) /\ outPipe'.queue = outPipe.queue
      /\ outPipe'.recvClosed = outPipe.recvClosed
  BY <1>1, ClosedProperties DEF StreamInv, StreamTyped
<1>3. /\ BodyIsTheSDKs' /\ ProducedInOrder' /\ QueueIsInOrder' /\ SDKHoldsTheLatest'
      /\ Answered' = Answered /\ UsageIsKnown' = UsageIsKnown
  BY <1>1, <1>2, StepOfNorm
<1>4. StreamTyped'
  BY <1>1, <1>2 DEF NormStep, StreamInv, StreamTyped
<1>5. ~Receiving' /\ HandedOver' = HandedOver
  BY <1>1, <1>2 DEF Receiving, HandedOver, NormStep
<1>6. NothingIsDropped' /\ NormHoldsTheNext'
  BY <1>1, <1>5 DEF NothingIsDropped, NormHoldsTheNext
<1>7. CallerHasTheFirst'
  BY <1>1, <1>2, <1>3 DEF NormStep, StreamInv, CallerHasTheFirst
<1>8. EndIsEarned'
  BY <1>1, <1>2, <1>3, <1>5 DEF NormStep, StreamInv, EndIsEarned
<1> QED
  BY <1>3, <1>4, <1>6, <1>7, <1>8 DEF StreamInv

(* The callback on the context's end closes the source, whatever the       *)
(* goroutine is doing.                                                     *)
LEMMA CancellationClosesStep == StreamInv /\ Inv' /\ CancellationCloses => StreamInv'
<1> SUFFICES ASSUME StreamInv, Inv', CancellationCloses PROVE StreamInv'
  OBVIOUS
<1>1. /\ ctx # "live" /\ norm' = norm /\ normItem' = normItem /\ outPipe' = outPipe
      /\ sdkPipe' = [sdkPipe EXCEPT !.recvClosed = TRUE] /\ NormStep
  BY DEF CancellationCloses, NormUnchanged, NormStep, sdkVars, callerVars, normVars
<1>2. /\ sdkPipe' \in Pipes(Items) /\ sdkPipe'.queue = sdkPipe.queue
      /\ sdkPipe'.sendClosed = sdkPipe.sendClosed /\ sdkPipe'.recvClosed
  BY <1>1, ClosedProperties DEF StreamInv, StreamTyped
<1>3. /\ BodyIsTheSDKs' /\ ProducedInOrder' /\ QueueIsInOrder' /\ SDKHoldsTheLatest'
      /\ Answered' = Answered /\ UsageIsKnown' = UsageIsKnown
  BY <1>1, <1>2, StepOfNorm
<1>4. StreamTyped'
  BY <1>1, <1>2 DEF NormStep, StreamInv, StreamTyped
<1>5. HandedOver' = HandedOver /\ Passed' = Passed
  BY <1>1 DEF Passed, HandedOver, Kept, NormStep
<1>6. NothingIsDropped'
  BY <1>2 DEF NothingIsDropped
<1>7. NormHoldsTheNext'
  BY <1>1, <1>2, <1>5 DEF NormStep, StreamInv, NormHoldsTheNext
<1>8. CallerHasTheFirst'
  BY <1>1, <1>3 DEF NormStep, StreamInv, CallerHasTheFirst
<1>9. EndIsEarned'
  BY <1>1, <1>3, <1>5 DEF NormStep, StreamInv, EndIsEarned
<1> QED
  BY <1>3, <1>4, <1>6, <1>7, <1>8, <1>9 DEF StreamInv

-----------------------------------------------------------------------------
(* The caller *)

(* The SDK and the goroutine in a step of the caller. *)
CallerStep ==
  UNCHANGED <<state, ctx, observerVars, sdk, decoded, sdkItem, sdkPipe, norm, normItem,
              produced>>

(* The caller does not disturb what is said of them, as long as the number *)
(* of messages put before it stays the same.                               *)
LEMMA StepOfTheCaller ==
  ASSUME StreamInv, CallerStep, HandedOver' = HandedOver
  PROVE  /\ BodyIsTheSDKs' /\ ProducedInOrder' /\ QueueIsInOrder' /\ SDKHoldsTheLatest'
         /\ NothingIsDropped' /\ NormHoldsTheNext' /\ Passed' = Passed
         /\ Answered' = Answered /\ UsageIsKnown' = UsageIsKnown
<1> USE DEF CallerStep
<1>1. BodyIsTheSDKs' /\ ProducedInOrder' /\ QueueIsInOrder' /\ SDKHoldsTheLatest'
  BY DEF observerVars, StreamInv, BodyIsTheSDKs, ProducedInOrder, QueueIsInOrder,
         SDKHoldsTheLatest
<1>2. Passed' = Passed /\ Receiving' = Receiving
  BY DEF Passed, Kept, Receiving
<1>3. NothingIsDropped'
  BY <1>2 DEF StreamInv, NothingIsDropped, InFlight
<1>4. NormHoldsTheNext'
  BY <1>2 DEF StreamInv, NormHoldsTheNext
<1>5. Answered' = Answered /\ UsageIsKnown' = UsageIsKnown
  BY DEF Answered, UsageIsKnown
<1> QED
  BY <1>1, <1>2, <1>3, <1>4, <1>5

(* What the caller may receive: the next message, an error, the usage of a *)
(* response of which it has every message, or EOF when it has everything.  *)
LEMMA NextIsInOrder ==
  ASSUME StreamInv, end = "open", CanRecv(outPipe)
  PROVE  LET item == NextItem(outPipe)
             p == Received(outPipe)
         IN  /\ p \in Pipes(Items) /\ p.queue = <<>>
             /\ p.sendClosed = outPipe.sendClosed /\ p.recvClosed = outPipe.recvClosed
             /\ \/ /\ item.type = "message" /\ ~closing /\ Len(received) < Len(produced)
                   /\ item.id = produced[Len(received) + 1]
                   /\ HandedOver = Len(received) + 1
                \/ /\ item.type = "error" /\ ~closing /\ norm \in {"ending", "done"}
                   /\ HandedOver = Len(received)
                \/ /\ item.type = "usage" /\ ~closing /\ norm \in {"ending", "done"}
                   /\ Answered /\ UsageIsKnown /\ Len(received) = Len(produced)
                   /\ HandedOver = Len(received)
                \/ /\ item.type = "EOF" /\ norm = "done" /\ Answered
                   /\ (closing <=> UsageIsKnown) /\ Len(received) = Len(produced)
                   /\ HandedOver = Len(received)
<1> DEFINE item == NextItem(outPipe)
           p == Received(outPipe)
<1>1. outPipe \in Pipes(Items) /\ outPipe.queue \in Seq(Items) /\ Len(outPipe.queue) <= 1
  BY DEF StreamInv, StreamTyped, Pipes, CallerHasTheFirst
<1>2. /\ p \in Pipes(Items)
      /\ p.sendClosed = outPipe.sendClosed /\ p.recvClosed = outPipe.recvClosed
      /\ \/ /\ outPipe.queue = <<>> /\ outPipe.sendClosed /\ item = EOFItem /\ p = outPipe
         \/ /\ outPipe.queue # <<>> /\ Len(outPipe.queue) > 0 /\ item = outPipe.queue[1]
            /\ Len(p.queue) = Len(outPipe.queue) - 1
  BY <1>1, ReceivedProperties
<1> HIDE DEF item, p
<1>3. p.queue = <<>>
  <2>1. p.queue \in Seq(Items)
    BY <1>2 DEF Pipes
  <2>2. CASE outPipe.queue = <<>>
    BY <1>2, <2>2
  <2>3. CASE outPipe.queue # <<>>
    <3>1. Len(p.queue) = 0
      BY <1>1, <1>2, <2>3
    <3> QED
      BY <2>1, <3>1
  <2> QED
    BY <2>2, <2>3
<1>4. CASE outPipe.queue = <<>> /\ outPipe.sendClosed /\ item = EOFItem
  <2>1. HandedOver = Len(received) /\ norm = "done"
    BY <1>4, Counts DEF StreamInv, EndIsEarned
  <2>2. closing \/ (Answered /\ ~UsageIsKnown /\ HandedOver = Len(produced))
    BY <1>4, <2>1 DEF StreamInv, EndIsEarned
  <2>3. closing => Answered /\ UsageIsKnown /\ Len(received) = Len(produced)
    BY DEF StreamInv, EndIsEarned
  <2> QED
    BY <1>2, <1>3, <1>4, <2>1, <2>2, <2>3 DEF EOFItem, item, p
<1>5. CASE outPipe.queue # <<>> /\ item = outPipe.queue[1]
  <2>1. /\ ~closing
        /\ \/ /\ item.type = "message" /\ Len(received) < Len(produced)
              /\ item.id = produced[Len(received) + 1]
           \/ item.type = "error" /\ norm \in {"ending", "done"}
           \/ /\ item.type = "usage" /\ norm \in {"ending", "done"}
              /\ Answered /\ UsageIsKnown /\ Len(received) = Len(produced)
    BY <1>5 DEF StreamInv, CallerHasTheFirst
  <2>2. HandedOver = IF item.type = "message" THEN Len(received) + 1 ELSE Len(received)
    BY <1>5, Counts
  <2> QED
    BY <1>2, <1>3, <2>1, <2>2 DEF item, p
<1> QED
  BY <1>2, <1>4, <1>5

(* The caller receives. *)
LEMMA CallerReceivesStep == StreamInv /\ Inv' /\ CallerReceives => StreamInv'
<1> SUFFICES ASSUME StreamInv, Inv', CallerReceives PROVE StreamInv'
  OBVIOUS
<1> DEFINE item == NextItem(outPipe)
<1>1. /\ end = "open" /\ CanRecv(outPipe) /\ outPipe' = Received(outPipe) /\ CallerStep
      /\ received' = IF item.type = "message" THEN Append(received, item.id) ELSE received
      /\ closing' = (closing \/ item.type = "usage")
      /\ end' = IF item.type \in {"error", "EOF"} THEN item.type ELSE "open"
  BY DEF CallerReceives, CallerStep, sdkVars, normVars
<1>2. /\ outPipe' \in Pipes(Items) /\ outPipe'.queue = <<>>
      /\ outPipe'.sendClosed = outPipe.sendClosed /\ outPipe'.recvClosed = outPipe.recvClosed
      /\ \/ /\ item.type = "message" /\ ~closing /\ Len(received) < Len(produced)
            /\ item.id = produced[Len(received) + 1]
            /\ HandedOver = Len(received) + 1
         \/ /\ item.type = "error" /\ ~closing /\ norm \in {"ending", "done"}
            /\ HandedOver = Len(received)
         \/ /\ item.type = "usage" /\ ~closing /\ norm \in {"ending", "done"}
            /\ Answered /\ UsageIsKnown /\ Len(received) = Len(produced)
            /\ HandedOver = Len(received)
         \/ /\ item.type = "EOF" /\ norm = "done" /\ Answered
            /\ (closing <=> UsageIsKnown) /\ Len(received) = Len(produced)
            /\ HandedOver = Len(received)
  BY <1>1, NextIsInOrder
<1> HIDE DEF item
<1>3. /\ received \in Seq(Nat) /\ produced \in Seq(Nat) /\ closing \in BOOLEAN
      /\ Len(received) \in Nat /\ Len(produced) \in Nat
  BY DEF StreamInv, StreamTyped
<1>4. CASE item.type = "message"
  <2> DEFINE x == produced[Len(received) + 1]
  <2>1. x \in Nat
    BY <1>2, <1>3, <1>4
  <2>2. received' = Append(received, x) /\ closing' = FALSE /\ ~closing /\ end' = "open"
    BY <1>1, <1>2, <1>4
  <2>3. /\ received' \in Seq(Nat) /\ Len(received') = Len(received) + 1
        /\ \A i \in 1 .. Len(received) : received'[i] = received[i]
        /\ received'[Len(received) + 1] = x
    <3> HIDE DEF x
    <3> QED
      BY <1>3, <2>1, <2>2, AppendProperties
  <2>4. HandedOver' = HandedOver
    <3>1. HandedOver' = Len(received') + 0
      BY <1>2 DEF HandedOver
    <3> QED
      BY <1>2, <1>3, <1>4, <2>3, <3>1
  <2>5. StreamTyped'
    BY <1>1, <1>2, <2>2, <2>3 DEF CallerStep, StreamInv, StreamTyped
  <2>6. CallerHasTheFirst'
    <3>1. Len(received') <= Len(produced')
      BY <1>1, <1>2, <1>3, <1>4, <2>3 DEF CallerStep
    <3>2. ASSUME NEW i \in 1 .. Len(received') PROVE received'[i] = produced'[i]
      <4>1. i \in 1 .. Len(received) \/ i = Len(received) + 1
        BY <1>3, <2>3
      <4> QED
        BY <1>1, <2>3, <4>1 DEF CallerStep, StreamInv, CallerHasTheFirst
    <3> QED
      BY <1>2, <3>1, <3>2 DEF CallerHasTheFirst
  <2>7. EndIsEarned'
    <3>1. norm \in {"ending", "done"} => Answered /\ ~UsageIsKnown /\ HandedOver = Len(produced)
      BY <1>1, <1>2, <1>4, <2>2 DEF StreamInv, EndIsEarned, CallerHasTheFirst, CanRecv, item, NextItem
    <3> QED
      BY <1>1, <1>2, <2>2, <2>4, <3>1, StepOfTheCaller DEF CallerStep, StreamInv, EndIsEarned
  <2> QED
    BY <1>1, <2>4, <2>5, <2>6, <2>7, StepOfTheCaller DEF StreamInv
<1>5. CASE item.type # "message"
  <2>1. received' = received
    BY <1>1, <1>5
  <2>2. HandedOver' = HandedOver
    <3>1. HandedOver' = Len(received) + 0
      BY <1>2, <2>1 DEF HandedOver
    <3> QED
      BY <1>2, <1>3, <1>5, <3>1
  <2>3. StreamTyped'
    BY <1>1, <1>2, <1>3, <2>1 DEF CallerStep, StreamInv, StreamTyped
  <2>4. CallerHasTheFirst'
    BY <1>1, <1>2, <2>1 DEF CallerStep, StreamInv, CallerHasTheFirst
  <2>5. EndIsEarned'
    <3>1. UNCHANGED <<norm, normItem, produced>> /\ Answered' = Answered /\ UsageIsKnown' = UsageIsKnown
      BY <1>1, <2>2, StepOfTheCaller DEF CallerStep
    <3>2. CASE item.type = "error"
      BY <1>1, <1>2, <2>1, <2>2, <3>1, <3>2 DEF StreamInv, EndIsEarned
    <3>3. CASE item.type = "usage"
      BY <1>1, <1>2, <2>1, <2>2, <3>1, <3>3 DEF StreamInv, EndIsEarned
    <3>4. CASE item.type = "EOF"
      BY <1>1, <1>2, <2>1, <2>2, <3>1, <3>4 DEF StreamInv, EndIsEarned
    <3> QED
      BY <1>2, <1>5, <3>2, <3>3, <3>4
  <2> QED
    BY <1>1, <2>2, <2>3, <2>4, <2>5, StepOfTheCaller DEF StreamInv
<1> QED
  BY <1>4, <1>5

(* The caller closes its reader. *)
LEMMA CallerClosesStep == StreamInv /\ Inv' /\ CallerCloses => StreamInv'
<1> SUFFICES ASSUME StreamInv, Inv', CallerCloses PROVE StreamInv'
  OBVIOUS
<1>1. /\ outPipe' = [outPipe EXCEPT !.recvClosed = TRUE] /\ CallerStep
      /\ end' = IF end = "open" THEN "closed" ELSE end
      /\ UNCHANGED <<received, closing>>
  BY DEF CallerCloses, CallerStep, sdkVars, normVars
<1>2. /\ outPipe' \in Pipes(Items) /\ outPipe'.queue = outPipe.queue
      /\ outPipe'.sendClosed = outPipe.sendClosed
  BY <1>1, ClosedProperties DEF StreamInv, StreamTyped
<1>3. HandedOver' = HandedOver
  BY <1>1, <1>2 DEF HandedOver
<1>4. StreamTyped'
  BY <1>1, <1>2 DEF CallerStep, StreamInv, StreamTyped
<1>5. Answered' = Answered /\ UsageIsKnown' = UsageIsKnown
  BY <1>1, <1>3, StepOfTheCaller
<1>6. CallerHasTheFirst'
  BY <1>1, <1>2, <1>5 DEF CallerStep, StreamInv, CallerHasTheFirst
<1>7. EndIsEarned'
  BY <1>1, <1>2, <1>3, <1>5 DEF CallerStep, StreamInv, EndIsEarned
<1> QED
  BY <1>1, <1>3, <1>4, <1>6, <1>7, StepOfTheCaller DEF StreamInv

-----------------------------------------------------------------------------
(* The invariant of the stream *)

(* It holds when the request has been answered. *)
LEMMA StreamInitInv == StreamInit => StreamInv
<1> SUFFICES ASSUME StreamInit PROVE StreamInv
  OBVIOUS
<1> USE DEF StreamInit
<1>1. Inv
  BY InitInv
<1>2. EOFItem \in Items /\ NewPipe \in Pipes(Items)
  BY NewPipeType DEF EOFItem, Items, Errors
<1>3. StreamTyped
  <2>1. produced \in Seq(Nat) /\ received \in Seq(Nat) /\ decoded \in Nat
    OBVIOUS
  <2>2. /\ sdkItem \in Items /\ normItem \in Items
        /\ sdkPipe \in Pipes(Items) /\ outPipe \in Pipes(Items)
    BY <1>2
  <2>3. closing \in BOOLEAN /\ end = "open" /\ sdk = "loop" /\ norm = "recv"
    OBVIOUS
  <2> QED
    BY <2>1, <2>2, <2>3 DEF StreamTyped
<1>4. /\ sdkPipe.queue = <<>> /\ ~sdkPipe.sendClosed /\ ~sdkPipe.recvClosed
      /\ outPipe.queue = <<>> /\ ~outPipe.sendClosed /\ ~outPipe.recvClosed
  BY NewPipeType
<1>5. BodyIsTheSDKs
  <2>1. state.attempt = ThisAttempt
    <3>1. NewState \in State /\ NewState.attempt = 0
      BY MaxIntAssumption
         DEF NewState, State, EmptyObservation, BodyObservation, NoUsage, Usage, Absent, Count
    <3> QED
      BY <3>1, FreshAttempt DEF Init, ThisAttempt
  <2> QED
    BY <1>4, <2>1, ObserverAssumption DEF BodyIsTheSDKs, Init
<1>6. ProducedInOrder /\ QueueIsInOrder /\ SDKHoldsTheLatest
  BY <1>4 DEF ProducedInOrder, QueueIsInOrder, SDKHoldsTheLatest
<1>7. NothingIsDropped
  <2>1. Passed = 0 /\ Len(produced) = 0
    BY <1>4 DEF Passed, HandedOver
  <2> QED
    BY <1>4, <2>1 DEF NothingIsDropped
<1>8. NormHoldsTheNext /\ CallerHasTheFirst /\ EndIsEarned
  BY <1>4 DEF NormHoldsTheNext, CallerHasTheFirst, EndIsEarned
<1> QED
  BY <1>1, <1>3, <1>5, <1>6, <1>7, <1>8 DEF StreamInv

(* Every step keeps it. *)
LEMMA StreamNextInv == StreamInv /\ [StreamNext]_allVars => StreamInv'
<1> SUFFICES ASSUME StreamInv, [StreamNext]_allVars PROVE StreamInv'
  OBVIOUS
<1>1. Inv'
  BY BodyStepKeepsInv DEF StreamInv
<1>2. CASE UNCHANGED allVars
  <2>1. BodyIsTheSDKs'
    BY <1>2 DEF allVars, streamVars, sdkVars, observerVars, StreamInv, BodyIsTheSDKs
  <2> QED
    BY <1>1, <1>2, <2>1, StepOnTheBody DEF allVars
<1>3. CASE StreamNetwork \/ StreamRead
  BY <1>1, <1>3, StreamNetworkStep, StreamReadStep
<1>4. CASE SDK
  BY <1>1, <1>4, SDKReadsStep, SDKSkipsStep, SDKEndsStep, SDKDecodesStep, SDKSendsStep,
     SDKClosesStep, SDKFinishesStep DEF SDK
<1>5. CASE Normalize \/ CancellationCloses
  BY <1>1, <1>5, NormReceivesStep, NormDecidesStep, NormSendsStep, NormPanicsStep,
     NormEndsStep, CancellationClosesStep DEF Normalize
<1>6. CASE CallerReceives \/ CallerCloses
  BY <1>1, <1>6, CallerReceivesStep, CallerClosesStep
<1>7. CASE \E e \in ContextErrors : CallerCancels(e)
  BY <1>1, <1>7, CallerCancelsStep
<1> QED
  BY <1>2, <1>3, <1>4, <1>5, <1>6, <1>7 DEF StreamNext

(* The inductive invariant holds in every reachable state of the stream. *)
THEOREM StreamInvHolds == StreamSpec => []StreamInv
BY StreamInitInv, StreamNextInv, PTL DEF StreamSpec

-----------------------------------------------------------------------------
(* What a caller that has seen EOF may rely on *)

(* EOFLeavesNothingBehind: when the caller sees EOF, the SDK's goroutine   *)
(* has ended and the network body is closed.                               *)
THEOREM NothingIsLeftBehind == StreamSpec => []EOFLeavesNothingBehind
<1>1. StreamInv => EOFLeavesNothingBehind
  BY DEF StreamInv, EndIsEarned, Answered, BodyIsTheSDKs, Inv, ReaderHasStopped,
         EOFLeavesNothingBehind
<1> QED
  BY <1>1, StreamInvHolds, PTL

(* UsageChunkIsExact: the caller got the closing usage chunk exactly when  *)
(* the server had sent both counts.                                        *)
THEOREM UsageChunkIsObserved == StreamSpec => []UsageChunkIsExact
<1>1. StreamInv => UsageChunkIsExact
  <2> SUFFICES ASSUME StreamInv, end = "EOF"
               PROVE  closing <=> /\ LastCount(InputSetters, "input").present
                                  /\ LastCount(OutputSetters, "output").present
    BY DEF UsageChunkIsExact
  <2>1. Answered /\ (closing <=> UsageIsKnown)
    BY DEF StreamInv, EndIsEarned
  <2>2. /\ state.body.usage.input = LastCount(InputSetters, "input")
        /\ state.body.usage.output = LastCount(OutputSetters, "output")
    BY <2>1, InvGivesUsage DEF Answered, StreamInv, BodyIsTheSDKs, UsageIsThatOfTheWire
  <2>3. UsageIsKnown <=> state.body.usage.input.present /\ state.body.usage.output.present
    BY DEF UsageIsKnown, TokenUsage, NoTokenUsage
  <2> QED
    BY <2>1, <2>2, <2>3
<1> QED
  BY <1>1, StreamInvHolds, PTL

-----------------------------------------------------------------------------
(* The stream implements StreamContract *)

(* Whether the server has completed the response, as the operation sees it.*)
IsComplete == state.body.terminal /\ state.body.err = "none"

(* Scanning what the network returned completes the response or leaves it  *)
(* incomplete: nothing is scanned after a completion.                      *)
LEMMA ReadingCompletes ==
  ASSUME StreamInv, StreamRead
  PROVE  Contract!Complete \/ UNCHANGED Contract!contractVars
<1>1. UNCHANGED <<produced, received, closing, end>>
  BY DEF StreamRead, streamVars, callerVars
<1>2. IsComplete \in BOOLEAN /\ IsComplete' \in BOOLEAN
  BY DEF IsComplete
<1>3. state' = state \/ ~IsComplete
  <2>1. CASE reader = "scan"
    BY <2>1 DEF IsComplete, StreamInv, BodyIsTheSDKs, Inv, ReaderHasStopped, OperationKnows
  <2>2. CASE reader # "scan"
    BY <2>2 DEF StreamRead, EntersSource, ReadReturnsError, ReadReturnsData, Scan, ScanError,
                ScanPart, ScanEvent, ScanEnds
  <2> QED
    BY <2>1, <2>2
<1>4. CASE state' = state
  BY <1>1, <1>4 DEF Contract!contractVars
<1>5. CASE ~IsComplete /\ IsComplete'
  BY <1>1, <1>5 DEF IsComplete, Contract!Complete
<1>6. CASE ~IsComplete /\ ~IsComplete'
  BY <1>1, <1>6 DEF IsComplete, Contract!contractVars
<1> QED
  BY <1>2, <1>3, <1>4, <1>5, <1>6

(* A message that is kept is one of the contract's chunks. *)
LEMMA DecodingProduces ==
  ASSUME StreamInv, NEW keep \in BOOLEAN, SDKDecodes(keep)
  PROVE  (\E c \in 1 .. MaxUnits : Contract!Produce(c)) \/ UNCHANGED Contract!contractVars
<1>1. decoded + 1 \in 1 .. MaxUnits
  <2>1. decoded \in Nat /\ decoded < Len(delivered) /\ Len(delivered) \in Nat
    BY DeliveredIsBounded DEF SDKDecodes, StreamInv, StreamTyped
  <2>2. Len(delivered) <= Len(wire) /\ Len(wire) \in Nat /\ Len(wire) <= MaxUnits
    BY DeliveredIsBounded DEF StreamInv, BodyIsTheSDKs
  <2> QED
    BY <2>1, <2>2, ObserverAssumption
<1>2. /\ produced' = IF keep THEN Append(produced, decoded + 1) ELSE produced
      /\ UNCHANGED <<state, received, closing, end>>
  BY DEF SDKDecodes, callerVars
<1>3. CASE keep
  BY <1>1, <1>2, <1>3 DEF Contract!Produce
<1>4. CASE ~keep
  BY <1>2, <1>4 DEF Contract!contractVars
<1> QED
  BY <1>3, <1>4

(* The caller receives what the contract allows it to. *)
LEMMA ReceivingIsAllowed ==
  ASSUME StreamInv, CallerReceives
  PROVE  \/ Contract!Receive \/ Contract!ReceiveClosing
         \/ Contract!ReceiveEOF \/ Contract!ReceiveError
<1> DEFINE item == NextItem(outPipe)
<1>1. /\ end = "open" /\ CanRecv(outPipe) /\ closing \in BOOLEAN
      /\ received' = IF item.type = "message" THEN Append(received, item.id) ELSE received
      /\ closing' = (closing \/ item.type = "usage")
      /\ end' = IF item.type \in {"error", "EOF"} THEN item.type ELSE "open"
      /\ UNCHANGED <<state, produced>>
  BY DEF CallerReceives, StreamInv, StreamTyped
<1>2. \/ /\ item.type = "message" /\ ~closing /\ Len(received) < Len(produced)
         /\ item.id = produced[Len(received) + 1]
      \/ /\ item.type = "error" /\ ~closing
      \/ /\ item.type = "usage" /\ ~closing /\ Answered /\ Len(received) = Len(produced)
      \/ /\ item.type = "EOF" /\ Answered /\ Len(received) = Len(produced)
  BY <1>1, NextIsInOrder
<1> HIDE DEF item
<1>3. ASSUME Len(received) = Len(produced) PROVE received = produced
  BY <1>3, SeqEqual DEF StreamInv, StreamTyped, CallerHasTheFirst
<1>4. CASE item.type = "message"
  <2>1. received' = Append(received, produced[Len(received) + 1]) /\ closing' = closing /\ end' = end
    BY <1>1, <1>2, <1>4
  <2>2. Contract!Receive
    BY <1>1, <1>2, <1>4, <2>1 DEF Contract!Receive
  <2> QED
    BY <2>2
<1>5. CASE item.type = "usage"
  <2>1. received' = received /\ received = produced /\ closing' = TRUE /\ end' = end
    BY <1>1, <1>2, <1>3, <1>5
  <2>2. Contract!ReceiveClosing
    BY <1>1, <1>2, <1>5, <2>1 DEF Answered, Contract!ReceiveClosing, Contract!Finished
  <2> QED
    BY <2>2
<1>6. CASE item.type = "EOF"
  <2>1. received' = received /\ received = produced /\ closing' = closing /\ end' = "EOF"
    BY <1>1, <1>2, <1>3, <1>6
  <2>2. Contract!ReceiveEOF
    BY <1>1, <1>2, <1>6, <2>1 DEF Answered, Contract!ReceiveEOF, Contract!Finished
  <2> QED
    BY <2>2
<1>7. CASE item.type = "error"
  <2>1. received' = received /\ closing' = closing /\ end' = "error"
    BY <1>1, <1>2, <1>7
  <2>2. Contract!ReceiveError
    BY <1>1, <1>2, <1>7, <2>1 DEF Contract!ReceiveError
  <2> QED
    BY <2>2
<1> QED
  BY <1>2, <1>4, <1>5, <1>6, <1>7

(* A step of the stream is a step of the contract or changes nothing of it.*)
LEMMA StreamNextRefines ==
  ASSUME StreamInv, [StreamNext]_allVars
  PROVE  [Contract!Next]_(Contract!contractVars)
<1> USE DEF Contract!contractVars, Contract!Next
<1>1. ASSUME StreamRead PROVE [Contract!Next]_(Contract!contractVars)
  BY <1>1, ReadingCompletes
<1>2. ASSUME NEW keep \in BOOLEAN, SDKDecodes(keep)
      PROVE  [Contract!Next]_(Contract!contractVars)
  BY <1>2, DecodingProduces
<1>3. ASSUME CallerReceives PROVE Contract!Next
  BY <1>3, ReceivingIsAllowed
<1>4. ASSUME CallerCloses PROVE [Contract!Next]_(Contract!contractVars)
  BY <1>4 DEF CallerCloses, Contract!Abandon
<1>5. ASSUME \/ SDKReads \/ SDKSkips \/ SDKStops \/ SDKRejects \/ SDKEnds \/ SDKSends
             \/ SDKCloses \/ SDKClosed \/ SDKFinishes
      PROVE  UNCHANGED Contract!contractVars
  BY <1>5
     DEF SDKReads, ReadBegins, SDKSkips, SDKStops, SDKRejects, SDKEnds, SDKSends, SDKCloses,
         CloseBegins, SDKClosed, CloseEnds, SDKFinishes, streamVars, callerVars
<1>6. ASSUME Normalize \/ CancellationCloses PROVE UNCHANGED Contract!contractVars
  BY <1>6 DEF Normalize, NormReceives, NormDecides, NormSends, NormPanics, NormEnds,
              CancellationCloses, NormUnchanged, callerVars
<1>7. ASSUME StreamNetwork \/ (\E e \in ContextErrors : CallerCancels(e)) \/ UNCHANGED allVars
      PROVE  UNCHANGED Contract!contractVars
  BY <1>7 DEF StreamNetwork, Network, SourceReturns, CallerCancels, Cancel, allVars,
              streamVars, callerVars
<1> QED
  BY <1>1, <1>2, <1>3, <1>4, <1>5, <1>6, <1>7 DEF StreamNext, SDK

(* The whole stream keeps the promise of StreamContract: the caller gets   *)
(* the messages in order, the usage only behind all of them, and EOF only  *)
(* for a response that is complete and that it has all of.                 *)
THEOREM KeepsTheContract == StreamSpec => ImplementsContract
<1>1. StreamInit => Contract!Init
  BY DEF StreamInit, Init, NewState, BeginAttempt, EmptyObservation, Contract!Init
<1>2. StreamInv /\ [StreamNext]_allVars => [Contract!Next]_(Contract!contractVars)
  BY StreamNextRefines
<1> QED
  BY <1>1, <1>2, StreamInvHolds, PTL DEF StreamSpec, ImplementsContract, Contract!Spec
=============================================================================
