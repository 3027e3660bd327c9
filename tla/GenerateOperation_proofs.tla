---------------------- MODULE GenerateOperation_proofs ----------------------
(***************************************************************************)
(* Proofs about GenerateOperation: its type invariant, the two properties  *)
(* that keep the attempts of one operation apart, the usage of the message *)
(* it returns and the closing of its bodies, for every number of attempts, *)
(* body length and limit.                                                  *)
(*                                                                         *)
(* The properties are not inductive by themselves.  What makes the first   *)
(* two so is collected in Inv: where the units of a body are, who may be   *)
(* finalizing it, that nothing is known of an attempt that has no answer   *)
(* yet, and what the HTTP error in the state says of the latest answer.    *)
(* UsageInv, which is inductive given Inv, follows the body of the attempt *)
(* in progress from its end to the outcome of the call.                    *)
(***************************************************************************)
EXTENDS GenerateOperation, TLAPS

(* Units are handed out by the source before they reach the SDK. *)
ReadsAddUp ==
  \A a \in Attempts :
    /\ body[a].seen + body[a].hand <= body[a].got
    /\ body[a].got <= body[a].total

(* Only finalized bodies are being finalized; Close does so only while the *)
(* SDK waits in it.                                                        *)
FinalizersAreKnown ==
  \A a \in Attempts :
    /\ body[a].finalizer # "none" => body[a].finalized
    /\ body[a].finalizer = "closer" => call = "closing" /\ a = state.attempt

(* Attempts that have no answer yet have no body. *)
Answered(a) == a < state.attempt \/ (a = state.attempt /\ call # "sent")
FutureIsEmpty == \A a \in Attempts : Answered(a) \/ body[a] = NoBody

(* A request that is on its way has left nothing in the state. *)
SentIsFresh == call = "sent" => state.body = EmptyObservation

(* The HTTP error in the state is the latest answer, or there is none. *)
HTTPErrorIsTheAnswer ==
  /\ call \in {"sent", "reading", "closing"} => state.lastHTTPError = "none"
  /\ call = "closing" => answer \notin HTTPErrors
  /\ call = "answered" =>
       IF answer \in HTTPErrors THEN state.lastHTTPError = answer
       ELSE state.lastHTTPError = "none"

(* The JSON observer records no error of the context. *)
ObservedErrors == state.body.err \in {"none", "oversizedJSON", "malformedUsage"}

OutcomeIsLast == call # "returned" => outcome = NoOutcome

Inv ==
  /\ TypeOK /\ ReadsAddUp
  /\ FinalizersAreKnown /\ FutureIsEmpty /\ SentIsFresh
  /\ HTTPErrorIsTheAnswer /\ ObservedErrors /\ OutcomeIsLast
  /\ ObservationBelongsToAttempt /\ FinalAttemptIsBlamed

-----------------------------------------------------------------------------
(* What the operators of OperationState return. *)

(* The states and records that operations begin with have their types. *)
LEMMA FreshStates ==
  /\ NewState \in State /\ NewState.attempt = 0
  /\ NoBody \in Body
  /\ NoOutcome \in Outcome
BY GenerateAssumption, MaxIntAssumption
   DEF NewState, State, EmptyObservation, BodyObservation, NoUsage, Usage, Absent, Count,
       NoBody, NewBody, Body, NoOutcome, Outcome

(* beginAttempt moves to the next attempt and forgets every observation. *)
LEMMA BeginAttemptType ==
  ASSUME NEW s \in State
  PROVE  /\ BeginAttempt(s) \in State
         /\ BeginAttempt(s).attempt = s.attempt + 1
         /\ BeginAttempt(s).body = EmptyObservation
         /\ BeginAttempt(s).lastHTTPError = "none"
BY MaxIntAssumption
   DEF BeginAttempt, State, EmptyObservation, BodyObservation, NoUsage, Usage, Absent, Count

(* An observed error changes nothing but the error of its own attempt. *)
LEMMA RecordErrorType ==
  ASSUME NEW s \in State, NEW a \in Nat, NEW e \in BodyErrors
  PROVE  LET t == RecordError(s, a, e)
         IN  /\ t \in State
             /\ t.attempt = s.attempt /\ t.lastHTTPError = s.lastHTTPError
             /\ t.body.usage = s.body.usage
             /\ t.body.err \in {s.body.err, e}
             /\ t.body # s.body => s.attempt = a
BY DEF RecordError, UpdateBodyForAttempt, State, BodyObservation

(* observedUsageTokenUsage returns a well-typed usage for any wire usage. *)
LEMMA TokenUsageType ==
  ASSUME NEW u \in Usage
  PROVE  TokenUsage(u) \in TokenUsages
BY MaxIntAssumption
   DEF TokenUsage, TokenUsages, NoTokenUsage, WrappedSum, Usage, Count

(* classifyInvocationError always returns a class. *)
LEMMA ClassType ==
  ASSUME NEW err, NEW httpErr
  PROVE  ClassifyInvocationError(err, httpErr) \in Class
BY DEF ClassifyInvocationError, Class

(* What finalizing the body of attempt a leaves of the state. *)
LEMMA FinalizedType ==
  ASSUME TypeOK, NEW a \in Attempts
  PROVE  LET t == Finalized(state, a)
         IN  /\ t \in State
             /\ t.attempt = state.attempt /\ t.lastHTTPError = state.lastHTTPError
             /\ t.body.err \in {state.body.err, "malformedUsage"}
             /\ t.body # state.body => state.attempt = a
             /\ \/ t.body.usage = state.body.usage
                \/ t.body.usage = Reported(a)
<1>1. state \in State /\ a \in Nat /\ a \in 0 .. MaxInt
  BY GenerateAssumption, MaxIntAssumption DEF TypeOK, Attempts
<1>2. "malformedUsage" \in BodyErrors
  BY DEF BodyErrors
<1>3. CASE Finalized(state, a) = RecordError(state, a, "malformedUsage")
  BY <1>1, <1>2, <1>3, RecordErrorType
<1>4. CASE Finalized(state, a) # RecordError(state, a, "malformedUsage")
  <2> DEFINE usage == IF body[a].content = "usage" THEN Reported(a) ELSE state.body.usage
  <2>1. Reported(a) \in Usage
    BY <1>1, MaxIntAssumption DEF Reported, Usage, Absent, Present, Count
  <2>2. usage \in Usage
    BY <1>1, <2>1 DEF State, BodyObservation
  <2>3. Finalized(state, a) =
          UpdateBodyForAttempt(state, a, [state.body EXCEPT !.terminal = TRUE, !.usage = usage])
    BY <1>4 DEF Finalized
  <2> DEFINE observed == [state.body EXCEPT !.terminal = TRUE, !.usage = usage]
  <2>4. /\ observed \in BodyObservation
        /\ observed.err = state.body.err
        /\ observed.usage = usage
    BY <1>1, <2>2 DEF State, BodyObservation
  <2>5. CASE state.attempt = a
    <3>1. Finalized(state, a) = [state EXCEPT !.body = observed]
      BY <2>3, <2>5 DEF UpdateBodyForAttempt
    <3>2. usage \in {state.body.usage, Reported(a)}
      OBVIOUS
    <3> HIDE DEF observed, usage
    <3>3. /\ Finalized(state, a) \in State
          /\ Finalized(state, a).attempt = state.attempt
          /\ Finalized(state, a).lastHTTPError = state.lastHTTPError
          /\ Finalized(state, a).body = observed
      BY <1>1, <2>4, <3>1 DEF State
    <3> QED
      BY <2>4, <2>5, <3>2, <3>3
  <2>6. CASE state.attempt # a
    BY <1>1, <2>3, <2>6 DEF UpdateBodyForAttempt
  <2> QED
    BY <2>5, <2>6
<1> QED
  BY <1>3, <1>4

-----------------------------------------------------------------------------
(* Inv holds initially. *)

(* The inductive invariant holds in the initial state of a call. *)
LEMMA InitInv == Init => Inv
<1> SUFFICES ASSUME Init PROVE Inv
  OBVIOUS
<1> USE GenerateAssumption DEF Init
<1>1. TypeOK
  BY FreshStates DEF TypeOK, Answers
<1>2. ReadsAddUp /\ FinalizersAreKnown /\ FutureIsEmpty
  BY DEF ReadsAddUp, FinalizersAreKnown, FutureIsEmpty, NoBody, NewBody
<1>3. SentIsFresh /\ HTTPErrorIsTheAnswer /\ ObservedErrors /\ OutcomeIsLast
  BY DEF SentIsFresh, HTTPErrorIsTheAnswer, ObservedErrors, OutcomeIsLast,
         NewState, EmptyObservation
<1>4. ObservationBelongsToAttempt /\ FinalAttemptIsBlamed
  BY DEF ObservationBelongsToAttempt, FinalAttemptIsBlamed, NewState, NoOutcome
<1> QED
  BY <1>1, <1>2, <1>3, <1>4 DEF Inv

-----------------------------------------------------------------------------
(* Steps on the bodies.  An Update of the body of attempt a to b keeps the *)
(* parts of Inv about bodies when b is Sound.                              *)

Sound(a, b) ==
  /\ b \in Body
  /\ b.seen + b.hand <= b.got /\ b.got <= b.total
  /\ b.finalizer # "none" => b.finalized
  /\ b.finalizer = "closer" => body[a].finalizer = "closer"
  /\ Answered(a)
  /\ body[a].finalized => b.finalized

BodiesKept ==
  /\ body' \in [Attempts -> Body]
  /\ ReadsAddUp' /\ FinalizersAreKnown' /\ FutureIsEmpty'
  /\ \A c \in Attempts : body[c].finalized => body'[c].finalized

(* A step that changes one body keeps every other, and the types of all. *)
LEMMA UpdateBody ==
  ASSUME Inv, NEW a \in Attempts, NEW b, Sound(a, b),
         body' = [body EXCEPT ![a] = b], call' = call, state'.attempt = state.attempt
  PROVE  BodiesKept
BY DEF Sound, BodiesKept, Inv, TypeOK, ReadsAddUp, FinalizersAreKnown, FutureIsEmpty,
       Answered

(* Nothing else of Inv changes with the bodies alone. *)
LEMMA QuietStep ==
  ASSUME Inv, UNCHANGED <<state, ctx, call, answer, outcome>>, BodiesKept
  PROVE  Inv'
<1>1. TypeOK' /\ SentIsFresh' /\ HTTPErrorIsTheAnswer' /\ ObservedErrors' /\ OutcomeIsLast'
  BY DEF Inv, TypeOK, SentIsFresh, HTTPErrorIsTheAnswer, ObservedErrors, OutcomeIsLast,
         BodiesKept
<1>2. ObservationBelongsToAttempt' /\ FinalAttemptIsBlamed'
  BY DEF Inv, ObservationBelongsToAttempt, FinalAttemptIsBlamed, BodiesKept
<1> QED
  BY <1>1, <1>2 DEF Inv, BodiesKept

(* The body of attempt a is the source of a change of the observation.     *)
Observed(a) ==
  /\ state' \in State
  /\ state'.attempt = state.attempt /\ state'.lastHTTPError = state.lastHTTPError
  /\ state'.body.err \in {state.body.err, "oversizedJSON", "malformedUsage"}
  /\ state'.body # state.body => state.attempt = a
  /\ state'.body.usage \in {state.body.usage, Reported(a)}

(* A step that records an observation of attempt a keeps the invariant. *)
LEMMA ObservationStep ==
  ASSUME Inv, NEW a \in Attempts, Observed(a), BodiesKept, body'[a].finalized,
         Answered(a), UNCHANGED <<ctx, call, answer, outcome>>
  PROVE  Inv'
<1>1. TypeOK' /\ HTTPErrorIsTheAnswer' /\ ObservedErrors' /\ OutcomeIsLast'
  BY DEF Inv, TypeOK, HTTPErrorIsTheAnswer, ObservedErrors, OutcomeIsLast,
         BodiesKept, Observed
<1>2. SentIsFresh'
  <2>1. state.attempt \in Nat /\ a \in Nat
    BY DEF Inv, TypeOK, State, Attempts
  <2> QED
    BY <2>1 DEF Inv, SentIsFresh, Answered, Observed
<1>3. ObservationBelongsToAttempt'
  <2>1. CASE state'.body = state.body
    BY <2>1 DEF Inv, ObservationBelongsToAttempt, BodiesKept, Observed
  <2>2. CASE state'.body # state.body
    <3>1. state'.attempt = a /\ state.attempt = a
      BY <2>2 DEF Observed
    <3>2. /\ state.body.usage.input \in {Absent, Present(a)}
          /\ state.body.usage.output = state.body.usage.input
      BY <3>1 DEF Inv, ObservationBelongsToAttempt, EmptyObservation, NoUsage
    <3>3. /\ state'.body.usage.input \in {Absent, Present(a)}
          /\ state'.body.usage.output = state'.body.usage.input
      BY <3>2 DEF Observed, Reported
    <3> QED
      BY <3>1, <3>3 DEF ObservationBelongsToAttempt
  <2> QED
    BY <2>1, <2>2
<1>4. FinalAttemptIsBlamed'
  BY DEF Inv, FinalAttemptIsBlamed
<1> QED
  BY <1>1, <1>2, <1>3, <1>4 DEF Inv, BodiesKept

(* What a Read that returns from the source may rely on. *)
LEMMA SourceFacts ==
  ASSUME Inv, NEW a \in Attempts, NEW n \in 0 .. MaxBodyUnits, NEW e, SourceReturns(a, n, e)
  PROVE  /\ body[a] \in Body /\ Answered(a)
         /\ body[a].seen + body[a].hand <= body[a].got
         /\ body[a].got + n <= body[a].total
         /\ body[a].got + n \in 0 .. MaxBodyUnits
         /\ body[a].seen + n \in 0 .. MaxBodyUnits
         /\ body[a].finalizer # "none" => body[a].finalized
<1>1. body[a] \in Body /\ body[a].got + n <= body[a].total /\ body[a].reader = "source"
  BY DEF Inv, TypeOK, SourceReturns
<1>2. body[a].seen + body[a].hand <= body[a].got
  BY DEF Inv, ReadsAddUp
<1>3. Answered(a)
  BY <1>1 DEF Inv, FutureIsEmpty, NoBody, NewBody
<1>4. body[a].finalizer # "none" => body[a].finalized
  BY DEF Inv, FinalizersAreKnown
<1> QED
  BY <1>1, <1>2, <1>3, <1>4, GenerateAssumption DEF Body

(* A Read that passes data unobserved. *)
LEMMA ReadUnobservedStep ==
  ASSUME Inv, NEW a \in Attempts, NEW n \in 0 .. MaxBodyUnits,
         NEW e \in ReadErrors \cup {"none"}, ReadUnobserved(a, n, e)
  PROVE  Inv'
<1> DEFINE b == [body[a] EXCEPT !.got = @ + n, !.seen = @ + n,
                                !.reader = "idle", !.readErr = e]
<1>1. SourceReturns(a, n, e) /\ body' = [body EXCEPT ![a] = b]
        /\ UNCHANGED <<state, ctx, call, answer, outcome>>
  BY DEF ReadUnobserved, Update
<1>2. b \in Body
  BY <1>1, SourceFacts, ZenonT(30) DEF Body
<1>3. /\ b.seen = body[a].seen + n /\ b.got = body[a].got + n
      /\ b.hand = body[a].hand /\ b.total = body[a].total
      /\ b.finalizer = body[a].finalizer /\ b.finalized = body[a].finalized
  BY <1>1, SourceFacts DEF Body
<1> HIDE DEF b
<1>4. Sound(a, b)
  BY <1>1, <1>2, <1>3, SourceFacts, GenerateAssumption DEF Sound, Body
<1> QED
  BY <1>1, <1>4, UpdateBody, QuietStep

(* A Read that buffers its data; an error that came with it may wait.      *)
LEMMA ReadObservedStep ==
  ASSUME Inv, NEW a \in Attempts, NEW n \in 0 .. MaxBodyUnits,
         NEW e \in ReadErrors \cup {"none"}, ReadObserved(a, n, e)
  PROVE  Inv'
<1> DEFINE pending == IF n > 0 THEN e ELSE "none"
           readErr == IF n > 0 THEN "none" ELSE e
           b == [body[a] EXCEPT !.got = @ + n, !.buffered = @ + n, !.seen = @ + n,
                                !.reader = "idle", !.pending = pending, !.readErr = readErr]
<1>1. SourceReturns(a, n, e) /\ n <= Room(body[a]) /\ body' = [body EXCEPT ![a] = b]
        /\ UNCHANGED <<state, ctx, call, answer, outcome>>
  BY DEF ReadObserved, Update
<1>2. pending \in ReadErrors \cup {"none"} /\ readErr \in ReadErrors \cup {"none"}
  OBVIOUS
<1>3. body[a].buffered + n \in 0 .. JSONLimit
  BY <1>1, SourceFacts, GenerateAssumption DEF Body, Room
<1> HIDE DEF pending, readErr
<1>4. b \in Body
  BY <1>1, <1>2, <1>3, SourceFacts, ZenonT(30) DEF Body
<1>5. /\ b.seen = body[a].seen + n /\ b.got = body[a].got + n
      /\ b.hand = body[a].hand /\ b.total = body[a].total
      /\ b.finalizer = body[a].finalizer /\ b.finalized = body[a].finalized
  BY <1>1, SourceFacts DEF Body
<1> HIDE DEF b
<1>6. Sound(a, b)
  BY <1>1, <1>4, <1>5, SourceFacts, GenerateAssumption DEF Sound, Body
<1> QED
  BY <1>1, <1>6, UpdateBody, QuietStep

(* The Read at EOF marks the body finalized. *)
LEMMA ReadEOFStep ==
  ASSUME Inv, NEW a \in Attempts, NEW n \in 0 .. MaxBodyUnits, ReadEOF(a, n)
  PROVE  Inv'
<1> DEFINE b == [body[a] EXCEPT !.got = @ + n, !.buffered = @ + n, !.hand = n,
                                !.reader = "idle", !.finalized = TRUE, !.finalizer = "reader"]
<1>1. SourceReturns(a, n, "EOF") /\ n <= Room(body[a]) /\ body' = [body EXCEPT ![a] = b]
        /\ UNCHANGED <<state, ctx, call, answer, outcome>>
  BY DEF ReadEOF, Update
<1>2. body[a].buffered + n \in 0 .. JSONLimit
  BY <1>1, SourceFacts, GenerateAssumption DEF Body, Room
<1>3. b \in Body
  BY <1>1, <1>2, SourceFacts, ZenonT(30) DEF Body
<1>4. /\ b.seen = body[a].seen /\ b.got = body[a].got + n /\ b.hand = n
      /\ b.total = body[a].total /\ b.finalizer = "reader" /\ b.finalized
  BY <1>1, SourceFacts DEF Body
<1> HIDE DEF b
<1>5. Sound(a, b)
  BY <1>1, <1>3, <1>4, SourceFacts, GenerateAssumption DEF Sound, Body
<1> QED
  BY <1>1, <1>5, UpdateBody, QuietStep

(* The parts of the invariant that speak of one body. *)
LEMMA BodyFacts ==
  ASSUME Inv, NEW a \in Attempts
  PROVE  /\ body[a] \in Body
         /\ body[a].seen + body[a].hand <= body[a].got /\ body[a].got <= body[a].total
         /\ body[a].finalizer # "none" => body[a].finalized /\ Answered(a)
BY DEF Inv, TypeOK, ReadsAddUp, FinalizersAreKnown, FutureIsEmpty, NoBody, NewBody

(* A Read that finds an error pending. *)
LEMMA ReadPendingStep ==
  ASSUME Inv, NEW a \in Attempts, ReadPending(a)
  PROVE  Inv'
<1> DEFINE b == [body[a] EXCEPT !.readErr = body[a].pending, !.pending = "none"]
<1>1. MayRead(a) /\ body' = [body EXCEPT ![a] = b]
        /\ UNCHANGED <<state, ctx, call, answer, outcome>>
  BY DEF ReadPending, Update
<1>2. /\ b \in Body
      /\ b.seen = body[a].seen /\ b.got = body[a].got /\ b.hand = body[a].hand
      /\ b.total = body[a].total
      /\ b.finalizer = body[a].finalizer /\ b.finalized = body[a].finalized
  BY BodyFacts DEF Body
<1> HIDE DEF b
<1>3. Sound(a, b)
  BY <1>1, <1>2, BodyFacts DEF Sound, MayRead, Answered
<1> QED
  BY <1>1, <1>3, UpdateBody, QuietStep

(* A Read that enters the source changes only where it is. *)
LEMMA ReadEntersSourceStep ==
  ASSUME Inv, NEW a \in Attempts, ReadEntersSource(a)
  PROVE  Inv'
<1> DEFINE b == [body[a] EXCEPT !.reader = "source"]
<1>1. MayRead(a) /\ body' = [body EXCEPT ![a] = b]
        /\ UNCHANGED <<state, ctx, call, answer, outcome>>
  BY DEF ReadEntersSource, Update
<1>2. /\ b \in Body
      /\ b.seen = body[a].seen /\ b.got = body[a].got /\ b.hand = body[a].hand
      /\ b.total = body[a].total
      /\ b.finalizer = body[a].finalizer /\ b.finalized = body[a].finalized
  BY BodyFacts DEF Body
<1> HIDE DEF b
<1>3. Sound(a, b)
  BY <1>1, <1>2, BodyFacts DEF Sound, MayRead, Answered
<1> QED
  BY <1>1, <1>3, UpdateBody, QuietStep

(* A Read of more than there is room for records its error. *)
LEMMA ReadOversizedStep ==
  ASSUME Inv, NEW a \in Attempts, NEW n \in 0 .. MaxBodyUnits,
         NEW e \in ReadErrors \cup {"none"}, ReadOversized(a, n, e)
  PROVE  Inv'
<1> DEFINE remaining == Room(body[a])
           pending == IF remaining > 0 THEN "oversizedJSON" ELSE "none"
           readErr == IF remaining > 0 THEN "none" ELSE "oversizedJSON"
           b == [body[a] EXCEPT !.got = @ + n, !.buffered = JSONLimit,
                                !.seen = @ + remaining, !.reader = "idle",
                                !.pending = pending, !.readErr = readErr,
                                !.finalized = TRUE, !.closed = TRUE]
<1>1. SourceReturns(a, n, e) /\ n > remaining /\ ~body[a].finalized
        /\ body' = [body EXCEPT ![a] = b]
        /\ state' = RecordError(state, a, "oversizedJSON")
        /\ UNCHANGED <<ctx, call, answer, outcome>>
  BY DEF ReadOversized, Update
<1>2. pending \in ReadErrors \cup {"none"} /\ readErr \in ReadErrors \cup {"none"}
  BY DEF ReadErrors
<1>3. /\ remaining \in Nat /\ remaining < n
      /\ body[a].seen + remaining \in 0 .. MaxBodyUnits
      /\ JSONLimit \in 0 .. JSONLimit
  BY <1>1, SourceFacts, GenerateAssumption DEF Body, Room
<1> HIDE DEF remaining, pending, readErr
<1>4. b \in Body
  BY <1>1, <1>2, <1>3, SourceFacts, ZenonT(30) DEF Body
<1>5. /\ b.seen = body[a].seen + remaining /\ b.got = body[a].got + n
      /\ b.hand = body[a].hand /\ b.total = body[a].total
      /\ b.finalizer = body[a].finalizer /\ b.finalized
  BY <1>1, SourceFacts DEF Body
<1> HIDE DEF b
<1>6. Sound(a, b)
  BY <1>1, <1>3, <1>4, <1>5, SourceFacts, GenerateAssumption DEF Sound, Body
<1>7. Observed(a)
  <2>1. state \in State /\ a \in Nat /\ "oversizedJSON" \in BodyErrors
    BY DEF Inv, TypeOK, BodyErrors, Attempts
  <2> QED
    BY <1>1, <2>1, RecordErrorType DEF Observed
<1> QED
  <2>1. BodiesKept
    BY <1>1, <1>6, <1>7, UpdateBody DEF Observed
  <2>2. body'[a].finalized
    BY <1>1, <1>5 DEF Inv, TypeOK
  <2> QED
    BY <1>1, <1>7, <2>1, <2>2, SourceFacts, ObservationStep

(* The Read that reached EOF records the observation. *)
LEMMA FinalizeInReadStep ==
  ASSUME Inv, NEW a \in Attempts, FinalizeInRead(a)
  PROVE  Inv'
<1> DEFINE pending == IF body[a].hand > 0 THEN "EOF" ELSE body[a].pending
           readErr == IF body[a].hand > 0 THEN "none" ELSE "EOF"
           b == [body[a] EXCEPT !.finalizer = "none", !.seen = @ + body[a].hand, !.hand = 0,
                                !.pending = pending, !.readErr = readErr]
<1>1. body[a].finalizer = "reader" /\ body' = [body EXCEPT ![a] = b]
        /\ state' = Finalized(state, a) /\ UNCHANGED <<ctx, call, answer, outcome>>
  BY DEF FinalizeInRead, Update
<1>2. pending \in ReadErrors \cup {"none"} /\ readErr \in ReadErrors \cup {"none"}
  BY BodyFacts DEF ReadErrors, Body
<1>3. body[a].seen + body[a].hand \in 0 .. MaxBodyUnits /\ 0 \in 0 .. MaxBodyUnits
  BY BodyFacts, GenerateAssumption DEF Body
<1> HIDE DEF pending, readErr
<1>4. b \in Body
  BY <1>2, <1>3, BodyFacts DEF Body
<1>5. /\ b.seen = body[a].seen + body[a].hand /\ b.got = body[a].got
      /\ b.hand = 0 /\ b.total = body[a].total
      /\ b.finalizer = "none" /\ b.finalized = body[a].finalized
  BY BodyFacts DEF Body
<1> HIDE DEF b
<1>6. Sound(a, b)
  BY <1>1, <1>4, <1>5, BodyFacts, GenerateAssumption DEF Sound, Body
<1>7. Observed(a)
  BY <1>1, FinalizedType DEF Observed, Inv
<1> QED
  <2>1. BodiesKept
    BY <1>1, <1>6, <1>7, UpdateBody DEF Observed
  <2>2. body'[a].finalized
    BY <1>1, <1>5, BodyFacts DEF Inv, TypeOK
  <2> QED
    BY <1>1, <1>7, <2>1, <2>2, BodyFacts, ObservationStep

-----------------------------------------------------------------------------
(* Close, which also moves the SDK. *)

(* observedJSONBody.Close keeps the invariant. *)
LEMMA CloseStep ==
  ASSUME Inv, NEW a \in Attempts, Close(a)
  PROVE  Inv'
<1> DEFINE b == AfterClose(body[a])
<1>1. /\ call = "reading" /\ a = state.attempt
      /\ answer' = Decoded(body[a])
      /\ body' = [body EXCEPT ![a] = b]
      /\ call' = IF body[a].finalized THEN "answered" ELSE "closing"
      /\ UNCHANGED <<state, ctx, outcome>>
  BY DEF Close
<1>2. /\ b \in Body /\ b.finalized
      /\ b.seen = body[a].seen /\ b.got = body[a].got /\ b.hand = body[a].hand
      /\ b.total = body[a].total
      /\ b.finalizer = "closer" => ~body[a].finalized \/ body[a].finalizer = "closer"
  <2>1. CASE body[a].finalized
    <3>1. b = [body[a] EXCEPT !.closed = TRUE]
      BY <2>1 DEF AfterClose
    <3> HIDE DEF b
    <3> QED
      BY <2>1, <3>1, BodyFacts DEF Body
  <2>2. CASE ~body[a].finalized
    <3>1. b = [body[a] EXCEPT !.finalized = TRUE, !.finalizer = "closer"]
      BY <2>2 DEF AfterClose
    <3> HIDE DEF b
    <3> QED
      BY <2>2, <3>1, BodyFacts DEF Body
  <2> QED
    BY <2>1, <2>2
<1> HIDE DEF b
<1>3. answer' \in Answers /\ answer' \notin HTTPErrors
  BY <1>1, BodyFacts DEF Body, Decoded, Answers, ReadErrors, HTTPErrors
<1>4. TypeOK'
  BY <1>1, <1>2, <1>3 DEF Inv, TypeOK
<1>5. ReadsAddUp' /\ FutureIsEmpty'
  BY <1>1, <1>2, BodyFacts DEF Inv, TypeOK, ReadsAddUp, FutureIsEmpty, Answered
<1>6. FinalizersAreKnown'
  <2>1. \A c \in Attempts : body[c].finalizer # "closer"
    BY <1>1 DEF Inv, FinalizersAreKnown
  <2> QED
    BY <1>1, <1>2, <2>1 DEF Inv, TypeOK, FinalizersAreKnown
<1>7. SentIsFresh' /\ HTTPErrorIsTheAnswer' /\ ObservedErrors' /\ OutcomeIsLast'
  BY <1>1, <1>3 DEF Inv, SentIsFresh, HTTPErrorIsTheAnswer, ObservedErrors, OutcomeIsLast
<1>8. ObservationBelongsToAttempt'
  BY <1>1, <1>2 DEF Inv, TypeOK, ObservationBelongsToAttempt
<1>9. FinalAttemptIsBlamed'
  BY <1>1 DEF Inv, OutcomeIsLast, FinalAttemptIsBlamed, NoOutcome
<1> QED
  BY <1>4, <1>5, <1>6, <1>7, <1>8, <1>9 DEF Inv

(* The Close that finalizes a body records the observation. *)
LEMMA FinalizeInCloseStep ==
  ASSUME Inv, NEW a \in Attempts, FinalizeInClose(a)
  PROVE  Inv'
<1> DEFINE b == [body[a] EXCEPT !.finalizer = "none", !.closed = TRUE]
<1>1. /\ body[a].finalizer = "closer" /\ body' = [body EXCEPT ![a] = b]
      /\ state' = Finalized(state, a) /\ call' = "answered"
      /\ UNCHANGED <<ctx, answer, outcome>>
  BY DEF FinalizeInClose, Update
<1>2. call = "closing" /\ a = state.attempt /\ body[a].finalized
  BY <1>1 DEF Inv, FinalizersAreKnown
<1>3. /\ b \in Body /\ b.finalizer = "none" /\ b.finalized
      /\ b.seen = body[a].seen /\ b.got = body[a].got /\ b.hand = body[a].hand
      /\ b.total = body[a].total
  <2>1. b \in Body
    BY BodyFacts DEF Body
  <2> QED
    BY <1>2, <2>1, BodyFacts DEF Body
<1> HIDE DEF b
<1>4. Observed(a)
  BY <1>1, FinalizedType DEF Observed, Inv
<1>5. TypeOK'
  BY <1>1, <1>3, <1>4 DEF Inv, TypeOK, Observed
<1>6. ReadsAddUp' /\ FutureIsEmpty'
  BY <1>1, <1>2, <1>3, <1>4, BodyFacts
     DEF Inv, TypeOK, ReadsAddUp, FutureIsEmpty, Answered, Observed
<1>7. FinalizersAreKnown'
  <2>1. \A c \in Attempts : body[c].finalizer = "closer" => c = a
    BY <1>2 DEF Inv, FinalizersAreKnown
  <2> QED
    BY <1>1, <1>3, <2>1 DEF Inv, TypeOK, FinalizersAreKnown
<1>8. SentIsFresh' /\ HTTPErrorIsTheAnswer' /\ ObservedErrors' /\ OutcomeIsLast'
  BY <1>1, <1>2, <1>4
     DEF Inv, SentIsFresh, HTTPErrorIsTheAnswer, ObservedErrors, OutcomeIsLast, Observed
<1>9. ObservationBelongsToAttempt'
  <2>1. /\ state.body.usage.input \in {Absent, Present(a)}
        /\ state.body.usage.output = state.body.usage.input
    BY <1>2 DEF Inv, ObservationBelongsToAttempt, EmptyObservation, NoUsage
  <2>2. /\ state'.body.usage.input \in {Absent, Present(a)}
        /\ state'.body.usage.output = state'.body.usage.input
    BY <1>4, <2>1 DEF Observed, Reported
  <2> QED
    BY <1>1, <1>2, <1>3, <1>4, <2>2 DEF Inv, TypeOK, ObservationBelongsToAttempt, Observed
<1>10. FinalAttemptIsBlamed'
  BY <1>1, <1>2 DEF Inv, OutcomeIsLast, FinalAttemptIsBlamed, NoOutcome
<1> QED
  BY <1>5, <1>6, <1>7, <1>8, <1>9, <1>10 DEF Inv

-----------------------------------------------------------------------------
(* Steps of the transport. *)

(* Beginning an attempt keeps the invariant: nothing observed survives it. *)
LEMMA SendRequestStep == Inv /\ SendRequest => Inv'
<1> SUFFICES ASSUME Inv, SendRequest PROVE Inv'
  OBVIOUS
<1>1. /\ call = "ready" /\ state.attempt < MaxAttempts /\ call' = "sent"
      /\ UNCHANGED <<ctx, answer, body, outcome>>
  BY DEF SendRequest
<1>2. /\ state' \in State /\ state'.attempt = state.attempt + 1
      /\ state'.body = EmptyObservation /\ state'.lastHTTPError = "none"
  BY BeginAttemptType DEF SendRequest, Inv, TypeOK
<1>3. state.attempt \in 0 .. MaxAttempts /\ Attempts \subseteq Nat
  BY DEF Inv, TypeOK, Attempts
<1>4. TypeOK'
  BY <1>1, <1>2, <1>3, GenerateAssumption DEF Inv, TypeOK
<1>5. ReadsAddUp' /\ FutureIsEmpty' /\ FinalizersAreKnown'
  BY <1>1, <1>2, <1>3
     DEF Inv, ReadsAddUp, FutureIsEmpty, FinalizersAreKnown, Answered
<1>6. SentIsFresh' /\ HTTPErrorIsTheAnswer' /\ ObservedErrors' /\ OutcomeIsLast'
  BY <1>1, <1>2
     DEF Inv, SentIsFresh, HTTPErrorIsTheAnswer, ObservedErrors, OutcomeIsLast,
         EmptyObservation
<1>7. ObservationBelongsToAttempt' /\ FinalAttemptIsBlamed'
  BY <1>1, <1>2
     DEF Inv, ObservationBelongsToAttempt, FinalAttemptIsBlamed, OutcomeIsLast, NoOutcome
<1> QED
  BY <1>4, <1>5, <1>6, <1>7 DEF Inv

(* A failed round trip keeps the invariant. *)
LEMMA RoundTripFailsStep ==
  ASSUME Inv, NEW e \in SendErrors, RoundTripFails(e)
  PROVE  Inv'
<1>1. /\ call = "sent" /\ call' = "answered" /\ UNCHANGED <<state, ctx, body, outcome>>
      /\ answer' \in Answers /\ answer' \notin HTTPErrors
  BY DEF RoundTripFails, Inv, TypeOK, Answers, SendErrors, ReadErrors, HTTPErrors
<1>2. TypeOK'
  BY <1>1 DEF Inv, TypeOK
<1>3. ReadsAddUp' /\ FutureIsEmpty' /\ FinalizersAreKnown'
  BY <1>1 DEF Inv, ReadsAddUp, FutureIsEmpty, FinalizersAreKnown, Answered
<1>4. SentIsFresh' /\ HTTPErrorIsTheAnswer' /\ ObservedErrors' /\ OutcomeIsLast'
  BY <1>1 DEF Inv, SentIsFresh, HTTPErrorIsTheAnswer, ObservedErrors, OutcomeIsLast
<1>5. ObservationBelongsToAttempt' /\ FinalAttemptIsBlamed'
  BY <1>1 DEF Inv, ObservationBelongsToAttempt, FinalAttemptIsBlamed, OutcomeIsLast, NoOutcome
<1> QED
  BY <1>2, <1>3, <1>4, <1>5 DEF Inv

(* A recorded HTTP error is the answer of the current attempt. *)
LEMMA RoundTripHTTPErrorStep ==
  ASSUME Inv, NEW e \in HTTPErrors, RoundTripHTTPError(e)
  PROVE  Inv'
<1>1. /\ call = "sent" /\ call' = "answered" /\ UNCHANGED <<ctx, body, outcome>>
      /\ answer' = e /\ state' = [state EXCEPT !.lastHTTPError = e] /\ state \in State
  BY DEF RoundTripHTTPError, RecordHTTPError, Inv, TypeOK
<1>2. /\ state' \in State /\ state'.lastHTTPError = e
      /\ state'.attempt = state.attempt /\ state'.body = state.body
  BY <1>1 DEF State
<1>3. TypeOK'
  BY <1>1, <1>2 DEF Inv, TypeOK, Answers
<1>4. ReadsAddUp' /\ FutureIsEmpty' /\ FinalizersAreKnown'
  BY <1>1, <1>2 DEF Inv, ReadsAddUp, FutureIsEmpty, FinalizersAreKnown, Answered
<1>5. SentIsFresh' /\ HTTPErrorIsTheAnswer' /\ ObservedErrors' /\ OutcomeIsLast'
  BY <1>1, <1>2 DEF Inv, SentIsFresh, HTTPErrorIsTheAnswer, ObservedErrors, OutcomeIsLast
<1>6. ObservationBelongsToAttempt' /\ FinalAttemptIsBlamed'
  BY <1>1, <1>2
     DEF Inv, ObservationBelongsToAttempt, FinalAttemptIsBlamed, OutcomeIsLast, NoOutcome
<1> QED
  BY <1>3, <1>4, <1>5, <1>6 DEF Inv

(* The new body takes the place of the empty one of this attempt. *)
LEMMA RoundTripSucceedsStep ==
  ASSUME Inv, NEW total \in 1 .. MaxBodyUnits, NEW content \in Contents,
         RoundTripSucceeds(total, content)
  PROVE  Inv'
<1> DEFINE b == NewBody(content, total)
<1>1. /\ call = "sent" /\ call' = "reading" /\ answer' = "ok"
      /\ body' = [body EXCEPT ![state.attempt] = b] /\ UNCHANGED <<state, ctx, outcome>>
  BY DEF RoundTripSucceeds
<1>2. /\ b \in Body /\ b.seen = 0 /\ b.hand = 0 /\ b.got = 0 /\ b.total = total
      /\ b.finalizer = "none"
  BY GenerateAssumption DEF Body, NewBody
<1> HIDE DEF b
<1>3. TypeOK'
  BY <1>1, <1>2 DEF Inv, TypeOK, Answers
<1>4. ReadsAddUp' /\ FutureIsEmpty' /\ FinalizersAreKnown'
  BY <1>1, <1>2
     DEF Inv, TypeOK, ReadsAddUp, FutureIsEmpty, FinalizersAreKnown, Answered
<1>5. SentIsFresh' /\ HTTPErrorIsTheAnswer' /\ ObservedErrors' /\ OutcomeIsLast'
  BY <1>1 DEF Inv, SentIsFresh, HTTPErrorIsTheAnswer, ObservedErrors, OutcomeIsLast
<1>6. ObservationBelongsToAttempt' /\ FinalAttemptIsBlamed'
  BY <1>1 DEF Inv, SentIsFresh, ObservationBelongsToAttempt, FinalAttemptIsBlamed,
              OutcomeIsLast, NoOutcome
<1> QED
  BY <1>3, <1>4, <1>5, <1>6 DEF Inv

-----------------------------------------------------------------------------
(* Steps of the SDK and of generate, which change neither the state nor    *)
(* the bodies.                                                             *)

(* A step that leaves the state and the bodies alone keeps what speaks of  *)
(* them.                                                                   *)
LEMMA FrameStep ==
  ASSUME Inv, UNCHANGED <<state, body>>, call' # "sent",
         Answered(state.attempt) \/ state.attempt \notin Attempts,
         \A a \in Attempts : body[a].finalizer = "closer" => call' = "closing"
  PROVE  /\ ReadsAddUp' /\ FutureIsEmpty' /\ FinalizersAreKnown' /\ SentIsFresh'
         /\ ObservedErrors' /\ ObservationBelongsToAttempt'
<1>1. ReadsAddUp' /\ SentIsFresh' /\ ObservedErrors' /\ ObservationBelongsToAttempt'
  BY DEF Inv, ReadsAddUp, SentIsFresh, ObservedErrors, ObservationBelongsToAttempt
<1>2. FutureIsEmpty' /\ FinalizersAreKnown'
  BY DEF Inv, FutureIsEmpty, FinalizersAreKnown, Answered
<1> QED
  BY <1>1, <1>2

(* The end of the caller's context keeps the invariant. *)
LEMMA CancelStep ==
  ASSUME Inv, NEW e \in {"canceled", "deadline"}, Cancel(e)
  PROVE  Inv'
<1>1. ctx' = e /\ UNCHANGED <<state, call, answer, body, outcome>>
  BY DEF Cancel
<1>2. TypeOK'
  BY <1>1 DEF Inv, TypeOK
<1> QED
  BY <1>1, <1>2
     DEF Inv, ReadsAddUp, FutureIsEmpty, FinalizersAreKnown, Answered, SentIsFresh,
         HTTPErrorIsTheAnswer, ObservedErrors, OutcomeIsLast, ObservationBelongsToAttempt,
         FinalAttemptIsBlamed

(* The SDK's decision to retry keeps the invariant. *)
LEMMA RetryStep == Inv /\ Retry => Inv'
<1> SUFFICES ASSUME Inv, Retry PROVE Inv'
  OBVIOUS
<1>1. call = "answered" /\ call' = "ready" /\ UNCHANGED <<state, ctx, answer, body, outcome>>
  BY DEF Retry
<1>2. /\ ReadsAddUp' /\ FutureIsEmpty' /\ FinalizersAreKnown' /\ SentIsFresh'
      /\ ObservedErrors' /\ ObservationBelongsToAttempt'
  BY <1>1, FrameStep DEF Answered, Inv, FinalizersAreKnown
<1>3. TypeOK' /\ HTTPErrorIsTheAnswer' /\ OutcomeIsLast' /\ FinalAttemptIsBlamed'
  BY <1>1 DEF Inv, TypeOK, HTTPErrorIsTheAnswer, OutcomeIsLast, FinalAttemptIsBlamed
<1> QED
  BY <1>2, <1>3 DEF Inv

(* What an error that ends the operation is classified as. *)
LEMMA FailureClass ==
  ASSUME NEW err
  PROVE  /\ Failure(err).kind = "error" /\ Failure(err) \in Outcome
         /\ Failure(err).class = ClassifyInvocationError(err, state.lastHTTPError)
BY ClassType DEF Failure, Outcome

(* Whatever generate returns keeps the invariant. *)
LEMMA ReturnStep ==
  ASSUME Inv, call = "answered", call' = "returned", UNCHANGED <<state, ctx, body>>,
         answer' \in Answers, outcome' \in Outcome, FinalAttemptIsBlamed'
  PROVE  Inv'
<1>1. /\ ReadsAddUp' /\ FutureIsEmpty' /\ FinalizersAreKnown' /\ SentIsFresh'
      /\ ObservedErrors' /\ ObservationBelongsToAttempt'
  BY FrameStep DEF Answered, Inv, FinalizersAreKnown
<1>2. TypeOK' /\ HTTPErrorIsTheAnswer' /\ OutcomeIsLast'
  BY DEF Inv, TypeOK, HTTPErrorIsTheAnswer, OutcomeIsLast
<1> QED
  BY <1>1, <1>2 DEF Inv

(* A wait that the context interrupts ends the call with its error. *)
LEMMA RetryInterruptedStep == Inv /\ RetryInterrupted => Inv'
<1> SUFFICES ASSUME Inv, RetryInterrupted PROVE Inv'
  OBVIOUS
<1>1. /\ call = "answered" /\ call' = "returned" /\ UNCHANGED <<state, ctx, body>>
      /\ answer' = ctx /\ outcome' = Failure(ctx) /\ ctx \in {"canceled", "deadline"}
  BY DEF RetryInterrupted, Inv, TypeOK
<1>2. answer' \in Answers /\ outcome' \in Outcome
  BY <1>1, FailureClass DEF Answers, ReadErrors
<1>3. FinalAttemptIsBlamed'
  BY <1>1, FailureClass DEF FinalAttemptIsBlamed, ClassifyInvocationError, AuthHTTPErrors
<1> QED
  BY <1>1, <1>2, <1>3, ReturnStep

(* A failed call returns the error of its last attempt. *)
LEMMA GenerateFailsStep == Inv /\ GenerateFails => Inv'
<1> SUFFICES ASSUME Inv, GenerateFails PROVE Inv'
  OBVIOUS
<1>1. /\ call = "answered" /\ call' = "returned" /\ UNCHANGED <<state, ctx, body, answer>>
      /\ outcome' = Failure(answer)
  BY DEF GenerateFails
<1>2. IF answer \in HTTPErrors THEN state.lastHTTPError = answer
      ELSE state.lastHTTPError = "none"
  BY <1>1 DEF Inv, HTTPErrorIsTheAnswer
<1>3. FinalAttemptIsBlamed'
  BY <1>1, <1>2, FailureClass
     DEF FinalAttemptIsBlamed, ClassifyInvocationError, AuthHTTPErrors, HTTPErrors
<1> QED
  BY <1>1, <1>3, FailureClass, ReturnStep DEF Inv, TypeOK

(* A decoded message is returned with the observed usage, or refused. *)
LEMMA GenerateSucceedsStep == Inv /\ GenerateSucceeds => Inv'
<1> SUFFICES ASSUME Inv, GenerateSucceeds PROVE Inv'
  OBVIOUS
<1>1. /\ call = "answered" /\ call' = "returned" /\ UNCHANGED <<state, ctx, body, answer>>
      /\ answer = "message" /\ answer \in Answers
      /\ outcome' = IF state.body.err # "none" THEN Failure(state.body.err)
                     ELSE [kind |-> "message", usage |-> TokenUsage(state.body.usage)]
  BY DEF GenerateSucceeds, Inv, TypeOK
<1>2. CASE state.body.err = "none"
  <2>1. outcome' = [kind |-> "message", usage |-> TokenUsage(state.body.usage)]
    BY <1>1, <1>2
  <2>2. TokenUsage(state.body.usage) \in TokenUsages
    BY TokenUsageType DEF Inv, TypeOK, State, BodyObservation
  <2>3. outcome' \in Outcome /\ FinalAttemptIsBlamed'
    BY <2>1, <2>2 DEF Outcome, FinalAttemptIsBlamed
  <2> QED
    BY <1>1, <2>3, ReturnStep
<1>3. CASE state.body.err # "none"
  <2>1. state.body.err \in {"oversizedJSON", "malformedUsage"} /\ state.lastHTTPError = "none"
    BY <1>1, <1>3 DEF Inv, ObservedErrors, HTTPErrorIsTheAnswer, HTTPErrors
  <2>2. FinalAttemptIsBlamed'
    BY <1>1, <1>3, <2>1, FailureClass
       DEF FinalAttemptIsBlamed, ClassifyInvocationError, AuthHTTPErrors
  <2> QED
    BY <1>1, <1>3, <2>2, FailureClass, ReturnStep
<1> QED
  BY <1>2, <1>3

-----------------------------------------------------------------------------
(* Inv is inductive. *)

(* Every step of the call keeps the inductive invariant. *)
LEMMA NextInv == Inv /\ [Next]_vars => Inv'
<1> SUFFICES ASSUME Inv, [Next]_vars PROVE Inv'
  OBVIOUS
<1>1. CASE UNCHANGED vars
  BY <1>1 DEF vars, Inv, TypeOK, ReadsAddUp, FutureIsEmpty, FinalizersAreKnown, Answered,
              SentIsFresh, HTTPErrorIsTheAnswer, ObservedErrors, OutcomeIsLast,
              ObservationBelongsToAttempt, FinalAttemptIsBlamed
<1>2. CASE \E e \in {"canceled", "deadline"} : Cancel(e)
  BY <1>2, CancelStep
<1>3. CASE Transport
  BY <1>3, SendRequestStep, RoundTripFailsStep, RoundTripHTTPErrorStep, RoundTripSucceedsStep
     DEF Transport
<1>4. ASSUME NEW a \in Attempts, Observer(a) PROVE Inv'
  BY <1>4, ReadPendingStep, ReadEntersSourceStep, ReadUnobservedStep, ReadOversizedStep,
     ReadObservedStep, ReadEOFStep, FinalizeInReadStep, CloseStep, FinalizeInCloseStep
     DEF Observer
<1>5. CASE Retry \/ RetryInterrupted \/ GenerateFails \/ GenerateSucceeds
  BY <1>5, RetryStep, RetryInterruptedStep, GenerateFailsStep, GenerateSucceedsStep
<1> QED
  BY <1>1, <1>2, <1>3, <1>4, <1>5 DEF Next

(* The inductive invariant holds in every state a call can reach.          *)
THEOREM InvHolds == Spec => []Inv
<1> QED
  BY InitInv, NextInv, PTL DEF Spec

(* TypeOK of GenerateOperation: in particular the JSON observer never      *)
(* buffers more than its limit, whatever the server sends.                 *)
THEOREM TypeCorrect == Spec => []TypeOK
<1>1. Inv => TypeOK
  BY DEF Inv
<1> QED
  BY <1>1, InvHolds, PTL

(* ObservationBelongsToAttempt: no observation of an abandoned attempt is  *)
(* ever taken for one of the attempt in progress.                          *)
THEOREM ObservationIsCurrent == Spec => []ObservationBelongsToAttempt
<1>1. Inv => ObservationBelongsToAttempt
  BY DEF Inv
<1> QED
  BY <1>1, InvHolds, PTL

(* FinalAttemptIsBlamed: the error an operation returns is classified by   *)
(* its last attempt, the caller's cancellation first.                      *)
THEOREM BlameIsRight == Spec => []FinalAttemptIsBlamed
<1>1. Inv => FinalAttemptIsBlamed
  BY DEF Inv
<1> QED
  BY <1>1, InvHolds, PTL

-----------------------------------------------------------------------------
(* What a message and its usage rest on, and what is left open.  Usage     *)
(* holds with Inv: it keeps what is known of the body of the attempt in    *)
(* progress, from the end of the body to the outcome.                      *)

(* An attempt has a body once its response is read, and only then. *)
BodiesAreResponses ==
  /\ \A a \in Attempts : body[a].content = "none" => body[a] = NoBody
  /\ call \in {"sent", "reading"} => state.attempt \in Attempts
  /\ call = "reading" => body[state.attempt].content # "none"

(* The bodies that the SDK is done with are closed. *)
LeftIsClosed ==
  \A a \in Attempts :
    body[a].content # "none"
      /\ (a < state.attempt \/ call \in {"answered", "ready", "returned"})
      => body[a].closed

(* Nothing is recorded before the finalization of a body is over. *)
RecordedIsFinal ==
  \A a \in Attempts :
    a = state.attempt /\ state.body # EmptyObservation => body[a].finalizer = "none"

(* A finalized body without an error arrived whole, and the state holds    *)
(* the usage that it reports.                                              *)
SettledIsWhole ==
  \A a \in Attempts :
    a = state.attempt /\ body[a].finalized /\ body[a].finalizer = "none"
      /\ state.body.err = "none"
      => /\ body[a].buffered = body[a].total
         /\ body[a].content \in {"usage", "noUsage"}
         /\ state.body.usage = IF body[a].content = "usage" THEN Reported(a) ELSE NoUsage
         /\ WellFormedUsage(state.body.usage)

(* The SDK has decoded a message only from a body whose finalization is    *)
(* over.                                                                   *)
MessageIsSettled ==
  answer = "message" /\ call \in {"answered", "returned"} =>
    /\ state.attempt \in Attempts
    /\ body[state.attempt].finalized
    /\ body[state.attempt].finalizer = "none"

OutcomeIsTheMessage ==
  outcome.kind = "message" =>
    /\ call = "returned" /\ answer = "message"
    /\ state.body.err = "none"
    /\ outcome.usage = TokenUsage(state.body.usage)

UsageInv ==
  /\ BodiesAreResponses /\ LeftIsClosed /\ RecordedIsFinal /\ SettledIsWhole
  /\ MessageIsSettled /\ OutcomeIsTheMessage

(* A call that has not begun has neither bodies nor observations. *)
LEMMA InitUsage == Init => UsageInv
BY DEF Init, UsageInv, BodiesAreResponses, LeftIsClosed, RecordedIsFinal, SettledIsWhole, MessageIsSettled,
       OutcomeIsTheMessage, NewState, NoBody, NewBody, NoOutcome

(* A body that is read, finalized or closed is that of a response. *)
LEMMA WorkingBody ==
  ASSUME UsageInv, NEW a \in Attempts,
         \/ call = "reading" /\ a = state.attempt
         \/ body[a].reader = "source" \/ body[a].finalizer # "none"
  PROVE  body[a].content # "none"
BY DEF UsageInv, BodiesAreResponses, NoBody, NewBody

(* A change of one body that neither finalizes it without an observation   *)
(* nor changes what has been observed of it.                               *)
Quiet(a, b) ==
  /\ body[a].content # "none"
  /\ b.content = body[a].content /\ b.total = body[a].total
  /\ b.closed = body[a].closed
  /\ \/ /\ b.finalized = body[a].finalized /\ b.finalizer = body[a].finalizer
        /\ b.buffered = body[a].buffered
     \/ /\ ~body[a].finalized
        /\ b.finalizer = "none" => ~b.finalized

(* A Read that records nothing keeps what is known of the bodies. *)
LEMMA QuietKeepsUsage ==
  ASSUME Inv, UsageInv, NEW a \in Attempts, NEW b, Quiet(a, b),
         body' = [body EXCEPT ![a] = b], UNCHANGED <<state, ctx, call, answer, outcome>>
  PROVE  UsageInv'
<1>1. /\ body'[a] = b
      /\ \A c \in Attempts : c # a => body'[c] = body[c]
  BY DEF Inv, TypeOK
<1>2. ~body[a].finalized /\ a = state.attempt => state.body = EmptyObservation
  BY DEF Inv, ObservationBelongsToAttempt
<1>3. LeftIsClosed' /\ BodiesAreResponses'
  BY <1>1 DEF UsageInv, LeftIsClosed, BodiesAreResponses, Quiet
<1>4. RecordedIsFinal'
  BY <1>1, <1>2 DEF UsageInv, RecordedIsFinal, Quiet
<1>5. SettledIsWhole'
  BY <1>1 DEF UsageInv, SettledIsWhole, Quiet
<1>6. MessageIsSettled'
  BY <1>1 DEF UsageInv, MessageIsSettled, Quiet
<1>7. OutcomeIsTheMessage'
  BY DEF UsageInv, OutcomeIsTheMessage
<1> QED
  BY <1>3, <1>4, <1>5, <1>6, <1>7 DEF UsageInv

(* The Reads that record nothing. *)
LEMMA ReadsKeepUsage ==
  ASSUME Inv, UsageInv, NEW a \in Attempts, NEW n \in 0 .. MaxBodyUnits,
         NEW e \in ReadErrors \cup {"none"},
         \/ ReadPending(a) \/ ReadEntersSource(a)
         \/ ReadUnobserved(a, n, e) \/ ReadObserved(a, n, e) \/ ReadEOF(a, n)
  PROVE  UsageInv'
<1>1. body[a] \in Body /\ body[a].content # "none"
  BY BodyFacts, WorkingBody DEF ReadPending, ReadEntersSource, MayRead, ReadUnobserved,
     ReadObserved, ReadEOF, SourceReturns
<1>2. CASE ReadPending(a)
  <2> DEFINE b == [body[a] EXCEPT !.readErr = body[a].pending, !.pending = "none"]
  <2>1. body' = [body EXCEPT ![a] = b] /\ UNCHANGED <<state, ctx, call, answer, outcome>>
    BY <1>2 DEF ReadPending, Update
  <2>2. Quiet(a, b)
    BY <1>1 DEF Quiet, Body
  <2> QED
    BY <2>1, <2>2, QuietKeepsUsage
<1>3. CASE ReadEntersSource(a)
  <2> DEFINE b == [body[a] EXCEPT !.reader = "source"]
  <2>1. body' = [body EXCEPT ![a] = b] /\ UNCHANGED <<state, ctx, call, answer, outcome>>
    BY <1>3 DEF ReadEntersSource, Update
  <2>2. Quiet(a, b)
    BY <1>1 DEF Quiet, Body
  <2> QED
    BY <2>1, <2>2, QuietKeepsUsage
<1>4. CASE ReadUnobserved(a, n, e)
  <2> DEFINE b == [body[a] EXCEPT !.got = @ + n, !.seen = @ + n,
                                  !.reader = "idle", !.readErr = e]
  <2>1. body' = [body EXCEPT ![a] = b] /\ UNCHANGED <<state, ctx, call, answer, outcome>>
    BY <1>4 DEF ReadUnobserved, Update
  <2>2. Quiet(a, b)
    BY <1>1 DEF Quiet, Body
  <2> QED
    BY <2>1, <2>2, QuietKeepsUsage
<1>5. CASE ReadObserved(a, n, e)
  <2> DEFINE pending == IF n > 0 THEN e ELSE "none"
             readErr == IF n > 0 THEN "none" ELSE e
             b == [body[a] EXCEPT !.got = @ + n, !.buffered = @ + n, !.seen = @ + n,
                                  !.reader = "idle", !.pending = pending, !.readErr = readErr]
  <2>1. /\ body' = [body EXCEPT ![a] = b] /\ UNCHANGED <<state, ctx, call, answer, outcome>>
        /\ ~body[a].finalized
    BY <1>5 DEF ReadObserved, Update
  <2> HIDE DEF pending, readErr
  <2>2. Quiet(a, b)
    BY <1>1, <2>1 DEF Quiet, Body
  <2> QED
    BY <2>1, <2>2, QuietKeepsUsage
<1>6. CASE ReadEOF(a, n)
  <2> DEFINE b == [body[a] EXCEPT !.got = @ + n, !.buffered = @ + n, !.hand = n,
                                  !.reader = "idle", !.finalized = TRUE, !.finalizer = "reader"]
  <2>1. /\ body' = [body EXCEPT ![a] = b] /\ UNCHANGED <<state, ctx, call, answer, outcome>>
        /\ ~body[a].finalized
    BY <1>6 DEF ReadEOF, Update
  <2>2. Quiet(a, b)
    BY <1>1, <2>1 DEF Quiet, Body
  <2> QED
    BY <2>1, <2>2, QuietKeepsUsage
<1> QED
  BY <1>2, <1>3, <1>4, <1>5, <1>6

-----------------------------------------------------------------------------
(* The steps that record what a body held. *)

(* Nothing is known of the attempt in progress while its body is open or   *)
(* being finalized.                                                        *)
LEMMA NothingYet ==
  ASSUME Inv, UsageInv, NEW a \in Attempts, a = state.attempt,
         ~body[a].finalized \/ body[a].finalizer # "none"
  PROVE  state.body = EmptyObservation
BY DEF Inv, ObservationBelongsToAttempt, UsageInv, RecordedIsFinal

(* An update of another attempt's observation is dropped. *)
LEMMA LateIsDropped ==
  ASSUME NEW a \in Attempts, a # state.attempt
  PROVE  /\ \A e : RecordError(state, a, e) = state
         /\ Finalized(state, a) = state
BY DEF RecordError, Finalized, UpdateBodyForAttempt

(* finalizeBody leaves an error, or the usage of a body that arrived whole. *)
LEMMA FinalizedIsWhole ==
  ASSUME TypeOK, NEW a \in Attempts, a = state.attempt, state.body = EmptyObservation,
         Finalized(state, a).body.err = "none", body[a].content # "none"
  PROVE  /\ body[a].buffered = body[a].total
         /\ body[a].content \in {"usage", "noUsage"}
         /\ Finalized(state, a).body.usage =
              IF body[a].content = "usage" THEN Reported(a) ELSE NoUsage
         /\ WellFormedUsage(Finalized(state, a).body.usage)
<1> DEFINE usage == IF body[a].content = "usage" THEN Reported(a) ELSE NoUsage
           observed == [state.body EXCEPT !.terminal = TRUE, !.usage = usage]
<1>1. state \in State /\ body[a] \in Body
  BY DEF TypeOK
<1>2. state.body.usage = NoUsage /\ state.body.err = "none"
  BY DEF EmptyObservation
<1>3. Finalized(state, a) # RecordError(state, a, "malformedUsage")
  BY <1>1, <1>2 DEF RecordError, UpdateBodyForAttempt, State, BodyObservation
<1>4. /\ body[a].buffered = body[a].total /\ body[a].content # "badUsage"
      /\ WellFormedUsage(usage)
      /\ Finalized(state, a) = UpdateBodyForAttempt(state, a, observed)
  BY <1>2, <1>3 DEF Finalized
<1>5. Finalized(state, a).body.usage = usage
  BY <1>1, <1>4, ZenonT(30) DEF UpdateBodyForAttempt, State, BodyObservation
<1>6. body[a].content \in {"usage", "noUsage"}
  BY <1>1, <1>4 DEF Body, Contents
<1> QED
  BY <1>4, <1>5, <1>6

(* A step that finalizes the body of attempt a, whose network body is      *)
(* closed if the SDK is done with it.                                      *)
LEMMA FinalizingKeepsUsage ==
  ASSUME Inv, UsageInv, NEW a \in Attempts, NEW b,
         body' = [body EXCEPT ![a] = b], UNCHANGED <<ctx, answer, outcome>>,
         state'.attempt = state.attempt,
         ~body[a].finalized \/ body[a].finalizer # "none",
         body[a].content # "none", b.content = body[a].content, b.finalized, b.finalizer = "none",
         call' = call \/ (call = "closing" /\ call' = "answered" /\ a = state.attempt),
         b.closed \/ (b.closed = body[a].closed /\ call' = call),
         a # state.attempt => state' = state,
         a = state.attempt /\ state'.body.err = "none" =>
           /\ b.buffered = b.total
           /\ b.content \in {"usage", "noUsage"}
           /\ state'.body.usage = IF b.content = "usage" THEN Reported(a) ELSE NoUsage
           /\ WellFormedUsage(state'.body.usage)
  PROVE  UsageInv'
<1>1. /\ body'[a] = b
      /\ \A c \in Attempts : c # a => body'[c] = body[c]
      /\ state.attempt \in Nat
  BY DEF Inv, TypeOK, State
<1>2. LeftIsClosed' /\ BodiesAreResponses'
  <2>1. ASSUME NEW c \in Attempts, body'[c].content # "none",
               c < state'.attempt \/ call' \in {"answered", "ready", "returned"}
        PROVE  body'[c].closed
    <3>1. CASE c = a
      BY <1>1, <2>1, <3>1 DEF UsageInv, LeftIsClosed
    <3>2. CASE c # a
      <4>1. call' = "answered" /\ call = "closing" => c < state.attempt \/ body[c] = NoBody
        BY <3>2 DEF Inv, FutureIsEmpty, Answered
      <4> QED
        BY <1>1, <2>1, <3>2, <4>1 DEF UsageInv, LeftIsClosed, NoBody, NewBody
    <3> QED
      BY <3>1, <3>2
  <2>2. BodiesAreResponses'
    BY <1>1 DEF UsageInv, BodiesAreResponses
  <2> QED
    BY <2>1, <2>2 DEF LeftIsClosed
<1>3. RecordedIsFinal'
  BY <1>1 DEF UsageInv, RecordedIsFinal
<1>4. SettledIsWhole'
  BY <1>1 DEF UsageInv, SettledIsWhole
<1>5. MessageIsSettled'
  BY <1>1 DEF UsageInv, MessageIsSettled
<1>6. OutcomeIsTheMessage'
  BY DEF UsageInv, OutcomeIsTheMessage, MessageIsSettled
<1> QED
  BY <1>2, <1>3, <1>4, <1>5, <1>6 DEF UsageInv

(* A body that is too long is closed, and its error recorded. *)
LEMMA ReadOversizedKeepsUsage ==
  ASSUME Inv, UsageInv, NEW a \in Attempts, NEW n \in 0 .. MaxBodyUnits,
         NEW e \in ReadErrors \cup {"none"}, ReadOversized(a, n, e)
  PROVE  UsageInv'
<1> DEFINE remaining == Room(body[a])
           pending == IF remaining > 0 THEN "oversizedJSON" ELSE "none"
           readErr == IF remaining > 0 THEN "none" ELSE "oversizedJSON"
           b == [body[a] EXCEPT !.got = @ + n, !.buffered = JSONLimit,
                                !.seen = @ + remaining, !.reader = "idle",
                                !.pending = pending, !.readErr = readErr,
                                !.finalized = TRUE, !.closed = TRUE]
<1>1. /\ ~body[a].finalized /\ body' = [body EXCEPT ![a] = b]
      /\ state' = RecordError(state, a, "oversizedJSON")
      /\ UNCHANGED <<ctx, call, answer, outcome>>
  BY DEF ReadOversized, Update
<1> HIDE DEF remaining, pending, readErr
<1>2. /\ body[a] \in Body /\ state \in State /\ body[a].finalizer = "none"
      /\ body[a].content # "none"
  BY <1>1, BodyFacts, WorkingBody DEF Inv, TypeOK, ReadOversized, SourceReturns
<1>3. b.content = body[a].content /\ b.finalized /\ b.finalizer = "none" /\ b.closed
  BY <1>2 DEF Body
<1> HIDE DEF b
<1>4. CASE a = state.attempt
  <2>1. state.body.err = "none"
    BY <1>1, <1>4, NothingYet DEF EmptyObservation
  <2>2. state'.attempt = state.attempt /\ state'.body.err = "oversizedJSON"
    BY <1>1, <1>2, <1>4, <2>1 DEF RecordError, UpdateBodyForAttempt, State, BodyObservation
  <2> QED
    BY <1>1, <1>2, <1>3, <1>4, <2>2, FinalizingKeepsUsage
<1>5. CASE a # state.attempt
  <2>1. state' = state
    BY <1>1, <1>5, LateIsDropped
  <2> QED
    BY <1>1, <1>2, <1>3, <1>5, <2>1, FinalizingKeepsUsage
<1> QED
  BY <1>4, <1>5

(* Finalizing a body records what it held, in Read or in Close. *)
LEMMA FinalizationKeepsUsage ==
  ASSUME Inv, UsageInv, NEW a \in Attempts, NEW b, body[a].finalizer # "none",
         body' = [body EXCEPT ![a] = b], state' = Finalized(state, a),
         UNCHANGED <<ctx, answer, outcome>>,
         b.content = body[a].content, b.total = body[a].total, b.buffered = body[a].buffered,
         b.finalized, b.finalizer = "none",
         call' = call \/ (call = "closing" /\ call' = "answered" /\ a = state.attempt),
         b.closed \/ (b.closed = body[a].closed /\ call' = call)
  PROVE  UsageInv'
<1>1. body[a].content # "none" /\ TypeOK /\ state'.attempt = state.attempt
  BY WorkingBody, FinalizedType DEF Inv
<1>2. CASE a = state.attempt
  <2>1. state.body = EmptyObservation
    BY <1>2, NothingYet
  <2>2. state'.body.err = "none" =>
          /\ b.buffered = b.total /\ b.content \in {"usage", "noUsage"}
          /\ state'.body.usage = IF b.content = "usage" THEN Reported(a) ELSE NoUsage
          /\ WellFormedUsage(state'.body.usage)
    BY <1>1, <1>2, <2>1, FinalizedIsWhole
  <2> QED
    BY <1>1, <1>2, <2>2, FinalizingKeepsUsage
<1>3. CASE a # state.attempt
  <2>1. state' = state
    BY <1>3, LateIsDropped
  <2> QED
    BY <1>1, <1>3, <2>1, FinalizingKeepsUsage
<1> QED
  BY <1>2, <1>3

(* The two places that finalize a body. *)
LEMMA FinalizeKeepsUsage ==
  ASSUME Inv, UsageInv, NEW a \in Attempts, FinalizeInRead(a) \/ FinalizeInClose(a)
  PROVE  UsageInv'
<1>1. body[a] \in Body /\ (body[a].finalizer # "none" => body[a].finalized)
  BY BodyFacts
<1>2. CASE FinalizeInRead(a)
  <2> DEFINE pending == IF body[a].hand > 0 THEN "EOF" ELSE body[a].pending
             readErr == IF body[a].hand > 0 THEN "none" ELSE "EOF"
             b == [body[a] EXCEPT !.finalizer = "none", !.seen = @ + body[a].hand,
                                  !.hand = 0, !.pending = pending, !.readErr = readErr]
  <2>1. /\ body[a].finalizer # "none" /\ body' = [body EXCEPT ![a] = b]
        /\ state' = Finalized(state, a) /\ UNCHANGED <<ctx, call, answer, outcome>>
    BY <1>2 DEF FinalizeInRead, Update
  <2> HIDE DEF pending, readErr
  <2>2. /\ b.content = body[a].content /\ b.total = body[a].total
        /\ b.buffered = body[a].buffered /\ b.finalized /\ b.finalizer = "none"
        /\ b.closed = body[a].closed
    BY <1>1, <2>1 DEF Body
  <2> HIDE DEF b
  <2> QED
    BY <2>1, <2>2, FinalizationKeepsUsage
<1>3. CASE FinalizeInClose(a)
  <2> DEFINE b == [body[a] EXCEPT !.finalizer = "none", !.closed = TRUE]
  <2>1. /\ body[a].finalizer = "closer" /\ body' = [body EXCEPT ![a] = b]
        /\ state' = Finalized(state, a) /\ call' = "answered"
        /\ UNCHANGED <<ctx, answer, outcome>>
    BY <1>3 DEF FinalizeInClose, Update
  <2>2. call = "closing" /\ a = state.attempt
    BY <2>1 DEF Inv, FinalizersAreKnown
  <2>3. /\ b.content = body[a].content /\ b.total = body[a].total
        /\ b.buffered = body[a].buffered /\ b.finalized /\ b.finalizer = "none" /\ b.closed
    BY <1>1, <2>1 DEF Body
  <2> HIDE DEF b
  <2> QED
    BY <2>1, <2>2, <2>3, FinalizationKeepsUsage
<1> QED
  BY <1>2, <1>3

-----------------------------------------------------------------------------
(* The other steps. *)

(* Close of a body that Read has finalized, or is finalizing, closes it;   *)
(* the SDK has its message only from a finalization that is over.          *)
LEMMA CloseKeepsUsage ==
  ASSUME Inv, UsageInv, NEW a \in Attempts, Close(a)
  PROVE  UsageInv'
<1> DEFINE b == AfterClose(body[a])
<1>1. /\ call = "reading" /\ a = state.attempt /\ answer' = Decoded(body[a])
      /\ body' = [body EXCEPT ![a] = b]
      /\ call' = IF body[a].finalized THEN "answered" ELSE "closing"
      /\ UNCHANGED <<state, ctx, outcome>>
  BY DEF Close
<1>2. /\ body[a] \in Body /\ body[a].content # "none" /\ state.attempt \in Nat
      /\ body[a].finalizer # "closer" /\ (body[a].finalizer # "none" => body[a].finalized)
      /\ ~body[a].finalized => state.body = EmptyObservation
  BY <1>1, BodyFacts, WorkingBody, NothingYet DEF Inv, TypeOK, State, FinalizersAreKnown
<1>3. /\ b.content = body[a].content /\ b.total = body[a].total
      /\ b.buffered = body[a].buffered /\ b.finalized
      /\ IF body[a].finalized THEN b.closed /\ b.finalizer = body[a].finalizer
         ELSE b.finalizer = "closer"
  BY <1>2 DEF AfterClose, Body
<1> HIDE DEF b
<1>4. /\ body'[a] = b
      /\ \A c \in Attempts : c # a => body'[c] = body[c]
  BY <1>1 DEF Inv, TypeOK
<1>5. LeftIsClosed' /\ BodiesAreResponses'
  <2>1. \A c \in Attempts : c < a \/ c = a \/ body[c] = NoBody
    BY <1>1 DEF Inv, FutureIsEmpty, Answered
  <2>2. ASSUME NEW c \in Attempts, body'[c].content # "none",
               c < state'.attempt \/ call' \in {"answered", "ready", "returned"}
        PROVE  body'[c].closed
    <3>1. CASE c = a
      BY <1>1, <1>2, <1>3, <1>4, <2>2, <3>1
    <3>2. CASE c # a
      BY <1>1, <1>4, <2>1, <2>2, <3>2 DEF UsageInv, LeftIsClosed, NoBody, NewBody
    <3> QED
      BY <3>1, <3>2
  <2>3. BodiesAreResponses'
    BY <1>1, <1>2, <1>3, <1>4 DEF UsageInv, BodiesAreResponses
  <2> QED
    BY <2>2, <2>3 DEF LeftIsClosed
<1>6. RecordedIsFinal' /\ SettledIsWhole'
  BY <1>1, <1>2, <1>3, <1>4 DEF UsageInv, RecordedIsFinal, SettledIsWhole
<1>7. MessageIsSettled'
  <2>1. answer' = "message" => body[a].finalizer # "reader"
    BY <1>1, <1>2 DEF Decoded, Body, ReadErrors
  <2>2. body[a].finalizer \in {"none", "reader", "closer"}
    BY <1>2 DEF Body
  <2> QED
    BY <1>1, <1>2, <1>3, <1>4, <2>1, <2>2 DEF MessageIsSettled
<1>8. OutcomeIsTheMessage'
  BY <1>1 DEF UsageInv, OutcomeIsTheMessage
<1> QED
  BY <1>5, <1>6, <1>7, <1>8 DEF UsageInv

(* The steps of the transport: a new attempt has no body yet, a response   *)
(* brings a new one.                                                       *)
LEMMA TransportKeepsUsage ==
  ASSUME Inv, UsageInv, Transport
  PROVE  UsageInv'
<1>1. CASE SendRequest
  <2>1. /\ call = "ready" /\ state.attempt < MaxAttempts
        /\ call' = "sent" /\ UNCHANGED <<ctx, answer, body, outcome>>
        /\ state'.attempt = state.attempt + 1 /\ state'.body = EmptyObservation
        /\ state.attempt \in Nat
    BY <1>1, BeginAttemptType DEF SendRequest, Inv, TypeOK, State
  <2>2. \A c \in Attempts : c < state'.attempt \/ body[c] = NoBody
    BY <2>1 DEF Inv, FutureIsEmpty, Answered, Attempts
  <2>3. LeftIsClosed' /\ BodiesAreResponses'
    BY <2>1, GenerateAssumption DEF UsageInv, LeftIsClosed, BodiesAreResponses, Attempts
  <2>4. RecordedIsFinal' /\ SettledIsWhole'
    BY <2>1, <2>2 DEF RecordedIsFinal, SettledIsWhole, NoBody, NewBody, Attempts
  <2>5. MessageIsSettled' /\ OutcomeIsTheMessage'
    BY <2>1 DEF UsageInv, MessageIsSettled, OutcomeIsTheMessage
  <2> QED
    BY <2>3, <2>4, <2>5 DEF UsageInv
<1>2. ASSUME call = "sent", call' = "answered", UNCHANGED <<ctx, body, outcome>>,
             answer' # "message", state'.attempt = state.attempt, state'.body = state.body
      PROVE  UsageInv'
  <2>1. \A c \in Attempts : c < state.attempt \/ body[c] = NoBody
    BY <1>2 DEF Inv, FutureIsEmpty, Answered
  <2>2. LeftIsClosed' /\ BodiesAreResponses'
    BY <1>2, <2>1 DEF UsageInv, LeftIsClosed, BodiesAreResponses, NoBody, NewBody
  <2>3. RecordedIsFinal' /\ SettledIsWhole'
    BY <1>2 DEF UsageInv, RecordedIsFinal, SettledIsWhole
  <2>4. MessageIsSettled' /\ OutcomeIsTheMessage'
    BY <1>2 DEF UsageInv, MessageIsSettled, OutcomeIsTheMessage
  <2> QED
    BY <2>2, <2>3, <2>4 DEF UsageInv
<1>3. CASE \E e \in SendErrors : RoundTripFails(e)
  BY <1>2, <1>3 DEF RoundTripFails, SendErrors, Inv, TypeOK
<1>4. CASE \E e \in HTTPErrors : RoundTripHTTPError(e)
  <2>1. PICK e \in HTTPErrors : RoundTripHTTPError(e)
    BY <1>4
  <2>2. state' = [state EXCEPT !.lastHTTPError = e] /\ state \in State
    BY <2>1 DEF RoundTripHTTPError, RecordHTTPError, Inv, TypeOK
  <2>3. state'.attempt = state.attempt /\ state'.body = state.body
    BY <2>2 DEF State
  <2> QED
    BY <1>2, <2>1, <2>3 DEF RoundTripHTTPError, HTTPErrors
<1>5. ASSUME NEW total \in 1 .. MaxBodyUnits, NEW content \in Contents,
             RoundTripSucceeds(total, content)
      PROVE  UsageInv'
  <2> DEFINE b == NewBody(content, total)
  <2>1. /\ call = "sent" /\ call' = "reading" /\ answer' = "ok"
        /\ body' = [body EXCEPT ![state.attempt] = b] /\ UNCHANGED <<state, ctx, outcome>>
    BY <1>5 DEF RoundTripSucceeds
  <2>2. b.content # "none" /\ ~b.finalized /\ b.finalizer = "none"
    BY DEF NewBody, Contents
  <2> HIDE DEF b
  <2>3. /\ \A c \in Attempts : body'[c] = IF c = state.attempt THEN b ELSE body[c]
        /\ state.attempt \in Nat /\ state.attempt \in 0 .. MaxAttempts
    BY <2>1 DEF Inv, TypeOK, State
  <2>4. state.attempt \in Attempts
    BY <2>1 DEF UsageInv, BodiesAreResponses
  <2>5. LeftIsClosed' /\ BodiesAreResponses'
    BY <2>1, <2>2, <2>3, <2>4 DEF UsageInv, LeftIsClosed, BodiesAreResponses
  <2>6. RecordedIsFinal' /\ SettledIsWhole'
    BY <2>1, <2>2, <2>3 DEF RecordedIsFinal, SettledIsWhole
  <2>7. MessageIsSettled' /\ OutcomeIsTheMessage'
    BY <2>1 DEF UsageInv, MessageIsSettled, OutcomeIsTheMessage
  <2> QED
    BY <2>5, <2>6, <2>7 DEF UsageInv
<1> QED
  BY <1>1, <1>3, <1>4, <1>5 DEF Transport

(* The steps of the caller, the SDK and generate. *)
LEMMA ReturnKeepsUsage ==
  ASSUME Inv, UsageInv,
         \/ \E e \in {"canceled", "deadline"} : Cancel(e)
         \/ Retry \/ RetryInterrupted \/ GenerateFails \/ GenerateSucceeds
  PROVE  UsageInv'
<1>1. UNCHANGED <<state, body>> /\ state.attempt \in Nat
  BY DEF Cancel, Retry, RetryInterrupted, GenerateFails, GenerateSucceeds, Inv, TypeOK, State
<1>2. \/ call' = call
      \/ call = "answered" /\ call' \in {"ready", "returned"}
  BY DEF Cancel, Retry, RetryInterrupted, GenerateFails, GenerateSucceeds
<1>3. LeftIsClosed' /\ BodiesAreResponses' /\ RecordedIsFinal' /\ SettledIsWhole'
  BY <1>1, <1>2 DEF UsageInv, LeftIsClosed, BodiesAreResponses, RecordedIsFinal, SettledIsWhole
<1>4. MessageIsSettled'
  <2>1. answer' = "message" => answer = "message"
    BY DEF Cancel, Retry, RetryInterrupted, GenerateFails, GenerateSucceeds, Inv, TypeOK
  <2> QED
    BY <1>1, <1>2, <2>1 DEF UsageInv, MessageIsSettled
<1>5. OutcomeIsTheMessage'
  BY <1>1 DEF Cancel, Retry, RetryInterrupted, GenerateFails, GenerateSucceeds, Failure,
              Inv, TypeOK, OutcomeIsLast, NoOutcome, UsageInv, OutcomeIsTheMessage
<1> QED
  BY <1>3, <1>4, <1>5 DEF UsageInv

(* Every step of a call that keeps Inv keeps UsageInv. *)
LEMMA NextUsage == Inv /\ UsageInv /\ [Next]_vars => UsageInv'
<1> SUFFICES ASSUME Inv, UsageInv, [Next]_vars PROVE UsageInv'
  OBVIOUS
<1>1. CASE UNCHANGED vars
  BY <1>1 DEF vars, UsageInv, BodiesAreResponses, LeftIsClosed, RecordedIsFinal,
              SettledIsWhole, MessageIsSettled, OutcomeIsTheMessage
<1>2. ASSUME NEW a \in Attempts, Observer(a) PROVE UsageInv'
  <2>1. 0 \in 0 .. MaxBodyUnits /\ "none" \in ReadErrors \cup {"none"}
    BY GenerateAssumption
  <2> QED
    BY <1>2, <2>1, ReadsKeepUsage, ReadOversizedKeepsUsage, FinalizeKeepsUsage,
       CloseKeepsUsage DEF Observer
<1> QED
  BY <1>1, <1>2, TransportKeepsUsage, ReturnKeepsUsage DEF Next

(* What is known of the body in progress, in every state of a call.        *)
THEOREM UsageInvHolds == Spec => []UsageInv
<1> QED
  BY InitUsage, NextUsage, InvHolds, PTL DEF Spec

(* UsageIsThatOfTheMessage: a message that generate returns has exactly    *)
(* the usage of the body it was decoded from, which arrived whole, and the *)
(* sum of its counts does not overflow, whatever other bodies are read     *)
(* meanwhile.                                                              *)
THEOREM UsageIsObserved == Spec => []UsageIsThatOfTheMessage
<1>1. Inv /\ UsageInv => UsageIsThatOfTheMessage
  <2> SUFFICES ASSUME Inv, UsageInv, outcome.kind = "message"
               PROVE  LET b == body[state.attempt]
                      IN  /\ b.buffered = b.total
                          /\ b.content \in {"usage", "noUsage"}
                          /\ outcome.usage.known = (b.content = "usage")
                          /\ outcome.usage.known =>
                               /\ outcome.usage.prompt = state.attempt
                               /\ outcome.usage.total =
                                    outcome.usage.prompt + outcome.usage.completion
                               /\ outcome.usage.total <= MaxInt
    BY DEF UsageIsThatOfTheMessage
  <2> DEFINE b == body[state.attempt]
  <2>1. /\ call = "returned" /\ answer = "message" /\ state.body.err = "none"
        /\ outcome.usage = TokenUsage(state.body.usage)
    BY DEF UsageInv, OutcomeIsTheMessage
  <2>2. state.attempt \in Attempts /\ b.finalized /\ b.finalizer = "none"
    BY <2>1 DEF UsageInv, MessageIsSettled
  <2>3. /\ b.buffered = b.total /\ b.content \in {"usage", "noUsage"}
        /\ state.body.usage = IF b.content = "usage" THEN Reported(state.attempt) ELSE NoUsage
        /\ WellFormedUsage(state.body.usage)
    BY <2>1, <2>2 DEF UsageInv, SettledIsWhole
  <2>4. CASE b.content = "usage"
    <3>1. state.attempt \in Nat /\ MaxInt \in Nat
      BY MaxIntAssumption DEF Inv, TypeOK, State
    <3>2. state.attempt + state.attempt <= MaxInt
      BY <2>3, <2>4 DEF WellFormedUsage, Reported, Present, Absent
    <3>3. /\ outcome.usage.known = TRUE
          /\ outcome.usage.prompt = state.attempt
          /\ outcome.usage.completion = state.attempt
          /\ outcome.usage.total = state.attempt + state.attempt
      BY <2>1, <2>3, <2>4, <3>2 DEF TokenUsage, WrappedSum, Reported, Present, Absent
    <3> QED
      BY <2>3, <2>4, <3>2, <3>3
  <2>5. CASE b.content = "noUsage"
    <3>1. outcome.usage.known = FALSE
      BY <2>1, <2>3, <2>5 DEF TokenUsage, NoUsage, NoTokenUsage, Absent
    <3> QED
      BY <2>3, <2>5, <3>1
  <2> QED
    BY <2>3, <2>4, <2>5
<1> QED
  BY <1>1, InvHolds, UsageInvHolds, PTL

(* BodiesLeftAreClosed: no retry and no return leaves a connection open,   *)
(* even when the body closed is being finalized by a Read.                 *)
THEOREM NoBodyIsLeftOpen == Spec => []BodiesLeftAreClosed
<1>1. UsageInv => BodiesLeftAreClosed
  BY DEF UsageInv, LeftIsClosed, BodiesLeftAreClosed
<1> QED
  BY <1>1, UsageInvHolds, PTL
=============================================================================
