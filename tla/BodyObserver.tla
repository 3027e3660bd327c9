---------------------------- MODULE BodyObserver ----------------------------
(***************************************************************************)
(* terminalBodyObserver (opencodego/body_observer.go): the reader that     *)
(* observingTransport puts between the network body of an SSE response and *)
(* the SDK.  It lets whole events through, watches their usage, and ends   *)
(* the stream at the protocol's terminal event, at the first event that is *)
(* malformed or too large, or when the network ends first.                 *)
(*                                                                         *)
(* The body arrives as units.  A "part" is some bytes of an event that is  *)
(* not complete yet; any other unit is the byte that completes an event,   *)
(* and says what the event was.  One Read of the network may return any    *)
(* few units and an error with them, so events are cut and joined freely.  *)
(* Read and Close run in different goroutines; closed and terminal are     *)
(* atomics, the rest belongs to the goroutine that reads.                  *)
(***************************************************************************)
EXTENDS OperationState, Sequences, SequencesExt

CONSTANTS
  Events,       \* the events the server may send
  MaxUnits,     \* bound on the units of the whole body
  MaxBatch,     \* bound on the units one network read returns
  EventLimit    \* maxObservedSSEEventBytes, in units

(* What finishEvent tells apart.  "usage" is a chat chunk with usage,      *)
(* "start" and "delta" the Messages events with usage; "chunk" is any      *)
(* other well-formed event or blank line; "bad" does not parse or has a    *)
(* type that does not match; "badUsage" has a usage that does not parse.   *)
EventKinds == {"chunk", "usage", "start", "delta", "stop", "bad", "badUsage"}

Part == [kind |-> "part", usage |-> NoUsage]
Event == [kind : EventKinds, usage : Usage]
Units == Events \cup {Part}

ASSUME ObserverAssumption ==
  /\ Events \subseteq Event
  /\ MaxUnits \in Nat /\ MaxBatch \in Nat \ {0} /\ EventLimit \in Nat \ {0}

VARIABLES
  state,      \* the operationState; this body belongs to attempt 1
  ctx,        \* the request's context, which ends network reads
  wire,       \* every unit the network has returned (history)
  reader,     \* where the current Read is
  batch,      \* units of the last network read still to be scanned
  readErr,    \* the error that came with them
  eventRaw,   \* the units of the event in progress (their count: eventBytes)
  output,     \* o.output: whole events not yet handed over
  pendingErr, \* o.pendingErr
  terminal,   \* o.terminal
  closed,     \* o.closed
  source,     \* "open", or "closed": the network body
  closer,     \* where Close is
  delivered,  \* every unit handed to the SDK (history)
  result      \* the error the last Read returned

observerVars == <<wire, reader, batch, readErr, eventRaw, output, pendingErr,
                  terminal, closed, source, closer, delivered, result>>

ThisAttempt == 1

ReadErrors == {"EOF", "readFailed", "canceled", "deadline"}

Init ==
  /\ state = BeginAttempt(NewState)
  /\ ctx = "live"
  /\ wire = <<>> /\ batch = <<>> /\ eventRaw = <<>> /\ output = <<>>
  /\ reader = "idle" /\ readErr = "none" /\ pendingErr = "none"
  /\ terminal = FALSE /\ closed = FALSE
  /\ source = "open" /\ closer = "idle"
  /\ delivered = <<>> /\ result = "none"

-----------------------------------------------------------------------------
(* The environment *)

Cancel(e) ==
  /\ ctx = "live"
  /\ ctx' = e
  /\ UNCHANGED <<state, observerVars>>

(* Another attempt of the same operation begins while this body is still   *)
(* being read.                                                             *)
NextAttempt ==
  /\ state.attempt = ThisAttempt
  /\ state' = BeginAttempt(state)
  /\ UNCHANGED <<ctx, observerVars>>

-----------------------------------------------------------------------------
(* finishEvent and observeSSEUsage *)

ParseError(unit) ==
  IF Len(eventRaw) + 1 > EventLimit THEN "oversizedSSE"
  ELSE IF unit.kind = "bad" THEN "malformedSSE"
  ELSE IF unit.kind = "badUsage" \/ ~WellFormedUsage(unit.usage) THEN "malformedUsage"
  ELSE "none"

(* Mutant *)
StartUsageForgetsOutput(old, new) == new

(* message_start keeps an earlier output count when it brings none.        *)
StartUsage(old, new) ==
  [input |-> new.input, total |-> new.total,
   output |-> IF new.output.present THEN new.output ELSE old.output]

(* message_delta only brings an output count, unless the sum overflows.    *)
DeltaObservation(observation, new) ==
  LET input == observation.usage.input
  IN  IF ~new.output.present THEN observation
      ELSE IF input.present /\ input.value > MaxInt - new.output.value
      THEN [observation EXCEPT !.err = "malformedUsage"]
      ELSE [observation EXCEPT !.usage.output = new.output]

ObservedEvent(observation, event) ==
  CASE event.kind = "usage" -> [observation EXCEPT !.usage = event.usage]
    [] event.kind = "start" ->
         [observation EXCEPT !.usage = StartUsage(@, event.usage)]
    [] event.kind = "delta" -> DeltaObservation(observation, event.usage)
    [] event.kind = "stop"  -> [observation EXCEPT !.terminal = TRUE]
    [] OTHER                -> observation

-----------------------------------------------------------------------------
(* terminalBodyObserver.Read *)

ReadBegins ==
  /\ reader = "idle" /\ result = "none"
  /\ reader' = "loop"
  /\ UNCHANGED <<state, ctx, wire, batch, readErr, eventRaw, output, pendingErr,
                 terminal, closed, source, closer, delivered, result>>

KeepsReading ==
  output = <<>> /\ pendingErr = "none" /\ ~terminal /\ ~closed

EntersSource ==
  /\ reader = "loop" /\ KeepsReading
  /\ reader' = "source"
  /\ UNCHANGED <<state, ctx, wire, batch, readErr, eventRaw, output, pendingErr,
                 terminal, closed, source, closer, delivered, result>>

(* The network returns some units, an error, or both; a closed body and an *)
(* ended context always return an error.  Nothing at all ends the Read.    *)
SourceReturns(units, e) ==
  /\ reader = "source"
  /\ Len(wire) + Len(units) <= MaxUnits
  /\ e \in {"none", "EOF", "readFailed"} \cup ({ctx} \ {"live"})
  /\ source = "closed" \/ ctx # "live" => e # "none"
  /\ wire' = wire \o units
  /\ batch' = units
  /\ readErr' = e
  /\ reader' = IF units = <<>> /\ e = "none" THEN "idle" ELSE "scan"
  /\ UNCHANGED <<state, ctx, eventRaw, output, pendingErr, terminal, closed,
                 source, closer, delivered, result>>

(* Mutant *)
ReadMarksClosed == closed' = TRUE /\ UNCHANGED source

(* closeSource as called by Read itself. *)
ReadCloses == closed' = TRUE /\ source' = "closed"

(* The next unit ends the stream with a parse error: the event it is in    *)
(* and the rest of the batch are dropped.                                  *)
ScanError ==
  /\ reader = "scan" /\ batch # <<>>
  /\ ParseError(Head(batch)) # "none"
  /\ pendingErr' = ParseError(Head(batch))
  /\ state' = RecordError(state, ThisAttempt, pendingErr')
  /\ eventRaw' = <<>> /\ batch' = <<>>
  /\ reader' = "loop"
  /\ ReadCloses
  /\ UNCHANGED <<ctx, wire, readErr, output, terminal, closer, delivered, result>>

(* Mutant *)
ScanPartLeaks ==
  /\ reader = "scan" /\ batch # <<>>
  /\ Head(batch).kind = "part" /\ ParseError(Head(batch)) = "none"
  /\ output' = Append(output, Head(batch))
  /\ batch' = Tail(batch)
  /\ UNCHANGED <<state, ctx, wire, reader, readErr, eventRaw, pendingErr, terminal,
                 closed, source, closer, delivered, result>>

ScanPart ==
  /\ reader = "scan" /\ batch # <<>>
  /\ Head(batch).kind = "part" /\ ParseError(Head(batch)) = "none"
  /\ eventRaw' = Append(eventRaw, Head(batch))
  /\ batch' = Tail(batch)
  /\ UNCHANGED <<state, ctx, wire, reader, readErr, output, pendingErr, terminal,
                 closed, source, closer, delivered, result>>

(* Mutants *)
EndsStreamIfLast(unit) == unit.kind = "stop" /\ Len(batch) = 1
EndsStreamNever(unit) == FALSE

EndsStream(unit) == unit.kind = "stop"

(* A complete event moves to the output; a terminal one also ends the      *)
(* stream, dropping the rest of the batch and the error that came with it. *)
ScanEvent ==
  /\ reader = "scan" /\ batch # <<>>
  /\ Head(batch).kind # "part" /\ ParseError(Head(batch)) = "none"
  /\ output' = output \o Append(eventRaw, Head(batch))
  /\ eventRaw' = <<>>
  /\ state' = UpdateBodyForAttempt(state, ThisAttempt,
                                   ObservedEvent(state.body, Head(batch)))
  /\ IF EndsStream(Head(batch))
     THEN /\ terminal' = TRUE
          /\ batch' = <<>> /\ readErr' = "none"
          /\ reader' = "loop"
          /\ ReadCloses
     ELSE /\ batch' = Tail(batch)
          /\ UNCHANGED <<readErr, reader, terminal, closed, source>>
  /\ UNCHANGED <<ctx, wire, pendingErr, closer, delivered, result>>

(* Mutant *)
StreamReadErrorAsIs(e) == e

(* The network ended first: the stream is incomplete.                      *)
StreamReadError(e) == IF e = "EOF" THEN "missingTerminal" ELSE e

(* The batch is scanned without an end: the network's error is next. *)
ScanEnds ==
  /\ reader = "scan" /\ batch = <<>>
  /\ reader' = "loop"
  /\ readErr' = "none"
  /\ IF readErr # "none"
     THEN /\ pendingErr' = StreamReadError(readErr)
          /\ state' = RecordError(state, ThisAttempt, pendingErr')
          /\ ReadCloses
     ELSE UNCHANGED <<pendingErr, state, closed, source>>
  /\ UNCHANGED <<ctx, wire, batch, eventRaw, output, terminal, closer, delivered,
                 result>>

(* Read hands over whole events first, then the error once, then EOF. *)
ReadReturnsData(n) ==
  /\ reader = "loop" /\ output # <<>>
  /\ n \in 1 .. Len(output)
  /\ delivered' = delivered \o SubSeq(output, 1, n)
  /\ output' = SubSeq(output, n + 1, Len(output))
  /\ reader' = "idle"
  /\ UNCHANGED <<state, ctx, wire, batch, readErr, eventRaw, pendingErr, terminal,
                 closed, source, closer, result>>

ReadReturnsError ==
  /\ reader = "loop" /\ output = <<>> /\ ~KeepsReading
  /\ result' = IF pendingErr # "none" THEN pendingErr ELSE "EOF"
  /\ pendingErr' = "none"
  /\ reader' = "idle"
  /\ UNCHANGED <<state, ctx, wire, batch, readErr, eventRaw, output, terminal,
                 closed, source, closer, delivered>>

-----------------------------------------------------------------------------
(* terminalBodyObserver.Close, from any goroutine *)

CloseBegins ==
  /\ closer = "idle"
  /\ closed' = TRUE
  /\ closer' = "closing"
  /\ UNCHANGED <<state, ctx, wire, reader, batch, readErr, eventRaw, output,
                 pendingErr, terminal, source, delivered, result>>

(* Mutant *)
CloseEndsUnlessReading ==
  /\ closer = "closing"
  /\ source' = IF reader = "source" THEN source ELSE "closed"
  /\ closer' = "done"
  /\ UNCHANGED <<state, ctx, wire, reader, batch, readErr, eventRaw, output,
                 pendingErr, terminal, closed, delivered, result>>

CloseEnds ==
  /\ closer = "closing"
  /\ source' = "closed"
  /\ closer' = "done"
  /\ UNCHANGED <<state, ctx, wire, reader, batch, readErr, eventRaw, output,
                 pendingErr, terminal, closed, delivered, result>>

-----------------------------------------------------------------------------
Network ==
  \E units \in BoundedSeq(Units, MaxBatch), e \in ReadErrors \cup {"none"} :
    SourceReturns(units, e)

Scan == ScanError \/ ScanPart \/ ScanEvent \/ ScanEnds

Read ==
  \/ ReadBegins \/ EntersSource \/ Scan
  \/ \E n \in 1 .. MaxUnits : ReadReturnsData(n)
  \/ ReadReturnsError

Next ==
  \/ \E e \in {"canceled", "deadline"} : Cancel(e)
  \/ NextAttempt
  \/ Network \/ Read \/ CloseBegins \/ CloseEnds

vars == <<state, ctx, observerVars>>

Spec == Init /\ [][Next]_vars

(* The SDK keeps reading until an error, goroutines are scheduled, Close   *)
(* returns, and a network read returns once its body is closed or its      *)
(* context has ended.  Nothing else is asked of the server.                *)
Fairness ==
  /\ WF_vars(Read)
  /\ WF_vars(CloseEnds)
  /\ WF_vars((source = "closed" \/ ctx # "live") /\ Network)

FairSpec == Spec /\ Fairness

-----------------------------------------------------------------------------
(* Everything the SDK has been handed or will be handed next. *)
Exposed == delivered \o output

(* The SDK is handed the bytes of the body unchanged and in order, in     *)
(* whole events: never the beginning of one that is incomplete, nor one    *)
(* that is malformed or larger than the limit, nor anything behind the     *)
(* terminal event even when it came in the same network read               *)
(* (body_observer.go: Read, consume).                                      *)
ExposesWholeEvents ==
  LET Ends == {i \in DOMAIN Exposed : Exposed[i].kind # "part"}
  IN  /\ IsPrefix(Exposed, wire)
      /\ \A i \in DOMAIN Exposed :
           /\ \E j \in Ends : i <= j /\ j < i + EventLimit
           /\ Exposed[i].kind \notin {"bad", "badUsage"}
           /\ Exposed[i].kind = "stop" => i = Len(Exposed)

(* The SDK sees a clean end of the stream only behind the terminal event,  *)
(* which the operation then knows of, unless somebody closed the body.     *)
CleanEndIsComplete ==
  result = "EOF" /\ closer = "idle" =>
    /\ delivered # <<>> /\ Last(delivered).kind = "stop"
    /\ state.attempt = ThisAttempt => state.body.terminal

(* An error is recorded in the operation before the SDK can see it, so     *)
(* that the SDK's own wording of it cannot hide it; a completion is        *)
(* recorded by the time its event is handed over (body_observer.go:        *)
(* recordError, and Read at terminal).                                     *)
EndIsRecorded ==
  state.attempt = ThisAttempt =>
    /\ pendingErr # "none" \/ result \notin {"none", "EOF"} => state.body.err # "none"
    /\ state.body.terminal <=> terminal
    /\ terminal <=> Exposed # <<>> /\ Last(Exposed).kind = "stop"

(* Once Read has returned an error or EOF the network body is closed, or   *)
(* the Close that ended the Read is about to close it.                     *)
SourceIsReleased ==
  result # "none" => source = "closed" \/ closer = "closing"

(* The count an event of the stream last set, or none. *)
LastCount(setters, count) ==
  IF setters = {} THEN Absent ELSE Exposed[Max(setters)].usage[count]

InputSetters ==
  {i \in DOMAIN Exposed : Exposed[i].kind \in {"usage", "start"}}

OutputSetters ==
  {i \in DOMAIN Exposed :
     \/ Exposed[i].kind = "usage"
     \/ Exposed[i].kind \in {"start", "delta"} /\ Exposed[i].usage.output.present}

(* The usage observed at any time is that of the events exposed so far:    *)
(* the input of the latest event that states one, and the latest output    *)
(* that was present, which a message_start or message_delta without an     *)
(* output does not erase (stream.go: observeSSEUsage).                     *)
UsageIsThatOfTheWire ==
  state.attempt = ThisAttempt /\ state.body.err = "none" =>
    /\ state.body.usage.input = LastCount(InputSetters, "input")
    /\ state.body.usage.output = LastCount(OutputSetters, "output")

(* Usage that is accepted without error never adds up past Go's int: what  *)
(* the test of message_delta and of usageFromRaw is for, and what          *)
(* stream_test.go:91 expects to be malformed.                              *)
UsageFitsInt ==
  state.body.err = "none" => TokenUsage(state.body.usage).total >= 0

(* A terminal event, like an error, ends the SDK's reading without another *)
(* unit from the server (body_observer.go: "without waiting for the peer   *)
(* to close the connection").                                              *)
TerminalEndsReading ==
  (Exposed # <<>> /\ Last(Exposed).kind = "stop") ~> result # "none"

(* Close unblocks a Read that waits for a silent server.                   *)
CloseUnblocksRead == closed ~> reader = "idle" /\ source = "closed"
=============================================================================
