------------------------- MODULE GenerateOperation --------------------------
(***************************************************************************)
(* One nonstreaming model call of the opencodego provider on the Messages  *)
(* or Chat Completions route: chatModel.generate, the SDK below it that    *)
(* sends and retries the request (external), observingTransport.RoundTrip  *)
(* and an observedJSONBody around every successful response.               *)
(*                                                                         *)
(* The SDK closes a response body before it retries or returns, but a Read *)
(* of that body may still be in flight in another goroutine (the case of   *)
(* TestOperationStateRejectsLateUsageFromPriorAttempt and                  *)
(* TestObservedJSONBodyConcurrentCloseUnblocksRead), so the bodies of      *)
(* several attempts can be at work together.                               *)
(*                                                                         *)
(* A body is Total units long.  The document is whole only when all of     *)
(* them are there; a complete document reports usage counts equal to its   *)
(* attempt's number, no usage, or a usage value that does not parse.       *)
(***************************************************************************)
EXTENDS OperationState, FiniteSets

CONSTANTS
  MaxAttempts,     \* the SDK's first try and its retries
  MaxBodyUnits,    \* the longest response body, in units
  JSONLimit        \* maxObservedJSONBodyBytes, in units

ASSUME GenerateAssumption ==
  /\ MaxAttempts \in Nat \ {0} /\ MaxAttempts <= MaxInt
  /\ MaxBodyUnits \in Nat \ {0}
  /\ JSONLimit \in Nat \ {0}

Attempts == 1 .. MaxAttempts

VARIABLES
  state,      \* the operationState
  ctx,        \* the caller's context: "live", "canceled" or "deadline"
  call,       \* where the SDK is in its request loop
  answer,     \* what the latest RoundTrip returned
  body,       \* per attempt, the observedJSONBody of its 2xx response
  outcome     \* what generate returned to its caller

vars == <<state, ctx, call, answer, body, outcome>>

-----------------------------------------------------------------------------
Contents == {"usage", "noUsage", "badUsage"}
ReadErrors == {"EOF", "readFailed", "oversizedJSON", "canceled", "deadline"}

NewBody(content, total) ==
  [content |-> content, total |-> total, got |-> 0, buffered |-> 0, hand |-> 0,
   seen |-> 0, pending |-> "none", finalized |-> FALSE, finalizer |-> "none",
   reader |-> "idle", readErr |-> "none", closed |-> FALSE]

NoBody == NewBody("none", 0)

Body ==
  [content   : Contents \cup {"none"},
   total     : 0 .. MaxBodyUnits,
   got       : 0 .. MaxBodyUnits,   \* units the network source has handed out
   buffered  : 0 .. JSONLimit,      \* len(o.buffer)
   hand      : 0 .. MaxBodyUnits,   \* n of the Read that is finalizing
   seen      : 0 .. MaxBodyUnits,   \* units returned to the SDK
   pending   : ReadErrors \cup {"none"},         \* o.pending
   finalized : BOOLEAN,                          \* o.finalized
   finalizer : {"none", "reader", "closer"},     \* who is inside finalizeBody
   reader    : {"idle", "source"},               \* a Read inside source.Read
   readErr   : ReadErrors \cup {"none"},         \* what Read last returned
   closed    : BOOLEAN]                          \* the network body is closed

SendErrors == {"net", "netTimeout", "missingKey"}
Answers == SendErrors \cup HTTPErrors \cup ReadErrors
             \cup {"none", "ok", "message", "decode"}

Outcome ==
  [kind : {"none"}]
    \cup [kind : {"error"}, class : Class]
    \cup [kind : {"message"}, usage : TokenUsages]

NoOutcome == [kind |-> "none"]

Init ==
  /\ state = NewState
  /\ ctx = "live"
  /\ call = "ready"
  /\ answer = "none"
  /\ body = [a \in Attempts |-> NoBody]
  /\ outcome = NoOutcome

Cancel(e) ==
  /\ ctx = "live" /\ call # "returned"
  /\ ctx' = e
  /\ UNCHANGED <<state, call, answer, body, outcome>>

-----------------------------------------------------------------------------
(* observingTransport.RoundTrip *)

(* Everything up to the call of the authenticated transport. *)
SendRequest ==
  /\ call = "ready" /\ state.attempt < MaxAttempts
  /\ state' = BeginAttempt(state)
  /\ call' = "sent"
  /\ UNCHANGED <<ctx, answer, body, outcome>>

(* The transport below returned an error or no response; the context's own *)
(* error takes its place.                                                  *)
RoundTripFails(e) ==
  /\ call = "sent"
  /\ answer' = IF ctx # "live" THEN ctx ELSE e
  /\ call' = "answered"
  /\ UNCHANGED <<state, ctx, body, outcome>>

RoundTripHTTPError(e) ==
  /\ call = "sent"
  /\ state' = RecordHTTPError(state, e)
  /\ answer' = e
  /\ call' = "answered"
  /\ UNCHANGED <<ctx, body, outcome>>

RoundTripSucceeds(total, content) ==
  /\ call = "sent"
  /\ answer' = "ok"
  /\ call' = "reading"
  /\ body' = [body EXCEPT ![state.attempt] = NewBody(content, total)]
  /\ UNCHANGED <<state, ctx, outcome>>

-----------------------------------------------------------------------------
(* observedJSONBody.Read.  The SDK reads the body of its current attempt   *)
(* one Read at a time and stops at the first error.                        *)

Update(a, b) ==
  /\ body' = [body EXCEPT ![a] = b]
  /\ UNCHANGED <<ctx, answer, outcome>>

MayRead(a) ==
  /\ call = "reading" /\ a = state.attempt
  /\ body[a].reader = "idle" /\ body[a].finalizer # "reader"
  /\ body[a].readErr = "none"

(* A pending error is handed over without touching the source. *)
ReadPending(a) ==
  /\ MayRead(a) /\ body[a].pending # "none"
  /\ Update(a, [body[a] EXCEPT !.readErr = body[a].pending, !.pending = "none"])
  /\ UNCHANGED <<state, call>>

ReadEntersSource(a) ==
  /\ MayRead(a) /\ body[a].pending = "none"
  /\ Update(a, [body[a] EXCEPT !.reader = "source"])
  /\ UNCHANGED <<state, call>>

(* What the source can return: n more units and perhaps an error. *)
SourceReturns(a, n, e) ==
  /\ body[a].reader = "source"
  /\ body[a].got + n <= body[a].total
  /\ e \in {"none", "EOF", "readFailed"} \cup ({ctx} \ {"live"})

(* The body was finalized while this Read was in the source: the data      *)
(* passes unobserved.                                                      *)
ReadUnobserved(a, n, e) ==
  /\ SourceReturns(a, n, e) /\ body[a].finalized
  /\ Update(a, [body[a] EXCEPT !.got = @ + n, !.seen = @ + n,
                               !.reader = "idle", !.readErr = e])
  /\ UNCHANGED <<state, call>>

(* Mutant *)
RoomOffByOne(b) == JSONLimit + 1 - b.buffered

Room(b) == JSONLimit - b.buffered

(* More than the observer buffers: it records the error, closes the source *)
(* and hands over only what still fits.                                    *)
ReadOversized(a, n, e) ==
  LET remaining == Room(body[a])
  IN  /\ SourceReturns(a, n, e) /\ ~body[a].finalized
      /\ n > remaining
      /\ Update(a, [body[a] EXCEPT
                      !.got = @ + n, !.buffered = JSONLimit,
                      !.seen = @ + remaining, !.reader = "idle",
                      !.pending = IF remaining > 0 THEN "oversizedJSON" ELSE "none",
                      !.readErr = IF remaining > 0 THEN "none" ELSE "oversizedJSON",
                      !.finalized = TRUE, !.closed = TRUE])
      /\ state' = RecordError(state, a, "oversizedJSON")
      /\ UNCHANGED call

(* An error that came with data waits in pending for the next Read. *)
ReadObserved(a, n, e) ==
  /\ SourceReturns(a, n, e) /\ ~body[a].finalized
  /\ n <= Room(body[a])
  /\ e # "EOF"
  /\ Update(a, [body[a] EXCEPT
                  !.got = @ + n, !.buffered = @ + n, !.seen = @ + n,
                  !.reader = "idle",
                  !.pending = IF n > 0 THEN e ELSE "none",
                  !.readErr = IF n > 0 THEN "none" ELSE e])
  /\ UNCHANGED <<state, call>>

(* At EOF the Read unlocks to finalize the body before it returns. *)
ReadEOF(a, n) ==
  /\ SourceReturns(a, n, "EOF") /\ ~body[a].finalized
  /\ n <= Room(body[a])
  /\ Update(a, [body[a] EXCEPT
                  !.got = @ + n, !.buffered = @ + n, !.hand = n,
                  !.reader = "idle", !.finalized = TRUE, !.finalizer = "reader"])
  /\ UNCHANGED <<state, call>>

-----------------------------------------------------------------------------
(* observedJSONBody.finalizeBody and Close *)

(* The usage that the document of attempt a states. *)
Reported(a) == [input |-> Present(a), output |-> Present(a), total |-> Absent]

(* observeJSONUsage of a document that arrived whole, or its error. *)
Finalized(s, a) ==
  LET b == body[a]
      whole == b.buffered = b.total
      usage == IF b.content = "usage" THEN Reported(a) ELSE s.body.usage
  IN  IF ~whole \/ b.content = "badUsage" \/ ~WellFormedUsage(usage)
      THEN RecordError(s, a, "malformedUsage")
      ELSE UpdateBodyForAttempt(s, a, [s.body EXCEPT !.terminal = TRUE, !.usage = usage])

FinalizeInRead(a) ==
  /\ body[a].finalizer = "reader"
  /\ state' = Finalized(state, a)
  /\ Update(a, [body[a] EXCEPT
                  !.finalizer = "none", !.seen = @ + body[a].hand, !.hand = 0,
                  !.pending = IF body[a].hand > 0 THEN "EOF" ELSE @,
                  !.readErr = IF body[a].hand > 0 THEN "none" ELSE "EOF"])
  /\ UNCHANGED call

(* What the SDK makes of the reads that have returned when it closes. *)
Decoded(b) ==
  IF b.seen = b.total /\ b.reader = "idle" /\ b.finalizer # "reader"
  THEN "message"
  ELSE IF b.readErr \notin {"none", "EOF"} THEN b.readErr ELSE "decode"

(* Mutant *)
AfterCloseOnlyOnce(b) ==
  IF b.finalized THEN b ELSE [b EXCEPT !.finalized = TRUE, !.finalizer = "closer"]

(* A body that Read has finalized is closed at once.                       *)
AfterClose(b) ==
  IF b.finalized THEN [b EXCEPT !.closed = TRUE]
  ELSE [b EXCEPT !.finalized = TRUE, !.finalizer = "closer"]

(* The SDK calls Close, whether or not it read the body to its end. *)
Close(a) ==
  /\ call = "reading" /\ a = state.attempt
  /\ answer' = Decoded(body[a])
  /\ body' = [body EXCEPT ![a] = AfterClose(body[a])]
  /\ call' = IF body[a].finalized THEN "answered" ELSE "closing"
  /\ UNCHANGED <<state, ctx, outcome>>

FinalizeInClose(a) ==
  /\ body[a].finalizer = "closer"
  /\ state' = Finalized(state, a)
  /\ Update(a, [body[a] EXCEPT !.finalizer = "none", !.closed = TRUE])
  /\ call' = "answered"

-----------------------------------------------------------------------------
(* The SDK's decision, and chatModel.generate on its result *)

(* A retryable status, a network error or X-Should-Retry: try again. *)
Retry ==
  /\ call = "answered" /\ ctx = "live" /\ state.attempt < MaxAttempts
  /\ call' = "ready"
  /\ UNCHANGED <<state, ctx, answer, body, outcome>>

Failure(err) ==
  [kind |-> "error", class |-> ClassifyInvocationError(err, state.lastHTTPError)]

(* The caller's context ended while the SDK waited to retry. *)
RetryInterrupted ==
  /\ call = "answered" /\ ctx # "live" /\ state.attempt < MaxAttempts
  /\ answer' = ctx
  /\ outcome' = Failure(ctx)
  /\ call' = "returned"
  /\ UNCHANGED <<state, ctx, body>>

GenerateFails ==
  /\ call = "answered" /\ answer # "message"
  /\ outcome' = Failure(answer)
  /\ call' = "returned"
  /\ UNCHANGED <<state, ctx, answer, body>>

(* The SDK's message, its usage replaced by the observed one. *)
GenerateSucceeds ==
  /\ call = "answered" /\ answer = "message"
  /\ outcome' = IF state.body.err # "none" THEN Failure(state.body.err)
                ELSE [kind |-> "message", usage |-> TokenUsage(state.body.usage)]
  /\ call' = "returned"
  /\ UNCHANGED <<state, ctx, answer, body>>

-----------------------------------------------------------------------------
Transport ==
  \/ SendRequest
  \/ \E e \in SendErrors : RoundTripFails(e)
  \/ \E e \in HTTPErrors : RoundTripHTTPError(e)
  \/ \E total \in 1 .. MaxBodyUnits, content \in Contents :
       RoundTripSucceeds(total, content)

Observer(a) ==
  \/ ReadPending(a) \/ ReadEntersSource(a)
  \/ \E n \in 0 .. MaxBodyUnits, e \in ReadErrors \cup {"none"} :
       ReadUnobserved(a, n, e) \/ ReadOversized(a, n, e) \/ ReadObserved(a, n, e)
  \/ \E n \in 0 .. MaxBodyUnits : ReadEOF(a, n)
  \/ FinalizeInRead(a)
  \/ Close(a)
  \/ FinalizeInClose(a)

Next ==
  \/ \E e \in {"canceled", "deadline"} : Cancel(e)
  \/ Transport
  \/ \E a \in Attempts : Observer(a)
  \/ Retry \/ RetryInterrupted \/ GenerateFails \/ GenerateSucceeds

Spec == Init /\ [][Next]_vars

-----------------------------------------------------------------------------
(* Every variable keeps its type; in particular the observer never buffers *)
(* more than its limit (stream.go: maxObservedJSONBodyBytes).              *)
TypeOK ==
  /\ state \in State /\ state.attempt \in 0 .. MaxAttempts
  /\ ctx \in {"live", "canceled", "deadline"}
  /\ call \in {"ready", "sent", "answered", "reading", "closing", "returned"}
  /\ answer \in Answers
  /\ body \in [Attempts -> Body]
  /\ outcome \in Outcome

(* Whatever the operation has observed of a body, usage, completion or     *)
(* error, comes from the body of the attempt in progress, however late the *)
(* bodies of earlier attempts are read (observation.go:                    *)
(* beginAttempt, updateBodyForAttempt).                                    *)
ObservationBelongsToAttempt ==
  state.body # EmptyObservation =>
    /\ state.attempt \in Attempts
    /\ body[state.attempt].finalized
    /\ state.body.usage.input \in {Absent, Present(state.attempt)}
    /\ state.body.usage.output = state.body.usage.input

(* An operation is reported as an authentication failure only when its     *)
(* last attempt failed that way: neither an earlier, retried HTTP error    *)
(* nor one followed by the caller's cancellation is ever blamed            *)
(* (observation.go: "a later network failure cannot inherit a typed        *)
(* failure from an earlier SDK retry"; errors.go: classifyInvocationError).*)
FinalAttemptIsBlamed ==
  outcome.kind = "error" =>
    /\ outcome.class = "auth"     <=> answer \in AuthHTTPErrors \cup {"missingKey"}
    /\ outcome.class = "canceled" <=> answer = "canceled"
    /\ outcome.class = "timeout"  <=> answer \in {"deadline", "netTimeout"}

(* A message is returned only for a body that arrived whole, within the    *)
(* limit and with readable usage, and it carries exactly the usage that    *)
(* this body had on the wire, or none (stream.go: observedJSONBody,        *)
(* normalizeGeneratedUsage).                                               *)
UsageIsThatOfTheMessage ==
  outcome.kind = "message" =>
    LET b == body[state.attempt]
    IN  /\ b.buffered = b.total
        /\ b.content \in {"usage", "noUsage"}
        /\ outcome.usage.known = (b.content = "usage")
        /\ outcome.usage.known =>
             /\ outcome.usage.prompt = state.attempt
             /\ outcome.usage.total = outcome.usage.prompt + outcome.usage.completion
             /\ outcome.usage.total <= MaxInt

(* Before it retries or returns, the operation has closed the network body *)
(* of the attempt it leaves (stream.go: observedJSONBody.Close).           *)
BodiesLeftAreClosed ==
  \A a \in Attempts :
    body[a].content # "none" /\ (a < state.attempt \/ call = "returned")
      => body[a].closed
=============================================================================
