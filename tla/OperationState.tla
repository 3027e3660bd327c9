--------------------------- MODULE OperationState ---------------------------
(***************************************************************************)
(* The record that one model operation shares with everything working for  *)
(* it (opencodego/observation.go), the wire usage it holds                 *)
(* (opencodego/stream.go) and the classification of the error that ends    *)
(* the operation (opencodego/errors.go).  Every access is one critical     *)
(* section of state.mu, so each operator is one atomic step.               *)
(*                                                                         *)
(* Token counts stay numbers because their presence, their sum and its     *)
(* overflow are observable.  The cached and reasoning details are copied   *)
(* along without being tested anywhere and are left out.                   *)
(*                                                                         *)
(* An operator that stands before another one with the same parameters,    *)
(* here and in the other modules, under a comment "Mutant", is a bug that  *)
(* the model checker is shown to find.                                     *)
(***************************************************************************)
EXTENDS Integers

CONSTANT MaxInt      \* the largest value of Go's int, scaled down

ASSUME MaxIntAssumption == MaxInt \in Nat

-----------------------------------------------------------------------------
(* observedCount, wireUsageObservation, bodyObservation, operationState. *)

Absent     == [present |-> FALSE, value |-> 0]
Present(n) == [present |-> TRUE, value |-> n]

Count == [present : BOOLEAN, value : 0 .. MaxInt]
Usage == [input : Count, output : Count, total : Count]

NoUsage          == [input |-> Absent, output |-> Absent, total |-> Absent]
EmptyObservation == [usage |-> NoUsage, terminal |-> FALSE, err |-> "none"]

(* The error kinds the auth library decodes from a non-2xx response; the   *)
(* last two carry no kind of interest and are told apart by status.        *)
HTTPErrors == {"authentication", "quota", "policy",
               "unauthorizedStatus", "otherStatus"}

BodyErrors == {"malformedSSE", "oversizedSSE", "missingTerminal",
               "malformedUsage", "oversizedJSON", "readFailed",
               "canceled", "deadline"}

BodyObservation == [usage : Usage, terminal : BOOLEAN,
                    err : BodyErrors \cup {"none"}]

State == [attempt : Nat, lastHTTPError : HTTPErrors \cup {"none"},
          body : BodyObservation]

NewState == [attempt |-> 0, lastHTTPError |-> "none", body |-> EmptyObservation]

-----------------------------------------------------------------------------
(* The operations on the state. *)

(* Mutant *)
BeginAttemptKeepingHTTPError(s) ==
  [attempt |-> s.attempt + 1, lastHTTPError |-> s.lastHTTPError, body |-> EmptyObservation]

BeginAttempt(s) ==
  [attempt |-> s.attempt + 1, lastHTTPError |-> "none", body |-> EmptyObservation]

RecordHTTPError(s, e) == [s EXCEPT !.lastHTTPError = e]

(* Mutant *)
UpdateBodyOfAnyAttempt(s, attempt, body) == [s EXCEPT !.body = body]

(* The update is dropped when another attempt has begun since. *)
UpdateBodyForAttempt(s, attempt, body) ==
  IF s.attempt = attempt THEN [s EXCEPT !.body = body] ELSE s

(* Mutant *)
RecordSecondError(s, attempt, e) ==
  IF s.body.err # "none"
  THEN UpdateBodyForAttempt(s, attempt, [s.body EXCEPT !.err = e])
  ELSE s

(* recordError of both body observers: the first error wins. *)
RecordError(s, attempt, e) ==
  IF s.body.err = "none"
  THEN UpdateBodyForAttempt(s, attempt, [s.body EXCEPT !.err = e])
  ELSE s

-----------------------------------------------------------------------------
(* Usage. *)

(* Mutant *)
AnySumIsWellFormed(u) == TRUE

(* usageFromRaw's last test: without a total on the wire, the two counts   *)
(* must add up to an int.                                                  *)
WellFormedUsage(u) ==
  u.input.present /\ u.output.present /\ ~u.total.present
    => u.input.value + u.output.value <= MaxInt

(* Go's int addition of two nonnegative ints. *)
WrappedSum(m, n) == IF m + n <= MaxInt THEN m + n ELSE m + n - 2 * (MaxInt + 1)

(* observedUsageTokenUsage: nothing unless both counts are on the wire. *)
NoTokenUsage == [prompt |-> 0, completion |-> 0, total |-> 0, known |-> FALSE]

TokenUsages == [prompt : 0 .. MaxInt, completion : 0 .. MaxInt,
                total : -(MaxInt + 1) .. MaxInt, known : BOOLEAN]

(* Mutant *)
TokenUsageUnlessZero(u) ==
  IF u.input.value = 0 \/ u.output.value = 0 THEN NoTokenUsage
  ELSE [prompt |-> u.input.value, completion |-> u.output.value,
        total |-> WrappedSum(u.input.value, u.output.value), known |-> TRUE]

TokenUsage(u) ==
  IF u.input.present /\ u.output.present
  THEN [prompt     |-> u.input.value,
        completion |-> u.output.value,
        total      |-> IF u.total.present THEN u.total.value
                       ELSE WrappedSum(u.input.value, u.output.value),
        known      |-> TRUE]
  ELSE NoTokenUsage

-----------------------------------------------------------------------------
(* classifyInvocationError: cancellation, then timeouts, then the HTTP     *)
(* error of the final attempt, then the error itself.                      *)
Class == {"canceled", "timeout", "auth", "api"}

AuthHTTPErrors == {"authentication", "quota", "unauthorizedStatus"}

ClassifyInvocationError(err, httpErr) ==
  IF err = "canceled" THEN "canceled"
  ELSE IF err \in {"deadline", "netTimeout"} THEN "timeout"
  ELSE IF httpErr \in AuthHTTPErrors \/ (httpErr = "none" /\ err = "missingKey")
  THEN "auth"
  ELSE "api"
=============================================================================
