-------------------------- MODULE ResponsesProducer --------------------------
(***************************************************************************)
(* A streaming call on the Responses route, from the response body to the  *)
(* caller: the goroutine of runResponsesStream that parses the body and    *)
(* sends into the caller's pipe, the callback that closes the body when    *)
(* the request's context ends, in a goroutine of its own, and the caller   *)
(* (opencodego/responses_model.go, and the loop of parseResponsesStream).  *)
(* The producer and the callback close the body through a sync.Once        *)
(* (observedBodySource of stream.go): the first of them closes the         *)
(* connection, the other waits until that is done and is told of no error. *)
(*                                                                         *)
(* What an event means is the subject of ResponsesStream; here an event    *)
(* is ignored, brings a chunk, is rejected, or completes the response with *)
(* some chunks that were staged and the terminal message.                  *)
(***************************************************************************)
EXTENDS Pipe

CONSTANTS
  MaxEvents,    \* bound on the events the server sends
  MaxStaged,    \* bound on the chunks that a completed response brings
  PipeCap       \* capacity of the caller's pipe

ASSUME ProducerAssumption ==
  MaxEvents \in Nat /\ MaxStaged \in Nat /\ PipeCap \in Nat \ {0}

VARIABLES
  ctx,          \* the request's context
  events,       \* how many events the server has sent
  body,         \* the response body, under its sync.Once: "open", "closing", "closed"
  callback,     \* context.AfterFunc: "armed", "stopped", "started", "closing", "done"
  producer,     \* "read", "check", "send", "ended", "stopped", "closing", "report",
                \* "last", "close", "done"
  event,        \* the event just read
  staged,       \* how many chunks of the completed response are to be sent
  parsed,       \* how parseResponsesStream returned
  closeErr,     \* the producer's own Close of the body failed
  last,         \* what is sent after the chunks
  pipe,         \* to the caller
  closes, closeFailed,         \* Closes of the connection, one failed (history)
  produced, complete,          \* chunks sent; the response was completed (history)
  received, closing, end       \* what the caller has got of them (history)

bodyVars     == <<body, closes, closeFailed>>
producerVars == <<producer, event, staged, parsed, closeErr, last>>
callerVars   == <<received, closing, end>>
streamVars   == <<producerVars, pipe, produced, complete, callerVars>>
vars == <<ctx, events, bodyVars, callback, streamVars>>

Events == {"ignored", "chunk", "rejected", "completed"}
ReadErrors == {"EOF", "readFailed", "oversized"}
MaxChunks == MaxEvents + MaxStaged

Init ==
  /\ ctx = "live" /\ events = 0
  /\ body = "open" /\ closes = 0 /\ closeFailed = FALSE /\ callback = "armed"
  /\ producer = "read" /\ event = "none" /\ staged = 0
  /\ parsed = "none" /\ closeErr = FALSE /\ last = EOFItem
  /\ pipe = NewPipe
  /\ produced = <<>> /\ complete = FALSE
  /\ received = <<>> /\ closing = FALSE /\ end = "open"

-----------------------------------------------------------------------------
(* parseResponsesStream, under parseResponsesStreamSafely *)

Returns(result) ==
  /\ producer' = "ended"
  /\ parsed' = result

(* A line may come out of the parser's buffer, so the body may be closed.  *)
ReadsEvent(e) ==
  /\ producer = "read" /\ events < MaxEvents
  /\ events' = events + 1
  /\ event' = e
  /\ producer' = "check"
  /\ UNCHANGED <<ctx, bodyVars, callback, staged, parsed, closeErr, last, pipe, produced,
                 complete, callerVars>>

ReadFails(e) ==
  /\ producer = "read"
  /\ Returns(e)
  /\ UNCHANGED <<ctx, events, bodyVars, callback, event, staged, closeErr, last, pipe,
                 produced, complete, callerVars>>

(* The context is looked at after every line, before its event is handled. *)
SeesCancellation ==
  /\ producer = "check" /\ ctx # "live"
  /\ Returns(ctx)
  /\ UNCHANGED <<ctx, events, bodyVars, callback, event, staged, closeErr, last, pipe,
                 produced, complete, callerVars>>

(* A completed response sends the n chunks it staged, then its terminal.   *)
Dispatches(n) ==
  /\ producer = "check" /\ ctx = "live"
  /\ staged' = CASE event = "chunk" -> 1
                 [] event = "completed" -> n
                 [] OTHER -> 0
  /\ complete' = (event = "completed")
  /\ IF staged' > 0 THEN producer' = "send" /\ UNCHANGED parsed
     ELSE IF event = "ignored" THEN producer' = "read" /\ UNCHANGED parsed
     ELSE Returns(IF event = "completed" THEN "terminal" ELSE "invalid")
  /\ UNCHANGED <<ctx, events, bodyVars, callback, event, closeErr, last, pipe, produced,
                 callerVars>>

SendsChunk ==
  /\ producer = "send" /\ ~pipe.recvClosed /\ CanSend(pipe, PipeCap)
  /\ produced' = Append(produced, Len(produced) + 1)
  /\ pipe' = Sent(pipe, Message(Len(produced) + 1, TRUE))
  /\ staged' = staged - 1
  /\ IF staged > 1 THEN UNCHANGED <<producer, parsed>>
     ELSE IF event = "completed" THEN Returns("terminal")
     ELSE producer' = "read" /\ UNCHANGED parsed
  /\ UNCHANGED <<ctx, events, bodyVars, callback, event, closeErr, last, complete,
                 callerVars>>

(* A blocked Send returns when the caller closes its reader.               *)
SendFindsCallerGone ==
  /\ producer = "send" /\ pipe.recvClosed
  /\ Returns("gone")
  /\ UNCHANGED <<ctx, events, bodyVars, callback, event, staged, closeErr, last, pipe,
                 produced, complete, callerVars>>

(* A panic anywhere in the parser is recovered as an error. *)
ParserPanics ==
  /\ producer \in {"read", "check"}
  /\ Returns("panic")
  /\ UNCHANGED <<ctx, events, bodyVars, callback, event, staged, closeErr, last, pipe,
                 produced, complete, callerVars>>

-----------------------------------------------------------------------------
(* observedBodySource.Close, by the producer or the callback *)

(* Mutant *)
EverybodyIsFirst == TRUE

(* Whoever comes first closes the connection, and who comes later waits    *)
(* until it is closed.                                                     *)
FirstToClose == body = "open"
LaterToClose == body = "closed"

ConnectionBeginsToClose ==
  /\ body' = "closing" /\ closes' = closes + 1
  /\ UNCHANGED closeFailed

(* Closing may fail, or panic, which is recovered as a failure.            *)
ConnectionIsClosed(failed) ==
  /\ body' = "closed" /\ closeFailed' = (closeFailed \/ failed)
  /\ UNCHANGED closes

-----------------------------------------------------------------------------
(* The rest of runResponsesStream *)

(* A callback that has been started is neither stopped nor waited for, and *)
(* what stopCancellation says of it is ignored.                            *)
StopsCallback ==
  /\ producer = "ended"
  /\ callback' = IF callback = "armed" THEN "stopped" ELSE callback
  /\ producer' = "stopped"
  /\ UNCHANGED <<ctx, events, bodyVars, event, staged, parsed, closeErr, last, pipe,
                 produced, complete, callerVars>>

ProducerBeginsToClose ==
  /\ producer = "stopped" /\ FirstToClose
  /\ ConnectionBeginsToClose
  /\ producer' = "closing"
  /\ UNCHANGED <<ctx, events, callback, event, staged, parsed, closeErr, last, pipe,
                 produced, complete, callerVars>>

ProducerCloses(failed) ==
  /\ producer = "closing"
  /\ ConnectionIsClosed(failed)
  /\ closeErr' = failed
  /\ producer' = "report"
  /\ UNCHANGED <<ctx, events, callback, event, staged, parsed, last, pipe, produced,
                 complete, callerVars>>

ProducerFindsBodyClosed ==
  /\ producer = "stopped" /\ LaterToClose
  /\ producer' = "report"
  /\ UNCHANGED <<ctx, events, bodyVars, callback, event, staged, parsed, closeErr, last,
                 pipe, produced, complete, callerVars>>

(* Mutant *)
ReportTerminalFirst ==
  IF parsed = "EOF" THEN UsageChunk
  ELSE IF ctx # "live" THEN Failed(ctx)
  ELSE IF parsed # "terminal" THEN Failed(parsed)
  ELSE UsageChunk

(* The context's error first, then the parser's, then that of closing.     *)
Report ==
  IF ctx # "live" THEN Failed(ctx)
  ELSE IF parsed # "terminal" THEN Failed(parsed)
  ELSE IF closeErr THEN Failed("close")
  ELSE UsageChunk

(* A caller that is gone is told nothing.                                  *)
ChoosesReport ==
  /\ producer = "report"
  /\ IF parsed = "gone"
     THEN producer' = "close" /\ UNCHANGED last
     ELSE producer' = "last" /\ last' = Report
  /\ UNCHANGED <<ctx, events, bodyVars, callback, event, staged, parsed, closeErr, pipe,
                 produced, complete, callerVars>>

(* Mutant *)
SendsReportWhenThereIsRoom ==
  /\ producer = "last"
  /\ CanSend(pipe, PipeCap)
  /\ pipe' = Sent(pipe, last)
  /\ producer' = "close"
  /\ UNCHANGED <<ctx, events, bodyVars, callback, event, staged, parsed, closeErr, last,
                 produced, complete, callerVars>>

SendsReport ==
  /\ producer = "last"
  /\ pipe.recvClosed \/ CanSend(pipe, PipeCap)
  /\ pipe' = IF pipe.recvClosed THEN pipe ELSE Sent(pipe, last)
  /\ producer' = "close"
  /\ UNCHANGED <<ctx, events, bodyVars, callback, event, staged, parsed, closeErr, last,
                 produced, complete, callerVars>>

(* Mutant *)
LeavesWriterOpen ==
  /\ producer = "close"
  /\ producer' = "done"
  /\ UNCHANGED <<ctx, events, bodyVars, callback, event, staged, parsed, closeErr, last,
                 pipe, produced, complete, callerVars>>

ClosesWriter ==
  /\ producer = "close"
  /\ producer' = "done"
  /\ pipe' = [pipe EXCEPT !.sendClosed = TRUE]
  /\ UNCHANGED <<ctx, events, bodyVars, callback, event, staged, parsed, closeErr, last,
                 produced, complete, callerVars>>

(* All of it but waiting for the server. *)
Produces ==
  \/ SeesCancellation \/ \E n \in 0 .. MaxStaged : Dispatches(n)
  \/ SendsChunk \/ SendFindsCallerGone
  \/ StopsCallback \/ ProducerBeginsToClose \/ ProducerFindsBodyClosed
  \/ \E failed \in BOOLEAN : ProducerCloses(failed)
  \/ ChoosesReport \/ SendsReport \/ ClosesWriter

-----------------------------------------------------------------------------
(* The context and its callback *)

Cancel(e) ==
  /\ ctx = "live"
  /\ ctx' = e
  /\ UNCHANGED <<events, bodyVars, callback, streamVars>>

(* Mutant *)
CallbackStartsBetweenEvents ==
  /\ ctx # "live" /\ callback = "armed" /\ producer = "check"
  /\ callback' = "started"
  /\ UNCHANGED <<ctx, events, bodyVars, streamVars>>

(* The context has ended, and its callback is still to be started: the     *)
(* producer may yet stop it.                                               *)
CallbackStarts ==
  /\ ctx # "live" /\ callback = "armed"
  /\ callback' = "started"
  /\ UNCHANGED <<ctx, events, bodyVars, streamVars>>

CallbackBeginsToClose ==
  /\ callback = "started" /\ FirstToClose
  /\ ConnectionBeginsToClose
  /\ callback' = "closing"
  /\ UNCHANGED <<ctx, events, streamVars>>

CallbackCloses(failed) ==
  /\ callback = "closing"
  /\ ConnectionIsClosed(failed)
  /\ callback' = "done"
  /\ UNCHANGED <<ctx, events, streamVars>>

CallbackFindsBodyClosed ==
  /\ callback = "started" /\ LaterToClose
  /\ callback' = "done"
  /\ UNCHANGED <<ctx, events, bodyVars, streamVars>>

Callback ==
  \/ CallbackStarts \/ CallbackBeginsToClose \/ CallbackFindsBodyClosed
  \/ \E failed \in BOOLEAN : CallbackCloses(failed)

-----------------------------------------------------------------------------
(* The caller *)

CallerReceives ==
  /\ end = "open" /\ CanRecv(pipe)
  /\ pipe' = Received(pipe)
  /\ LET item == NextItem(pipe)
     IN  /\ received' = IF item.type = "message" THEN Append(received, item.id)
                         ELSE received
         /\ closing' = (closing \/ item.type = "usage")
         /\ end' = IF item.type \in {"error", "EOF"} THEN item.type ELSE "open"
  /\ UNCHANGED <<ctx, events, bodyVars, callback, producerVars, produced, complete>>

CallerCloses ==
  /\ ~pipe.recvClosed
  /\ pipe' = [pipe EXCEPT !.recvClosed = TRUE]
  /\ end' = IF end = "open" THEN "closed" ELSE end
  /\ UNCHANGED <<ctx, events, bodyVars, callback, producerVars, produced, complete,
                 received, closing>>

-----------------------------------------------------------------------------
Next ==
  \/ \E e \in Events : ReadsEvent(e)
  \/ \E e \in ReadErrors : ReadFails(e)
  \/ ParserPanics
  \/ Produces
  \/ Callback
  \/ \E e \in {"canceled", "deadline"} : Cancel(e)
  \/ CallerReceives \/ CallerCloses

Spec == Init /\ [][Next]_vars

(* The goroutines are scheduled.  A read returns when the body is closed or *)
(* the context has ended, and closing a body returns, as net/http does; the *)
(* server and the caller owe nothing.                                      *)
Fairness ==
  /\ WF_vars(Produces) /\ WF_vars(Callback)
  /\ WF_vars((body = "closed" \/ ctx # "live") /\ \E e \in ReadErrors : ReadFails(e))

FairSpec == Spec /\ Fairness

-----------------------------------------------------------------------------
Contract == INSTANCE StreamContract WITH Chunk <- 1 .. MaxChunks

(* A Responses stream keeps the promise made to the caller: what is sent   *)
(* is received in order, and the stream ends well only for a completed     *)
(* response, all of whose chunks the caller has.                           *)
ImplementsContract == Contract!Spec

(* The end of the stream is orderly.  EOF comes only behind the terminal   *)
(* message of a completed response: one that was cut off or cancelled ends *)
(* in an error on every path of runResponsesStream.  A callback that       *)
(* stopCancellation could not stop may run at any time after that, even    *)
(* when the caller has the end of the stream or the producer is gone: by   *)
(* then the connection has been closed, once, whoever did it, and that     *)
(* callback does not touch it again (observedBodySource.Close).  And a     *)
(* response is called completed only if closing went well: an error that   *)
(* the callback keeps to itself is not lost in a good end.                 *)
EndIsOrderly ==
  /\ end = "EOF" => closing /\ complete
  /\ closes <= 1
  /\ closing \/ end \in {"EOF", "error"} \/ producer = "done" =>
       body = "closed" /\ closes = 1
  /\ closing => ~closeFailed

(* Cancelling releases the body even when the caller neither receives nor  *)
(* closes, and the producer is blocked in a Send.                          *)
CancellationReleasesTheBody == ctx # "live" ~> body = "closed"

(* After cancellation and Close the producer ends, without another event   *)
(* from the server.                                                        *)
AbandonedStreamEnds == ctx # "live" /\ pipe.recvClosed ~> producer = "done"

(* A caller that keeps receiving is told the end of a response that was    *)
(* completed, of one that could not be read, and of one cancelled.         *)
CallerIsAnswered ==
  WF_vars(CallerReceives) => (parsed # "none" \/ ctx # "live" ~> end # "open")
=============================================================================
