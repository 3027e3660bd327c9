----------------------------- MODULE ChatStream -----------------------------
(***************************************************************************)
(* A streaming call on the Chat Completions or Messages route, from the    *)
(* network body to the caller: the terminalBodyObserver, the SDK goroutine *)
(* that decodes what it exposes and sends messages into its own pipe       *)
(* (external), the goroutine of normalizeObservedStream (stream.go) that   *)
(* replaces the SDK's usage by the observed one, the callback that closes  *)
(* the source when the context ends, and the caller.                       *)
(*                                                                         *)
(* Messages are numbered by the unit that completed their event, which is  *)
(* all that tells them apart.  Closing an eino StreamReader makes Sends    *)
(* return but does not end a Recv; closing its writer does.                *)
(***************************************************************************)
EXTENDS BodyObserver, Pipe

CONSTANTS
  PipeCap,      \* capacity of the SDK's pipe
  ContextErrors \* how the caller's context may end

ASSUME PipeAssumption ==
  PipeCap \in Nat \ {0} /\ ContextErrors \subseteq {"canceled", "deadline"}

VARIABLES
  sdk,          \* the SDK goroutine: "loop", "send", "ending", "done"
  decoded,      \* how many delivered units it has decoded
  sdkItem,      \* the item it is sending
  sdkPipe,      \* [queue, sendClosed, recvClosed]: from the SDK to normalize
  norm,         \* the normalizing goroutine: "recv", "got", "send", "ending", "done"
  normItem,     \* the item it holds
  outPipe,      \* from the normalizing goroutine to the caller
  produced,     \* the messages the SDK made that hold more than usage (history)
  received,     \* the messages the caller has received (history)
  closing,      \* the caller has received the usage chunk (history)
  end           \* how the stream ended for the caller

sdkVars == <<sdk, decoded, sdkItem>>
normVars == <<norm, normItem>>
callerVars == <<received, closing, end>>
streamVars == <<sdkVars, sdkPipe, normVars, outPipe, produced, callerVars>>
allVars == <<state, ctx, observerVars, streamVars>>

-----------------------------------------------------------------------------
StreamInit ==
  /\ Init
  /\ sdk = "loop" /\ decoded = 0 /\ sdkItem = EOFItem
  /\ sdkPipe = NewPipe
  /\ norm = "recv" /\ normItem = EOFItem
  /\ outPipe = NewPipe
  /\ produced = <<>> /\ received = <<>> /\ closing = FALSE /\ end = "open"

-----------------------------------------------------------------------------
(* The SDK goroutine (external).  It decodes every event it is handed,     *)
(* reads on when there is none left, and ends at EOF or an error.          *)

SDKReads ==
  /\ sdk = "loop" /\ decoded = Len(delivered)
  /\ ReadBegins
  /\ UNCHANGED streamVars

SDKSkips ==
  /\ sdk = "loop" /\ decoded < Len(delivered)
  /\ delivered[decoded + 1].kind \in {"part", "stop"}
  /\ decoded' = decoded + 1
  /\ UNCHANGED <<state, ctx, observerVars, sdk, sdkItem, sdkPipe, normVars, outPipe,
                 produced, callerVars>>

(* The Chat Completions decoder stops at [DONE] without reading on.        *)
SDKStops ==
  /\ sdk = "loop" /\ decoded < Len(delivered)
  /\ delivered[decoded + 1].kind = "stop"
  /\ decoded' = decoded + 1
  /\ sdk' = "ending"
  /\ UNCHANGED <<state, ctx, observerVars, sdkItem, sdkPipe, normVars, outPipe,
                 produced, callerVars>>

(* An event with usage becomes a message that may hold nothing else.       *)
SDKDecodes(keep) ==
  /\ sdk = "loop" /\ decoded < Len(delivered)
  /\ LET kind == delivered[decoded + 1].kind
     IN  /\ kind \notin {"part", "stop"}
         /\ kind = "chunk" => keep
  /\ decoded' = decoded + 1
  /\ sdkItem' = Message(decoded + 1, keep)
  /\ produced' = IF keep THEN Append(produced, decoded + 1) ELSE produced
  /\ sdk' = "send"
  /\ UNCHANGED <<state, ctx, observerVars, sdkPipe, normVars, outPipe, callerVars>>

(* The SDK cannot make a message of an event that the observer accepted.   *)
SDKRejects ==
  /\ sdk = "loop" /\ decoded < Len(delivered)
  /\ delivered[decoded + 1].kind \notin {"part", "stop"}
  /\ decoded' = decoded + 1
  /\ sdkItem' = Failed("decode")
  /\ sdk' = "send"
  /\ UNCHANGED <<state, ctx, observerVars, sdkPipe, normVars, outPipe, produced,
                 callerVars>>

SDKEnds ==
  /\ sdk = "loop" /\ decoded = Len(delivered) /\ reader = "idle"
  /\ result # "none"
  /\ IF result = "EOF"
     THEN sdk' = "ending" /\ UNCHANGED sdkItem
     ELSE sdk' = "send" /\ sdkItem' = Failed(result)
  /\ UNCHANGED <<state, ctx, observerVars, decoded, sdkPipe, normVars, outPipe,
                 produced, callerVars>>

(* An error is the last item; a closed reader ends the goroutine too.      *)
SDKSends ==
  /\ sdk = "send"
  /\ IF sdkPipe.recvClosed
     THEN sdk' = "ending" /\ UNCHANGED sdkPipe
     ELSE /\ CanSend(sdkPipe, PipeCap)
          /\ sdkPipe' = Sent(sdkPipe, sdkItem)
          /\ sdk' = IF sdkItem.type = "error" THEN "ending" ELSE "loop"
  /\ UNCHANGED <<state, ctx, observerVars, decoded, sdkItem, normVars, outPipe,
                 produced, callerVars>>

SDKCloses ==
  /\ sdk = "ending"
  /\ CloseBegins
  /\ UNCHANGED streamVars

SDKClosed ==
  /\ CloseEnds
  /\ UNCHANGED streamVars

SDKFinishes ==
  /\ sdk = "ending" /\ closer = "done"
  /\ sdk' = "done"
  /\ sdkPipe' = [sdkPipe EXCEPT !.sendClosed = TRUE]
  /\ UNCHANGED <<state, ctx, observerVars, decoded, sdkItem, normVars, outPipe,
                 produced, callerVars>>

SDK ==
  \/ SDKReads \/ SDKSkips \/ SDKStops \/ SDKRejects \/ SDKEnds
  \/ \E keep \in BOOLEAN : SDKDecodes(keep)
  \/ SDKSends \/ SDKCloses \/ SDKClosed \/ SDKFinishes

-----------------------------------------------------------------------------
(* The goroutine of normalizeObservedStream *)

NormUnchanged == UNCHANGED <<state, ctx, observerVars, sdkVars, produced, callerVars>>

NormReceives ==
  /\ norm = "recv" /\ CanRecv(sdkPipe)
  /\ normItem' = NextItem(sdkPipe)
  /\ sdkPipe' = Received(sdkPipe)
  /\ norm' = "got"
  /\ UNCHANGED outPipe /\ NormUnchanged

(* What the goroutine sends for the item it got: the context's error first,*)
(* then at EOF the observation, then the SDK's error, then the message     *)
(* without its usage, if anything is left of it.                           *)
AtEOF ==
  IF state.body.err # "none" THEN Failed(state.body.err)
  ELSE IF ~state.body.terminal THEN Failed("missingTerminal")
  ELSE IF TokenUsage(state.body.usage).known THEN UsageChunk
  ELSE EOFItem

(* Mutants *)
NormalizedAtTerminal ==
  IF ctx # "live" THEN Failed(ctx)
  ELSE IF normItem.type = "EOF" \/ state.body.terminal THEN AtEOF
  ELSE normItem
NormalizedUncancelled == IF normItem.type = "EOF" THEN AtEOF ELSE normItem

Normalized ==
  IF ctx # "live" THEN Failed(ctx)
  ELSE IF normItem.type = "EOF" THEN AtEOF
  ELSE normItem

NormDecides ==
  /\ norm = "got"
  /\ normItem' = Normalized
  /\ norm' = IF Normalized.type = "EOF" THEN "ending"
             ELSE IF ~Normalized.keep THEN "recv"
             ELSE "send"
  /\ UNCHANGED <<sdkPipe, outPipe>> /\ NormUnchanged

NormSends ==
  /\ norm = "send"
  /\ outPipe.recvClosed \/ CanSend(outPipe, 1)
  /\ outPipe' = IF outPipe.recvClosed THEN outPipe ELSE Sent(outPipe, normItem)
  /\ norm' = IF normItem.type = "message" /\ ~outPipe.recvClosed THEN "recv" ELSE "ending"
  /\ UNCHANGED <<normItem, sdkPipe>> /\ NormUnchanged

(* source.Recv panics: the deferred calls close the source, then the       *)
(* recovered error is sent.                                                *)
NormPanics ==
  /\ norm = "recv"
  /\ normItem' = Failed("panic")
  /\ norm' = "send"
  /\ sdkPipe' = [sdkPipe EXCEPT !.recvClosed = TRUE]
  /\ UNCHANGED outPipe /\ NormUnchanged

(* Mutants *)
NormEndsLeavingTheSource ==
  /\ norm = "ending"
  /\ norm' = "done"
  /\ outPipe' = [outPipe EXCEPT !.sendClosed = TRUE]
  /\ UNCHANGED <<normItem, sdkPipe>> /\ NormUnchanged
NormEndsSilently ==
  /\ norm = "ending"
  /\ norm' = "done"
  /\ sdkPipe' = [sdkPipe EXCEPT !.recvClosed = TRUE]
  /\ UNCHANGED <<normItem, outPipe>> /\ NormUnchanged

NormEnds ==
  /\ norm = "ending"
  /\ norm' = "done"
  /\ sdkPipe' = [sdkPipe EXCEPT !.recvClosed = TRUE]
  /\ outPipe' = [outPipe EXCEPT !.sendClosed = TRUE]
  /\ UNCHANGED normItem /\ NormUnchanged

(* Mutant *)
CancellationClosesBetweenReceives ==
  /\ ctx # "live" /\ norm = "recv" /\ ~sdkPipe.recvClosed
  /\ sdkPipe' = [sdkPipe EXCEPT !.recvClosed = TRUE]
  /\ UNCHANGED <<normVars, outPipe>> /\ NormUnchanged

(* context.AfterFunc.  The goroutine and its callback close the source     *)
(* through a sync.Once: a callback that was not stopped in time finds the  *)
(* source closed, and changes nothing.                                     *)
CancellationCloses ==
  /\ ctx # "live" /\ norm # "done" /\ ~sdkPipe.recvClosed
  /\ sdkPipe' = [sdkPipe EXCEPT !.recvClosed = TRUE]
  /\ UNCHANGED <<normVars, outPipe>> /\ NormUnchanged

Normalize ==
  NormReceives \/ NormDecides \/ NormSends \/ NormPanics \/ NormEnds

-----------------------------------------------------------------------------
(* The caller *)

CallerReceives ==
  /\ end = "open" /\ CanRecv(outPipe)
  /\ outPipe' = Received(outPipe)
  /\ LET item == NextItem(outPipe)
     IN  /\ received' = IF item.type = "message" THEN Append(received, item.id)
                         ELSE received
         /\ closing' = (closing \/ item.type = "usage")
         /\ end' = IF item.type \in {"error", "EOF"} THEN item.type ELSE "open"
  /\ UNCHANGED <<state, ctx, observerVars, sdkVars, sdkPipe, normVars, produced>>

(* StreamReader.Close, early or after the end. *)
CallerCloses ==
  /\ ~outPipe.recvClosed
  /\ outPipe' = [outPipe EXCEPT !.recvClosed = TRUE]
  /\ end' = IF end = "open" THEN "closed" ELSE end
  /\ UNCHANGED <<state, ctx, observerVars, sdkVars, sdkPipe, normVars, produced,
                 received, closing>>

CallerCancels(e) == Cancel(e) /\ UNCHANGED streamVars

-----------------------------------------------------------------------------
StreamNetwork == Network /\ UNCHANGED streamVars

(* The part of the SDK's Read that runs in the observer. *)
StreamRead ==
  /\ \/ EntersSource \/ Scan \/ ReadReturnsError
     \/ \E n \in 1 .. MaxUnits : ReadReturnsData(n)
  /\ UNCHANGED streamVars

StreamNext ==
  \/ StreamNetwork \/ StreamRead
  \/ SDK \/ Normalize \/ CancellationCloses
  \/ CallerReceives \/ CallerCloses
  \/ \E e \in ContextErrors : CallerCancels(e)

StreamSpec == StreamInit /\ [][StreamNext]_allVars

(* Goroutines are scheduled and the SDK does not stall.  A network read    *)
(* returns when its body is closed or its context has ended, which is what *)
(* net/http does; nothing is asked of the server, nor of the caller.       *)
StreamFairness ==
  /\ WF_allVars(StreamRead) /\ WF_allVars(SDK)
  /\ WF_allVars(NormReceives \/ NormDecides \/ NormSends \/ NormEnds)
  /\ WF_allVars(CancellationCloses)
  /\ WF_allVars((source = "closed" \/ ctx # "live") /\ StreamNetwork)

FairStreamSpec == StreamSpec /\ StreamFairness

-----------------------------------------------------------------------------
(* The whole stream keeps the promise made to the caller.                  *)
Contract ==
  INSTANCE StreamContract
    WITH Chunk <- 1 .. MaxUnits,
         complete <- state.body.terminal /\ state.body.err = "none"

ImplementsContract == Contract!Spec

(* The caller of a stream that ended well got the closing usage chunk      *)
(* exactly when the server had sent both counts, whatever usage the SDK    *)
(* made up (stream.go: observedUsageTokenUsage, normalizeObservedStream).  *)
UsageChunkIsExact ==
  end = "EOF" =>
    (closing <=> /\ LastCount(InputSetters, "input").present
                 /\ LastCount(OutputSetters, "output").present)

(* When the caller sees EOF, nothing of the stream is left behind: the     *)
(* SDK's goroutine has ended and the network body is closed.               *)
EOFLeavesNothingBehind ==
  end = "EOF" => sdk = "done" /\ source = "closed"

(* Cancelling the context closes the SDK's stream, ends its goroutine and  *)
(* releases the network body, even when the server is silent and the       *)
(* caller neither receives nor closes (stream.go:                          *)
(* context.AfterFunc(ctx, closeSource)).                                   *)
CancellationReleasesTheBody ==
  ctx # "live" ~> sdkPipe.recvClosed /\ source = "closed" /\ sdk = "done"

(* After cancellation and Close every goroutine ends, without another unit *)
(* from the server ("No goroutine may require another server chunk after   *)
(* cancel+Close").                                                         *)
AbandonedStreamEnds ==
  ctx # "live" /\ outPipe.recvClosed ~> norm = "done" /\ sdk = "done"

(* A caller that keeps receiving is told the end of a stream that the      *)
(* server completed, that failed or that was cancelled.                    *)
CallerIsAnswered ==
  WF_allVars(CallerReceives)
    => (terminal \/ result # "none" \/ ctx # "live" ~> end # "open")
=============================================================================
