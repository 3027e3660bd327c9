----------------------------- MODULE CodexStream -----------------------------
(***************************************************************************)
(* A streaming call of the raw Codex model: the request, the goroutine     *)
(* that scans the event stream and puts the tool calls together            *)
(* (openaicodex/responses.go: streamResponses), its deferred calls         *)
(* (openaicodex/chatmodel.go: Stream), and the caller, who is Generate or  *)
(* the library's user.                                                     *)
(*                                                                         *)
(* The server keeps to its protocol: it announces calls by output index,   *)
(* streams their arguments, repeats them when a call is done, sends text   *)
(* while no call is open, completes the response then, and sends nothing   *)
(* more.  It may leave out the announcement or the call id in it, and it   *)
(* may stop, fail or fall silent anywhere.  A text is a sequence of        *)
(* tokens; the tokens of a call are numbered in their order.               *)
(***************************************************************************)
EXTENDS Pipe, FiniteSets

CONSTANTS
  MaxCalls,     \* bound on the tool calls of the response
  MaxTokens,    \* bound on the tokens of a call's arguments
  MaxTexts,     \* bound on text deltas and reasoning items
  Garbled,      \* the types of events that may reach the scanner unparseable
  PipeCap       \* capacity of the caller's pipe

ASSUME CodexAssumption ==
  /\ MaxCalls \in Nat
  /\ MaxTokens \in Nat /\ MaxTexts \in Nat /\ PipeCap \in Nat \ {0}

VARIABLES
  ctx,          \* the caller's context
  server,       \* what the server has sent of each call: its phase and arguments
  texts, items, \* how many text deltas and reasoning items it has sent
  over,         \* it has sent response.completed, failed or incomplete
  body,         \* the response body: "none", "open" or "closed"
  producer,     \* "request", "scan", "send", "ended", "exit", "report", "close", "done"
  result,       \* why there is nothing more to scan: "none", "EOF" or "failed"
  item,         \* what is being sent
  panicked,     \* a panic is on its way up
  openCalls, nextIndex, sawToolCall, reasoning, completed,   \* of streamResponses
  pipe,         \* to the caller
  produced,     \* how many chunks were sent (history)
  received,     \* the chunks the caller has got (history)
  end           \* how the stream ended for it (history)

serverVars   == <<server, texts, items, over>>
assemblyVars == <<openCalls, nextIndex, sawToolCall, reasoning, completed>>
producerVars == <<producer, result, item, panicked>>
callerVars   == <<received, end>>
vars == <<ctx, serverVars, body, producerVars, assemblyVars, pipe, produced, callerVars>>

Outputs == 1 .. MaxCalls  \* the output indexes of the calls, which are their ids too
Blank == 0                \* an absent call id
Ids == Outputs \cup {Blank}
NoCall == [known |-> FALSE, index |-> 0, callID |-> Blank, sawDelta |-> FALSE]
EmptyObject == 0          \* the token of the arguments "{}"

Tokens(n) == [k \in 1 .. n |-> k]

(* What the goroutine sends.  Text stands for content and for reasoning.   *)
TextChunk == [type |-> "text"]
CallChunk(index, id, args) == [type |-> "call", index |-> index, id |-> id, args |-> args]
TerminalChunk(finish, raws) == [type |-> "terminal", finish |-> finish, reasoning |-> raws]

(* What it reads.  An ignored event is a comment, one of no interest, one  *)
(* without content, or one that cannot be parsed.                          *)
CallEvents ==
  [type : {"added"}, out : Outputs, id : Ids, args : {<<>>}]
    \cup [type : {"delta"}, out : Outputs, id : {Blank}, args : {<<n>> : n \in 1 .. MaxTokens}]
    \cup [type : {"done"}, out : Outputs, id : Outputs, args : {Tokens(n) : n \in 0 .. MaxTokens}]
Events ==
  CallEvents \cup [type : {"text", "reasoning", "completed", "failed", "ignored"}]

-----------------------------------------------------------------------------
Init ==
  /\ ctx = "live"
  /\ server = [o \in Outputs |-> [phase |-> "none", args |-> <<>>]]
  /\ texts = 0 /\ items = 0 /\ over = FALSE
  /\ body = "none" /\ producer = "request"
  /\ result = "none" /\ item = EOFItem /\ panicked = FALSE
  /\ openCalls = [o \in Outputs |-> NoCall]
  /\ nextIndex = 0 /\ sawToolCall = FALSE /\ reasoning = 0 /\ completed = FALSE
  /\ pipe = NewPipe
  /\ produced = 0 /\ received = <<>> /\ end = "open"

-----------------------------------------------------------------------------
(* Stream, up to the start of the goroutine: the caller waits in it.       *)

RequestSucceeds ==
  /\ producer = "request"
  /\ producer' = "scan" /\ body' = "open"
  /\ UNCHANGED <<ctx, serverVars, result, item, panicked, assemblyVars, pipe, produced,
                 callerVars>>

(* An error of the transport, or a status outside 2xx: its body is closed. *)
RequestFails(b) ==
  /\ producer = "request"
  /\ producer' = "done" /\ body' = b /\ end' = "error"
  /\ UNCHANGED <<ctx, serverVars, result, item, panicked, assemblyVars, pipe, produced,
                 received>>

-----------------------------------------------------------------------------
(* The server (external) *)

(* Output indexes are given out in order. *)
MayStart(o) ==
  /\ server[o].phase = "none"
  /\ \A p \in Outputs : p < o => server[p].phase # "none"

(* It announces a call with its id or none.                                *)
Announces(e) ==
  /\ e.type = "added" /\ e.id \in {e.out, Blank}
  /\ MayStart(e.out)
  /\ server' = [server EXCEPT ![e.out].phase = "open"]
  /\ UNCHANGED <<texts, items, over>>

Streams(e) ==
  /\ e.type = "delta" /\ server[e.out].phase = "open"
  /\ e.args = <<Len(server[e.out].args) + 1>>
  /\ server' = [server EXCEPT ![e.out].args = @ \o e.args]
  /\ UNCHANGED <<texts, items, over>>

(* The arguments are those streamed; any, if none were.                    *)
Finishes(e) ==
  /\ e.type = "done" /\ e.id = e.out
  /\ MayStart(e.out) \/ server[e.out].phase = "open"
  /\ server[e.out].args \in {<<>>, e.args}
  /\ server' = [server EXCEPT ![e.out] = [phase |-> "done", args |-> e.args]]
  /\ UNCHANGED <<texts, items, over>>

Thinks(e) ==
  /\ e.type = "reasoning" /\ texts + items < MaxTexts
  /\ items' = items + 1
  /\ UNCHANGED <<server, texts, over>>

Speaks(e) ==
  /\ e.type = "text" /\ texts + items < MaxTexts
  /\ texts' = texts + 1
  /\ UNCHANGED <<server, items, over>>

Ends(e) ==
  /\ \/ e.type = "completed" /\ \A o \in Outputs : server[o].phase # "open"
     \/ e.type = "failed"
  /\ over' = TRUE
  /\ UNCHANGED <<server, texts, items>>

(* An event of a garbled type may reach the scanner as one it cannot parse. *)
ServerSends(e) ==
  \/ /\ ~over
     /\ \/ Announces(e) \/ Streams(e) \/ Finishes(e) \/ Ends(e)
        \/ (\A o \in Outputs : server[o].phase # "open") /\ (Thinks(e) \/ Speaks(e))
        \/ /\ e.type = "ignored"
           /\ \E lost \in Events : lost.type \in Garbled /\ (Announces(lost) \/ Streams(lost))
  \/ e.type = "ignored" /\ UNCHANGED serverVars

-----------------------------------------------------------------------------
(* What comes after an event: the next one, or the end of the stream.      *)
AfterEvent(r) == IF r = "none" THEN "scan" ELSE "ended"

GoesOn(r) == producer' = AfterEvent(r) /\ UNCHANGED item
StartsSending(i) == producer' = "send" /\ item' = i

(* dispatch: one operator per event, over the variables of streamResponses *)

HandleOutputItemAdded(e) ==
  /\ openCalls' = [openCalls EXCEPT ![e.out] =
                     [known |-> TRUE, index |-> nextIndex, callID |-> e.id,
                      sawDelta |-> FALSE]]
  /\ nextIndex' = nextIndex + 1
  /\ sawToolCall' = TRUE
  /\ StartsSending(CallChunk(nextIndex, e.id, <<>>))
  /\ UNCHANGED <<reasoning, completed>>

(* The delta of a call that was not announced is dropped.                  *)
HandleArgsDelta(e, r) ==
  LET st == openCalls[e.out]
  IN  IF ~st.known THEN GoesOn(r) /\ UNCHANGED assemblyVars
      ELSE /\ openCalls' = [openCalls EXCEPT ![e.out].sawDelta = TRUE]
           /\ StartsSending(CallChunk(st.index, st.callID, e.args))
           /\ UNCHANGED <<nextIndex, sawToolCall, reasoning, completed>>

OrEmptyObject(args) == IF args = <<>> THEN <<EmptyObject>> ELSE args

(* Mutant *)
HandleFunctionCallDoneWhole(e) ==
  LET st == openCalls[e.out]
      index == IF st.known THEN st.index ELSE nextIndex
  IN  /\ nextIndex' = IF st.known THEN nextIndex ELSE nextIndex + 1
      /\ sawToolCall' = TRUE
      /\ StartsSending(CallChunk(index, e.id, OrEmptyObject(e.args)))
      /\ UNCHANGED <<openCalls, reasoning, completed>>

(* After deltas only the id is filled in; otherwise the arguments are sent *)
(* whole, under the index of the call or, if it was not announced, a new   *)
(* one.                                                                    *)
HandleFunctionCallDone(e) ==
  LET st == openCalls[e.out]
      index == IF st.known THEN st.index ELSE nextIndex
  IN  IF st.known /\ st.sawDelta
      THEN /\ StartsSending(CallChunk(st.index, e.id, <<>>))
           /\ UNCHANGED assemblyVars
      ELSE /\ nextIndex' = IF st.known THEN nextIndex ELSE nextIndex + 1
           /\ sawToolCall' = TRUE
           /\ StartsSending(CallChunk(index, e.id, OrEmptyObject(e.args)))
           /\ UNCHANGED <<openCalls, reasoning, completed>>

HandleReasoningDone(r) ==
  /\ reasoning' = reasoning + 1
  /\ GoesOn(r)
  /\ UNCHANGED <<openCalls, nextIndex, sawToolCall, completed>>

BuildCompletedMessage ==
  TerminalChunk(IF sawToolCall THEN "tool_calls" ELSE "stop", reasoning)

HandleCompleted ==
  /\ completed' = TRUE
  /\ StartsSending(BuildCompletedMessage)
  /\ UNCHANGED <<openCalls, nextIndex, sawToolCall, reasoning>>

Dispatch(e, r) ==
  \/ e.type = "added" /\ HandleOutputItemAdded(e)
  \/ e.type = "delta" /\ HandleArgsDelta(e, r)
  \/ e.type = "done" /\ HandleFunctionCallDone(e)
  \/ e.type = "reasoning" /\ HandleReasoningDone(r)
  \/ e.type = "completed" /\ HandleCompleted
  \/ e.type = "text" /\ StartsSending(TextChunk) /\ UNCHANGED assemblyVars
  \/ e.type = "failed" /\ StartsSending(Failed("server")) /\ UNCHANGED assemblyVars
  \/ e.type = "ignored" /\ GoesOn(r) /\ UNCHANGED assemblyVars

-----------------------------------------------------------------------------
(* streamResponses *)

(* The lines of an event: a blank line dispatches it, or the end of the    *)
(* stream, r, at which it is dispatched as well.  The context is looked at *)
(* after every line, but the end is not a line: an event dispatched there  *)
(* may come after the context has ended.                                   *)
ReadsEvent(r) ==
  /\ producer = "scan"
  /\ result' = r
  /\ \E e \in Events :
       /\ ServerSends(e)
       /\ \/ (ctx = "live" \/ r # "none") /\ Dispatch(e, r)
          \/ ctx # "live" /\ StartsSending(Failed(ctx)) /\ UNCHANGED assemblyVars
  /\ UNCHANGED <<ctx, body, panicked, pipe, produced, callerVars>>

ReadFails(r) ==
  /\ producer = "scan"
  /\ result' = r
  /\ producer' = "ended"
  /\ UNCHANGED <<ctx, serverVars, body, item, panicked, assemblyVars, pipe, produced,
                 callerVars>>

AfterSend ==
  IF producer = "report" THEN "close"
  ELSE IF item.type = "error" \/ pipe.recvClosed THEN "exit"
  ELSE AfterEvent(result)

(* Send waits for room, or for the caller to close its reader.             *)
Sends ==
  /\ producer \in {"send", "report"}
  /\ pipe.recvClosed \/ CanSend(pipe, PipeCap)
  /\ pipe' = IF pipe.recvClosed THEN pipe ELSE Sent(pipe, item)
  /\ produced' = IF item.type # "error" /\ ~pipe.recvClosed THEN produced + 1 ELSE produced
  /\ producer' = AfterSend
  /\ item' = EOFItem
  /\ UNCHANGED <<ctx, serverVars, body, result, panicked, assemblyVars, callerVars>>

(* Mutant *)
ConcludesAtEOF ==
  /\ producer = "ended"
  /\ IF result = "failed" THEN StartsSending(Failed(IF ctx # "live" THEN ctx ELSE "read"))
     ELSE producer' = "exit" /\ UNCHANGED item
  /\ UNCHANGED <<ctx, serverVars, body, result, panicked, assemblyVars, pipe, produced,
                 callerVars>>

(* The scanner's error; else a response that was not completed is one.     *)
Concludes ==
  /\ producer = "ended"
  /\ IF result = "failed" THEN StartsSending(Failed(IF ctx # "live" THEN ctx ELSE "read"))
     ELSE IF ~completed THEN StartsSending(Failed("incomplete"))
     ELSE producer' = "exit" /\ UNCHANGED item
  /\ UNCHANGED <<ctx, serverVars, body, result, panicked, assemblyVars, pipe, produced,
                 callerVars>>

(* A panic while reading or dispatching.                                   *)
Panics ==
  /\ producer = "scan"
  /\ panicked' = TRUE
  /\ producer' = "exit"
  /\ UNCHANGED <<ctx, serverVars, body, result, item, assemblyVars, pipe, produced,
                 callerVars>>

-----------------------------------------------------------------------------
(* The deferred calls of the goroutine *)

(* Closing the body may panic; its error is dropped.                       *)
ClosesBody(panics) ==
  /\ producer = "exit"
  /\ body' = "closed"
  /\ panicked' = (panicked \/ panics)
  /\ IF panicked' THEN producer' = "report" /\ item' = Failed("panic")
     ELSE producer' = "close" /\ UNCHANGED item
  /\ UNCHANGED <<ctx, serverVars, result, assemblyVars, pipe, produced, callerVars>>

(* Mutant *)
FinishesSilently ==
  /\ producer = "close"
  /\ producer' = "done"
  /\ UNCHANGED <<ctx, serverVars, body, result, item, panicked, assemblyVars, pipe,
                 produced, callerVars>>

(* sw.Close, and cancel, which has nothing left to cancel.                 *)
ClosesWriter ==
  /\ producer = "close"
  /\ producer' = "done"
  /\ pipe' = [pipe EXCEPT !.sendClosed = TRUE]
  /\ UNCHANGED <<ctx, serverVars, body, result, item, panicked, assemblyVars, produced,
                 callerVars>>

Produces ==
  \/ Sends \/ Concludes \/ \E panics \in BOOLEAN : ClosesBody(panics) \/ ClosesWriter

-----------------------------------------------------------------------------
(* The caller.  Like Generate it drops what it has when it meets an error  *)
(* or leaves.                                                              *)

Cancel ==
  /\ ctx = "live"
  /\ ctx' = "canceled"
  /\ UNCHANGED <<serverVars, body, producerVars, assemblyVars, pipe, produced, callerVars>>

CallerReceives ==
  /\ producer # "request" /\ end = "open" /\ CanRecv(pipe)
  /\ pipe' = Received(pipe)
  /\ LET i == NextItem(pipe)
     IN  CASE i.type = "EOF"   -> end' = "EOF" /\ UNCHANGED received
           [] i.type = "error" -> end' = "error" /\ received' = <<>>
           [] OTHER            -> received' = Append(received, i) /\ UNCHANGED end
  /\ UNCHANGED <<ctx, serverVars, body, producerVars, assemblyVars, produced>>

(* StreamReader.Close, early or after the end.                             *)
CallerCloses ==
  /\ producer # "request" /\ ~pipe.recvClosed
  /\ pipe' = [pipe EXCEPT !.recvClosed = TRUE]
  /\ IF end = "open" THEN end' = "closed" /\ received' = <<>>
     ELSE UNCHANGED callerVars
  /\ UNCHANGED <<ctx, serverVars, body, producerVars, assemblyVars, produced>>

-----------------------------------------------------------------------------
Next ==
  \/ RequestSucceeds \/ \E b \in {"none", "closed"} : RequestFails(b)
  \/ \E r \in {"none", "EOF", "failed"} : ReadsEvent(r)
  \/ \E r \in {"EOF", "failed"} : ReadFails(r)
  \/ Panics \/ Produces
  \/ Cancel \/ CallerReceives \/ CallerCloses

Spec == Init /\ [][Next]_vars

(* The goroutine is scheduled.  A request, and a read of its body, returns *)
(* once the context has ended, which is what net/http does; the server and *)
(* the caller owe nothing.                                                 *)
Fairness ==
  /\ WF_vars(Produces)
  /\ WF_vars(ctx # "live" /\ (RequestFails("none") \/ ReadFails("failed")))

FairSpec == Spec /\ Fairness

-----------------------------------------------------------------------------
(* The tool calls of a message, as eino concatenates its chunks.           *)
CallsOf(chunks) == {k \in DOMAIN chunks : chunks[k].type = "call"}
Indexes(chunks) == {chunks[k].index : k \in CallsOf(chunks)}
IdsAt(chunks, index) ==
  {chunks[k].id : k \in {c \in CallsOf(chunks) : chunks[c].index = index}} \ {Blank}
ArgsAt(chunks, index) ==
  LET Join[k \in 0 .. Len(chunks)] ==
        IF k = 0 THEN <<>>
        ELSE IF k \in CallsOf(chunks) /\ chunks[k].index = index
             THEN Join[k - 1] \o chunks[k].args
             ELSE Join[k - 1]
  IN  Join[Len(chunks)]

Done == {o \in Outputs : server[o].phase = "done"}

(* A caller that has got the whole response has every tool call of it      *)
(* once, under an index and with an id of its own and with exactly the     *)
(* arguments the server gave it: announced or not, streamed or not, and in *)
(* whatever order the events of parallel calls came                        *)
(* (handleOutputItemAdded, handleArgsDelta, handleOutputItem).             *)
ToolCallsAreWhole ==
  end = "EOF" =>
    /\ Indexes(received) = 0 .. (Cardinality(Done) - 1)
    /\ \A o \in Done : \E index \in Indexes(received) :
         /\ IdsAt(received, index) = {o}
         /\ ArgsAt(received, index) = OrEmptyObject(server[o].args)

(* EOF means that the response was completed and that the caller has all   *)
(* of it, the terminal chunk last, with a finish reason and reasoning      *)
(* items that fit what came before: a stream that the server cut off, a    *)
(* failed read, a panic or a cancellation in mid-response never looks like *)
(* an answer (streamResponses: "stream ended before response.completed").  *)
EOFIsAnAnswer ==
  end = "EOF" =>
    /\ Len(received) = produced /\ received # <<>>
    /\ received[Len(received)] =
         TerminalChunk(IF CallsOf(received) = {} THEN "stop" ELSE "tool_calls", items)
    /\ \A k \in 1 .. Len(received) - 1 : received[k].type # "terminal"

(* A caller that keeps receiving learns of the end of a stream that ended, *)
(* failed, panicked or was cancelled.                                      *)
CallerIsAnswered ==
  WF_vars(CallerReceives)
    => (ctx # "live" \/ result # "none" \/ panicked ~> end # "open")

(* "An in-flight stream aborts when ctx is cancelled or when the consumer  *)
(* closes the reader" (openaicodex/chatmodel.go, Stream).                  *)
ClosedReaderAborts == pipe.recvClosed ~> body # "open"
=============================================================================
