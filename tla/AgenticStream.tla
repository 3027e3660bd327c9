---------------------------- MODULE AgenticStream ----------------------------
(***************************************************************************)
(* A streaming call of the native agentic models of Claude, Ollama and     *)
(* Codex: the limits around the response body (AgenticBody), the scanner   *)
(* that cuts it into lines, the goroutine that decodes them and writes to  *)
(* a pipe (Stream of claude/agenticmodel.go and ollama/agenticmodel.go,    *)
(* openaicodex/agentic_stream.go), the bounded model in front of its       *)
(* reader (agentic.go), and the caller.                                    *)
(*                                                                         *)
(* A body is read byte by byte.  A byte is part of a line, the one that    *)
(* makes the line an event, or a newline.  The server keeps to its         *)
(* protocol: an SSE event is followed by a blank line and an NDJSON record *)
(* by a newline, a Claude block is opened, streamed and stopped, perhaps   *)
(* in turn with others, and nothing follows the end of the answer.  It may *)
(* garble a line, be cut off anywhere, fail, or fall silent.               *)
(***************************************************************************)
EXTENDS AgenticBody, Pipe, FiniteSets

CONSTANTS
  Providers,       \* a subset of {"claude", "ollama", "codex"}
  MaxLineBytes,    \* of the scanner: the larger of MaxEventBytes and 64 KiB
  MaxBlocks,       \* MaxContentBlocks
  CodexCap,        \* the capacity of the pipe of Codex, which is 8
  MaxCalls, MaxTokens, MaxTexts,  \* bounds on what the server sends, and
  MaxPadding       \* on bytes before an event, ignored lines and empty records

ASSUME AgenticStreamAssumption ==
  /\ Providers \subseteq {"claude", "ollama", "codex"}
  /\ MaxLineBytes \in Nat /\ MaxLineBytes >= MaxEventBytes
  /\ {MaxBlocks, CodexCap} \subseteq Nat \ {0}
  /\ {MaxCalls, MaxTokens, MaxTexts, MaxPadding} \subseteq Nat

VARIABLES
  provider, framing,
  ctx,          \* the caller's context
  server,       \* what the server has sent
  body,         \* the response body: "none", "open" or "closed"
  counts,       \* of the limited bodies
  record,       \* the bytes of the current record that were let through (history)
  line,         \* the current line: its bytes, what they say so far, the line above
  data,         \* the data of the current event (Codex)
  calls,        \* the calls being streamed (Claude)
  complete,     \* the end of the answer was seen
  producer,     \* "request", "scan", "send", "ended", "exit", "close", "done"
  result,       \* why there is nothing more to scan: "none", "EOF", "failed", "limit", "long"
  item,         \* what is being sent
  pipe,         \* to the bounded model
  seen,         \* the indexes of the blocks it has counted
  produced,     \* how many messages were sent (history)
  received,     \* the messages the caller has got (history)
  end           \* how the stream ended for it (history)

bodyVars     == <<body, counts, record, line, result>>
decoderVars  == <<data, calls, complete>>
producerVars == <<producer, item>>
callerVars   == <<seen, received, end>>
vars == <<provider, framing, ctx, server, bodyVars, decoderVars, producerVars, pipe,
          produced, callerVars>>

Indexes == 1 .. MaxCalls
NoCall  == [known |-> FALSE, args |-> <<>>]
NoEvent == [type |-> "none"]
Newline == [type |-> "newline"]
Part    == [type |-> "part"]

(* What the lines of each protocol say.  An ignored line is a comment, a   *)
(* field or an event of no interest; a garbled one cannot be parsed.       *)
Events(p) ==
  CASE p = "claude" -> [type : {"text", "end", "ignored", "garbled"}]
                         \cup [type : {"open", "stop"}, index : Indexes]
                         \cup [type : {"args"}, index : Indexes, token : 1 .. MaxTokens]
    [] p = "ollama" -> [type : {"record"}, texts : 0 .. 1, calls : 0 .. MaxCalls,
                        done : BOOLEAN]
                         \cup [type : {"garbled"}]
    [] p = "codex"  -> [type : {"text", "end", "failed", "ignored", "garbled"}]
                         \cup [type : {"call"}, index : Indexes]

(* A block of a message: text, or a call with its arguments.               *)
TextBlock(index) == [index |-> index, call |-> FALSE, args |-> <<>>]
CallBlock(index, args) == [index |-> index, call |-> TRUE, args |-> args]
Chunk(blocks, last) == [type |-> "message", blocks |-> blocks, last |-> last]

-----------------------------------------------------------------------------
Init ==
  /\ provider \in Providers /\ framing = "none" /\ ctx = "live"
  /\ server = [calls |-> [i \in Indexes |-> [phase |-> "none", args |-> <<>>]],
               texts |-> 0, padding |-> 0, over |-> FALSE]
  /\ body = "none" /\ counts = NewCounts /\ record = <<>>
  /\ line = [len |-> 0, event |-> NoEvent, above |-> NoEvent] /\ result = "none"
  /\ data = NoEvent /\ calls = [i \in Indexes |-> NoCall] /\ complete = FALSE
  /\ producer = "request" /\ item = EOFItem
  /\ pipe = NewPipe
  /\ seen = {} /\ produced = 0 /\ received = <<>> /\ end = "open"

-----------------------------------------------------------------------------
(* The request, in which the caller waits                                  *)

(* The event limit is put around the body only if the response declares a  *)
(* type that is cut into records.                                          *)
RequestSucceeds ==
  /\ producer = "request"
  /\ framing' \in {IF provider = "ollama" THEN "ndjson" ELSE "sse", "none"}
  /\ producer' = "scan" /\ body' = "open"
  /\ UNCHANGED <<provider, ctx, server, counts, record, line, result, decoderVars, item,
                 pipe, produced, callerVars>>

(* A request too large, an error of the transport, a declared length above *)
(* the limit, or a status outside 2xx.                                     *)
RequestFails(b) ==
  /\ producer = "request"
  /\ producer' = "done" /\ body' = b /\ end' = "error"
  /\ UNCHANGED <<provider, framing, ctx, server, counts, record, line, result,
                 decoderVars, item, pipe, produced, seen, received>>

-----------------------------------------------------------------------------
(* The server (external)                                                   *)

NoneIsOpen == \A i \in Indexes : server.calls[i].phase # "open"
Started    == {i \in Indexes : server.calls[i].phase # "none"}
IsNext(i)  == i \notin Started /\ \A j \in 1 .. i - 1 : j \in Started

SendsClaude(e) ==
  \/ /\ e.type = "open" /\ IsNext(e.index)
     /\ server' = [server EXCEPT !.calls[e.index].phase = "open"]
  \/ /\ e.type = "args" /\ server.calls[e.index].phase = "open"
     /\ e.token = Len(server.calls[e.index].args) + 1
     /\ server' = [server EXCEPT !.calls[e.index].args = Append(@, e.token)]
  \/ /\ e.type = "stop" /\ server.calls[e.index].phase = "open"
     /\ server' = [server EXCEPT !.calls[e.index].phase = "done"]

(* A record carries text, calls, both or neither, and may be the last.     *)
SendsOllama(e) ==
  LET n == Cardinality(Started)
      empty == IF e.texts + e.calls = 0 THEN 1 ELSE 0
  IN  /\ e.type = "record"
      /\ n + e.calls <= MaxCalls /\ server.texts + e.texts <= MaxTexts
      /\ server.padding + empty <= MaxPadding
      /\ server' = [server EXCEPT
                      !.calls = [i \in Indexes |-> IF i \in n + 1 .. n + e.calls
                                                   THEN [phase |-> "done", args |-> <<i>>]
                                                   ELSE @[i]],
                      !.texts = @ + e.texts,
                      !.padding = @ + empty,
                      !.over  = e.done]

SendsCodex(e) ==
  /\ e.type = "call" /\ IsNext(e.index)
  /\ server' = [server EXCEPT !.calls[e.index] = [phase |-> "done", args |-> <<e.index>>]]

SendsEvent(e) ==
  \/ /\ e.type = "text" /\ server.texts < MaxTexts
     /\ server' = [server EXCEPT !.texts = @ + 1]
  \/ /\ e.type = "ignored" /\ server.padding < MaxPadding
     /\ server' = [server EXCEPT !.padding = @ + 1]
  \/ /\ e.type \in {"end", "failed", "garbled"}
     /\ e.type = "end" => NoneIsOpen
     /\ server' = [server EXCEPT !.over = TRUE]
  \/ SendsClaude(e) \/ SendsOllama(e) \/ SendsCodex(e)

(* The blank line that ends an SSE event.                                  *)
OwesBlank == provider # "ollama" /\ line.len = 0 /\ line.above.type \notin {"none", "ignored"}

ServerSends(byte) ==
  \/ /\ byte = Newline
     /\ line.event # NoEvent \/ OwesBlank
     /\ UNCHANGED server
  \/ /\ ~server.over /\ line.event = NoEvent /\ ~OwesBlank
     /\ \/ /\ byte = Part /\ server.padding < MaxPadding
           /\ server' = [server EXCEPT !.padding = @ + 1]
        \/ byte \in Events(provider) /\ SendsEvent(byte)

-----------------------------------------------------------------------------
(* The goroutine, on a line.  r says whether anything follows it.          *)

Continues(r)  == producer' = (IF r = "none" THEN "scan" ELSE "ended") /\ UNCHANGED item
StartsSending(i) == producer' = "send" /\ item' = i

(* Mutant *)
WithFragmentEverywhere(e) ==
  [i \in Indexes |-> IF calls[i].known THEN [calls[i] EXCEPT !.args = Append(@, e.token)]
                     ELSE calls[i]]

(* A fragment of the arguments of a call, which no other call is given.    *)
WithFragment(e) ==
  [calls EXCEPT ![e.index].args = IF calls[e.index].known THEN Append(@, e.token) ELSE @]

(* Claude: the fragments of a call are put together and the call sent when *)
(* its block stops, unless they are no JSON text, as none at all are not.  *)
HandleClaude(e, r) ==
  \/ /\ e.type = "open"
     /\ calls' = [calls EXCEPT ![e.index] = [known |-> TRUE, args |-> <<>>]]
     /\ Continues(r) /\ UNCHANGED <<data, complete>>
  \/ /\ e.type = "args"
     /\ calls' = WithFragment(e) /\ Continues(r) /\ UNCHANGED <<data, complete>>
  \/ /\ e.type = "stop"
     /\ IF ~calls[e.index].known THEN Continues(r)
        ELSE IF calls[e.index].args = <<>> THEN StartsSending(Failed("unsupported"))
        ELSE StartsSending(Chunk(<<CallBlock(e.index, calls[e.index].args)>>, FALSE))
     /\ calls' = [calls EXCEPT ![e.index] = NoCall] /\ UNCHANGED <<data, complete>>
  \/ /\ e.type = "text"
     /\ StartsSending(Chunk(<<TextBlock(0)>>, FALSE)) /\ UNCHANGED decoderVars
  \/ /\ e.type = "end" /\ complete' = TRUE
     /\ StartsSending(Chunk(<<>>, TRUE)) /\ UNCHANGED <<data, calls>>
  \/ e.type = "garbled" /\ StartsSending(Failed("decode")) /\ UNCHANGED decoderVars
  \/ e.type \in {"none", "ignored"} /\ Continues(r) /\ UNCHANGED decoderVars

(* Ollama: every line is a message, a blank one is none.  Calls are        *)
(* numbered within their record.                                           *)
FromResponse(e) ==
  LET n == Cardinality(Started)
  IN  Chunk((IF e.texts = 1 THEN <<TextBlock(1)>> ELSE <<>>)
              \o [k \in 1 .. e.calls |-> CallBlock(1 + k, <<n - e.calls + k>>)], e.done)

HandleOllama(e, r) ==
  \/ /\ e.type = "record"
     /\ StartsSending(FromResponse(e)) /\ complete' = e.done /\ UNCHANGED <<data, calls>>
  \/ /\ e.type # "record"
     /\ StartsSending(Failed("decode")) /\ UNCHANGED decoderVars

(* Codex: a blank line dispatches the data of the lines before it.         *)
DispatchCodex(e, r) ==
  \/ /\ e.type = "text"
     /\ StartsSending(Chunk(<<TextBlock(0)>>, FALSE)) /\ UNCHANGED <<calls, complete>>
  \/ /\ e.type = "call"
     /\ StartsSending(Chunk(<<CallBlock(e.index + 2, <<e.index>>)>>, FALSE))
     /\ UNCHANGED <<calls, complete>>
  \/ /\ e.type = "end" /\ complete' = TRUE
     /\ StartsSending(Chunk(<<>>, TRUE)) /\ UNCHANGED calls
  \/ /\ e.type \in {"failed", "garbled"}
     /\ StartsSending(Failed(e.type)) /\ UNCHANGED <<calls, complete>>
  \/ e.type = "none" /\ Continues(r) /\ UNCHANGED <<calls, complete>>

HandleCodex(e, r) ==
  IF ctx # "live" THEN StartsSending(Failed(ctx)) /\ UNCHANGED decoderVars
  ELSE IF e = NoEvent THEN data' = NoEvent /\ DispatchCodex(data, r)
  ELSE /\ Continues(r) /\ UNCHANGED <<calls, complete>>
       /\ data' = IF e.type = "ignored" THEN data
                  ELSE IF data = NoEvent THEN e ELSE [type |-> "garbled"]

Handle(e, r) ==
  \/ provider = "claude" /\ HandleClaude(e, r)
  \/ provider = "ollama" /\ HandleOllama(e, r)
  \/ provider = "codex" /\ HandleCodex(e, r)

-----------------------------------------------------------------------------
(* The scanner *)

NewLine(above) == [len |-> 0, event |-> NoEvent, above |-> above]

(* Whether the bytes end a record of the protocol, in their own words.     *)
EndsRecord(bytes) ==
  LET n == Len(bytes)
  IN  /\ n > 0 /\ bytes[n] = Newline
      /\ provider # "ollama" => n > 1 /\ bytes[n - 1] = Newline

(* A byte that the limits let through ends a line, makes it longer, or     *)
(* makes it longer than the scanner can hold, and then the line is lost.   *)
ReadsByte(byte) ==
  /\ producer = "scan" /\ ServerSends(byte)
  /\ Exceeded(counts, framing) = "none"
  /\ counts' = Counted(counts, byte = Newline, framing)
  /\ record' = LET bytes == Append(record, byte) IN IF EndsRecord(bytes) THEN <<>> ELSE bytes
  /\ IF byte = Newline
     THEN Handle(line.event, "none") /\ line' = NewLine(line.event) /\ UNCHANGED result
     ELSE /\ line' = [line EXCEPT !.len = @ + 1, !.event = IF byte = Part THEN @ ELSE byte]
          /\ IF line'.len >= MaxLineBytes
             THEN result' = "long" /\ Continues("long")
             ELSE UNCHANGED result /\ Continues("none")
          /\ UNCHANGED decoderVars
  /\ UNCHANGED <<provider, framing, ctx, body, pipe, produced, callerVars>>

(* What a line is that ends with the body: what it says, if it was whole.  *)
Leftover ==
  IF line.event # NoEvent THEN {line.event}
  ELSE [type : IF provider = "ollama" THEN {"garbled"} ELSE {"garbled", "ignored"}]

(* The scanner hands over what it has of a line before it reports the end. *)
ScanEnds(r) ==
  /\ result' = r /\ line' = NewLine(NoEvent)
  /\ IF line.len = 0 THEN Continues(r) /\ UNCHANGED decoderVars
     ELSE \E e \in Leftover : Handle(e, r)
  /\ UNCHANGED <<provider, framing, ctx, body, counts, record, pipe, produced, callerVars>>

ReadEnds(r) == producer = "scan" /\ ScanEnds(r) /\ UNCHANGED server

Refuses(byte) ==
  /\ producer = "scan" /\ ServerSends(byte)
  /\ Exceeded(counts, framing) # "none"
  /\ ScanEnds("limit")

-----------------------------------------------------------------------------
(* The goroutine, after a line                                             *)

AfterSend ==
  IF item.type = "error" \/ pipe.recvClosed \/ (complete /\ provider # "codex") THEN "exit"
  ELSE IF result = "none" THEN "scan" ELSE "ended"

(* Mutant *)
SendsOnlyWithRoom ==
  /\ producer = "send"
  /\ CanSend(pipe, IF provider = "codex" THEN CodexCap ELSE 1)
  /\ pipe' = IF pipe.recvClosed THEN pipe ELSE Sent(pipe, item)
  /\ produced' = IF item.type = "message" /\ ~pipe.recvClosed THEN produced + 1 ELSE produced
  /\ producer' = AfterSend /\ item' = EOFItem
  /\ UNCHANGED <<provider, framing, ctx, server, bodyVars, decoderVars, callerVars>>

(* Send waits for room, or for the reader to be closed.                    *)
Sends ==
  /\ producer = "send"
  /\ pipe.recvClosed \/ CanSend(pipe, IF provider = "codex" THEN CodexCap ELSE 1)
  /\ pipe' = IF pipe.recvClosed THEN pipe ELSE Sent(pipe, item)
  /\ produced' = IF item.type = "message" /\ ~pipe.recvClosed THEN produced + 1 ELSE produced
  /\ producer' = AfterSend /\ item' = EOFItem
  /\ UNCHANGED <<provider, framing, ctx, server, bodyVars, decoderVars, callerVars>>

(* Mutant *)
ConcludesByTheScanner ==
  /\ producer = "ended"
  /\ IF data # NoEvent THEN data' = NoEvent /\ DispatchCodex(data, result)
     ELSE /\ IF result # "EOF" THEN StartsSending(Failed("limit"))
             ELSE producer' = "exit" /\ UNCHANGED item
          /\ UNCHANGED decoderVars
  /\ UNCHANGED <<provider, framing, ctx, server, bodyVars, pipe, produced, callerVars>>

(* The event that the body's end cut short of its blank line is dispatched *)
(* (Codex); then any error of the scanner is reported as a limit.          *)
Concludes ==
  /\ producer = "ended"
  /\ IF data # NoEvent THEN data' = NoEvent /\ DispatchCodex(data, result)
     ELSE /\ IF result # "EOF" THEN StartsSending(Failed("limit"))
             ELSE IF ~complete THEN StartsSending(Failed("truncated"))
             ELSE producer' = "exit" /\ UNCHANGED item
          /\ UNCHANGED decoderVars
  /\ UNCHANGED <<provider, framing, ctx, server, bodyVars, pipe, produced, callerVars>>

(* Mutant *)
ClosesNoWriter ==
  /\ producer = "exit" /\ producer' = "close"
  /\ UNCHANGED <<provider, framing, ctx, server, bodyVars, decoderVars, item, pipe, produced,
                 callerVars>>

(* The deferred calls: the writer is closed before the body.               *)
ClosesWriter ==
  /\ producer = "exit"
  /\ producer' = "close" /\ pipe' = [pipe EXCEPT !.sendClosed = TRUE]
  /\ UNCHANGED <<provider, framing, ctx, server, bodyVars, decoderVars, item, produced,
                 callerVars>>

ClosesBody ==
  /\ producer = "close"
  /\ producer' = "done" /\ body' = "closed"
  /\ UNCHANGED <<provider, framing, ctx, server, counts, record, line, result, decoderVars,
                 item, pipe, produced, callerVars>>

Produces == Sends \/ Concludes \/ ClosesWriter \/ ClosesBody

-----------------------------------------------------------------------------
(* The bounded model and the caller, who stops at the first error.         *)

Cancel ==
  /\ ctx = "live" /\ ctx' = "canceled"
  /\ UNCHANGED <<provider, framing, server, bodyVars, decoderVars, producerVars, pipe,
                 produced, callerVars>>

BlocksOf(i) == {i.blocks[k] : k \in DOMAIN i.blocks}

(* Blocks are counted once per index, whatever message they come in.       *)
CallerReceives ==
  /\ producer # "request" /\ end = "open" /\ CanRecv(pipe)
  /\ pipe' = Received(pipe)
  /\ LET i == NextItem(pipe)
         now == IF i.type = "message" THEN seen \cup {b.index : b \in BlocksOf(i)} ELSE seen
     IN  /\ seen' = now
         /\ IF i.type = "EOF" THEN end' = "EOF" /\ UNCHANGED received
            ELSE IF i.type = "error" \/ Cardinality(now) > MaxBlocks
            THEN end' = "error" /\ received' = <<>>
            ELSE received' = Append(received, i) /\ UNCHANGED end
  /\ UNCHANGED <<provider, framing, ctx, server, bodyVars, decoderVars, producerVars,
                 produced>>

(* StreamReader.Close, early or after the end.                             *)
CallerCloses ==
  /\ producer # "request" /\ ~pipe.recvClosed
  /\ pipe' = [pipe EXCEPT !.recvClosed = TRUE]
  /\ IF end = "open" THEN end' = "closed" /\ received' = <<>> ELSE UNCHANGED <<end, received>>
  /\ UNCHANGED <<provider, framing, ctx, server, bodyVars, decoderVars, producerVars, seen,
                 produced>>

-----------------------------------------------------------------------------
Bytes == Events(provider) \cup {Newline, Part}

Next ==
  \/ RequestSucceeds \/ \E b \in {"none", "closed"} : RequestFails(b)
  \/ \E byte \in Bytes : ReadsByte(byte) \/ Refuses(byte)
  \/ \E r \in {"EOF", "failed"} : ReadEnds(r)
  \/ Produces \/ Cancel \/ CallerReceives \/ CallerCloses

Spec == Init /\ [][Next]_vars

(* The goroutine is scheduled.  A request, and a read of its body, returns *)
(* once the context has ended; the server and the caller owe nothing.      *)
Fairness ==
  /\ WF_vars(Produces)
  /\ WF_vars(ctx # "live" /\ (RequestFails("none") \/ ReadEnds("failed")))

FairSpec == Spec /\ Fairness

-----------------------------------------------------------------------------
Records == framing # "none"

(* No record of more than MaxEventBytes bytes, of a response that has      *)
(* records, and no more than MaxResponseBytes bytes reach the decoder, in  *)
(* whatever pieces they come; only the byte that would be one too many is  *)
(* refused; and the caller gets no more than MaxBlocks blocks              *)
(* (agenticEventLimitedBody, agenticLimitedBody,                           *)
(* validateStreamAgenticContentBlocks).                                    *)
LimitsAreExact ==
  /\ Records => Len(record) <= MaxEventBytes
  /\ counts.read <= MaxResponseBytes
  /\ result = "limit" =>
       counts.read = MaxResponseBytes \/ (Records /\ Len(record) = MaxEventBytes)
  /\ Cardinality({b.index : b \in UNION {BlocksOf(received[k]) : k \in DOMAIN received}})
       <= MaxBlocks

(* The call of a block index, as eino concatenates the chunks of it.       *)
ArgsAt(index) ==
  LET Join[k \in 0 .. Len(received)] ==
        IF k = 0 THEN <<>>
        ELSE LET bs == {b \in BlocksOf(received[k]) : b.call /\ b.index = index}
             IN  IF bs = {} THEN Join[k - 1] ELSE Join[k - 1] \o (CHOOSE b \in bs : TRUE).args
  IN  Join[Len(received)]

FirstIndex == CASE provider = "claude" -> 0 [] provider = "ollama" -> 1 [] OTHER -> 2

(* A caller that has got the whole answer of Claude or Codex has every     *)
(* call of it, whole, under an index of its own, also when the fragments   *)
(* of several calls came by turns.  Of Ollama it has not: the calls of     *)
(* different records share indexes and ids (fromResponse).                 *)
ToolCallsAreWhole ==
  end = "EOF" /\ provider # "ollama" =>
    /\ {b.index : b \in {c \in UNION {BlocksOf(received[k]) : k \in DOMAIN received} : c.call}}
         = {FirstIndex + i : i \in Started}
    /\ \A i \in Started : ArgsAt(FirstIndex + i) = server.calls[i].args

(* EOF means that the answer was complete and that the caller has all of   *)
(* it: a body that was cut off, refused, garbled or cancelled never looks  *)
(* like an answer.                                                         *)
EOFIsAnAnswer ==
  end = "EOF" =>
    /\ server.over /\ complete /\ NoneIsOpen
    /\ Len(received) = produced /\ received # <<>> /\ received[Len(received)].last
    /\ Cardinality({k \in DOMAIN received : \E b \in BlocksOf(received[k]) : ~b.call})
         = server.texts

(* A stream whose context has ended and whose reader was closed ends, and  *)
(* leaves no body open.                                                    *)
AbandonedStreamEnds ==
  ctx # "live" /\ pipe.recvClosed ~> producer = "done" /\ body # "open"

(* A caller that keeps receiving learns of the end of a stream that ended, *)
(* failed, exceeded a limit or was cancelled.                              *)
CallerIsAnswered ==
  WF_vars(CallerReceives) => (ctx # "live" \/ result # "none" ~> end # "open")
=============================================================================
