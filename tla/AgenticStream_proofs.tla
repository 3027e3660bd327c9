------------------------- MODULE AgenticStream_proofs -------------------------
(***************************************************************************)
(* Proofs about AgenticStream: that the limits around the response body    *)
(* and in front of the caller are exact, that EOF means an answer, and     *)
(* that calls arrive whole, for each of the three providers, and for every *)
(* limit, capacity and bound.                                              *)
(*                                                                         *)
(* The limits need an inductive invariant that relates the counts of the   *)
(* limited bodies to the bytes that went through.  EOF needs another, on   *)
(* top of it: wherever the decoder, its pipe and the caller are, the texts *)
(* that the server has sent are all on their way, in the line, the data,   *)
(* the item and the messages, unless an error is on its way too.  That     *)
(* calls arrive whole needs a third, which says the same of every call's   *)
(* announcement and argument fragments, and that the decoder knows a call  *)
(* exactly when it has been told of it.                                    *)
(***************************************************************************)
EXTENDS AgenticStream, Pipe_proofs, FiniteSetTheorems

(* The types of the variables.  A block has an index among these, whatever *)
(* the provider makes of its calls.                                        *)
BlockIndexes == 0 .. MaxCalls + 2
Blocks == [index : BlockIndexes, call : BOOLEAN, args : Seq(Int)]
Messages == [type : {"message"}, blocks : Seq(Blocks), last : BOOLEAN]
Errors == {"unsupported", "decode", "failed", "garbled", "limit", "truncated", "canceled"}
Failures == [type : {"error"}, id : {0}, keep : BOOLEAN, err : Errors]
Items == Messages \cup Failures \cup {EOFItem}

LineEvents == Events(provider) \cup {NoEvent}
Lines == [len : Nat, event : LineEvents, above : LineEvents]
Results == {"none", "EOF", "failed", "limit", "long"}

BodyTyped ==
  /\ provider \in {"claude", "ollama", "codex"} /\ framing \in Framings
  /\ ctx \in {"live", "canceled"}
  /\ counts \in [read : Nat, event : Nat, lineEmpty : BOOLEAN]
  /\ record \in Seq(Bytes) /\ line \in Lines /\ result \in Results

DecoderTyped ==
  /\ data \in Events("codex") \cup {NoEvent} /\ complete \in BOOLEAN
  /\ calls \in [Indexes -> [known : BOOLEAN, args : Seq(Int)]]

StreamTyped ==
  /\ producer \in {"request", "scan", "send", "ended", "exit", "close", "done"}
  /\ item \in Items /\ pipe \in Pipes(Items) /\ produced \in Nat
  /\ seen \in SUBSET BlockIndexes /\ received \in Seq(Messages)
  /\ end \in {"open", "EOF", "error", "closed"}

(* The counts of the limited bodies are about the bytes that were let      *)
(* through.  An SSE record ends at an empty line, which the body knows by  *)
(* whether the byte before was a newline.                                  *)
BytesAreCounted ==
  /\ framing = "sse" => provider # "ollama"
  /\ framing = "ndjson" => provider = "ollama"
  /\ producer = "request" => framing = "none" /\ counts = NewCounts /\ record = <<>>
  /\ counts.read <= MaxResponseBytes
  /\ framing # "none" => counts.event = Len(record) /\ counts.event <= MaxEventBytes
  /\ framing = "sse" =>
       (counts.lineEmpty <=> record # <<>> /\ record[Len(record)] = Newline)
  /\ framing # "sse" => ~counts.lineEmpty

(* Nothing is read after the scanner has ended, so that what refused a     *)
(* byte keeps refusing it.                                                 *)
EndIsFinal ==
  /\ producer \in {"request", "scan"} => result = "none"
  /\ producer = "ended" => result # "none"
  /\ result = "limit" => Exceeded(counts, framing) # "none"

(* Only Codex keeps data, and only Codex scans on after the answer.        *)
DecoderStops ==
  provider # "codex" =>
    data = NoEvent /\ (complete => producer \notin {"request", "scan", "ended"})

(* The caller has blocks of indexes that were counted only.                *)
BlocksAreCounted ==
  /\ \A k \in 1 .. Len(received) :
       \A j \in 1 .. Len(received[k].blocks) : received[k].blocks[j].index \in seen
  /\ received # <<>> => Cardinality(seen) <= MaxBlocks

Inv ==
  /\ BodyTyped /\ DecoderTyped /\ StreamTyped
  /\ BytesAreCounted /\ EndIsFinal /\ DecoderStops /\ BlocksAreCounted

-----------------------------------------------------------------------------
(* What the lines and the items are *)

(* What the events of Claude consist of.                                   *)
LEMMA ClaudeEvents ==
  ASSUME NEW e \in Events("claude")
  PROVE  /\ e.type \in {"text", "end", "ignored", "garbled", "open", "stop", "args"}
         /\ e.type \in {"open", "stop", "args"} => e.index \in Indexes
         /\ e.type = "args" => e.token \in Int
<1>1. CASE e \in [type : {"text", "end", "ignored", "garbled"}]
  BY <1>1
<1>2. CASE e \in [type : {"open", "stop"}, index : Indexes]
  BY <1>2
<1>3. CASE e \in [type : {"args"}, index : Indexes, token : 1 .. MaxTokens]
  BY <1>3
<1> QED
  BY <1>1, <1>2, <1>3 DEF Events

(* What the records of Ollama consist of.                                  *)
LEMMA OllamaEvents ==
  ASSUME NEW e \in Events("ollama")
  PROVE  /\ e.type \in {"record", "garbled"}
         /\ e.type = "record" =>
              e.texts \in 0 .. 1 /\ e.calls \in 0 .. MaxCalls /\ e.done \in BOOLEAN
<1>1. CASE e \in [type : {"record"}, texts : 0 .. 1, calls : 0 .. MaxCalls, done : BOOLEAN]
  BY <1>1
<1>2. CASE e \in [type : {"garbled"}]
  BY <1>2
<1> QED
  BY <1>1, <1>2 DEF Events

(* What the events of Codex consist of.                                    *)
LEMMA CodexEvents ==
  ASSUME NEW e \in Events("codex")
  PROVE  /\ e.type \in {"text", "end", "failed", "ignored", "garbled", "call"}
         /\ e.type = "call" => e.index \in Indexes
<1>1. CASE e \in [type : {"text", "end", "failed", "ignored", "garbled"}]
  BY <1>1
<1>2. CASE e \in [type : {"call"}, index : Indexes]
  BY <1>2
<1> QED
  BY <1>1, <1>2 DEF Events

(* An ignored line and a garbled one are lines of the protocol.            *)
LEMMA LeftoverIsAnEvent ==
  ASSUME BodyTyped, NEW e \in Leftover
  PROVE  e \in LineEvents
<1>1. CASE line.event # NoEvent
  BY <1>1 DEF Leftover, BodyTyped, Lines
<1>2. CASE line.event = NoEvent
  <2>1. CASE provider = "ollama"
    BY <1>2, <2>1 DEF Leftover, LineEvents, Events
  <2>2. CASE provider = "claude"
    BY <1>2, <2>2 DEF Leftover, LineEvents, Events
  <2>3. CASE provider = "codex"
    BY <1>2, <2>3 DEF Leftover, LineEvents, Events
  <2> QED
    BY <2>1, <2>2, <2>3 DEF BodyTyped
<1> QED
  BY <1>1, <1>2

(* Errors and messages are items.                                          *)
LEMMA FailedIsAnItem ==
  ASSUME NEW err \in Errors
  PROVE  Failed(err) \in Items /\ Failed(err).type = "error"
BY DEF Failed, Items, Failures

(* So is a message of blocks.                                              *)
LEMMA ChunkIsAnItem ==
  ASSUME NEW blocks \in Seq(Blocks), NEW last \in BOOLEAN
  PROVE  /\ Chunk(blocks, last) \in Items /\ Chunk(blocks, last).type = "message"
         /\ Chunk(blocks, last).blocks = blocks /\ Chunk(blocks, last).last = last
BY DEF Chunk, Items, Messages

(* An item is of one of three kinds.                                       *)
LEMMA KindsOfItem ==
  ASSUME NEW i \in Items
  PROVE  /\ i.type \in {"message", "error", "EOF"}
         /\ i.type = "message" => i \in Messages
BY DEF Items, Messages, Failures, EOFItem

(* The blocks of text have indexes, and of calls as well.                  *)
LEMMA BlockTypes ==
  /\ \A index \in BlockIndexes : TextBlock(index) \in Blocks
  /\ \A index \in BlockIndexes, args \in Seq(Int) : CallBlock(index, args) \in Blocks
  /\ 0 \in BlockIndexes /\ 1 \in BlockIndexes
  /\ \A i \in Indexes : i \in BlockIndexes /\ i + 1 \in BlockIndexes /\ i + 2 \in BlockIndexes
  /\ \A i \in Int : <<i>> \in Seq(Int)
<1>1. MaxCalls \in Nat
  BY AgenticStreamAssumption
<1>2. \A index \in BlockIndexes : TextBlock(index) \in Blocks
  BY DEF TextBlock, Blocks
<1>3. \A index \in BlockIndexes, args \in Seq(Int) : CallBlock(index, args) \in Blocks
  BY DEF CallBlock, Blocks
<1>4. /\ 0 \in BlockIndexes /\ 1 \in BlockIndexes
      /\ \A i \in Indexes : i \in BlockIndexes /\ i + 1 \in BlockIndexes /\ i + 2 \in BlockIndexes
  BY <1>1 DEF BlockIndexes, Indexes
<1> QED
  BY <1>2, <1>3, <1>4

(* A message that Ollama's record becomes.                                 *)
LEMMA ResponseIsAnItem ==
  ASSUME NEW e \in Events("ollama"), e.type = "record"
  PROVE  /\ FromResponse(e) \in Items /\ FromResponse(e).type = "message"
         /\ FromResponse(e).last = e.done
         /\ (\E b \in BlocksOf(FromResponse(e)) : ~b.call) <=> e.texts = 1
<1> DEFINE n == Cardinality(Started)
           t == IF e.texts = 1 THEN <<TextBlock(1)>> ELSE <<>>
           c == [k \in 1 .. e.calls |-> CallBlock(1 + k, <<n - e.calls + k>>)]
<1>1. e.calls \in 0 .. MaxCalls /\ e.done \in BOOLEAN /\ MaxCalls \in Nat
  BY OllamaEvents, AgenticStreamAssumption
<1>2. n \in Int
  <2>1. Started \in SUBSET Indexes /\ IsFiniteSet(Indexes)
    BY <1>1, FS_Interval DEF Started, Indexes
  <2> QED
    BY <2>1, FS_Subset, FS_CardinalityType
<1>3. t \in Seq(Blocks)
  <2>1. TextBlock(1) \in Blocks
    BY BlockTypes
  <2> QED
    BY <2>1
<1>4. c \in Seq(Blocks) /\ Len(c) = e.calls /\ \A k \in 1 .. e.calls : c[k].call
  <2>1. ASSUME NEW k \in 1 .. e.calls
        PROVE  c[k] \in Blocks /\ c[k].call
    <3>1. k \in Indexes /\ <<n - e.calls + k>> \in Seq(Int)
      BY <1>1, <1>2 DEF Indexes
    <3>2. 1 + k \in BlockIndexes
      BY <1>1, AgenticStreamAssumption DEF BlockIndexes
    <3>3. c[k] = CallBlock(1 + k, <<n - e.calls + k>>)
      OBVIOUS
    <3> QED
      BY <3>1, <3>2, <3>3, BlockTypes DEF CallBlock
  <2>2. e.calls \in Nat
    BY <1>1
  <2>3. DOMAIN c = 1 .. e.calls
    OBVIOUS
  <2> HIDE DEF c
  <2>4. c \in [1 .. e.calls -> Blocks]
    <3>1. c = [k \in 1 .. e.calls |-> c[k]]
      BY DEF c
    <3> QED
      BY <2>1, <3>1
  <2> QED
    BY <2>1, <2>2, <2>4
<1>5. FromResponse(e) = Chunk(t \o c, e.done)
  BY DEF FromResponse
<1> HIDE DEF c, n, t
<1>6. t \o c \in Seq(Blocks)
  BY <1>3, <1>4, ConcatProperties
<1>7. /\ FromResponse(e) \in Items /\ FromResponse(e).type = "message"
      /\ FromResponse(e).last = e.done /\ FromResponse(e).blocks = t \o c
  <2>1. e.done \in BOOLEAN
    BY <1>1
  <2>2. LET i == Chunk(t \o c, e.done)
        IN  i \in Items /\ i.type = "message" /\ i.blocks = t \o c /\ i.last = e.done
    BY <1>6, <2>1, ChunkIsAnItem
  <2> QED
    BY <1>5, <2>2
<1>8. (\E b \in BlocksOf(FromResponse(e)) : ~b.call) <=> e.texts = 1
  <2>1. BlocksOf(FromResponse(e)) = {(t \o c)[k] : k \in 1 .. Len(t \o c)}
    <3>1. DOMAIN (t \o c) = 1 .. Len(t \o c)
      BY <1>6, LenProperties
    <3> QED
      BY <1>7, <3>1 DEF BlocksOf
  <2>2. CASE e.texts = 1
    <3>1. Len(t) = 1 /\ t[1] = TextBlock(1)
      BY <2>2 DEF t
    <3>2. Len(t \o c) >= 1 /\ (t \o c)[1] = TextBlock(1)
      <4>1. Len(c) \in Nat
        BY <1>4, LenProperties
      <4>2. /\ Len(t \o c) = Len(t) + Len(c)
            /\ \A i \in 1 .. Len(t) + Len(c) :
                 (t \o c)[i] = IF i <= Len(t) THEN t[i] ELSE c[i - Len(t)]
        BY <1>3, <1>4, ConcatProperties
      <4> QED
        BY <3>1, <4>1, <4>2
    <3>3. 1 \in 1 .. Len(t \o c)
      BY <1>6, <3>2, LenProperties
    <3>4. ~TextBlock(1).call
      BY DEF TextBlock
    <3> QED
      BY <2>1, <2>2, <3>2, <3>3, <3>4
  <2>3. CASE e.texts # 1
    <3>1. t \o c = c
      BY <1>4, <2>3, ConcatEmptySeq DEF t
    <3>2. \A k \in 1 .. Len(t \o c) : (t \o c)[k].call
      BY <1>4, <3>1
    <3> QED
      BY <2>1, <2>3, <3>2
  <2> QED
    BY <2>2, <2>3
<1> QED
  BY <1>7, <1>8

-----------------------------------------------------------------------------
(* What becomes of a line *)

(* What an answer is made of: the text an event brings, whether it is the  *)
(* last, and the messages with text among some items.                      *)
Text(e) == IF e.type = "text" \/ (e.type = "record" /\ e.texts = 1) THEN 1 ELSE 0
Ends(e) == e.type = "end" \/ (e.type = "record" /\ e.done)
HasText(i) == i.type = "message" /\ \E b \in BlocksOf(i) : ~b.call
Texts(items) == Cardinality({k \in DOMAIN items : HasText(items[k])})
One(i) == IF HasText(i) THEN 1 ELSE 0

(* A line, or the data of several, comes to an error, to a message, or to  *)
(* nothing that is sent.  No text is lost but for an error.                *)
Outcome(e) ==
  \/ producer' = "send" /\ item'.type = "error" /\ complete' = complete
  \/ /\ producer' = "send" /\ item'.type = "message"
     /\ One(item') + Text(data') = Text(data) + Text(e)
     /\ \/ complete' = complete
        \/ complete' /\ item'.last /\ (Ends(e) \/ Ends(data)) /\ data' = NoEvent
  \/ /\ producer' # "send" /\ complete' = complete
     /\ data'.type = "garbled" \/ Text(data') = Text(data) + Text(e)

(* What every step of the decoder keeps to, when r says whether anything   *)
(* follows.                                                                *)
Decodes(e, r) ==
  /\ DecoderTyped' /\ item' \in Items
  /\ producer' \in {"scan", "send", "ended"}
  /\ (producer' = "scan" => r = "none") /\ (producer' = "ended" => r # "none")
  /\ producer' # "send" => item' = item
  /\ Outcome(e)
  /\ provider # "codex" => data' = data
  /\ provider = "codex" /\ complete' # complete => e = NoEvent
  /\ Ends(data') => Ends(data) \/ Ends(e)
  /\ data.type \in {"garbled", "failed"} =>
       data'.type \in {"garbled", "failed"} \/ (producer' = "send" /\ item'.type = "error")

(* What a handler that sends an item, or that goes on, does.               *)
LEMMA SendingAnError ==
  ASSUME NEW err \in Errors, StartsSending(Failed(err))
  PROVE  producer' = "send" /\ item' \in Items /\ item'.type = "error"
BY FailedIsAnItem DEF StartsSending

(* A message of one block has text if the block is text.                   *)
LEMMA SendingABlock ==
  ASSUME NEW block \in Blocks, NEW last \in BOOLEAN,
         StartsSending(Chunk(<<block>>, last))
  PROVE  /\ producer' = "send" /\ item' \in Items /\ item'.type = "message"
         /\ item'.last = last /\ (HasText(item') <=> ~block.call)
<1>1. <<block>> \in Seq(Blocks)
  OBVIOUS
<1>2. /\ producer' = "send" /\ item' \in Items /\ item'.type = "message"
      /\ item'.last = last /\ item'.blocks = <<block>>
  BY <1>1, ChunkIsAnItem DEF StartsSending
<1>3. BlocksOf(item') = {block}
  BY <1>2 DEF BlocksOf
<1> QED
  BY <1>2, <1>3 DEF HasText

(* The last message of Claude and Codex has no blocks.                     *)
LEMMA SendingTheLast ==
  ASSUME StartsSending(Chunk(<<>>, TRUE))
  PROVE  /\ producer' = "send" /\ item' \in Items /\ item'.type = "message"
         /\ item'.last /\ ~HasText(item')
<1>1. <<>> \in Seq(Blocks)
  OBVIOUS
<1>2. /\ producer' = "send" /\ item' \in Items /\ item'.type = "message"
      /\ item'.last = TRUE /\ item'.blocks = <<>>
  BY <1>1, ChunkIsAnItem DEF StartsSending
<1>3. BlocksOf(item') = {}
  BY <1>2 DEF BlocksOf
<1> QED
  BY <1>2, <1>3 DEF HasText

(* Going on sends nothing.                                                 *)
LEMMA Continuing ==
  ASSUME NEW r, Continues(r)
  PROVE  /\ producer' \in {"scan", "ended"} /\ producer' # "send" /\ item' = item
         /\ producer' = "scan" => r = "none"
         /\ producer' = "ended" => r # "none"
BY DEF Continues

(* The texts and the ends among the events of each kind.                   *)
LEMMA KindsOfEvent ==
  /\ Text(NoEvent) = 0 /\ ~Ends(NoEvent) /\ NoEvent.type = "none"
  /\ \A e : e.type = "text" => Text(e) = 1 /\ ~Ends(e)
  /\ \A e : e.type = "end" => Text(e) = 0 /\ Ends(e)
  /\ \A e : e.type \notin {"text", "end", "record"} => Text(e) = 0 /\ ~Ends(e)
  /\ \A e : e.type = "record" => (Ends(e) <=> e.done)
BY DEF Text, Ends, NoEvent

(* What Claude's goroutine does about a line.                              *)
LEMMA HandleClaudeDecodes ==
  ASSUME DecoderTyped, item \in Items, provider = "claude", data = NoEvent,
         NEW e \in Events("claude") \cup {NoEvent}, NEW r, HandleClaude(e, r)
  PROVE  Decodes(e, r)
<1> USE DEF Decodes
<1>0. /\ e.type \in {"text", "end", "ignored", "garbled", "open", "stop", "args", "none"}
      /\ e.type \in {"open", "stop", "args"} => e.index \in Indexes
      /\ e.type = "args" => e.token \in Int
  BY ClaudeEvents DEF NoEvent
<1>1. calls \in [Indexes -> [known : BOOLEAN, args : Seq(Int)]]
  BY DEF DecoderTyped
<1>2. ASSUME UNCHANGED <<data, complete>>
      PROVE  /\ calls' \in [Indexes -> [known : BOOLEAN, args : Seq(Int)]] => DecoderTyped'
             /\ Ends(data') => Ends(data)
             /\ data.type \in {"garbled", "failed"} => data'.type \in {"garbled", "failed"}
  BY <1>2 DEF DecoderTyped
<1>3. CASE /\ e.type = "open"
           /\ calls' = [calls EXCEPT ![e.index] = [known |-> TRUE, args |-> <<>>]]
           /\ Continues(r) /\ UNCHANGED <<data, complete>>
  <2>1. calls' \in [Indexes -> [known : BOOLEAN, args : Seq(Int)]]
    <3>1. [known |-> TRUE, args |-> <<>>] \in [known : BOOLEAN, args : Seq(Int)]
      OBVIOUS
    <3> QED
      BY <1>0, <1>1, <1>3, <3>1
  <2>2. Text(e) = 0
    BY <1>3, KindsOfEvent
  <2>3. Outcome(e)
    BY <1>3, <2>2, Continuing DEF Outcome, Text
  <2> QED
    BY <1>2, <1>3, <2>1, <2>3, Continuing
<1>4. CASE /\ e.type = "args"
           /\ calls' = WithFragment(e) /\ Continues(r) /\ UNCHANGED <<data, complete>>
  <2>1. calls' \in [Indexes -> [known : BOOLEAN, args : Seq(Int)]]
    <3>1. calls[e.index] \in [known : BOOLEAN, args : Seq(Int)]
      BY <1>0, <1>1, <1>4
    <3>2. Append(calls[e.index].args, e.token) \in Seq(Int)
      BY <1>0, <1>4, <3>1
    <3>3. LET c == [calls[e.index] EXCEPT !.args =
                      IF calls[e.index].known THEN Append(@, e.token) ELSE @]
          IN  c \in [known : BOOLEAN, args : Seq(Int)]
      BY <3>1, <3>2
    <3> QED
      BY <1>0, <1>1, <1>4, <3>3 DEF WithFragment
  <2>2. Text(e) = 0
    BY <1>4, KindsOfEvent
  <2>3. Outcome(e)
    BY <1>4, <2>2, Continuing DEF Outcome, Text
  <2> QED
    BY <1>2, <1>4, <2>1, <2>3, Continuing
<1>5. CASE /\ e.type = "stop"
           /\ IF ~calls[e.index].known THEN Continues(r)
              ELSE IF calls[e.index].args = <<>> THEN StartsSending(Failed("unsupported"))
              ELSE StartsSending(Chunk(<<CallBlock(e.index, calls[e.index].args)>>, FALSE))
           /\ calls' = [calls EXCEPT ![e.index] = NoCall] /\ UNCHANGED <<data, complete>>
  <2>1. calls' \in [Indexes -> [known : BOOLEAN, args : Seq(Int)]]
    <3>1. NoCall \in [known : BOOLEAN, args : Seq(Int)]
      BY DEF NoCall
    <3> QED
      BY <1>0, <1>1, <1>5, <3>1
  <2>2. CallBlock(e.index, calls[e.index].args) \in Blocks
    <3>1. calls[e.index] \in [known : BOOLEAN, args : Seq(Int)]
      BY <1>0, <1>1, <1>5
    <3> QED
      BY <1>0, <1>5, <3>1, BlockTypes
  <2>3. CallBlock(e.index, calls[e.index].args).call
    BY DEF CallBlock
  <2>4. \/ Continues(r) \/ StartsSending(Failed("unsupported"))
        \/ StartsSending(Chunk(<<CallBlock(e.index, calls[e.index].args)>>, FALSE))
    BY <1>5
  <2>5. Text(e) = 0
    BY <1>5, KindsOfEvent
  <2>6. \/ Continues(r)
        \/ producer' = "send" /\ item' \in Items /\ item'.type = "error"
        \/ producer' = "send" /\ item' \in Items /\ item'.type = "message" /\ ~HasText(item')
    BY <2>2, <2>3, <2>4, SendingAnError, SendingABlock DEF Errors
  <2>7. Outcome(e)
    BY <1>5, <2>5, <2>6, Continuing DEF Outcome, One, Text
  <2> QED
    BY <1>2, <1>5, <2>1, <2>6, <2>7, Continuing
<1>6. CASE /\ e.type = "text"
           /\ StartsSending(Chunk(<<TextBlock(0)>>, FALSE)) /\ UNCHANGED decoderVars
  <2>1. TextBlock(0) \in Blocks /\ ~TextBlock(0).call
    BY BlockTypes DEF TextBlock
  <2>2. /\ producer' = "send" /\ item' \in Items /\ item'.type = "message" /\ HasText(item')
    BY <1>6, <2>1, SendingABlock
  <2>3. Outcome(e)
    BY <1>6, <2>2, KindsOfEvent DEF Outcome, One, Text, decoderVars
  <2> QED
    BY <1>1, <1>2, <1>6, <2>2, <2>3 DEF decoderVars
<1>7. CASE /\ e.type = "end" /\ complete' = TRUE
           /\ StartsSending(Chunk(<<>>, TRUE)) /\ UNCHANGED <<data, calls>>
  <2>1. /\ producer' = "send" /\ item' \in Items /\ item'.type = "message"
        /\ item'.last /\ ~HasText(item')
    BY <1>7, SendingTheLast
  <2>2. DecoderTyped'
    BY <1>7 DEF DecoderTyped
  <2>3. Text(e) = 0 /\ Ends(e)
    BY <1>7, KindsOfEvent
  <2>4. Outcome(e)
    BY <1>7, <2>1, <2>3 DEF Outcome, One, Text
  <2> QED
    BY <1>2, <1>7, <2>1, <2>2, <2>4, KindsOfEvent
<1>8. CASE e.type = "garbled" /\ StartsSending(Failed("decode")) /\ UNCHANGED decoderVars
  BY <1>1, <1>2, <1>8, SendingAnError DEF Outcome, Errors, decoderVars
<1>9. CASE e.type \in {"none", "ignored"} /\ Continues(r) /\ UNCHANGED decoderVars
  <2>1. Text(e) = 0
    BY <1>9, KindsOfEvent
  <2> QED
    BY <1>1, <1>2, <1>9, <2>1, Continuing DEF Outcome, Text, decoderVars
<1> QED
  BY <1>3, <1>4, <1>5, <1>6, <1>7, <1>8, <1>9 DEF HandleClaude

(* What Ollama's goroutine does about a line.                              *)
LEMMA HandleOllamaDecodes ==
  ASSUME DecoderTyped, item \in Items, provider = "ollama", data = NoEvent, ~complete,
         NEW e \in Events("ollama") \cup {NoEvent}, NEW r, HandleOllama(e, r)
  PROVE  Decodes(e, r)
<1>1. CASE /\ e.type = "record"
           /\ StartsSending(FromResponse(e)) /\ complete' = e.done /\ UNCHANGED <<data, calls>>
  <2>1. e \in Events("ollama")
    BY <1>1, KindsOfEvent
  <2>2. e.done \in BOOLEAN /\ e.texts \in 0 .. 1
    BY <1>1, <2>1, OllamaEvents
  <2>3. /\ item' = FromResponse(e) /\ item' \in Items /\ item'.type = "message"
        /\ item'.last = e.done /\ (HasText(item') <=> e.texts = 1)
    BY <1>1, <2>1, ResponseIsAnItem DEF StartsSending, HasText
  <2>4. producer' = "send"
    BY <1>1 DEF StartsSending
  <2>5. One(item') = Text(e) /\ Text(data') = 0 /\ Text(data) = 0
    BY <1>1, <2>3, KindsOfEvent DEF One, Text
  <2>6. Ends(e) <=> e.done
    BY <1>1, KindsOfEvent
  <2>7. complete' = complete \/ (complete' /\ item'.last /\ Ends(e) /\ data' = NoEvent)
    BY <1>1, <2>2, <2>3, <2>6 DEF DecoderTyped
  <2>8. One(item') + Text(data') = Text(data) + Text(e)
    BY <2>5 DEF Text
  <2>9. Outcome(e)
    BY <2>3, <2>4, <2>7, <2>8 DEF Outcome
  <2>10. DecoderTyped'
    BY <1>1, <2>2 DEF DecoderTyped
  <2> QED
    BY <1>1, <2>3, <2>4, <2>9, <2>10, KindsOfEvent DEF Decodes
<1>2. CASE e.type # "record" /\ StartsSending(Failed("decode")) /\ UNCHANGED decoderVars
  <2>1. producer' = "send" /\ item' \in Items /\ item'.type = "error"
    BY <1>2, SendingAnError DEF Errors
  <2>2. DecoderTyped' /\ data' = data /\ complete' = complete
    BY <1>2 DEF DecoderTyped, decoderVars
  <2> QED
    BY <2>1, <2>2 DEF Decodes, Outcome
<1> QED
  BY <1>1, <1>2 DEF HandleOllama

(* What dispatching the data of a Codex event comes to.  e is the line     *)
(* that did it, if any, and says nothing.                                  *)
LEMMA DispatchDecodes ==
  ASSUME DecoderTyped, item \in Items, provider = "codex",
         NEW r, data' = NoEvent, DispatchCodex(data, r)
  PROVE  Decodes(NoEvent, r)
<1>0. /\ data.type \in {"text", "end", "failed", "ignored", "garbled", "call", "none"}
      /\ data.type = "call" => data.index \in Indexes
  BY CodexEvents, KindsOfEvent DEF DecoderTyped
<1>1. Text(NoEvent) = 0 /\ ~Ends(NoEvent) /\ NoEvent.type = "none" /\ Text(data') = 0
  BY KindsOfEvent
<1>2. ASSUME UNCHANGED <<calls, complete>>
      PROVE  DecoderTyped'
  BY <1>2 DEF DecoderTyped
<1>3. CASE /\ data.type = "text"
           /\ StartsSending(Chunk(<<TextBlock(0)>>, FALSE)) /\ UNCHANGED <<calls, complete>>
  <2>1. TextBlock(0) \in Blocks /\ ~TextBlock(0).call
    BY BlockTypes DEF TextBlock
  <2>2. /\ producer' = "send" /\ item' \in Items /\ item'.type = "message" /\ HasText(item')
    BY <1>3, <2>1, SendingABlock
  <2>3. Text(data) = 1
    BY <1>3, KindsOfEvent
  <2>4. Outcome(NoEvent)
    BY <1>1, <1>3, <2>2, <2>3 DEF Outcome, One
  <2> QED
    BY <1>1, <1>2, <1>3, <2>2, <2>4 DEF Decodes
<1>4. CASE /\ data.type = "call"
           /\ StartsSending(Chunk(<<CallBlock(data.index + 2, <<data.index>>)>>, FALSE))
           /\ UNCHANGED <<calls, complete>>
  <2>1. /\ CallBlock(data.index + 2, <<data.index>>) \in Blocks
        /\ CallBlock(data.index + 2, <<data.index>>).call
    <3>1. data.index \in Indexes /\ data.index \in Int
      BY <1>0, <1>4 DEF Indexes
    <3>2. data.index + 2 \in BlockIndexes /\ <<data.index>> \in Seq(Int)
      BY <3>1, BlockTypes
    <3> QED
      BY <3>2, BlockTypes DEF CallBlock
  <2>2. /\ producer' = "send" /\ item' \in Items /\ item'.type = "message" /\ ~HasText(item')
    BY <1>4, <2>1, SendingABlock
  <2>3. Text(data) = 0
    BY <1>4, KindsOfEvent
  <2>4. Outcome(NoEvent)
    BY <1>1, <1>4, <2>2, <2>3 DEF Outcome, One
  <2> QED
    BY <1>1, <1>2, <1>4, <2>2, <2>4 DEF Decodes
<1>5. CASE /\ data.type = "end" /\ complete' = TRUE
           /\ StartsSending(Chunk(<<>>, TRUE)) /\ UNCHANGED calls
  <2>1. /\ producer' = "send" /\ item' \in Items /\ item'.type = "message"
        /\ item'.last /\ ~HasText(item')
    BY <1>5, SendingTheLast
  <2>2. DecoderTyped'
    BY <1>5 DEF DecoderTyped
  <2>3. Text(data) = 0 /\ Ends(data)
    BY <1>5, KindsOfEvent
  <2>4. Outcome(NoEvent)
    BY <1>1, <1>5, <2>1, <2>3 DEF Outcome, One
  <2> QED
    BY <1>1, <1>5, <2>1, <2>2, <2>4 DEF Decodes
<1>6. CASE /\ data.type \in {"failed", "garbled"}
           /\ StartsSending(Failed(data.type)) /\ UNCHANGED <<calls, complete>>
  <2>1. producer' = "send" /\ item' \in Items /\ item'.type = "error"
    <3>1. data.type \in Errors
      BY <1>6 DEF Errors
    <3> QED
      BY <1>6, <3>1, SendingAnError
  <2> QED
    BY <1>1, <1>2, <1>6, <2>1 DEF Decodes, Outcome
<1>7. CASE data.type = "none" /\ Continues(r) /\ UNCHANGED <<calls, complete>>
  <2>1. Text(data) = 0
    BY <1>7, KindsOfEvent
  <2>2. Outcome(NoEvent)
    BY <1>1, <1>7, <2>1, Continuing DEF Outcome
  <2> QED
    BY <1>1, <1>2, <1>7, <2>2, Continuing DEF Decodes
<1> QED
  BY <1>3, <1>4, <1>5, <1>6, <1>7 DEF DispatchCodex

(* What the goroutine of Codex does about a line.                          *)
LEMMA HandleCodexDecodes ==
  ASSUME DecoderTyped, item \in Items, provider = "codex", ctx \in {"live", "canceled"},
         NEW e \in Events("codex") \cup {NoEvent}, NEW r, HandleCodex(e, r)
  PROVE  Decodes(e, r)
<1>1. CASE ctx # "live"
  <2>1. producer' = "send" /\ item' \in Items /\ item'.type = "error"
    <3>1. ctx \in Errors
      BY <1>1 DEF Errors
    <3> QED
      BY <1>1, <3>1, SendingAnError DEF HandleCodex
  <2>2. DecoderTyped' /\ data' = data /\ complete' = complete
    BY <1>1 DEF DecoderTyped, decoderVars, HandleCodex
  <2> QED
    BY <2>1, <2>2 DEF Decodes, Outcome
<1>2. CASE ctx = "live" /\ e = NoEvent
  BY <1>2, DispatchDecodes DEF HandleCodex
<1>3. CASE ctx = "live" /\ e # NoEvent
  <2>1. /\ Continues(r) /\ UNCHANGED <<calls, complete>>
        /\ data' = IF e.type = "ignored" THEN data
                   ELSE IF data = NoEvent THEN e ELSE [type |-> "garbled"]
    BY <1>3 DEF HandleCodex
  <2>2. CASE e.type = "ignored"
    <3>1. data' = data /\ Text(e) = 0
      BY <2>1, <2>2, KindsOfEvent
    <3>2. DecoderTyped'
      BY <2>1, <3>1 DEF DecoderTyped
    <3> QED
      BY <2>1, <3>1, <3>2, Continuing DEF Decodes, Outcome, Text
  <2>3. CASE e.type # "ignored" /\ data = NoEvent
    <3>1. data' = e /\ Text(data) = 0 /\ data.type = "none"
      BY <2>1, <2>3, KindsOfEvent
    <3>2. DecoderTyped'
      BY <2>1, <3>1 DEF DecoderTyped
    <3> QED
      BY <2>1, <3>1, <3>2, Continuing DEF Decodes, Outcome, Text
  <2>4. CASE e.type # "ignored" /\ data # NoEvent
    <3>1. data' = [type |-> "garbled"] /\ data'.type = "garbled"
      BY <2>1, <2>4
    <3>2. data' \in Events("codex") /\ ~Ends(data')
      BY <3>1 DEF Events, Ends
    <3>3. DecoderTyped'
      BY <2>1, <3>2 DEF DecoderTyped
    <3> QED
      BY <2>1, <3>1, <3>2, <3>3, Continuing DEF Decodes, Outcome
  <2> QED
    BY <2>2, <2>3, <2>4
<1> QED
  BY <1>1, <1>2, <1>3

(* What any of them does.                                                  *)
LEMMA HandleDecodes ==
  ASSUME BodyTyped, DecoderTyped, item \in Items,
         provider # "codex" => data = NoEvent /\ ~complete,
         NEW e \in LineEvents, NEW r, Handle(e, r)
  PROVE  Decodes(e, r)
<1>1. CASE provider = "claude" /\ HandleClaude(e, r)
  BY <1>1, HandleClaudeDecodes DEF LineEvents
<1>2. CASE provider = "ollama" /\ HandleOllama(e, r)
  BY <1>2, HandleOllamaDecodes DEF LineEvents
<1>3. CASE provider = "codex" /\ HandleCodex(e, r)
  BY <1>3, HandleCodexDecodes DEF LineEvents, BodyTyped
<1> QED
  BY <1>1, <1>2, <1>3 DEF Handle

-----------------------------------------------------------------------------
(* The invariant of the limits *)

(* The invariant of the limits holds at first, when nothing was read.      *)
LEMMA InitInv == Init => Inv
<1> SUFFICES ASSUME Init PROVE Inv
  OBVIOUS
<1> USE DEF Init
<1>1. BodyTyped
  <2>1. NoEvent \in LineEvents
    BY DEF LineEvents
  <2>2. provider \in {"claude", "ollama", "codex"}
    BY AgenticStreamAssumption
  <2> QED
    BY <2>1, <2>2 DEF BodyTyped, Framings, NewCounts, Lines, Results
<1>2. DecoderTyped
  <2>1. calls \in [Indexes -> [known : BOOLEAN, args : Seq(Int)]]
    BY DEF NoCall
  <2> QED
    BY <2>1 DEF DecoderTyped
<1>3. StreamTyped
  <2>1. pipe \in Pipes(Items) /\ item \in Items
    BY NewPipeType DEF Items
  <2> QED
    BY <2>1 DEF StreamTyped
<1>4. BytesAreCounted
  BY AgenticBodyAssumption DEF BytesAreCounted, NewCounts
<1>5. EndIsFinal /\ DecoderStops /\ BlocksAreCounted
  BY DEF EndIsFinal, DecoderStops, BlocksAreCounted
<1> QED
  BY <1>1, <1>2, <1>3, <1>4, <1>5 DEF Inv

(* The types stay those of the provider.                                   *)
LEMMA SameProvider ==
  ASSUME provider' = provider
  PROVE  LineEvents' = LineEvents /\ Bytes' = Bytes /\ Lines' = Lines
<1>1. LineEvents' = LineEvents /\ Bytes' = Bytes
  BY DEF LineEvents, Bytes
<1> QED
  BY <1>1 DEF Lines

(* A step that reads nothing, of a goroutine that has the response.        *)
LEMMA StepWithoutTheBody ==
  ASSUME Inv, UNCHANGED <<provider, framing, counts, record, line, result>>,
         ctx' \in {"live", "canceled"},
         producer' # producer =>
           /\ producer' # "request" /\ (producer' = "scan" => result = "none")
           /\ producer' = "ended" => result # "none"
  PROVE  BodyTyped' /\ BytesAreCounted' /\ EndIsFinal'
<1> USE DEF Inv
<1>1. BodyTyped'
  BY SameProvider DEF BodyTyped
<1>2. BytesAreCounted'
  BY DEF BytesAreCounted
<1>3. EndIsFinal'
  BY DEF EndIsFinal
<1> QED
  BY <1>1, <1>2, <1>3

(* A step of which the caller learns nothing.                              *)
LEMMA StepWithoutTheCaller ==
  ASSUME Inv, UNCHANGED <<seen, received, end>>,
         producer' \in {"request", "scan", "send", "ended", "exit", "close", "done"},
         item' \in Items, pipe' \in Pipes(Items), produced' \in Nat
  PROVE  StreamTyped' /\ BlocksAreCounted'
<1>1. StreamTyped'
  BY DEF Inv, StreamTyped
<1>2. BlocksAreCounted'
  BY DEF Inv, BlocksAreCounted
<1> QED
  BY <1>1, <1>2

(* A step of the decoder that does not read.                               *)
LEMMA SameDecoder ==
  ASSUME Inv, UNCHANGED <<provider, decoderVars>>,
         producer' = producer \/ producer' \notin {"request", "scan", "ended"}
         \/ provider = "codex" \/ ~complete
  PROVE  DecoderTyped' /\ DecoderStops'
BY DEF Inv, DecoderTyped, DecoderStops, decoderVars

(* The request.                                                            *)
LEMMA RequestSucceedsInv == Inv /\ RequestSucceeds => Inv'
<1> SUFFICES ASSUME Inv, RequestSucceeds PROVE Inv'
  OBVIOUS
<1>1. /\ producer = "request" /\ producer' = "scan" /\ provider' = provider
      /\ framing' \in {IF provider = "ollama" THEN "ndjson" ELSE "sse", "none"}
      /\ UNCHANGED <<ctx, counts, record, line, result, decoderVars, item, pipe, produced,
                     seen, received, end>>
  BY DEF RequestSucceeds, callerVars
<1>2. BodyTyped'
  BY <1>1, SameProvider DEF Inv, BodyTyped, Framings
<1>3. BytesAreCounted'
  <2>1. counts = NewCounts /\ record = <<>>
    BY <1>1 DEF Inv, BytesAreCounted
  <2>2. /\ counts'.event = 0 /\ counts'.read = 0 /\ counts'.lineEmpty = FALSE
        /\ Len(record') = 0 /\ record' = <<>>
    BY <1>1, <2>1 DEF NewCounts
  <2>3. (framing' = "sse" => provider' # "ollama") /\ (framing' = "ndjson" => provider' = "ollama")
    BY <1>1
  <2> QED
    BY <1>1, <2>2, <2>3, AgenticBodyAssumption DEF BytesAreCounted
<1>4. EndIsFinal'
  BY <1>1 DEF Inv, EndIsFinal
<1>5. StreamTyped' /\ BlocksAreCounted'
  BY <1>1, StepWithoutTheCaller DEF Inv, StreamTyped
<1>6. DecoderTyped' /\ DecoderStops'
  BY <1>1, SameDecoder DEF Inv, DecoderStops
<1> QED
  BY <1>2, <1>3, <1>4, <1>5, <1>6 DEF Inv

(* The request.                                                            *)
LEMMA RequestFailsInv ==
  ASSUME NEW b
  PROVE  Inv /\ RequestFails(b) => Inv'
<1> SUFFICES ASSUME Inv, RequestFails(b) PROVE Inv'
  OBVIOUS
<1>1. /\ producer' = "done" /\ end' = "error"
      /\ UNCHANGED <<provider, framing, ctx, counts, record, line, result, decoderVars, item,
                     pipe, produced, seen, received>>
  BY DEF RequestFails
<1>2. BodyTyped' /\ BytesAreCounted' /\ EndIsFinal'
  BY <1>1, StepWithoutTheBody DEF Inv, BodyTyped
<1>3. StreamTyped'
  BY <1>1 DEF Inv, StreamTyped
<1>4. BlocksAreCounted'
  BY <1>1 DEF Inv, BlocksAreCounted
<1>5. DecoderTyped' /\ DecoderStops'
  BY <1>1, SameDecoder
<1> QED
  BY <1>2, <1>3, <1>4, <1>5 DEF Inv

(* A byte that is read ends a record in the bytes' own words when it does  *)
(* for the limited body, and is counted once.                              *)
LEMMA CountIsOfTheRecord ==
  ASSUME Inv, NEW byte \in Bytes, producer # "request",
         Exceeded(counts, framing) = "none",
         counts' = Counted(counts, byte = Newline, framing),
         record' = (LET bytes == Append(record, byte)
                    IN  IF EndsRecord(bytes) THEN <<>> ELSE bytes),
         UNCHANGED <<provider, framing>>, producer' # "request"
  PROVE  /\ counts' \in [read : Nat, event : Nat, lineEmpty : BOOLEAN]
         /\ record' \in Seq(Bytes) /\ BytesAreCounted'
<1> DEFINE bytes == Append(record, byte)
<1>1. /\ record \in Seq(Bytes) /\ framing \in Framings
      /\ counts \in [read : Nat, event : Nat, lineEmpty : BOOLEAN]
  BY DEF Inv, BodyTyped
<1>2. /\ bytes \in Seq(Bytes) /\ bytes # <<>> /\ Len(bytes) = Len(record) + 1
      /\ bytes[Len(bytes)] = byte /\ Len(record) \in Nat
      /\ Len(record) > 0 => bytes[Len(bytes) - 1] = record[Len(record)]
  <2>1. /\ bytes \in Seq(Bytes) /\ Len(bytes) = Len(record) + 1
        /\ Len(record) \in Nat /\ bytes[Len(record) + 1] = byte
        /\ \A k \in 1 .. Len(record) : bytes[k] = record[k]
    BY <1>1, AppendProperties, LenProperties
  <2> HIDE DEF bytes
  <2>2. Len(bytes) > 0 /\ Len(bytes) - 1 = Len(record)
    BY <2>1
  <2>3. Len(record) > 0 => Len(record) \in 1 .. Len(record)
    BY <2>1
  <2>4. bytes # <<>>
    BY <2>1, <2>2, EmptySeq
  <2> QED
    BY <2>1, <2>2, <2>3, <2>4
<1>3. record' = IF EndsRecord(bytes) THEN <<>> ELSE bytes
  OBVIOUS
<1> HIDE DEF bytes
<1>4. record = <<>> <=> Len(record) = 0
  BY <1>1, EmptySeq
<1>5. counts' \in [read : Nat, event : Nat, lineEmpty : BOOLEAN]
  BY <1>1 DEF Counted
<1>6. counts'.read <= MaxResponseBytes
  BY <1>1, AgenticBodyAssumption DEF Exceeded, Counted
<1>7. ASSUME framing = "none" PROVE BytesAreCounted'
  <2>1. ~counts'.lineEmpty
    BY <1>7 DEF Counted
  <2>2. framing' = "none" /\ producer' # "request"
    BY <1>7
  <2> QED
    BY <1>6, <2>1, <2>2 DEF BytesAreCounted
<1>8. ASSUME framing = "ndjson" PROVE BytesAreCounted'
  <2>1. provider = "ollama" /\ ~counts.lineEmpty
    BY <1>8 DEF Inv, BytesAreCounted
  <2>2. EndsRecord(bytes) <=> byte = Newline
    BY <1>2, <2>1 DEF EndsRecord
  <2>3. /\ counts.event = Len(record) /\ counts.event < MaxEventBytes
        /\ counts'.event = IF byte = Newline THEN 0 ELSE counts.event + 1
        /\ ~counts'.lineEmpty
    <3>1. counts.event = Len(record)
      BY <1>8 DEF Inv, BytesAreCounted
    <3>2. counts.event < MaxEventBytes
      BY <1>1, <1>8, AgenticBodyAssumption DEF Exceeded
    <3> QED
      BY <1>8, <3>1, <3>2 DEF Counted
  <2>4. counts'.event = Len(record') /\ counts'.event <= MaxEventBytes
    BY <1>1, <1>2, <1>3, <2>2, <2>3, AgenticBodyAssumption
  <2>5. framing' = "ndjson" /\ provider' = "ollama" /\ producer' # "request"
    BY <1>8, <2>1
  <2> QED
    BY <1>6, <2>3, <2>4, <2>5 DEF BytesAreCounted
<1>9. ASSUME framing = "sse" PROVE BytesAreCounted'
  <2>1. /\ provider # "ollama" /\ counts.event = Len(record)
        /\ counts.lineEmpty <=> record # <<>> /\ record[Len(record)] = Newline
    BY <1>9 DEF Inv, BytesAreCounted
  <2>2. EndsRecord(bytes) <=> byte = Newline /\ counts.lineEmpty
    BY <1>2, <1>4, <2>1 DEF EndsRecord
  <2>3. /\ counts.event < MaxEventBytes
        /\ counts'.event = IF byte = Newline /\ counts.lineEmpty THEN 0 ELSE counts.event + 1
        /\ counts'.lineEmpty <=> byte = Newline /\ ~counts.lineEmpty
    <3>1. counts.event < MaxEventBytes
      BY <1>1, <1>9, AgenticBodyAssumption DEF Exceeded
    <3> QED
      BY <1>1, <1>9, <3>1 DEF Counted
  <2>4. counts'.event = Len(record') /\ counts'.event <= MaxEventBytes
    BY <1>1, <1>2, <1>3, <2>1, <2>2, <2>3, AgenticBodyAssumption
  <2>5. counts'.lineEmpty <=> record' # <<>> /\ record'[Len(record')] = Newline
    BY <1>2, <1>3, <2>2, <2>3
  <2>6. framing' = "sse" /\ provider' # "ollama" /\ producer' # "request"
    BY <1>9, <2>1
  <2> QED
    BY <1>6, <2>4, <2>5, <2>6 DEF BytesAreCounted
<1> QED
  BY <1>1, <1>3, <1>2, <1>5, <1>7, <1>8, <1>9 DEF Framings

(* Whatever the decoder does, the invariant of its own variables is kept.  *)
LEMMA DecoderStep ==
  ASSUME Inv, producer \in {"scan", "ended"}, NEW e, NEW r, Decodes(e, r),
         provider' = provider, UNCHANGED <<pipe, produced, seen, received, end>>
  PROVE  /\ DecoderTyped' /\ StreamTyped' /\ DecoderStops' /\ BlocksAreCounted'
         /\ producer' # "request" /\ (producer' = "scan" => r = "none")
         /\ (producer' = "ended" => r # "none")
<1>1. DecoderTyped' /\ item' \in Items /\ producer' \in {"scan", "send", "ended"}
      /\ (producer' = "scan" => r = "none")
      /\ (producer' = "ended" => r # "none")
  BY DEF Decodes
<1>2. StreamTyped' /\ BlocksAreCounted'
  BY <1>1, StepWithoutTheCaller DEF Inv, StreamTyped
<1>3. DecoderStops'
  <2> SUFFICES ASSUME provider # "codex"
               PROVE  data' = NoEvent
                      /\ (complete' => producer' \notin {"request", "scan", "ended"})
    BY DEF DecoderStops
  <2>1. data = NoEvent /\ ~complete
    BY DEF Inv, DecoderStops
  <2>2. data' = NoEvent
    BY <2>1 DEF Decodes
  <2>3. complete' => producer' = "send"
    BY <2>1 DEF Decodes, Outcome
  <2> QED
    BY <2>2, <2>3
<1> QED
  BY <1>1, <1>2, <1>3

(* Going on leaves the decoder as it is.                                   *)
LEMMA ContinuingDecodes ==
  ASSUME Inv, NEW r, Continues(r), UNCHANGED decoderVars
  PROVE  Decodes(NoEvent, r)
<1>1. Text(NoEvent) = 0 /\ Text(data') = Text(data) /\ Text(data) \in Int
  BY KindsOfEvent DEF decoderVars, Text
<1>2. Outcome(NoEvent)
  BY <1>1, Continuing DEF Outcome, decoderVars
<1>3. DecoderTyped'
  BY DEF Inv, DecoderTyped, decoderVars
<1> QED
  BY <1>2, <1>3, Continuing DEF Decodes, Inv, StreamTyped, decoderVars

(* A byte is one of a line, or ends one.                                   *)
LEMMA ReadsByteInv ==
  ASSUME NEW byte \in Bytes
  PROVE  Inv /\ ReadsByte(byte) => Inv'
<1> SUFFICES ASSUME Inv, ReadsByte(byte) PROVE Inv'
  OBVIOUS
<1>1. /\ producer = "scan" /\ Exceeded(counts, framing) = "none"
      /\ counts' = Counted(counts, byte = Newline, framing)
      /\ record' = (LET bytes == Append(record, byte)
                    IN  IF EndsRecord(bytes) THEN <<>> ELSE bytes)
      /\ UNCHANGED <<provider, framing, ctx, pipe, produced, seen, received, end>>
  BY DEF ReadsByte, callerVars
<1>2. /\ line \in Lines /\ MaxLineBytes \in Nat /\ result = "none"
      /\ item \in Items /\ NoEvent \in LineEvents
      /\ provider # "codex" => data = NoEvent /\ ~complete
  BY <1>1, AgenticStreamAssumption
  DEF Inv, BodyTyped, StreamTyped, EndIsFinal, DecoderStops, LineEvents
<1>3. \E e, r : /\ Decodes(e, r)
                /\ line' \in Lines /\ result' \in {"none", "long"}
                /\ r = "none" <=> result' = "none"
  <2>1. CASE byte = Newline
    <3>1. /\ Handle(line.event, "none") /\ line' = NewLine(line.event) /\ result' = result
      BY <2>1 DEF ReadsByte
    <3>2. line.event \in LineEvents
      BY <1>2 DEF Lines
    <3>3. Decodes(line.event, "none")
      BY <1>2, <3>1, <3>2, HandleDecodes DEF Inv
    <3>4. line' \in Lines
      BY <1>2, <3>1, <3>2 DEF NewLine, Lines
    <3> QED
      BY <1>2, <3>1, <3>3, <3>4
  <2>2. CASE byte # Newline
    <3>1. /\ line' = [line EXCEPT !.len = @ + 1, !.event = IF byte = Part THEN @ ELSE byte]
          /\ \/ result' = "long" /\ Continues("long")
             \/ UNCHANGED result /\ Continues("none")
          /\ UNCHANGED decoderVars
      BY <2>2 DEF ReadsByte
    <3>2. byte # Part => byte \in LineEvents
      BY <2>2 DEF Bytes, LineEvents
    <3>3. line' \in Lines
      <4>1. line.len \in Nat /\ line.event \in LineEvents /\ line.above \in LineEvents
            /\ line = [len |-> line.len, event |-> line.event, above |-> line.above]
        BY <1>2 DEF Lines
      <4>2. line' = [len |-> line.len + 1,
                     event |-> IF byte = Part THEN line.event ELSE byte,
                     above |-> line.above]
        BY <3>1, <4>1
      <4>3. line.len + 1 \in Nat /\ (IF byte = Part THEN line.event ELSE byte) \in LineEvents
        BY <3>2, <4>1
      <4> QED
        BY <4>1, <4>2, <4>3 DEF Lines
    <3>4. CASE result' = "long" /\ Continues("long")
      <4>1. Decodes(NoEvent, "long")
        BY <3>1, <3>4, ContinuingDecodes
      <4> QED
        BY <3>3, <3>4, <4>1
    <3>5. CASE UNCHANGED result /\ Continues("none")
      <4>1. Decodes(NoEvent, "none")
        BY <3>1, <3>5, ContinuingDecodes
      <4> QED
        BY <1>2, <3>3, <3>5, <4>1
    <3> QED
      BY <3>1, <3>4, <3>5
  <2> QED
    BY <2>1, <2>2
<1>4. PICK e, r : /\ Decodes(e, r)
                  /\ line' \in Lines /\ result' \in {"none", "long"}
                  /\ r = "none" <=> result' = "none"
  BY <1>3
<1>5. /\ DecoderTyped' /\ StreamTyped' /\ DecoderStops' /\ BlocksAreCounted'
      /\ producer' # "request" /\ (producer' = "scan" => r = "none")
      /\ (producer' = "ended" => r # "none")
  BY <1>1, <1>4, DecoderStep
<1>6. /\ counts' \in [read : Nat, event : Nat, lineEmpty : BOOLEAN]
      /\ record' \in Seq(Bytes) /\ BytesAreCounted'
  BY <1>1, <1>5, CountIsOfTheRecord
<1>7. BodyTyped'
  BY <1>1, <1>4, <1>6, SameProvider DEF Inv, BodyTyped, Results
<1>8. EndIsFinal'
  BY <1>4, <1>5 DEF EndIsFinal
<1> QED
  BY <1>5, <1>6, <1>7, <1>8 DEF Inv

(* The end of the body, or what the limits make of it.                     *)
LEMMA ScanEndsDecodes ==
  ASSUME Inv, producer = "scan", NEW r, ScanEnds(r)
  PROVE  \E e \in LineEvents :
           /\ Decodes(e, r)
           /\ (line.len = 0 /\ e = NoEvent /\ UNCHANGED decoderVars
               /\ producer' # "send")
              \/ (line.len # 0 /\ e \in Leftover)
<1>1. CASE line.len = 0
  <2>1. Continues(r) /\ UNCHANGED decoderVars
    BY <1>1 DEF ScanEnds
  <2>2. Decodes(NoEvent, r) /\ NoEvent \in LineEvents /\ producer' # "send"
    BY <2>1, ContinuingDecodes, Continuing DEF LineEvents
  <2> QED
    BY <1>1, <2>1, <2>2
<1>2. CASE line.len # 0
  <2>1. PICK e \in Leftover : Handle(e, r)
    BY <1>2 DEF ScanEnds
  <2>2. e \in LineEvents
    BY LeftoverIsAnEvent DEF Inv
  <2>3. Decodes(e, r)
    BY <2>1, <2>2, HandleDecodes DEF Inv, StreamTyped, DecoderStops
  <2> QED
    BY <1>2, <2>2, <2>3
<1> QED
  BY <1>1, <1>2

(* The scanner ends, and what refused a byte, if anything did, still does. *)
LEMMA ScanEndsInv ==
  ASSUME Inv, producer = "scan", NEW r \in {"EOF", "failed", "limit"}, ScanEnds(r),
         r = "limit" => Exceeded(counts, framing) # "none"
  PROVE  Inv'
<1>1. /\ result' = r /\ line' = NewLine(NoEvent)
      /\ UNCHANGED <<provider, framing, ctx, counts, record, pipe, produced, seen, received,
                     end>>
  BY DEF ScanEnds, callerVars
<1>2. PICK e \in LineEvents : Decodes(e, r)
  BY ScanEndsDecodes
<1>3. /\ DecoderTyped' /\ StreamTyped' /\ DecoderStops' /\ BlocksAreCounted'
      /\ producer' # "request" /\ (producer' = "scan" => r = "none")
      /\ (producer' = "ended" => r # "none")
  BY <1>1, <1>2, DecoderStep
<1>4. line' \in Lines
  BY <1>1 DEF NewLine, Lines, LineEvents
<1>5. BodyTyped'
  BY <1>1, <1>4, SameProvider DEF Inv, BodyTyped, Results
<1>6. BytesAreCounted'
  BY <1>1, <1>3 DEF Inv, BytesAreCounted
<1>7. EndIsFinal'
  BY <1>1, <1>3 DEF EndIsFinal
<1> QED
  BY <1>3, <1>5, <1>6, <1>7 DEF Inv

(* Nothing is left of the body, or a limit refuses a byte of it.           *)
LEMMA ReadEndsInv ==
  ASSUME NEW r \in {"EOF", "failed"}
  PROVE  Inv /\ ReadEnds(r) => Inv'
BY ScanEndsInv DEF ReadEnds

(* A limit refuses a byte of the body, and keeps refusing.                 *)
LEMMA RefusesInv ==
  ASSUME NEW byte
  PROVE  Inv /\ Refuses(byte) => Inv'
BY ScanEndsInv DEF Refuses

(* What sending leaves, and where it leads.                                *)
LEMMA SendsFacts ==
  ASSUME Inv, Sends
  PROVE  /\ producer = "send" /\ producer' = AfterSend /\ item' = EOFItem
         /\ pipe' \in Pipes(Items) /\ pipe'.recvClosed = pipe.recvClosed
         /\ pipe'.sendClosed = pipe.sendClosed
         /\ IF pipe.recvClosed THEN pipe' = pipe /\ produced' = produced
            ELSE /\ pipe' = Sent(pipe, item)
                 /\ produced' = IF item.type = "message" THEN produced + 1 ELSE produced
         /\ UNCHANGED <<provider, framing, ctx, server, body, counts, record, line, result,
                        decoderVars, seen, received, end>>
<1>1. /\ producer = "send" /\ producer' = AfterSend /\ item' = EOFItem
      /\ pipe' = IF pipe.recvClosed THEN pipe ELSE Sent(pipe, item)
      /\ produced' = IF item.type = "message" /\ ~pipe.recvClosed THEN produced + 1
                     ELSE produced
      /\ UNCHANGED <<provider, framing, ctx, server, body, counts, record, line, result,
                     decoderVars, seen, received, end>>
  BY DEF Sends, bodyVars, callerVars
<1>2. pipe \in Pipes(Items) /\ item \in Items
  BY DEF Inv, StreamTyped
<1>3. Sent(pipe, item) \in Pipes(Items) /\ Sent(pipe, item).recvClosed = pipe.recvClosed
      /\ Sent(pipe, item).sendClosed = pipe.sendClosed
  BY <1>2, SentProperties
<1>4. pipe' \in Pipes(Items) /\ pipe'.recvClosed = pipe.recvClosed
      /\ pipe'.sendClosed = pipe.sendClosed
  BY <1>1, <1>2, <1>3
<1> QED
  BY <1>1, <1>4

(* Where the goroutine goes on, by what it has sent.                       *)
LEMMA AfterSendFacts ==
  /\ AfterSend \in {"exit", "scan", "ended"}
  /\ AfterSend = "scan" => result = "none"
  /\ AfterSend = "ended" => result # "none"
  /\ AfterSend # "exit" =>
       item.type # "error" /\ ~pipe.recvClosed /\ (provider # "codex" => ~complete)
  /\ AfterSend = "exit" =>
       item.type = "error" \/ pipe.recvClosed \/ (complete /\ provider # "codex")
BY DEF AfterSend

(* Sending, or finding the reader closed, ends no scan that it should not. *)
LEMMA SendsInv == Inv /\ Sends => Inv'
<1> SUFFICES ASSUME Inv, Sends PROVE Inv'
  OBVIOUS
<1>1. /\ producer' = AfterSend /\ item' = EOFItem /\ pipe' \in Pipes(Items)
      /\ UNCHANGED <<provider, framing, ctx, counts, record, line, result, decoderVars,
                     seen, received, end>>
  BY SendsFacts
<1>2. produced' \in Nat
  BY SendsFacts DEF Inv, StreamTyped
<1>3. item' \in Items
  BY <1>1 DEF Items
<1>4. /\ producer' \in {"exit", "scan", "ended"} /\ (producer' = "scan" => result = "none")
      /\ (producer' = "ended" => result # "none")
      /\ producer' \in {"scan", "ended"} => (provider # "codex" => ~complete)
  BY <1>1, AfterSendFacts
<1>5. BodyTyped' /\ BytesAreCounted' /\ EndIsFinal'
  BY <1>1, <1>4, StepWithoutTheBody DEF Inv, BodyTyped
<1>6. StreamTyped' /\ BlocksAreCounted'
  BY <1>1, <1>2, <1>3, <1>4, StepWithoutTheCaller
<1>7. DecoderTyped' /\ DecoderStops'
  BY <1>1, <1>4, SameDecoder
<1> QED
  BY <1>5, <1>6, <1>7 DEF Inv

(* Where the goroutine goes at the end of the body.                        *)
LEMMA ConcludesFacts ==
  ASSUME Inv, Concludes
  PROVE  /\ producer = "ended"
         /\ UNCHANGED <<provider, framing, ctx, server, body, counts, record, line, result,
                        pipe, produced, seen, received, end>>
         /\ \/ data # NoEvent /\ data' = NoEvent /\ Decodes(NoEvent, result)
            \/ /\ data = NoEvent /\ UNCHANGED decoderVars
               /\ \/ producer' = "send" /\ item' \in Items /\ item'.type = "error"
                  \/ result = "EOF" /\ complete /\ producer' = "exit" /\ item' = item
<1>1. /\ producer = "ended"
      /\ UNCHANGED <<provider, framing, ctx, server, body, counts, record, line, result,
                     pipe, produced, seen, received, end>>
  BY DEF Concludes, bodyVars, callerVars
<1>2. CASE data # NoEvent
  <2>1. data' = NoEvent /\ DispatchCodex(data, result) /\ provider = "codex"
    BY <1>2 DEF Concludes, Inv, DecoderStops
  <2>2. Decodes(NoEvent, result)
    BY <2>1, DispatchDecodes DEF Inv, StreamTyped
  <2> QED
    BY <1>1, <1>2, <2>1, <2>2
<1>3. CASE data = NoEvent
  <2>1. \/ StartsSending(Failed("limit")) \/ StartsSending(Failed("truncated"))
        \/ result = "EOF" /\ complete /\ producer' = "exit" /\ item' = item
    BY <1>3 DEF Concludes
  <2>2. UNCHANGED decoderVars
    BY <1>3 DEF Concludes
  <2> QED
    BY <1>1, <1>3, <2>1, <2>2, SendingAnError DEF Errors
<1> QED
  BY <1>2, <1>3

(* The end of the body leads to another item or out of the goroutine.      *)
LEMMA ConcludesInv == Inv /\ Concludes => Inv'
<1> SUFFICES ASSUME Inv, Concludes PROVE Inv'
  OBVIOUS
<1>1. /\ producer = "ended"
      /\ UNCHANGED <<provider, framing, ctx, counts, record, line, result,
                     pipe, produced, seen, received, end>>
  BY ConcludesFacts
<1>2. /\ DecoderTyped' /\ StreamTyped' /\ DecoderStops' /\ BlocksAreCounted'
      /\ producer' # "request" /\ (producer' = "scan" => result = "none")
      /\ (producer' = "ended" => result # "none")
  <2>1. CASE Decodes(NoEvent, result)
    BY <1>1, <2>1, DecoderStep
  <2>2. CASE UNCHANGED decoderVars /\ producer' \in {"send", "exit"} /\ item' \in Items
    <3>1. DecoderTyped' /\ DecoderStops'
      BY <1>1, <2>2, SameDecoder
    <3>2. StreamTyped' /\ BlocksAreCounted'
      BY <1>1, <2>2, StepWithoutTheCaller DEF Inv, StreamTyped
    <3> QED
      BY <2>2, <3>1, <3>2
  <2> QED
    BY <2>1, <2>2, ConcludesFacts DEF Inv, StreamTyped
<1>3. BodyTyped' /\ BytesAreCounted' /\ EndIsFinal'
  BY <1>1, <1>2, StepWithoutTheBody DEF Inv, BodyTyped
<1> QED
  BY <1>2, <1>3 DEF Inv

(* The deferred calls change neither the body nor the decoder.             *)
LEMMA ClosesInv == Inv /\ (ClosesWriter \/ ClosesBody) => Inv'
<1> SUFFICES ASSUME Inv, ClosesWriter \/ ClosesBody PROVE Inv'
  OBVIOUS
<1>1. /\ producer' \in {"close", "done"}
      /\ UNCHANGED <<provider, framing, ctx, counts, record, line, result, decoderVars, item,
                     produced, seen, received, end>>
      /\ pipe' = pipe \/ pipe' = [pipe EXCEPT !.sendClosed = TRUE]
  BY DEF ClosesWriter, ClosesBody, bodyVars, callerVars
<1>2. pipe \in Pipes(Items)
  BY DEF Inv, StreamTyped
<1>3. pipe' \in Pipes(Items)
  BY <1>1, <1>2, ClosedProperties
<1>4. BodyTyped' /\ BytesAreCounted' /\ EndIsFinal'
  BY <1>1, StepWithoutTheBody DEF Inv, BodyTyped
<1>5. StreamTyped' /\ BlocksAreCounted'
  BY <1>1, <1>3, StepWithoutTheCaller DEF Inv, StreamTyped
<1>6. DecoderTyped' /\ DecoderStops'
  BY <1>1, SameDecoder
<1> QED
  BY <1>4, <1>5, <1>6 DEF Inv

(* Nor does the context.                                                   *)
LEMMA CancelInv == Inv /\ Cancel => Inv'
<1> SUFFICES ASSUME Inv, Cancel PROVE Inv'
  OBVIOUS
<1>1. /\ ctx' = "canceled"
      /\ UNCHANGED <<provider, framing, counts, record, line, result, decoderVars, producer,
                     item, pipe, produced, seen, received, end>>
  BY DEF Cancel, bodyVars, callerVars, producerVars
<1>2. BodyTyped' /\ BytesAreCounted' /\ EndIsFinal'
  <2>1. ctx' \in {"live", "canceled"} /\ producer' = producer
    BY <1>1
  <2>2. UNCHANGED <<provider, framing, counts, record, line, result>>
    BY <1>1
  <2> QED
    BY <2>1, <2>2, StepWithoutTheBody
<1>3. StreamTyped' /\ BlocksAreCounted'
  BY <1>1, StepWithoutTheCaller DEF Inv, StreamTyped
<1>4. DecoderTyped' /\ DecoderStops'
  BY <1>1, SameDecoder
<1> QED
  BY <1>2, <1>3, <1>4 DEF Inv

(* What receiving does to the pipe, by what comes next.                    *)
LEMMA ReceivesFacts ==
  ASSUME Inv, CallerReceives
  PROVE  /\ producer # "request" /\ end = "open" /\ pipe' \in Pipes(Items)
         /\ pipe'.sendClosed = pipe.sendClosed /\ pipe'.recvClosed = pipe.recvClosed
         /\ UNCHANGED <<provider, framing, ctx, server, body, counts, record, line, result,
                        decoderVars, producer, item, produced>>
         /\ \/ /\ pipe.queue = <<>> /\ pipe.sendClosed /\ pipe' = pipe
               /\ end' = "EOF" /\ UNCHANGED <<seen, received>>
            \/ /\ pipe.queue # <<>> /\ pipe' = Received(pipe)
               /\ NextItem(pipe) = pipe.queue[1] /\ pipe.queue[1] \in Items
               /\ pipe.queue[1].type = "error" /\ end' = "error" /\ received' = <<>>
               /\ seen' = seen
            \/ /\ pipe.queue # <<>> /\ pipe' = Received(pipe)
               /\ pipe.queue[1] \in Messages
               /\ seen' = seen \cup {b.index : b \in BlocksOf(pipe.queue[1])}
               /\ \/ end' = "error" /\ received' = <<>>
                  \/ /\ ~(Cardinality(seen') > MaxBlocks)
                     /\ received' = Append(received, pipe.queue[1]) /\ end' = end
            \/ /\ pipe.queue # <<>> /\ pipe.queue[1].type = "EOF"
               /\ end' = "EOF" /\ UNCHANGED <<seen, received>> /\ pipe' = Received(pipe)
<1> DEFINE i == NextItem(pipe)
           now == IF i.type = "message" THEN seen \cup {b.index : b \in BlocksOf(i)} ELSE seen
<1>1. /\ producer # "request" /\ end = "open" /\ CanRecv(pipe) /\ pipe' = Received(pipe)
      /\ seen' = now
      /\ IF i.type = "EOF" THEN end' = "EOF" /\ UNCHANGED received
         ELSE IF i.type = "error" \/ Cardinality(now) > MaxBlocks
         THEN end' = "error" /\ received' = <<>>
         ELSE received' = Append(received, i) /\ UNCHANGED end
  BY DEF CallerReceives
<1>2. UNCHANGED <<provider, framing, ctx, server, body, counts, record, line, result,
                  decoderVars, producer, item, produced>>
  BY DEF CallerReceives, bodyVars, producerVars
<1>3. pipe \in Pipes(Items)
  BY DEF Inv, StreamTyped
<1>4. /\ pipe' \in Pipes(Items)
      /\ pipe'.sendClosed = pipe.sendClosed /\ pipe'.recvClosed = pipe.recvClosed
      /\ \/ pipe.queue = <<>> /\ pipe.sendClosed /\ i = EOFItem /\ pipe' = pipe
         \/ pipe.queue # <<>> /\ i = pipe.queue[1] /\ pipe.queue[1] \in Items
  BY <1>1, <1>3, ReceivedProperties
<1>5. EOFItem.type = "EOF"
  BY DEF EOFItem
<1>6. CASE pipe.queue = <<>> /\ pipe.sendClosed /\ i = EOFItem /\ pipe' = pipe
  <2>1. end' = "EOF" /\ UNCHANGED <<seen, received>>
    BY <1>1, <1>5, <1>6
  <2> QED
    BY <1>1, <1>2, <1>4, <1>6, <2>1
<1>7. CASE pipe.queue # <<>> /\ i = pipe.queue[1] /\ pipe.queue[1] \in Items
  <2>1. i.type \in {"message", "error", "EOF"} /\ (i.type = "message" => i \in Messages)
    BY <1>7, KindsOfItem
  <2> HIDE DEF i
  <2>2. CASE i.type = "EOF"
    BY <1>1, <1>2, <1>4, <1>7, <2>2
  <2>3. CASE i.type = "error"
    BY <1>1, <1>2, <1>4, <1>7, <2>3 DEF i
  <2>4. CASE i.type = "message"
    <3>1. now = seen \cup {b.index : b \in BlocksOf(i)}
      BY <2>4
    <3> HIDE DEF now
    <3>2. \/ end' = "error" /\ received' = <<>>
          \/ ~(Cardinality(seen') > MaxBlocks) /\ received' = Append(received, i) /\ end' = end
      BY <1>1, <2>4
    <3> QED
      BY <1>1, <1>2, <1>4, <1>7, <2>1, <2>4, <3>1, <3>2
  <2> QED
    BY <2>1, <2>2, <2>3, <2>4
<1> QED
  BY <1>4, <1>6, <1>7

(* The indexes of the blocks of a message are among those of all blocks.   *)
LEMMA BlocksOfAMessage ==
  ASSUME NEW m \in Messages
  PROVE  /\ m.blocks \in Seq(Blocks)
         /\ BlocksOf(m) = {m.blocks[j] : j \in 1 .. Len(m.blocks)}
         /\ {b.index : b \in BlocksOf(m)} \subseteq BlockIndexes
<1>1. m.blocks \in Seq(Blocks)
  BY DEF Messages
<1>2. BlocksOf(m) = {m.blocks[j] : j \in 1 .. Len(m.blocks)}
  BY <1>1, LenProperties DEF BlocksOf
<1>3. \A j \in 1 .. Len(m.blocks) : m.blocks[j].index \in BlockIndexes
  <2>1. \A b \in Blocks : b.index \in BlockIndexes
    BY DEF Blocks
  <2>2. \A j \in 1 .. Len(m.blocks) : m.blocks[j] \in Blocks
    BY <1>1, ElementOfSeq
  <2> QED
    BY <2>1, <2>2
<1> QED
  BY <1>1, <1>2, <1>3

(* The indexes seen are finitely many.                                     *)
LEMMA SeenIsFinite ==
  ASSUME NEW S \in SUBSET BlockIndexes
  PROVE  IsFiniteSet(S) /\ Cardinality(S) \in Nat
<1>1. IsFiniteSet(BlockIndexes)
  BY FS_Interval, AgenticStreamAssumption DEF BlockIndexes
<1> QED
  BY <1>1, FS_Subset, FS_CardinalityType

(* The indexes of the blocks that the caller is given were counted.        *)
LEMMA CallerReceivesInv == Inv /\ CallerReceives => Inv'
<1> SUFFICES ASSUME Inv, CallerReceives PROVE Inv'
  OBVIOUS
<1>1. /\ pipe' \in Pipes(Items) /\ end = "open"
      /\ UNCHANGED <<provider, framing, ctx, counts, record, line, result, decoderVars,
                     producer, item, produced>>
  BY ReceivesFacts
<1>2. BodyTyped' /\ BytesAreCounted' /\ EndIsFinal'
  BY <1>1, StepWithoutTheBody DEF Inv, BodyTyped
<1>3. DecoderTyped' /\ DecoderStops'
  BY <1>1, SameDecoder
<1>4. ASSUME seen' \in SUBSET BlockIndexes, received' \in Seq(Messages),
             end' \in {"open", "EOF", "error"}
      PROVE  StreamTyped'
  BY <1>1, <1>4 DEF Inv, StreamTyped
<1>5. received \in Seq(Messages) /\ seen \in SUBSET BlockIndexes /\ <<>> \in Seq(Messages)
  BY DEF Inv, StreamTyped
<1>6. CASE end' = "EOF" /\ UNCHANGED <<seen, received>>
  <2>1. BlocksAreCounted'
    BY <1>6 DEF Inv, BlocksAreCounted
  <2> QED
    BY <1>2, <1>3, <1>4, <1>5, <1>6, <2>1 DEF Inv
<1>7. CASE /\ end' = "error" /\ received' = <<>>
           /\ seen' = seen \/ (pipe.queue[1] \in Messages
                               /\ seen' = seen \cup {b.index : b \in BlocksOf(pipe.queue[1])})
  <2>1. seen' \in SUBSET BlockIndexes
    BY <1>5, <1>7, BlocksOfAMessage
  <2>2. BlocksAreCounted'
    BY <1>7 DEF BlocksAreCounted
  <2> QED
    BY <1>2, <1>3, <1>4, <1>5, <1>7, <2>1, <2>2 DEF Inv
<1>8. CASE /\ pipe.queue[1] \in Messages
           /\ seen' = seen \cup {b.index : b \in BlocksOf(pipe.queue[1])}
           /\ ~(Cardinality(seen') > MaxBlocks)
           /\ received' = Append(received, pipe.queue[1]) /\ end' = end
  <2> DEFINE m == pipe.queue[1]
  <2>1. /\ m \in Messages /\ BlocksOf(m) = {m.blocks[j] : j \in 1 .. Len(m.blocks)}
        /\ {b.index : b \in BlocksOf(m)} \subseteq BlockIndexes
    BY <1>8, BlocksOfAMessage
  <2> HIDE DEF m
  <2>2. seen' \in SUBSET BlockIndexes /\ seen \subseteq seen'
        /\ \A j \in 1 .. Len(m.blocks) : m.blocks[j].index \in seen'
    BY <1>5, <1>8, <2>1 DEF m
  <2>3. /\ received' \in Seq(Messages) /\ Len(received') = Len(received) + 1
        /\ \A k \in 1 .. Len(received) : received'[k] = received[k]
        /\ received'[Len(received) + 1] = m
    BY <1>5, <1>8, <2>1, AppendProperties DEF m
  <2>4. Cardinality(seen') <= MaxBlocks
    BY <1>8, <2>2, SeenIsFinite, AgenticStreamAssumption
  <2>5. ASSUME NEW k \in 1 .. Len(received')
        PROVE  \A j \in 1 .. Len(received'[k].blocks) : received'[k].blocks[j].index \in seen'
    <3>1. CASE k \in 1 .. Len(received)
      BY <2>2, <2>3, <3>1 DEF Inv, BlocksAreCounted
    <3>2. CASE k = Len(received) + 1
      BY <2>2, <2>3, <3>2
    <3> QED
      BY <1>5, <2>3, <2>5, <3>1, <3>2, LenProperties
  <2>6. BlocksAreCounted'
    BY <2>4, <2>5 DEF BlocksAreCounted
  <2> QED
    BY <1>1, <1>2, <1>3, <1>4, <1>8, <2>2, <2>3, <2>6 DEF Inv
<1> QED
  BY <1>6, <1>7, <1>8, ReceivesFacts

(* A caller that closes the reader leaves the limits as they are.          *)
LEMMA CallerClosesInv == Inv /\ CallerCloses => Inv'
<1> SUFFICES ASSUME Inv, CallerCloses PROVE Inv'
  OBVIOUS
<1>1. /\ pipe' = [pipe EXCEPT !.recvClosed = TRUE]
      /\ (end' = "closed" /\ received' = <<>>) \/ UNCHANGED <<end, received>>
      /\ UNCHANGED <<provider, framing, ctx, counts, record, line, result, decoderVars,
                     producer, item, seen, produced>>
  BY DEF CallerCloses, bodyVars, producerVars
<1>2. BodyTyped' /\ BytesAreCounted' /\ EndIsFinal'
  BY <1>1, StepWithoutTheBody DEF Inv, BodyTyped
<1>3. DecoderTyped' /\ DecoderStops'
  BY <1>1, SameDecoder
<1>4. pipe' \in Pipes(Items)
  <2>1. pipe \in Pipes(Items)
    BY DEF Inv, StreamTyped
  <2> QED
    BY <1>1, <2>1, ClosedProperties
<1>5. StreamTyped'
  <2>1. received' \in Seq(Messages) /\ end' \in {"open", "EOF", "error", "closed"}
    <3>1. <<>> \in Seq(Messages) /\ received \in Seq(Messages)
          /\ end \in {"open", "EOF", "error", "closed"}
      BY DEF Inv, StreamTyped
    <3>2. received' \in {received, <<>>} /\ end' \in {end, "closed"}
      BY <1>1
    <3> QED
      BY <3>1, <3>2
  <2> QED
    BY <1>1, <1>4, <2>1 DEF Inv, StreamTyped
<1>6. BlocksAreCounted'
  BY <1>1 DEF Inv, BlocksAreCounted
<1> QED
  BY <1>2, <1>3, <1>5, <1>6 DEF Inv

(* Every step keeps the invariant of the limits.                           *)
LEMMA NextInv == Inv /\ [Next]_vars => Inv'
<1> SUFFICES ASSUME Inv, [Next]_vars PROVE Inv'
  OBVIOUS
<1>1. CASE UNCHANGED vars
  <2>1. UNCHANGED <<provider, framing, ctx, counts, record, line, result, decoderVars,
                    producer, item, pipe, produced, seen, received, end>>
    BY <1>1 DEF vars, bodyVars, producerVars, callerVars
  <2>2. BodyTyped' /\ BytesAreCounted' /\ EndIsFinal'
    BY <2>1, StepWithoutTheBody DEF Inv, BodyTyped
  <2>3. StreamTyped' /\ BlocksAreCounted'
    BY <2>1, StepWithoutTheCaller DEF Inv, StreamTyped
  <2>4. DecoderTyped' /\ DecoderStops'
    BY <2>1, SameDecoder
  <2> QED
    BY <2>2, <2>3, <2>4 DEF Inv
<1> QED
  BY <1>1, RequestSucceedsInv, RequestFailsInv, ReadsByteInv, RefusesInv, ReadEndsInv,
     SendsInv, ConcludesInv, ClosesInv, CancelInv, CallerReceivesInv, CallerClosesInv
  DEF Next, Produces

(* The invariant of the limits holds in every reachable state.             *)
THEOREM InvHolds == Spec => []Inv
<1> QED
  BY InitInv, NextInv, PTL DEF Spec

(* The limits are exact (agentic_http.go, validateStreamAgenticContent-    *)
(* Blocks): no more bytes of a record, or of the response, than allowed    *)
(* reach the decoder, a byte is refused only at the limit, and the caller  *)
(* is given blocks under at most MaxBlocks indexes.                        *)
THEOREM LimitsHold == Spec => []LimitsAreExact
<1>1. Inv => LimitsAreExact
  <2> SUFFICES ASSUME Inv PROVE LimitsAreExact
    OBVIOUS
  <2>1. /\ Records => Len(record) <= MaxEventBytes
        /\ counts.read <= MaxResponseBytes
    BY DEF Inv, BytesAreCounted, Records
  <2>2. result = "limit" =>
          counts.read = MaxResponseBytes \/ (Records /\ Len(record) = MaxEventBytes)
    <3> SUFFICES ASSUME result = "limit"
                 PROVE  counts.read = MaxResponseBytes
                        \/ (Records /\ Len(record) = MaxEventBytes)
      OBVIOUS
    <3>1. counts \in [read : Nat, event : Nat, lineEmpty : BOOLEAN]
      BY DEF Inv, BodyTyped
    <3>2. counts.read >= MaxResponseBytes
          \/ (framing # "none" /\ counts.event >= MaxEventBytes)
      BY DEF Inv, EndIsFinal, Exceeded
    <3>3. CASE counts.read >= MaxResponseBytes
      BY <2>1, <3>1, <3>3, AgenticBodyAssumption
    <3>4. CASE framing # "none" /\ counts.event >= MaxEventBytes
      <4>1. counts.event = Len(record) /\ counts.event <= MaxEventBytes
        BY <3>4 DEF Inv, BytesAreCounted
      <4> QED
        BY <3>1, <3>4, <4>1, AgenticBodyAssumption DEF Records
    <3> QED
      BY <3>2, <3>3, <3>4
  <2>3. Cardinality({b.index : b \in UNION {BlocksOf(received[k]) : k \in DOMAIN received}})
          <= MaxBlocks
    <3> DEFINE S == {b.index : b \in UNION {BlocksOf(received[k]) : k \in DOMAIN received}}
    <3>1. received \in Seq(Messages) /\ seen \in SUBSET BlockIndexes
      BY DEF Inv, StreamTyped
    <3>2. DOMAIN received = 1 .. Len(received)
      BY <3>1, LenProperties
    <3>3. ASSUME NEW k \in 1 .. Len(received), NEW b \in BlocksOf(received[k])
          PROVE  b.index \in seen
      <4>1. received[k] \in Messages
        BY <3>1
      <4>2. PICK j \in 1 .. Len(received[k].blocks) : b = received[k].blocks[j]
        BY <4>1, BlocksOfAMessage
      <4> QED
        BY <4>2 DEF Inv, BlocksAreCounted
    <3>4. S \subseteq seen
      BY <3>2, <3>3
    <3>5. CASE received = <<>>
      <4>1. S = {}
        BY <3>2, <3>5
      <4> QED
        BY <4>1, FS_EmptySet, AgenticStreamAssumption
    <3>6. CASE received # <<>>
      <4>1. Cardinality(seen) <= MaxBlocks
        BY <3>6 DEF Inv, BlocksAreCounted
      <4>2. IsFiniteSet(seen) /\ Cardinality(seen) \in Nat /\ Cardinality(S) \in Nat
        BY <3>1, <3>4, SeenIsFinite
      <4> HIDE DEF S
      <4>3. Cardinality(S) <= Cardinality(seen)
        BY <3>4, <4>2, FS_Subset
      <4>4. MaxBlocks \in Nat
        BY AgenticStreamAssumption
      <4>5. Cardinality(S) <= MaxBlocks
        BY <4>1, <4>2, <4>3, <4>4
      <4> QED
        BY <4>5 DEF S
    <3> QED
      BY <3>5, <3>6
  <2> QED
    BY <2>1, <2>2, <2>3 DEF LimitsAreExact
<1> QED
  BY <1>1, InvHolds, PTL

-----------------------------------------------------------------------------
(* The invariant of the answer *)

Phases  == {"none", "open", "done"}
Servers == [calls : [Indexes -> [phase : Phases, args : Seq(Int)]],
            texts : Nat, padding : Nat, over : BOOLEAN]

(* The server has ended its answer when an event says so, and not before.  *)
AnswerEnds ==
  /\ server \in Servers
  /\ provider # "claude" => NoneIsOpen
  /\ Ends(line.event) \/ Ends(data) \/ complete => server.over /\ NoneIsOpen
  /\ line.event # NoEvent => line.len # 0
  /\ result \notin {"none", "long"} => line = NewLine(NoEvent)

(* Nothing is left of a body whose answer is complete: Codex, which scans  *)
(* on, finds only its end.                                                 *)
CompleteIsTheEnd ==
  complete =>
    /\ provider = "codex" => data = NoEvent
    /\ provider # "codex" \/ result # "long" => line.event = NoEvent
    /\ provider = "codex" /\ result = "none" => line = NewLine(NoEvent)

(* The messages of the answer are those the caller has, and those before   *)
(* it.  An error is the last thing that is sent, and before EOF the writer *)
(* is closed.                                                              *)
Answer == received \o pipe.queue
Broken == \E k \in 1 .. Len(pipe.queue) : pipe.queue[k].type = "error"
Good   == end = "open" /\ ~Broken
Left   == producer \in {"exit", "close", "done"}

PipeIsInOrder ==
  /\ producer = "send" => item.type \in {"message", "error"}
  /\ \A k \in 1 .. Len(pipe.queue) : pipe.queue[k].type \in {"message", "error"}
  /\ Broken => Left
  /\ pipe.recvClosed => end # "open"
  /\ pipe.sendClosed => producer \in {"close", "done"}
  /\ end = "EOF" => pipe.sendClosed
  /\ Good => Len(Answer) = produced

(* What is certain to end with an error: one is about to be sent, or will  *)
(* be when the data are dispatched or the goroutine finds how the scanner  *)
(* ended.                                                                  *)
Doomed ==
  \/ producer = "send" /\ item.type = "error"
  \/ data.type \in {"garbled", "failed"}
  \/ result \notin {"none", "EOF"} /\ (provider # "codex" => ~complete)

Held == IF producer = "send" THEN One(item) ELSE 0

(* Every text is on its way, and the last message comes last.              *)
AnswerIsCounted ==
  Good /\ ~Doomed /\ ~Left =>
    /\ Texts(Answer) + Held + Text(data) + Text(line.event) = server.texts
    /\ complete => IF producer = "send" THEN item.last
                   ELSE Answer # <<>> /\ Answer[Len(Answer)].last

(* A goroutine that has left without an error has sent the whole answer.   *)
AnswerIsWhole ==
  Good /\ Left => /\ complete /\ Answer # <<>> /\ Answer[Len(Answer)].last
                  /\ Texts(Answer) = server.texts

AnswerInv ==
  /\ AnswerEnds /\ CompleteIsTheEnd /\ PipeIsInOrder
  /\ AnswerIsCounted /\ AnswerIsWhole /\ EOFIsAnAnswer

(* One item more is one text more if it has text.                          *)
LEMMA TextsOfAppend ==
  ASSUME NEW s \in Seq(Items), NEW i \in Items
  PROVE  /\ Texts(s) \in Nat /\ Texts(Append(s, i)) \in Nat
         /\ Texts(Append(s, i)) = Texts(s) + One(i)
<1> DEFINE n == Len(s)
           t == Append(s, i)
           S == {k \in DOMAIN s : HasText(s[k])}
           T == {k \in DOMAIN t : HasText(t[k])}
<1>0. Texts(s) = Cardinality(S) /\ Texts(Append(s, i)) = Cardinality(T)
  BY DEF Texts
<1>1. n \in Nat /\ DOMAIN s = 1 .. n
  BY LenProperties
<1>2. /\ t \in Seq(Items) /\ Len(t) = n + 1 /\ t[n + 1] = i
      /\ \A k \in 1 .. n : t[k] = s[k]
  BY AppendProperties
<1>3. DOMAIN t = 1 .. n + 1
  <2> HIDE DEF t
  <2> QED
    BY <1>2, LenProperties
<1> HIDE DEF n, t
<1>4. IsFiniteSet(S) /\ Cardinality(S) \in Nat
  <2>1. IsFiniteSet(1 .. n)
    BY <1>1, FS_Interval
  <2>2. S \in SUBSET (1 .. n)
    BY <1>1
  <2> QED
    BY <2>1, <2>2, FS_Subset, FS_CardinalityType
<1>5. n + 1 \notin S /\ 1 .. n + 1 = (1 .. n) \cup {n + 1}
  BY <1>1
<1>6. CASE HasText(i)
  <2>1. T = S \cup {n + 1}
    BY <1>1, <1>2, <1>3, <1>5, <1>6
  <2>2. Cardinality(T) = Cardinality(S) + 1
    BY <1>4, <1>5, <2>1, FS_AddElement
  <2>3. One(i) = 1
    BY <1>6 DEF One
  <2> HIDE DEF S, T
  <2> QED
    BY <1>4, <1>0, <2>2, <2>3
<1>7. CASE ~HasText(i)
  <2>1. T = S
    BY <1>1, <1>2, <1>3, <1>5, <1>7
  <2>2. One(i) = 0
    BY <1>7 DEF One
  <2> HIDE DEF S, T
  <2> QED
    BY <1>4, <1>0, <2>1, <2>2
<1> QED
  BY <1>6, <1>7

(* What the answer is made of.                                             *)
LEMMA AnswerTypes ==
  ASSUME Inv
  PROVE  /\ received \in Seq(Items) /\ pipe.queue \in Seq(Items) /\ Answer \in Seq(Items)
         /\ Texts(Answer) \in Nat /\ Len(Answer) = Len(received) + Len(pipe.queue)
         /\ Len(received) \in Nat /\ Len(pipe.queue) \in Nat
<1>1. received \in Seq(Messages) /\ pipe.queue \in Seq(Items)
  BY DEF Inv, StreamTyped, Pipes
<1>2. Messages \subseteq Items
  BY DEF Items
<1>3. received \in Seq(Items)
  BY <1>1, <1>2, SeqMonotonic
<1>4. Answer \in Seq(Items) /\ Len(Answer) = Len(received) + Len(pipe.queue)
  BY <1>1, <1>3, ConcatProperties DEF Answer
<1>5. EOFItem \in Items
  BY DEF Items
<1> QED
  BY <1>1, <1>3, <1>4, <1>5, TextsOfAppend, LenProperties

(* The invariant of the answer holds at first, when nothing was sent.      *)
LEMMA InitAnswerInv == Init => AnswerInv
<1> SUFFICES ASSUME Init PROVE AnswerInv
  OBVIOUS
<1> USE DEF Init
<1>1. pipe.queue = <<>> /\ ~pipe.sendClosed /\ ~pipe.recvClosed /\ received = <<>>
  BY NewPipeType
<1>2. Answer = <<>> /\ Len(Answer) = 0 /\ Texts(Answer) = 0
  <2>1. Answer = <<>>
    BY <1>1 DEF Answer
  <2>2. {k \in DOMAIN Answer : HasText(Answer[k])} = {}
    BY <2>1
  <2> QED
    BY <2>1, <2>2, FS_EmptySet DEF Texts
<1>3. AnswerEnds
  <2>1. server \in Servers
    BY DEF Servers, Phases
  <2>2. NoneIsOpen
    BY DEF NoneIsOpen
  <2>3. ~Ends(line.event) /\ ~Ends(data) /\ ~complete /\ line.event = NoEvent /\ result = "none"
    BY KindsOfEvent
  <2> QED
    BY <2>1, <2>2, <2>3 DEF AnswerEnds
<1>4. CompleteIsTheEnd
  BY DEF CompleteIsTheEnd
<1>5. PipeIsInOrder
  BY <1>1, <1>2 DEF PipeIsInOrder, Broken
<1>6. AnswerIsCounted
  <2>1. Text(data) = 0 /\ Text(line.event) = 0 /\ Held = 0 /\ server.texts = 0
    BY KindsOfEvent DEF Held
  <2> QED
    BY <1>2, <2>1 DEF AnswerIsCounted
<1>7. AnswerIsWhole /\ EOFIsAnAnswer
  BY DEF AnswerIsWhole, Left, EOFIsAnAnswer
<1> QED
  BY <1>3, <1>4, <1>5, <1>6, <1>7 DEF AnswerInv

(* A step that neither reads nor decodes.                                  *)
LEMMA StepWithoutTheDecoder ==
  ASSUME AnswerInv, UNCHANGED <<provider, server, line, data, complete, result>>
  PROVE  AnswerEnds' /\ CompleteIsTheEnd'
<1>1. NoneIsOpen' <=> NoneIsOpen
  BY DEF NoneIsOpen
<1>2. AnswerEnds'
  BY <1>1 DEF AnswerInv, AnswerEnds
<1>3. CompleteIsTheEnd'
  BY DEF AnswerInv, CompleteIsTheEnd
<1> QED
  BY <1>2, <1>3

(* A step that neither sends nor receives.                                 *)
LEMMA SameAnswer ==
  ASSUME pipe'.queue = pipe.queue, UNCHANGED <<received, end>>
  PROVE  Answer' = Answer /\ (Broken' <=> Broken) /\ (Good' <=> Good)
BY DEF Answer, Broken, Good

(* What was the answer at EOF still is.                                    *)
LEMMA SameEOF ==
  ASSUME EOFIsAnAnswer, UNCHANGED <<server, complete, received, produced, end>>
  PROVE  EOFIsAnAnswer'
<1>1. NoneIsOpen' <=> NoneIsOpen
  BY DEF NoneIsOpen
<1> QED
  BY <1>1 DEF EOFIsAnAnswer

(* A step in which nothing is decoded, sent or received, and the goroutine *)
(* neither begins to send nor leaves.                                      *)
LEMMA StepWithoutTheAnswer ==
  ASSUME AnswerInv,
         UNCHANGED <<provider, server, line, decoderVars, result, item, produced, received,
                     end>>,
         pipe'.queue = pipe.queue, pipe'.recvClosed = pipe.recvClosed,
         pipe'.sendClosed => pipe.sendClosed \/ producer' \in {"close", "done"},
         pipe.sendClosed => pipe'.sendClosed /\ producer' \in {"close", "done"},
         producer' # producer => producer' # "send" /\ producer # "send",
         Left' <=> Left
  PROVE  AnswerInv'
<1>0. UNCHANGED <<data, complete>>
  BY DEF decoderVars
<1>1. Answer' = Answer /\ (Broken' <=> Broken) /\ (Good' <=> Good)
  BY SameAnswer
<1>2. AnswerEnds' /\ CompleteIsTheEnd'
  BY <1>0, StepWithoutTheDecoder
<1>3. PipeIsInOrder'
  BY <1>1 DEF AnswerInv, PipeIsInOrder
<1>4. AnswerIsCounted'
  <2>1. (Doomed' <=> Doomed) /\ Held' = Held
    BY <1>0 DEF Doomed, Held
  <2> QED
    BY <1>0, <1>1, <2>1 DEF AnswerInv, AnswerIsCounted
<1>5. AnswerIsWhole'
  BY <1>0, <1>1 DEF AnswerInv, AnswerIsWhole
<1>6. EOFIsAnAnswer'
  BY <1>0, SameEOF DEF AnswerInv
<1> QED
  BY <1>2, <1>3, <1>4, <1>5, <1>6 DEF AnswerInv

(* The request; a caller that has failed there has no answer.              *)
LEMMA RequestAnswerInv ==
  ASSUME NEW b
  PROVE  Inv /\ AnswerInv /\ (RequestSucceeds \/ RequestFails(b)) => AnswerInv'
<1> SUFFICES ASSUME Inv, AnswerInv, RequestSucceeds \/ RequestFails(b) PROVE AnswerInv'
  OBVIOUS
<1>1. producer = "request" /\ ~pipe.sendClosed
      /\ UNCHANGED <<provider, server, line, decoderVars, result, item, pipe, produced,
                     received>>
  BY DEF RequestSucceeds, RequestFails, AnswerInv, PipeIsInOrder, callerVars
<1>2. CASE RequestSucceeds
  <2>1. producer' = "scan" /\ end' = end
    BY <1>2 DEF RequestSucceeds, callerVars
  <2>2. Left' <=> Left
    BY <1>1, <2>1 DEF Left
  <2> QED
    BY <1>1, <2>1, <2>2, StepWithoutTheAnswer
<1>3. CASE RequestFails(b)
  <2>1. producer' = "done" /\ end' = "error"
    BY <1>3 DEF RequestFails
  <2>2. ~Good'
    BY <2>1 DEF Good
  <2>3. AnswerEnds' /\ CompleteIsTheEnd'
    BY <1>1, StepWithoutTheDecoder DEF decoderVars
  <2>4. PipeIsInOrder'
    BY <1>1, <2>1, <2>2 DEF AnswerInv, PipeIsInOrder, Broken, Left
  <2>5. AnswerIsCounted' /\ AnswerIsWhole' /\ EOFIsAnAnswer'
    BY <2>1, <2>2 DEF AnswerIsCounted, AnswerIsWhole, EOFIsAnAnswer
  <2> QED
    BY <2>3, <2>4, <2>5 DEF AnswerInv
<1> QED
  BY <1>2, <1>3

-----------------------------------------------------------------------------
(* The server, and what is read of it *)

(* What the server sends of its answer.                                    *)
LEMMA EventSent ==
  ASSUME Inv, AnswerInv, NEW e \in Events(provider), SendsEvent(e)
  PROVE  /\ server' \in Servers /\ server'.texts = server.texts + Text(e)
         /\ provider # "claude" => NoneIsOpen'
         /\ Ends(e) => server'.over /\ NoneIsOpen'
<1>1. server \in Servers /\ (provider # "claude" => NoneIsOpen)
  BY DEF AnswerInv, AnswerEnds
<1>2. /\ server.calls \in [Indexes -> [phase : Phases, args : Seq(Int)]]
      /\ server.texts \in Nat /\ server.padding \in Nat /\ server.over \in BOOLEAN
  BY <1>1 DEF Servers
<1>3. ASSUME UNCHANGED server.calls
      PROVE  NoneIsOpen' <=> NoneIsOpen
  BY <1>3 DEF NoneIsOpen
<1>4. CASE e.type = "text" /\ server' = [server EXCEPT !.texts = @ + 1]
  <2>1. server' \in Servers /\ server'.texts = server.texts + 1 /\ server'.calls = server.calls
    BY <1>1, <1>2, <1>4 DEF Servers
  <2> QED
    BY <1>1, <1>3, <1>4, <2>1, KindsOfEvent
<1>5. CASE e.type = "ignored" /\ server' = [server EXCEPT !.padding = @ + 1]
  <2>1. server' \in Servers /\ server'.texts = server.texts /\ server'.calls = server.calls
    BY <1>1, <1>2, <1>5 DEF Servers
  <2>2. Text(e) = 0 /\ ~Ends(e)
    BY <1>5, KindsOfEvent
  <2> QED
    BY <1>1, <1>2, <1>3, <2>1, <2>2
<1>6. CASE /\ e.type \in {"end", "failed", "garbled"}
           /\ e.type = "end" => NoneIsOpen
           /\ server' = [server EXCEPT !.over = TRUE]
  <2>1. /\ server' \in Servers /\ server'.texts = server.texts /\ server'.calls = server.calls
        /\ server'.over
    BY <1>1, <1>2, <1>6 DEF Servers
  <2>2. Text(e) = 0 /\ (Ends(e) => e.type = "end")
    BY <1>6, KindsOfEvent
  <2> QED
    BY <1>1, <1>2, <1>3, <1>6, <2>1, <2>2
<1>7. CASE SendsClaude(e)
  <2>1. /\ e.type \in {"open", "args", "stop"}
        /\ \/ server' = [server EXCEPT !.calls[e.index].phase = "open"]
           \/ server' = [server EXCEPT !.calls[e.index].args = Append(@, e.token)]
              /\ e.type = "args"
           \/ server' = [server EXCEPT !.calls[e.index].phase = "done"]
    BY <1>7 DEF SendsClaude
  <2>2. provider = "claude"
    <3>1. provider \in {"claude", "ollama", "codex"}
      BY DEF Inv, BodyTyped
    <3>2. provider # "ollama"
      BY <2>1, OllamaEvents
    <3>3. provider # "codex"
      BY <2>1, CodexEvents
    <3> QED
      BY <3>1, <3>2, <3>3
  <2>3. e.index \in Indexes /\ (e.type = "args" => e.token \in Int)
    BY <2>1, <2>2, ClaudeEvents
  <2>4. Text(e) = 0 /\ ~Ends(e)
    BY <2>1, KindsOfEvent
  <2>5. server' \in Servers /\ server'.texts = server.texts
    <3> DEFINE call == server.calls[e.index]
    <3>1. call \in [phase : Phases, args : Seq(Int)]
      BY <1>2, <2>3
    <3>2. ASSUME NEW c \in [phase : Phases, args : Seq(Int)],
                 server' = [server EXCEPT !.calls[e.index] = c]
          PROVE  server' \in Servers /\ server'.texts = server.texts
      BY <1>1, <1>2, <2>3, <3>2 DEF Servers
    <3>3. /\ [call EXCEPT !.phase = "open"] \in [phase : Phases, args : Seq(Int)]
          /\ [call EXCEPT !.phase = "done"] \in [phase : Phases, args : Seq(Int)]
      BY <3>1 DEF Phases
    <3>4. e.type = "args" =>
            [call EXCEPT !.args = Append(@, e.token)] \in [phase : Phases, args : Seq(Int)]
      <4>1. call.args \in Seq(Int)
        BY <3>1
      <4> HIDE DEF call
      <4>2. e.type = "args" => Append(call.args, e.token) \in Seq(Int)
        BY <2>3, <4>1
      <4> QED
        BY <3>1, <4>2
    <3>5. \/ server' = [server EXCEPT !.calls[e.index] = [call EXCEPT !.phase = "open"]]
          \/ server' = [server EXCEPT !.calls[e.index] = [call EXCEPT !.phase = "done"]]
          \/ /\ server' = [server EXCEPT !.calls[e.index] =
                             [call EXCEPT !.args = Append(@, e.token)]]
             /\ e.type = "args"
      BY <1>1, <2>1, <2>3 DEF Servers
    <3> HIDE DEF call
    <3> QED
      BY <3>2, <3>3, <3>4, <3>5
  <2> QED
    BY <1>2, <2>2, <2>4, <2>5
<1>8. CASE SendsOllama(e)
  <2> DEFINE n == Cardinality(Started)
             c == [i \in Indexes |-> IF i \in n + 1 .. n + e.calls
                                     THEN [phase |-> "done", args |-> <<i>>]
                                     ELSE server.calls[i]]
  <2>1. /\ e.type = "record"
        /\ \E p \in {0, 1} :
             server' = [server EXCEPT !.calls = c, !.texts = @ + e.texts,
                                      !.padding = @ + p, !.over = e.done]
    BY <1>1, <1>8 DEF SendsOllama, Servers
  <2>2. provider = "ollama"
    <3>1. provider \in {"claude", "ollama", "codex"}
      BY DEF Inv, BodyTyped
    <3> QED
      BY <2>1, <3>1, ClaudeEvents, CodexEvents
  <2>3. e.texts \in 0 .. 1 /\ e.done \in BOOLEAN
    BY <2>1, <2>2, OllamaEvents
  <2>4. c \in [Indexes -> [phase : Phases, args : Seq(Int)]]
    <3>1. ASSUME NEW i \in Indexes
          PROVE  /\ [phase |-> "done", args |-> <<i>>] \in [phase : Phases, args : Seq(Int)]
                 /\ server.calls[i] \in [phase : Phases, args : Seq(Int)]
      <4>1. i \in Int
        BY DEF Indexes
      <4> QED
        BY <1>2, <4>1 DEF Phases
    <3> QED
      BY <3>1
  <2>5. \A i \in Indexes : c[i].phase # "open"
    BY <1>1, <2>2 DEF NoneIsOpen
  <2> HIDE DEF c
  <2>6. /\ server' \in Servers /\ server'.calls = c /\ server'.over = e.done
        /\ server'.texts = server.texts + e.texts
    <3>1. PICK p \in {0, 1} :
            server' = [server EXCEPT !.calls = c, !.texts = @ + e.texts,
                                     !.padding = @ + p, !.over = e.done]
      BY <2>1
    <3>2. server' = [calls |-> c, texts |-> server.texts + e.texts,
                     padding |-> server.padding + p, over |-> e.done]
      BY <1>1, <3>1 DEF Servers
    <3>3. server.texts + e.texts \in Nat /\ server.padding + p \in Nat
      BY <1>2, <2>3
    <3> QED
      BY <2>3, <2>4, <3>2, <3>3 DEF Servers
  <2>7. NoneIsOpen'
    BY <2>5, <2>6 DEF NoneIsOpen
  <2>8. Text(e) = e.texts
    BY <2>1, <2>3 DEF Text
  <2> QED
    BY <2>1, <2>6, <2>7, <2>8, KindsOfEvent
<1>9. CASE SendsCodex(e)
  <2>1. /\ e.type = "call"
        /\ server' = [server EXCEPT !.calls[e.index] = [phase |-> "done", args |-> <<e.index>>]]
    BY <1>9 DEF SendsCodex
  <2>2. provider = "codex"
    <3>1. provider \in {"claude", "ollama", "codex"}
      BY DEF Inv, BodyTyped
    <3> QED
      BY <2>1, <3>1, ClaudeEvents, OllamaEvents
  <2>3. e.index \in Indexes /\ e.index \in Int
    BY <2>1, <2>2, CodexEvents DEF Indexes
  <2>4. [phase |-> "done", args |-> <<e.index>>] \in [phase : Phases, args : Seq(Int)]
    BY <2>3 DEF Phases
  <2>5. /\ server' \in Servers /\ server'.texts = server.texts
        /\ \A i \in Indexes : server'.calls[i] = IF i = e.index
                                THEN [phase |-> "done", args |-> <<e.index>>]
                                ELSE server.calls[i]
    BY <1>1, <1>2, <2>1, <2>3, <2>4 DEF Servers
  <2>6. NoneIsOpen'
    BY <1>1, <2>2, <2>5 DEF NoneIsOpen
  <2>7. Text(e) = 0 /\ ~Ends(e)
    BY <2>1, KindsOfEvent
  <2> QED
    BY <1>2, <2>5, <2>6, <2>7
<1> QED
  BY <1>4, <1>5, <1>6, <1>7, <1>8, <1>9 DEF SendsEvent

(* A newline says nothing new, a part of a line next to nothing, and an    *)
(* event is the first of its line; after the end there are newlines only.  *)
LEMMA ByteSent ==
  ASSUME Inv, AnswerInv, NEW byte \in Bytes, ServerSends(byte)
  PROVE  /\ server' \in Servers /\ (provider # "claude" => NoneIsOpen')
         /\ byte = Newline => server' = server /\ (line.event # NoEvent \/ OwesBlank)
         /\ byte # Newline => ~server.over /\ line.event = NoEvent
         /\ byte = Part => server'.texts = server.texts
         /\ byte # Newline /\ byte # Part =>
              /\ byte \in Events(provider) /\ server'.texts = server.texts + Text(byte)
              /\ Ends(byte) => server'.over /\ NoneIsOpen'
<1>1. server \in Servers /\ (provider # "claude" => NoneIsOpen)
  BY DEF AnswerInv, AnswerEnds
<1>2. CASE byte = Newline /\ UNCHANGED server /\ (line.event # NoEvent \/ OwesBlank)
  <2>1. (NoneIsOpen' <=> NoneIsOpen) /\ byte # Part
    BY <1>2 DEF NoneIsOpen, Newline, Part
  <2> QED
    BY <1>1, <1>2, <2>1
<1>3. ASSUME ~server.over, line.event = NoEvent,
             byte = Part, server' = [server EXCEPT !.padding = @ + 1]
      PROVE  byte # Newline /\ server' \in Servers /\ server'.texts = server.texts
             /\ (provider # "claude" => NoneIsOpen')
  <2>1. byte # Newline /\ server' \in Servers /\ server'.texts = server.texts
        /\ server'.calls = server.calls
    BY <1>1, <1>3 DEF Servers, Newline, Part
  <2> QED
    BY <1>1, <2>1 DEF NoneIsOpen
<1>4. ASSUME ~server.over, line.event = NoEvent,
             byte \in Events(provider), SendsEvent(byte)
      PROVE  /\ byte # Newline /\ byte # Part
             /\ server' \in Servers /\ (provider # "claude" => NoneIsOpen')
             /\ server'.texts = server.texts + Text(byte)
             /\ Ends(byte) => server'.over /\ NoneIsOpen'
  <2>1. byte.type \notin {"newline", "part"}
    <3>1. provider \in {"claude", "ollama", "codex"}
      BY DEF Inv, BodyTyped
    <3> QED
      BY <1>4, <3>1, ClaudeEvents, OllamaEvents, CodexEvents
  <2>2. byte # Newline /\ byte # Part
    BY <2>1 DEF Newline, Part
  <2> QED
    BY <1>4, <2>2, EventSent
<1> QED
  BY <1>2, <1>3, <1>4 DEF ServerSends

(* The text is kept: what the line, or the end of it, brings to the        *)
(* decoder is in the data, in the item, or in neither because of an error. *)
LEMMA DecodingKeepsTheAnswer ==
  ASSUME Inv, AnswerInv, Inv', producer \in {"scan", "ended"}, NEW e, NEW r, Decodes(e, r),
         UNCHANGED <<provider, pipe, produced, received, end>>,
         complete => producer' # "send",
         result \in {"none", "EOF"} \/ Doomed',
         server' \in Servers,
         ~Doomed' => server'.texts + Text(line.event)
                       = server.texts + Text(e) + Text(line'.event)
  PROVE  PipeIsInOrder' /\ AnswerIsCounted' /\ AnswerIsWhole' /\ EOFIsAnAnswer'
<1>1. Answer' = Answer /\ (Broken' <=> Broken) /\ (Good' <=> Good)
  BY SameAnswer
<1>2. /\ producer' \in {"scan", "send", "ended"} /\ Outcome(e)
      /\ data.type \in {"garbled", "failed"} =>
           data'.type \in {"garbled", "failed"} \/ (producer' = "send" /\ item'.type = "error")
  BY DEF Decodes
<1>3. ~Left /\ ~Left'
  BY <1>2 DEF Left
<1>4. PipeIsInOrder'
  <2>1. producer' = "send" => item'.type \in {"message", "error"}
    BY <1>2 DEF Outcome
  <2> QED
    BY <1>1, <1>3, <2>1 DEF AnswerInv, PipeIsInOrder
<1>5. AnswerIsWhole' /\ EOFIsAnAnswer'
  BY <1>3 DEF AnswerIsWhole, EOFIsAnAnswer, AnswerInv, PipeIsInOrder
<1>6. AnswerIsCounted'
  <2> SUFFICES ASSUME Good', ~Doomed'
               PROVE  /\ Texts(Answer') + Held' + Text(data') + Text(line'.event)
                           = server'.texts
                      /\ complete' => IF producer' = "send" THEN item'.last
                                      ELSE Answer' # <<>> /\ Answer'[Len(Answer')].last
    BY DEF AnswerIsCounted
  <2>1. Good /\ ~Doomed /\ ~Left
    BY <1>1, <1>2, <1>3 DEF Doomed
  <2>2. /\ Texts(Answer) + Text(data) + Text(line.event) = server.texts
        /\ complete => Answer # <<>> /\ Answer[Len(Answer)].last
    <3>1. Held = 0 /\ Texts(Answer) \in Nat
      BY AnswerTypes DEF Held
    <3>2. /\ Texts(Answer) + Held + Text(data) + Text(line.event) = server.texts
          /\ complete => Answer # <<>> /\ Answer[Len(Answer)].last
      BY <2>1 DEF AnswerInv, AnswerIsCounted
    <3> QED
      BY <3>1, <3>2 DEF Text
  <2>3. Held' + Text(data') = Text(data) + Text(e)
        /\ (complete' => IF producer' = "send" THEN item'.last ELSE complete)
    <3>1. ~(producer' = "send" /\ item'.type = "error") /\ data'.type # "garbled"
      BY DEF Doomed
    <3>2. CASE /\ producer' = "send" /\ One(item') + Text(data') = Text(data) + Text(e)
               /\ \/ complete' = complete
                  \/ complete' /\ item'.last /\ (Ends(e) \/ Ends(data)) /\ data' = NoEvent
      <4>1. Held' = One(item')
        BY <3>2 DEF Held
      <4> QED
        BY <3>2, <4>1
    <3>3. CASE /\ producer' # "send" /\ complete' = complete
               /\ Text(data') = Text(data) + Text(e)
      <4>1. Held' = 0
        BY <3>3 DEF Held
      <4>2. Held' + Text(data') = Text(data')
        BY <4>1 DEF Text
      <4> QED
        BY <3>3, <4>2
    <3> QED
      BY <1>2, <3>1, <3>2, <3>3 DEF Outcome
  <2>4. /\ Texts(Answer) \in Nat /\ server.texts \in Nat /\ server'.texts \in Nat
        /\ Held' \in Nat /\ \A x : Text(x) \in Nat
    BY AnswerTypes DEF AnswerInv, AnswerEnds, Servers, Held, One, Text
  <2>5. server'.texts + Text(line.event) = server.texts + Text(e) + Text(line'.event)
    OBVIOUS
  <2>6. Texts(Answer') + Held' + Text(data') + Text(line'.event) = server'.texts
    <3>1. ASSUME NEW a \in Nat, NEW h \in Nat, NEW d \in Nat, NEW l \in Nat, NEW t \in Nat,
                 NEW dd \in Nat, NEW ll \in Nat, NEW s \in Nat, NEW ss \in Nat,
                 a + d + l = s, h + dd = d + t, ss + l = s + t + ll
          PROVE  a + h + dd + ll = ss
      BY <3>1
    <3>2. /\ Text(data) \in Nat /\ Text(line.event) \in Nat /\ Text(e) \in Nat
          /\ Text(data') \in Nat /\ Text(line'.event) \in Nat
      BY <2>4
    <3>3. /\ Texts(Answer) \in Nat /\ Held' \in Nat
          /\ server.texts \in Nat /\ server'.texts \in Nat
          /\ Texts(Answer) + Text(data) + Text(line.event) = server.texts
          /\ Held' + Text(data') = Text(data) + Text(e)
      BY <2>2, <2>3, <2>4
    <3>4. Texts(Answer) + Held' + Text(data') + Text(line'.event) = server'.texts
      BY <2>5, <3>2, <3>3, <3>1
    <3> QED
      BY <1>1, <3>4
  <2> QED
    BY <1>1, <2>2, <2>3, <2>6
<1> QED
  BY <1>4, <1>5, <1>6

(* A byte is read.                                                         *)
LEMMA ReadsByteAnswerInv ==
  ASSUME NEW byte \in Bytes
  PROVE  Inv /\ AnswerInv /\ Inv' /\ ReadsByte(byte) => AnswerInv'
<1> SUFFICES ASSUME Inv, AnswerInv, Inv', ReadsByte(byte) PROVE AnswerInv'
  OBVIOUS
<1>1. /\ producer = "scan" /\ ServerSends(byte)
      /\ UNCHANGED <<provider, pipe, produced, received, end>>
  BY DEF ReadsByte, callerVars
<1>2. /\ result = "none" /\ line \in Lines /\ NoEvent \in LineEvents
      /\ provider # "codex" => data = NoEvent /\ ~complete
  BY <1>1 DEF Inv, BodyTyped, EndIsFinal, DecoderStops, LineEvents
<1>3. /\ server' \in Servers /\ (provider # "claude" => NoneIsOpen')
      /\ byte = Newline => server' = server /\ (line.event # NoEvent \/ OwesBlank)
      /\ byte # Newline => ~server.over /\ line.event = NoEvent
      /\ byte = Part => server'.texts = server.texts
      /\ byte # Newline /\ byte # Part =>
           /\ byte \in Events(provider) /\ server'.texts = server.texts + Text(byte)
           /\ Ends(byte) => server'.over /\ NoneIsOpen'
  BY <1>1, ByteSent
<1>4. ~complete
  <2>1. CASE byte # Newline
    BY <1>3, <2>1 DEF AnswerInv, AnswerEnds
  <2>2. CASE byte = Newline
    <3> SUFFICES ASSUME complete PROVE FALSE
      OBVIOUS
    <3>1. line = NewLine(NoEvent)
      BY <1>2 DEF AnswerInv, CompleteIsTheEnd, Inv, BodyTyped
    <3>2. line.event = NoEvent /\ line.above.type = "none"
      BY <3>1 DEF NewLine, NoEvent
    <3> QED
      BY <1>3, <2>2, <3>2 DEF OwesBlank
  <2> QED
    BY <2>1, <2>2
<1>5. Text(NoEvent) = 0 /\ ~Ends(NoEvent) /\ \A x : Text(x) \in Nat
  BY KindsOfEvent DEF Text
<1>6. server.texts \in Nat /\ server'.texts \in Nat
  BY <1>3 DEF AnswerInv, AnswerEnds, Servers
<1>7. CASE byte = Newline
  <2>1. /\ Handle(line.event, "none") /\ line' = NewLine(line.event) /\ result' = result
        /\ server' = server
    BY <1>3, <1>7 DEF ReadsByte
  <2>2. line'.event = NoEvent /\ line.event \in LineEvents
    BY <1>2, <2>1 DEF NewLine, Lines
  <2>3. Decodes(line.event, "none")
    BY <1>2, <2>1, <2>2, HandleDecodes DEF Inv, StreamTyped
  <2>4. AnswerEnds'
    <3>1. NoneIsOpen' <=> NoneIsOpen
      BY <2>1 DEF NoneIsOpen
    <3>2. Ends(data') \/ complete' => Ends(data) \/ Ends(line.event)
      BY <1>4, <2>3 DEF Decodes, Outcome
    <3>3. Ends(data) \/ Ends(line.event) => server.over /\ NoneIsOpen
      BY DEF AnswerInv, AnswerEnds
    <3>4. result' = "none" /\ ~Ends(line'.event)
      BY <1>2, <1>5, <2>1, <2>2
    <3> QED
      BY <1>1, <1>3, <2>1, <2>2, <3>1, <3>2, <3>3, <3>4 DEF AnswerEnds
  <2>5. CompleteIsTheEnd'
    <3> SUFFICES ASSUME complete'
                 PROVE  /\ data' = NoEvent /\ line'.event = NoEvent
                        /\ provider = "codex" => line' = NewLine(NoEvent)
      BY <1>1 DEF CompleteIsTheEnd
    <3>1. data' = NoEvent
      BY <1>4, <2>3 DEF Decodes, Outcome
    <3>2. provider = "codex" => line.event = NoEvent
      BY <1>4, <2>3 DEF Decodes
    <3> QED
      BY <2>1, <2>2, <3>1, <3>2
  <2>6. server'.texts + Text(line.event) = server.texts + Text(line.event) + Text(line'.event)
    BY <1>5, <1>6, <2>1, <2>2
  <2>7. PipeIsInOrder' /\ AnswerIsCounted' /\ AnswerIsWhole' /\ EOFIsAnAnswer'
    BY <1>1, <1>2, <1>3, <1>4, <2>3, <2>6, DecodingKeepsTheAnswer
  <2> QED
    BY <2>4, <2>5, <2>7 DEF AnswerInv
<1>8. CASE byte # Newline
  <2>1. /\ line' = [line EXCEPT !.len = @ + 1, !.event = IF byte = Part THEN @ ELSE byte]
        /\ (result' = "long" /\ Continues("long")) \/ (UNCHANGED result /\ Continues("none"))
        /\ UNCHANGED decoderVars
    BY <1>8 DEF ReadsByte
  <2>2. PICK r : Decodes(NoEvent, r)
    BY <2>1, ContinuingDecodes
  <2>3. /\ line.event = NoEvent /\ line.len \in Nat
        /\ line'.event = IF byte = Part THEN NoEvent ELSE byte
        /\ line'.len = line.len + 1
    BY <1>2, <1>3, <1>8, <2>1 DEF Lines
  <2>4. UNCHANGED <<data, complete>> /\ result' \in {"none", "long"}
    BY <1>2, <2>1 DEF decoderVars
  <2>5. AnswerEnds'
    <3>1. ~Ends(data') /\ ~complete'
      BY <1>3, <1>4, <1>8, <2>4 DEF AnswerInv, AnswerEnds
    <3>2. Ends(line'.event) => server'.over /\ NoneIsOpen'
      BY <1>3, <1>5, <1>8, <2>3
    <3>3. line'.len # 0
      BY <2>3
    <3> QED
      BY <1>1, <1>3, <2>4, <3>1, <3>2, <3>3 DEF AnswerEnds
  <2>6. CompleteIsTheEnd'
    BY <1>4, <2>4 DEF CompleteIsTheEnd
  <2>7. server'.texts + Text(line.event) = server.texts + Text(NoEvent) + Text(line'.event)
    <3>1. CASE byte = Part
      BY <1>3, <1>5, <1>6, <1>8, <2>3, <3>1
    <3>2. CASE byte # Part
      <4>1. server'.texts = server.texts + Text(byte) /\ line'.event = byte
        BY <1>3, <1>8, <2>3, <3>2
      <4> QED
        BY <1>5, <1>6, <2>3, <4>1
    <3> QED
      BY <3>1, <3>2
  <2>8. PipeIsInOrder' /\ AnswerIsCounted' /\ AnswerIsWhole' /\ EOFIsAnAnswer'
    BY <1>1, <1>2, <1>3, <1>4, <2>2, <2>7, DecodingKeepsTheAnswer
  <2> QED
    BY <2>5, <2>6, <2>8 DEF AnswerInv
<1> QED
  BY <1>7, <1>8

(* The scanner ends; what it has of a line may be the end of the answer.   *)
LEMMA ScanEndsAnswerInv ==
  ASSUME Inv, AnswerInv, Inv', producer = "scan",
         NEW r \in {"EOF", "failed", "limit"}, ScanEnds(r),
         server' \in Servers, provider # "claude" => NoneIsOpen',
         line.event # NoEvent \/ server.over \/ r # "limit" => server' = server
  PROVE  AnswerInv'
<1>1. /\ result' = r /\ line' = NewLine(NoEvent)
      /\ UNCHANGED <<provider, pipe, produced, received, end>>
  BY DEF ScanEnds, callerVars
<1>2. /\ result = "none" /\ line'.event = NoEvent
      /\ provider # "codex" => data = NoEvent /\ ~complete
  BY <1>1 DEF Inv, EndIsFinal, DecoderStops, NewLine
<1>3. PICK e \in LineEvents :
        /\ Decodes(e, r)
        /\ \/ line.len = 0 /\ e = NoEvent /\ UNCHANGED decoderVars /\ producer' # "send"
           \/ line.len # 0 /\ e \in Leftover
  BY ScanEndsDecodes
<1>4. Text(NoEvent) = 0 /\ ~Ends(NoEvent) /\ \A x : Text(x) \in Nat
  BY KindsOfEvent DEF Text
<1>5. Text(e) = Text(line.event) /\ (Ends(e) => Ends(line.event) /\ line.event # NoEvent)
  <2>1. CASE line.len = 0 /\ e = NoEvent
    BY <1>4, <2>1 DEF AnswerInv, AnswerEnds
  <2>2. CASE e \in Leftover /\ line.event # NoEvent
    BY <2>2 DEF Leftover
  <2>3. CASE e \in Leftover /\ line.event = NoEvent
    <3>1. e.type \in {"garbled", "ignored"}
      BY <2>3 DEF Leftover
    <3> QED
      BY <1>4, <2>3, <3>1, KindsOfEvent
  <2> QED
    BY <1>3, <2>1, <2>2, <2>3
<1>6. complete => line = NewLine(NoEvent) /\ line.len = 0 /\ UNCHANGED decoderVars
                  /\ producer' # "send" /\ data = NoEvent /\ provider = "codex"
  <2> SUFFICES ASSUME complete
               PROVE  line = NewLine(NoEvent) /\ line.len = 0 /\ UNCHANGED decoderVars
                      /\ producer' # "send" /\ data = NoEvent /\ provider = "codex"
    OBVIOUS
  <2>1. provider = "codex" /\ line = NewLine(NoEvent) /\ data = NoEvent
    BY <1>2 DEF AnswerInv, CompleteIsTheEnd
  <2>2. line.len = 0
    BY <2>1 DEF NewLine
  <2> QED
    BY <1>3, <2>1, <2>2
<1>7. AnswerEnds'
  <2>1. Ends(data') \/ complete' => Ends(data) \/ Ends(line.event) \/ complete
    BY <1>3, <1>5 DEF Decodes, Outcome
  <2>2. Ends(data) \/ Ends(line.event) \/ complete => server.over /\ NoneIsOpen
    BY DEF AnswerInv, AnswerEnds
  <2>3. server.over => server' = server
    OBVIOUS
  <2>4. server' = server => (NoneIsOpen' <=> NoneIsOpen)
    BY DEF NoneIsOpen
  <2> QED
    BY <1>1, <1>2, <1>4, <2>1, <2>2, <2>3, <2>4 DEF AnswerEnds
<1>8. CompleteIsTheEnd'
  <2>1. complete' => data' = NoEvent
    <3>1. CASE complete
      BY <1>6, <3>1 DEF decoderVars
    <3>2. CASE ~complete
      BY <1>3, <3>2 DEF Decodes, Outcome
    <3> QED
      BY <3>1, <3>2
  <2> QED
    BY <1>1, <1>2, <2>1 DEF CompleteIsTheEnd
<1>9. ~Doomed' => server'.texts + Text(line.event)
                    = server.texts + Text(e) + Text(line'.event)
  <2> SUFFICES ASSUME ~Doomed'
               PROVE  server' = server
    <3>1. server.texts \in Nat
      BY DEF AnswerInv, AnswerEnds, Servers
    <3> QED
      BY <1>2, <1>4, <1>5, <3>1
  <2>1. CASE r # "limit"
    BY <2>1
  <2>2. CASE r = "limit"
    <3>1. provider # "codex" /\ complete'
      BY <1>1, <2>2 DEF Doomed
    <3>2. Ends(e)
      BY <1>2, <1>3, <1>4, <3>1 DEF Decodes, Outcome
    <3> QED
      BY <1>5, <3>2
  <2> QED
    BY <2>1, <2>2
<1>10. PipeIsInOrder' /\ AnswerIsCounted' /\ AnswerIsWhole' /\ EOFIsAnAnswer'
  BY <1>1, <1>2, <1>3, <1>6, <1>9, DecodingKeepsTheAnswer
<1> QED
  BY <1>7, <1>8, <1>10 DEF AnswerInv

(* The body ends by itself.                                                *)
LEMMA ReadEndsAnswerInv ==
  ASSUME NEW r \in {"EOF", "failed"}
  PROVE  Inv /\ AnswerInv /\ Inv' /\ ReadEnds(r) => AnswerInv'
<1> SUFFICES ASSUME Inv, AnswerInv, Inv', ReadEnds(r) PROVE AnswerInv'
  OBVIOUS
<1>1. producer = "scan" /\ ScanEnds(r) /\ server' = server
  BY DEF ReadEnds
<1>2. server' \in Servers /\ (provider # "claude" => NoneIsOpen')
  BY <1>1 DEF AnswerInv, AnswerEnds, NoneIsOpen
<1> QED
  BY <1>1, <1>2, ScanEndsAnswerInv

(* A limit ends it at a byte that the decoder does not get.                *)
LEMMA RefusesAnswerInv ==
  ASSUME NEW byte \in Bytes
  PROVE  Inv /\ AnswerInv /\ Inv' /\ Refuses(byte) => AnswerInv'
<1> SUFFICES ASSUME Inv, AnswerInv, Inv', Refuses(byte) PROVE AnswerInv'
  OBVIOUS
<1>1. producer = "scan" /\ ScanEnds("limit") /\ ServerSends(byte)
  BY DEF Refuses
<1>2. /\ server' \in Servers /\ (provider # "claude" => NoneIsOpen')
      /\ byte = Newline => server' = server
      /\ byte # Newline => ~server.over /\ line.event = NoEvent
  BY <1>1, ByteSent
<1> QED
  BY <1>1, <1>2, ScanEndsAnswerInv

(* What is sent is the answer's next item.                                 *)
LEMMA SentAnswer ==
  ASSUME Inv, PipeIsInOrder, Sends, ~pipe.recvClosed
  PROVE  /\ Answer' = Append(Answer, item) /\ item \in Items
         /\ \A k \in 1 .. Len(pipe'.queue) : pipe'.queue[k].type \in {"message", "error"}
         /\ Broken' <=> item.type = "error"
         /\ Good' <=> Good /\ item.type = "message"
<1> DEFINE q == pipe.queue
           p == pipe'.queue
<1>1. /\ producer = "send" /\ UNCHANGED <<received, end>>
      /\ pipe \in Pipes(Items) /\ item \in Items /\ pipe' = Sent(pipe, item)
  BY SendsFacts DEF Inv, StreamTyped
<1>2. ~Broken /\ item.type \in {"message", "error"}
  BY <1>1 DEF PipeIsInOrder, Left
<1>3. /\ Len(p) = Len(q) + 1 /\ \A k \in 1 .. Len(q) : p[k] = q[k]
      /\ p[Len(q) + 1] = item
  BY <1>1, SentProperties
<1>4. received \in Seq(Items) /\ q \in Seq(Items) /\ Len(q) \in Nat
  BY AnswerTypes
<1>5. p = Append(q, item)
  <2>1. pipe' = [pipe EXCEPT !.queue = Append(@, item)]
    BY <1>1 DEF Sent
  <2> QED
    BY <1>1, <2>1 DEF Pipes
<1>6. Answer' = Append(Answer, item)
  BY <1>1, <1>4, <1>5, AppendToTheQueue, SMTT(30) DEF Answer
<1>7. /\ Broken' <=> item.type = "error"
      /\ \A k \in 1 .. Len(p) : p[k].type \in {"message", "error"}
  <2> HIDE DEF p, q
  <2>1. \A k \in 1 .. Len(p) : k \in 1 .. Len(q) \/ k = Len(q) + 1
    BY <1>3, <1>4
  <2>2. Len(q) + 1 \in 1 .. Len(p)
    BY <1>3, <1>4
  <2>3. \A k \in 1 .. Len(q) : p[k].type = "message"
    BY <1>2, <1>3 DEF Broken, PipeIsInOrder, q
  <2>4. (\E k \in 1 .. Len(p) : p[k].type = "error") <=> item.type = "error"
    BY <1>3, <2>1, <2>2, <2>3
  <2>5. \A k \in 1 .. Len(p) : p[k].type \in {"message", "error"}
    BY <1>2, <1>3, <2>1, <2>3
  <2> QED
    BY <2>4, <2>5 DEF Broken, p
<1> QED
  BY <1>1, <1>2, <1>6, <1>7 DEF Good

(* What the caller gets is the first of what it does not have: the answer  *)
(* stays what it was, and at EOF it has all of it.                         *)
LEMMA ReceivedAnswer ==
  ASSUME Inv, AnswerInv, CallerReceives
  PROVE  \/ /\ Good /\ Left /\ Answer = received /\ pipe.sendClosed
            /\ UNCHANGED <<pipe, received>> /\ end' = "EOF"
         \/ /\ pipe' = Received(pipe) /\ (Broken' => Broken) /\ end' = "error"
            /\ \A k \in 1 .. Len(pipe'.queue) : pipe'.queue[k].type \in {"message", "error"}
         \/ /\ pipe' = Received(pipe) /\ (Broken' <=> Broken) /\ end' = "open"
            /\ \A k \in 1 .. Len(pipe'.queue) : pipe'.queue[k].type \in {"message", "error"}
            /\ Answer' = Answer /\ (Good' <=> Good)
<1> DEFINE q == pipe.queue
           p == pipe'.queue
<1>1. end = "open"
  BY ReceivesFacts
<1>2. /\ \A k \in 1 .. Len(q) : q[k].type \in {"message", "error"}
      /\ pipe.sendClosed => producer \in {"close", "done"}
  BY DEF AnswerInv, PipeIsInOrder
<1>3. received \in Seq(Items) /\ q \in Seq(Items) /\ Len(q) \in Nat
  BY AnswerTypes
<1>4. ASSUME q # <<>>, pipe' = Received(pipe)
      PROVE  /\ p = Tail(q) /\ Len(p) = Len(q) - 1 /\ Len(q) > 0
             /\ \A k \in 1 .. Len(p) : p[k] = q[k + 1] /\ k + 1 \in 1 .. Len(q)
             /\ 1 \in 1 .. Len(q)
  <2>1. pipe \in Pipes(Items)
    BY DEF Inv, StreamTyped
  <2>2. p = Tail(q)
    <3>1. pipe' = [pipe EXCEPT !.queue = Tail(@)]
      BY <1>4 DEF Received
    <3> QED
      BY <2>1, <3>1 DEF Pipes
  <2>3. Len(p) = Len(q) - 1 /\ Len(q) > 0 /\ \A k \in 1 .. Len(p) : p[k] = q[k + 1]
    BY <1>3, <1>4, <2>2, HeadTailProperties, EmptySeq
  <2> HIDE DEF p, q
  <2>4. \A k \in 1 .. Len(p) : k + 1 \in 1 .. Len(q)
    BY <1>3, <2>3
  <2> QED
    BY <1>3, <2>2, <2>3, <2>4
<1>5. ASSUME q # <<>>, pipe' = Received(pipe)
      PROVE  /\ Broken' => Broken
             /\ \A k \in 1 .. Len(p) : p[k].type \in {"message", "error"}
  <2> HIDE DEF p, q
  <2>1. Broken' => Broken
    <3> SUFFICES ASSUME NEW k \in 1 .. Len(p), p[k].type = "error"
                 PROVE  \E l \in 1 .. Len(q) : q[l].type = "error"
      BY DEF Broken, p, q
    <3> QED
      BY <1>4, <1>5
  <2> QED
    BY <1>2, <1>4, <1>5, <2>1
<1>6. CASE q = <<>> /\ pipe.sendClosed /\ pipe' = pipe /\ end' = "EOF"
           /\ UNCHANGED <<seen, received>>
  <2>1. ~Broken /\ Good /\ Left
    BY <1>1, <1>2, <1>6 DEF Broken, Good, Left
  <2>2. Answer = received
    BY <1>3, <1>6, ConcatEmptySeq DEF Answer
  <2> QED
    BY <1>6, <2>1, <2>2
<1>7. CASE q # <<>> /\ pipe' = Received(pipe) /\ end' = "error"
  BY <1>5, <1>7
<1>8. CASE /\ q # <<>> /\ pipe' = Received(pipe) /\ q[1] \in Messages
           /\ received' = Append(received, q[1]) /\ end' = end
  <2>1. Answer' = Answer
    <3>1. Answer' = Append(received, q[1]) \o Tail(q)
      BY <1>4, <1>8 DEF Answer
    <3> QED
      BY <1>3, <1>8, <3>1, TakeFromTheQueue DEF Answer
  <2>2. Broken => Broken'
    <3> SUFFICES ASSUME Broken PROVE Broken'
      OBVIOUS
    <3>1. PICK k \in 1 .. Len(q) : q[k].type = "error"
      BY DEF Broken
    <3>2. q[1].type = "message"
      BY <1>8 DEF Messages
    <3> HIDE DEF p, q
    <3>3. k # 1 /\ k - 1 \in 1 .. Len(p) /\ (k - 1) + 1 = k
      BY <1>3, <1>4, <1>8, <3>1, <3>2
    <3>4. p[k - 1] = q[k]
      BY <1>4, <1>8, <3>3
    <3>5. \E l \in 1 .. Len(p) : p[l].type = "error"
      BY <3>1, <3>3, <3>4
    <3> QED
      BY <3>5 DEF Broken, p
  <2>3. (Broken' <=> Broken) /\ (Good' <=> Good)
    BY <1>1, <1>5, <1>8, <2>2 DEF Good
  <2> QED
    BY <1>1, <1>5, <1>8, <2>1, <2>3
<1>9. ~(q # <<>> /\ q[1].type = "EOF" /\ pipe' = Received(pipe))
  BY <1>2, <1>4
<1> QED
  BY <1>6, <1>7, <1>8, <1>9, ReceivesFacts

(* An item is sent, or dropped because the reader was closed.              *)
LEMMA SendsAnswerInv == Inv /\ AnswerInv /\ Inv' /\ Sends => AnswerInv'
<1> SUFFICES ASSUME Inv, AnswerInv, Inv', Sends PROVE AnswerInv'
  OBVIOUS
<1>1. /\ producer = "send" /\ producer' = AfterSend
      /\ pipe'.recvClosed = pipe.recvClosed /\ pipe'.sendClosed = pipe.sendClosed
      /\ UNCHANGED <<provider, server, line, result, data, complete, received, end>>
  BY SendsFacts DEF decoderVars
<1>2. AnswerEnds' /\ CompleteIsTheEnd'
  BY <1>1, StepWithoutTheDecoder
<1>3. producer' \in {"exit", "scan", "ended"} /\ ~Left /\ ~Broken /\ ~pipe.sendClosed
      /\ item.type \in {"message", "error"} /\ end # "EOF"
  BY <1>1, AfterSendFacts DEF AnswerInv, PipeIsInOrder, Left
<1>4. EOFIsAnAnswer'
  BY <1>1, <1>3 DEF EOFIsAnAnswer
<1>5. CASE pipe.recvClosed
  <2>1. ~Good' /\ pipe' = pipe /\ producer' = "exit"
    BY <1>1, <1>5, SendsFacts, AfterSendFacts DEF Good, AnswerInv, PipeIsInOrder
  <2>2. PipeIsInOrder'
    BY <1>1, <1>3, <2>1 DEF AnswerInv, PipeIsInOrder, Broken, Left
  <2>3. AnswerIsCounted' /\ AnswerIsWhole'
    BY <2>1 DEF AnswerIsCounted, AnswerIsWhole
  <2> QED
    BY <1>2, <1>4, <2>2, <2>3 DEF AnswerInv
<1>6. CASE ~pipe.recvClosed
  <2>1. /\ Answer' = Append(Answer, item) /\ item \in Items
        /\ \A k \in 1 .. Len(pipe'.queue) : pipe'.queue[k].type \in {"message", "error"}
        /\ Broken' <=> item.type = "error"
        /\ Good' <=> Good /\ item.type = "message"
    BY <1>6, SentAnswer DEF AnswerInv
  <2>2. Answer \in Seq(Items) /\ Texts(Answer) \in Nat /\ Len(Answer) \in Nat
    BY AnswerTypes, LenProperties
  <2>3. /\ Len(Answer') = Len(Answer) + 1 /\ Answer'[Len(Answer')] = item /\ Answer' # <<>>
        /\ Texts(Answer') = Texts(Answer) + One(item) /\ Texts(Answer') \in Nat
    <3>1. /\ Append(Answer, item) \in Seq(Items)
          /\ Len(Append(Answer, item)) = Len(Answer) + 1
          /\ Append(Answer, item)[Len(Answer) + 1] = item
          /\ Texts(Append(Answer, item)) = Texts(Answer) + One(item)
          /\ Texts(Append(Answer, item)) \in Nat
      BY <2>1, <2>2, AppendProperties, TextsOfAppend
    <3>2. Len(Append(Answer, item)) # 0
      BY <2>2, <3>1
    <3>3. Append(Answer, item) # <<>>
      BY <3>2, EmptySeq
    <3> QED
      BY <2>1, <3>1, <3>3
  <2>4. PipeIsInOrder'
    <3>1. Broken' => Left'
      BY <1>1, <1>3, <2>1, AfterSendFacts DEF Left
    <3>2. Good' => Len(Answer') = produced'
      <4> SUFFICES ASSUME Good' PROVE Len(Answer') = produced'
        OBVIOUS
      <4>1. Good /\ item.type = "message"
        BY <2>1
      <4>2. produced' = produced + 1
        BY <1>6, <4>1, SendsFacts
      <4>3. Len(Answer) = produced
        BY <4>1 DEF AnswerInv, PipeIsInOrder
      <4> QED
        BY <2>3, <4>2, <4>3
    <3> QED
      BY <1>1, <1>3, <1>6, <2>1, <3>1, <3>2 DEF PipeIsInOrder
  <2>5. ASSUME Good', ~Doomed
         PROVE  /\ Texts(Answer') + Text(data) + Text(line.event) = server.texts
                /\ complete => item.last
    <3>1. Good /\ Held = One(item)
      BY <1>1, <2>1, <2>5 DEF Held
    <3>2. /\ Texts(Answer) + Held + Text(data) + Text(line.event) = server.texts
          /\ complete => item.last
      BY <1>1, <1>3, <2>5, <3>1 DEF AnswerInv, AnswerIsCounted
    <3> QED
      BY <2>2, <2>3, <3>1, <3>2
  <2>6. AnswerIsCounted'
    <3> SUFFICES ASSUME Good', ~Doomed', ~Left'
                 PROVE  /\ Texts(Answer') + Held' + Text(data') + Text(line'.event)
                             = server'.texts
                        /\ complete' => IF producer' = "send" THEN item'.last
                                        ELSE Answer' # <<>> /\ Answer'[Len(Answer')].last
      BY DEF AnswerIsCounted
    <3>1. ~Doomed
      BY <1>1, <2>1 DEF Doomed
    <3>2. Held' = 0 /\ producer' # "send"
      BY <1>3 DEF Held
    <3>3. Texts(Answer') + Held' = Texts(Answer')
      BY <2>3, <3>2
    <3>4. /\ Texts(Answer') + Text(data) + Text(line.event) = server.texts
          /\ complete => item.last
      BY <2>5, <3>1
    <3> QED
      BY <1>1, <2>3, <3>2, <3>3, <3>4
  <2>7. AnswerIsWhole'
    <3> SUFFICES ASSUME Good', Left'
                 PROVE  /\ complete' /\ Answer' # <<>> /\ Answer'[Len(Answer')].last
                        /\ Texts(Answer') = server'.texts
      BY DEF AnswerIsWhole
    <3>1. complete /\ provider # "codex" /\ item.type = "message"
      BY <1>1, <1>3, <1>6, <2>1, AfterSendFacts DEF Left
    <3>2. data = NoEvent /\ line.event = NoEvent
      BY <3>1 DEF Inv, DecoderStops, AnswerInv, CompleteIsTheEnd
    <3>3. data.type = "none" /\ Text(data) = 0 /\ Text(line.event) = 0
      BY <3>2, KindsOfEvent
    <3>4. ~Doomed
      BY <3>1, <3>3 DEF Doomed
    <3>5. /\ Texts(Answer') + Text(data) + Text(line.event) = server.texts /\ item.last
      BY <2>5, <3>1, <3>4
    <3> QED
      BY <1>1, <2>3, <3>1, <3>3, <3>5
  <2> QED
    BY <1>2, <1>4, <2>4, <2>6, <2>7 DEF AnswerInv
<1> QED
  BY <1>5, <1>6

(* The end of the body is dispatched, reported or passed.                  *)
LEMMA ConcludesAnswerInv == Inv /\ AnswerInv /\ Inv' /\ Concludes => AnswerInv'
<1> SUFFICES ASSUME Inv, AnswerInv, Inv', Concludes PROVE AnswerInv'
  OBVIOUS
<1>1. /\ producer = "ended"
      /\ UNCHANGED <<provider, server, line, result, pipe, produced, received, end>>
      /\ \/ data # NoEvent /\ data' = NoEvent /\ Decodes(NoEvent, result)
         \/ /\ data = NoEvent /\ UNCHANGED decoderVars
            /\ \/ producer' = "send" /\ item' \in Items /\ item'.type = "error"
               \/ result = "EOF" /\ complete /\ producer' = "exit" /\ item' = item
  BY ConcludesFacts
<1>2. Answer' = Answer /\ (Broken' <=> Broken) /\ (Good' <=> Good)
  BY <1>1, SameAnswer
<1>3. ~Left /\ ~Broken /\ ~pipe.sendClosed /\ end # "EOF"
  BY <1>1 DEF AnswerInv, PipeIsInOrder, Left
<1>4. Text(NoEvent) = 0 /\ ~Ends(NoEvent) /\ NoEvent.type = "none" /\ \A x : Text(x) \in Nat
  BY KindsOfEvent DEF Text
<1>5. server \in Servers /\ server.texts \in Nat /\ (NoneIsOpen' <=> NoneIsOpen)
  BY <1>1 DEF AnswerInv, AnswerEnds, Servers, NoneIsOpen
<1>6. CASE data # NoEvent /\ data' = NoEvent /\ Decodes(NoEvent, result)
  <2>1. provider = "codex" /\ ~complete
    BY <1>6 DEF Inv, DecoderStops, AnswerInv, CompleteIsTheEnd
  <2>2. complete' => Ends(data)
    BY <1>4, <1>6, <2>1 DEF Decodes, Outcome
  <2>3. AnswerEnds'
    BY <1>1, <1>4, <1>5, <1>6, <2>2 DEF AnswerInv, AnswerEnds
  <2>4. result # "none"
    BY <1>1 DEF Inv, EndIsFinal
  <2>5. CompleteIsTheEnd'
    <3>1. result # "long" => line.event = NoEvent
      BY <2>4 DEF AnswerInv, AnswerEnds, NewLine
    <3> QED
      BY <1>1, <1>6, <2>1, <2>4, <3>1 DEF CompleteIsTheEnd
  <2>6. result \in {"none", "EOF"} \/ Doomed'
    BY <1>1, <2>1 DEF Doomed
  <2>7. server'.texts + Text(line.event) = server.texts + Text(NoEvent) + Text(line'.event)
    BY <1>1, <1>4, <1>5
  <2>8. PipeIsInOrder' /\ AnswerIsCounted' /\ AnswerIsWhole' /\ EOFIsAnAnswer'
    BY <1>1, <1>5, <1>6, <2>1, <2>6, <2>7, DecodingKeepsTheAnswer
  <2> QED
    BY <2>3, <2>5, <2>8 DEF AnswerInv
<1>7. CASE /\ data = NoEvent /\ UNCHANGED decoderVars
           /\ producer' = "send" /\ item' \in Items /\ item'.type = "error"
  <2>1. Doomed' /\ ~Left'
    BY <1>7 DEF Doomed, Left
  <2>2. AnswerEnds' /\ CompleteIsTheEnd'
    BY <1>1, <1>7, StepWithoutTheDecoder DEF decoderVars
  <2>3. PipeIsInOrder'
    BY <1>1, <1>2, <1>3, <1>7 DEF AnswerInv, PipeIsInOrder
  <2>4. AnswerIsCounted' /\ AnswerIsWhole' /\ EOFIsAnAnswer'
    BY <1>1, <1>3, <2>1 DEF AnswerIsCounted, AnswerIsWhole, EOFIsAnAnswer
  <2> QED
    BY <2>2, <2>3, <2>4 DEF AnswerInv
<1>8. CASE /\ data = NoEvent /\ UNCHANGED decoderVars
           /\ result = "EOF" /\ complete /\ producer' = "exit" /\ item' = item
  <2>1. UNCHANGED <<data, complete>> /\ Left'
    BY <1>8 DEF decoderVars, Left
  <2>2. AnswerEnds' /\ CompleteIsTheEnd'
    BY <1>1, <2>1, StepWithoutTheDecoder
  <2>3. PipeIsInOrder'
    BY <1>1, <1>2, <1>3, <1>8, <2>1 DEF AnswerInv, PipeIsInOrder
  <2>4. ~Doomed
    BY <1>1, <1>4, <1>8 DEF Doomed
  <2>5. line.event = NoEvent
    BY <1>8 DEF AnswerInv, AnswerEnds, NewLine
  <2>6. AnswerIsWhole'
    <3> SUFFICES ASSUME Good'
                 PROVE  /\ complete' /\ Answer' # <<>> /\ Answer'[Len(Answer')].last
                        /\ Texts(Answer') = server'.texts
      BY DEF AnswerIsWhole
    <3>1. Held = 0 /\ Texts(Answer) \in Nat
      BY <1>1, AnswerTypes DEF Held
    <3>2. /\ Texts(Answer) + Held + Text(data) + Text(line.event) = server.texts
          /\ Answer # <<>> /\ Answer[Len(Answer)].last
      BY <1>1, <1>2, <1>3, <1>8, <2>4 DEF AnswerInv, AnswerIsCounted
    <3>3. Texts(Answer) = server.texts
      BY <1>4, <1>8, <2>5, <3>1, <3>2
    <3> QED
      BY <1>1, <1>2, <1>8, <2>1, <3>2, <3>3
  <2>7. AnswerIsCounted' /\ EOFIsAnAnswer'
    BY <1>1, <1>3, <2>1 DEF AnswerIsCounted, EOFIsAnAnswer
  <2> QED
    BY <2>2, <2>3, <2>6, <2>7 DEF AnswerInv
<1> QED
  BY <1>1, <1>6, <1>7, <1>8

(* The deferred calls, and the context.                                    *)
LEMMA ClosesAnswerInv ==
  Inv /\ AnswerInv /\ (ClosesWriter \/ ClosesBody \/ Cancel) => AnswerInv'
<1> SUFFICES ASSUME Inv, AnswerInv, ClosesWriter \/ ClosesBody \/ Cancel
             PROVE  AnswerInv'
  OBVIOUS
<1>1. UNCHANGED <<provider, server, line, decoderVars, result, item, produced, received, end>>
  BY DEF ClosesWriter, ClosesBody, Cancel, bodyVars, callerVars, producerVars
<1>2. pipe.sendClosed => producer \in {"close", "done"}
  BY DEF AnswerInv, PipeIsInOrder
<1>3. CASE ClosesWriter
  <2>1. producer = "exit" /\ producer' = "close" /\ pipe' = [pipe EXCEPT !.sendClosed = TRUE]
    BY <1>3 DEF ClosesWriter
  <2>2. pipe \in Pipes(Items)
    BY DEF Inv, StreamTyped
  <2>3. pipe'.queue = pipe.queue /\ pipe'.recvClosed = pipe.recvClosed /\ pipe'.sendClosed
    BY <2>1, <2>2, ClosedProperties
  <2>4. Left' <=> Left
    BY <2>1 DEF Left
  <2> QED
    BY <1>1, <1>2, <2>1, <2>3, <2>4, StepWithoutTheAnswer
<1>4. CASE ClosesBody
  <2>1. producer = "close" /\ producer' = "done" /\ pipe' = pipe
    BY <1>4 DEF ClosesBody
  <2>2. Left' <=> Left
    BY <2>1 DEF Left
  <2> QED
    BY <1>1, <1>2, <2>1, <2>2, StepWithoutTheAnswer
<1>5. CASE Cancel
  <2>1. producer' = producer /\ pipe' = pipe
    BY <1>5 DEF Cancel, producerVars
  <2>2. Left' <=> Left
    BY <2>1 DEF Left
  <2> QED
    BY <1>1, <1>2, <2>1, <2>2, StepWithoutTheAnswer
<1> QED
  BY <1>3, <1>4, <1>5

(* What the caller gets is what was before it.                             *)
LEMMA CallerReceivesAnswerInv == Inv /\ AnswerInv /\ Inv' /\ CallerReceives => AnswerInv'
<1> SUFFICES ASSUME Inv, AnswerInv, Inv', CallerReceives PROVE AnswerInv'
  OBVIOUS
<1>1. /\ end = "open" /\ ~pipe.recvClosed
      /\ pipe'.sendClosed = pipe.sendClosed /\ pipe'.recvClosed = pipe.recvClosed
      /\ UNCHANGED <<provider, server, line, result, data, complete, producer, item, produced>>
  BY ReceivesFacts DEF decoderVars, AnswerInv, PipeIsInOrder
<1>2. AnswerEnds' /\ CompleteIsTheEnd'
  BY <1>1, StepWithoutTheDecoder
<1>3. /\ Broken => Left
      /\ pipe.sendClosed => producer \in {"close", "done"}
      /\ producer' = "send" => item'.type \in {"message", "error"}
      /\ (Doomed' <=> Doomed) /\ Held' = Held /\ (Left' <=> Left)
  BY <1>1 DEF AnswerInv, PipeIsInOrder, Doomed, Held, Left
<1>4. CASE /\ Good /\ Left /\ Answer = received /\ pipe.sendClosed
           /\ UNCHANGED <<pipe, received>> /\ end' = "EOF"
  <2>1. ~Good' /\ (Broken' <=> Broken)
    BY <1>4 DEF Good, Broken
  <2>2. /\ complete /\ received # <<>> /\ received[Len(received)].last
        /\ Texts(received) = server.texts /\ Len(received) = produced
    BY <1>4 DEF AnswerInv, AnswerIsWhole, PipeIsInOrder
  <2>3. server.over /\ NoneIsOpen
    BY <2>2 DEF AnswerInv, AnswerEnds
  <2>4. Cardinality({k \in DOMAIN received : \E b \in BlocksOf(received[k]) : ~b.call})
          = Texts(received)
    <3>1. \A k \in DOMAIN received : received[k].type = "message"
      <4>1. received \in Seq(Messages)
        BY DEF Inv, StreamTyped
      <4>2. \A m \in Messages : m.type = "message"
        BY DEF Messages
      <4>3. DOMAIN received = 1 .. Len(received)
        BY <4>1, LenProperties
      <4> QED
        BY <4>1, <4>2, <4>3, ElementOfSeq
    <3>2. {k \in DOMAIN received : \E b \in BlocksOf(received[k]) : ~b.call}
            = {k \in DOMAIN received : HasText(received[k])}
      BY <3>1 DEF HasText
    <3> QED
      BY <3>2 DEF Texts
  <2>5. NoneIsOpen' <=> NoneIsOpen
    BY <1>1 DEF NoneIsOpen
  <2>6. EOFIsAnAnswer'
    BY <1>1, <1>4, <2>2, <2>3, <2>4, <2>5 DEF EOFIsAnAnswer
  <2>7. PipeIsInOrder'
    BY <1>1, <1>3, <1>4, <2>1 DEF AnswerInv, PipeIsInOrder
  <2>8. AnswerIsCounted' /\ AnswerIsWhole'
    BY <2>1 DEF AnswerIsCounted, AnswerIsWhole
  <2> QED
    BY <1>2, <2>6, <2>7, <2>8 DEF AnswerInv
<1>5. CASE /\ (Broken' => Broken) /\ end' = "error"
           /\ \A k \in 1 .. Len(pipe'.queue) : pipe'.queue[k].type \in {"message", "error"}
  <2>1. ~Good'
    BY <1>5 DEF Good
  <2>2. PipeIsInOrder'
    BY <1>1, <1>3, <1>5, <2>1 DEF PipeIsInOrder
  <2>3. AnswerIsCounted' /\ AnswerIsWhole' /\ EOFIsAnAnswer'
    BY <1>5, <2>1 DEF AnswerIsCounted, AnswerIsWhole, EOFIsAnAnswer
  <2> QED
    BY <1>2, <2>2, <2>3 DEF AnswerInv
<1>6. CASE /\ (Broken' <=> Broken) /\ end' = "open"
           /\ \A k \in 1 .. Len(pipe'.queue) : pipe'.queue[k].type \in {"message", "error"}
           /\ Answer' = Answer /\ (Good' <=> Good)
  <2>1. PipeIsInOrder'
    <3>1. Good' => Len(Answer') = produced'
      BY <1>1, <1>6 DEF AnswerInv, PipeIsInOrder
    <3> QED
      BY <1>1, <1>3, <1>6, <3>1 DEF PipeIsInOrder
  <2>2. AnswerIsCounted'
    BY <1>1, <1>3, <1>6 DEF AnswerInv, AnswerIsCounted
  <2>3. AnswerIsWhole'
    BY <1>1, <1>3, <1>6 DEF AnswerInv, AnswerIsWhole
  <2>4. EOFIsAnAnswer'
    BY <1>6 DEF EOFIsAnAnswer
  <2> QED
    BY <1>2, <2>1, <2>2, <2>3, <2>4 DEF AnswerInv
<1> QED
  BY <1>4, <1>5, <1>6, ReceivedAnswer

(* A caller that leaves early has no answer; after EOF it keeps it.        *)
LEMMA CallerClosesAnswerInv == Inv /\ AnswerInv /\ CallerCloses => AnswerInv'
<1> SUFFICES ASSUME Inv, AnswerInv, CallerCloses PROVE AnswerInv'
  OBVIOUS
<1>1. /\ pipe' = [pipe EXCEPT !.recvClosed = TRUE]
      /\ IF end = "open" THEN end' = "closed" /\ received' = <<>>
         ELSE UNCHANGED <<end, received>>
      /\ UNCHANGED <<provider, server, line, result, data, complete, producer, item, produced>>
  BY DEF CallerCloses, bodyVars, producerVars, decoderVars
<1>2. pipe \in Pipes(Items)
  BY DEF Inv, StreamTyped
<1>3. pipe'.queue = pipe.queue /\ pipe'.sendClosed = pipe.sendClosed /\ pipe'.recvClosed
  BY <1>1, <1>2, ClosedProperties
<1>4. end' # "open" /\ ~Good' /\ (Broken' <=> Broken)
  BY <1>1, <1>3 DEF Good, Broken
<1>5. AnswerEnds' /\ CompleteIsTheEnd'
  BY <1>1, StepWithoutTheDecoder
<1>6. PipeIsInOrder'
  BY <1>1, <1>3, <1>4 DEF AnswerInv, PipeIsInOrder, Left
<1>7. AnswerIsCounted' /\ AnswerIsWhole'
  BY <1>4 DEF AnswerIsCounted, AnswerIsWhole
<1>8. EOFIsAnAnswer'
  <2>1. CASE end = "open"
    BY <1>1, <2>1 DEF EOFIsAnAnswer
  <2>2. CASE end # "open"
    BY <1>1, <2>2, SameEOF DEF AnswerInv
  <2> QED
    BY <2>1, <2>2
<1> QED
  BY <1>5, <1>6, <1>7, <1>8 DEF AnswerInv

(* Every step keeps the invariant of the answer.                           *)
LEMMA NextAnswerInv == Inv /\ Inv' /\ AnswerInv /\ [Next]_vars => AnswerInv'
<1> SUFFICES ASSUME Inv, Inv', AnswerInv, [Next]_vars PROVE AnswerInv'
  OBVIOUS
<1>1. CASE UNCHANGED vars
  <2>1. UNCHANGED <<provider, server, line, decoderVars, result, item, produced, received,
                    end, pipe, producer>>
    BY <1>1 DEF vars, bodyVars, producerVars, callerVars
  <2>2. Left' <=> Left
    BY <2>1 DEF Left
  <2>3. pipe.sendClosed => producer \in {"close", "done"}
    BY DEF AnswerInv, PipeIsInOrder
  <2> QED
    BY <2>1, <2>2, <2>3, StepWithoutTheAnswer
<1> QED
  BY <1>1, RequestAnswerInv, ReadsByteAnswerInv, RefusesAnswerInv, ReadEndsAnswerInv,
     SendsAnswerInv, ConcludesAnswerInv, ClosesAnswerInv, CallerReceivesAnswerInv,
     CallerClosesAnswerInv
  DEF Next, Produces

(* The invariant of the answer holds in every reachable state.             *)
THEOREM AnswerInvHolds == Spec => []AnswerInv
<1> QED
  BY InitAnswerInv, NextAnswerInv, InvHolds, PTL DEF Spec

(* EOF means an answer, of any of the three providers: the server has      *)
(* ended it, the caller has every message that was sent and every text of  *)
(* it, and the last one it has is the message that ends it, however the    *)
(* body was cut, limited, garbled or cancelled (the goroutines of          *)
(* claude/agenticmodel.go, ollama/agenticmodel.go and agentic_stream.go).  *)
THEOREM EOFIsTheAnswer == Spec => []EOFIsAnAnswer
<1>1. AnswerInv => EOFIsAnAnswer
  BY DEF AnswerInv
<1> QED
  BY <1>1, AnswerInvHolds, PTL

-----------------------------------------------------------------------------
(* The invariant of the calls *)

(* What a message says of the call that has an index; and of a sequence of *)
(* messages, that none says anything of it, that one has it whole and no   *)
(* other says anything of it, and that all its calls have known indexes.   *)
Tells(m, x) == m.type = "message" /\ \E b \in BlocksOf(m) : b.call /\ b.index = x
IsCall(m, x, args) == m.type = "message" /\ m.blocks = <<CallBlock(x, args)>>

Untold(s, x) == \A k \in 1 .. Len(s) : ~Tells(s[k], x)
Told(s, x, args) ==
  \E k \in 1 .. Len(s) : /\ IsCall(s[k], x, args)
                         /\ \A j \in 1 .. Len(s) : j # k => ~Tells(s[j], x)

IsKnown(m, f) ==
  m.type = "message" =>
    \A b \in BlocksOf(m) : b.call => \E i \in Indexes : b.index = f + i
AreKnown(s, f) == \A k \in 1 .. Len(s) : IsKnown(s[k], f)

(* The answer with the message that is being sent.                         *)
Made == IF producer = "send" THEN Append(Answer, item) ELSE Answer

About(e, i) == e.type \in {"open", "args", "stop", "call"} /\ e.index = i

(* A call of Claude is opened, streamed and stopped by events the last of  *)
(* which, e, may still be in the line; what was handled is in c, the call  *)
(* that is being streamed, until it was stopped, and then in a message.    *)
ClaudeCall(s, i, sent, e, c) ==
  /\ sent.phase = "none" => Untold(s, i) /\ ~About(e, i) /\ sent.args = <<>>
  /\ sent.phase = "open" =>
       /\ Untold(s, i) /\ (About(e, i) => e.type \in {"open", "args"})
       /\ IF About(e, i) /\ e.type = "open" THEN sent.args = <<>>
          ELSE c.known /\ sent.args = IF About(e, i) THEN Append(c.args, e.token) ELSE c.args
  /\ sent.phase = "done" =>
       IF About(e, i) THEN e.type = "stop" /\ c.known /\ c.args = sent.args /\ Untold(s, i)
       ELSE Told(s, i, sent.args)

(* A call of Codex is one event, in the line, the data or a message.       *)
CodexCall(s, i, sent, e, d) ==
  /\ sent.phase # "done" => Untold(s, i + 2) /\ ~About(e, i) /\ ~About(d, i)
  /\ sent.phase = "done" =>
       /\ sent.args = <<i>> /\ ~(About(e, i) /\ About(d, i))
       /\ IF About(e, i) \/ About(d, i) THEN Untold(s, i + 2) ELSE Told(s, i + 2, sent.args)

(* What has come of a call when nothing more will come.                    *)
Arrived(s, x, sent) ==
  IF sent.phase = "none" THEN Untold(s, x) ELSE Told(s, x, sent.args)

Kept(p, s, i, sent, e, c, d) ==
  /\ p = "claude" => ClaudeCall(s, i, sent, e, c)
  /\ p = "codex"  => CodexCall(s, i, sent, e, d)

CallsAreKept ==
  Good /\ ~Doomed /\ ~Left =>
    \A i \in Indexes : Kept(provider, Made, i, server.calls[i], line.event, calls[i], data)
CallsArrive(s) == \A i \in Indexes : Arrived(s, FirstIndex + i, server.calls[i])

CallsInv ==
  provider # "ollama" =>
    /\ CallsAreKept
    /\ Good => AreKnown(Made, FirstIndex)
    /\ Good /\ Left => CallsArrive(Answer)
    /\ end = "EOF" => AreKnown(received, FirstIndex) /\ CallsArrive(received)

(* One message more.                                                       *)
LEMMA ToldByAppend ==
  ASSUME NEW s \in Seq(Items), NEW m \in Items
  PROVE  /\ \A x : Untold(s, x) /\ ~Tells(m, x) => Untold(Append(s, m), x)
         /\ \A x, args : Told(s, x, args) /\ ~Tells(m, x) => Told(Append(s, m), x, args)
         /\ \A x, args : Untold(s, x) /\ IsCall(m, x, args) => Told(Append(s, m), x, args)
         /\ \A f : AreKnown(s, f) /\ IsKnown(m, f) => AreKnown(Append(s, m), f)
<1> DEFINE n == Len(s)
           t == Append(s, m)
<1>1. n \in Nat
  BY LenProperties
<1>2. Len(t) = n + 1 /\ t[n + 1] = m /\ \A k \in 1 .. n : t[k] = s[k]
  BY AppendProperties
<1> HIDE DEF n, t
<1>3. /\ \A k \in 1 .. Len(t) : k \in 1 .. n \/ k = n + 1
      /\ \A k \in 1 .. n : k \in 1 .. Len(t) /\ k # n + 1
      /\ n + 1 \in 1 .. Len(t)
  BY <1>1, <1>2
<1>4. ASSUME NEW x, Untold(s, x), ~Tells(m, x) PROVE Untold(t, x)
  <2>1. \A k \in 1 .. n : ~Tells(s[k], x)
    BY <1>4 DEF Untold, n
  <2> QED
    BY <1>2, <1>3, <1>4, <2>1 DEF Untold
<1>5. ASSUME NEW x, NEW args, Told(s, x, args), ~Tells(m, x) PROVE Told(t, x, args)
  <2>1. PICK k \in 1 .. n : /\ IsCall(s[k], x, args)
                            /\ \A j \in 1 .. n : j # k => ~Tells(s[j], x)
    BY <1>5 DEF Told, n
  <2>2. k \in 1 .. Len(t) /\ IsCall(t[k], x, args)
    BY <1>2, <1>3, <2>1
  <2>3. \A j \in 1 .. Len(t) : j # k => ~Tells(t[j], x)
    BY <1>2, <1>3, <1>5, <2>1
  <2> QED
    BY <2>2, <2>3 DEF Told
<1>6. ASSUME NEW x, NEW args, Untold(s, x), IsCall(m, x, args) PROVE Told(t, x, args)
  <2>1. \A k \in 1 .. n : ~Tells(s[k], x)
    BY <1>6 DEF Untold, n
  <2>2. \A j \in 1 .. Len(t) : j # n + 1 => ~Tells(t[j], x)
    BY <1>2, <1>3, <2>1
  <2> QED
    BY <1>2, <1>3, <1>6, <2>2 DEF Told
<1>7. ASSUME NEW f, AreKnown(s, f), IsKnown(m, f) PROVE AreKnown(t, f)
  <2>1. \A k \in 1 .. n : IsKnown(s[k], f)
    BY <1>7 DEF AreKnown, n
  <2> QED
    BY <1>2, <1>3, <1>7, <2>1 DEF AreKnown
<1> QED
  BY <1>4, <1>5, <1>6, <1>7 DEF t

(* What the messages that a goroutine sends say of the calls.              *)
LEMMA MessagesTell ==
  ASSUME NEW f
  PROVE  /\ \A m : m.type = "error" => IsKnown(m, f) /\ \A x : ~Tells(m, x)
         /\ \A last : /\ IsKnown(Chunk(<<>>, last), f)
                      /\ \A x : ~Tells(Chunk(<<>>, last), x)
         /\ \A y, last : /\ IsKnown(Chunk(<<TextBlock(y)>>, last), f)
                         /\ \A x : ~Tells(Chunk(<<TextBlock(y)>>, last), x)
         /\ \A y, args, last : /\ IsCall(Chunk(<<CallBlock(y, args)>>, last), y, args)
                               /\ (\E i \in Indexes : y = f + i)
                                    => IsKnown(Chunk(<<CallBlock(y, args)>>, last), f)
                               /\ \A x : x # y => ~Tells(Chunk(<<CallBlock(y, args)>>, last), x)
<1>1. \A m : m.type = "error" => IsKnown(m, f) /\ \A x : ~Tells(m, x)
  BY DEF IsKnown, Tells
<1>2. ASSUME NEW last
      PROVE  IsKnown(Chunk(<<>>, last), f) /\ \A x : ~Tells(Chunk(<<>>, last), x)
  <2>1. BlocksOf(Chunk(<<>>, last)) = {}
    BY DEF BlocksOf, Chunk
  <2> QED
    BY <2>1 DEF IsKnown, Tells
<1>3. ASSUME NEW b, NEW last PROVE BlocksOf(Chunk(<<b>>, last)) = {b}
  BY DEF BlocksOf, Chunk
<1>4. ASSUME NEW y, NEW last
      PROVE  /\ IsKnown(Chunk(<<TextBlock(y)>>, last), f)
             /\ \A x : ~Tells(Chunk(<<TextBlock(y)>>, last), x)
  <2>1. \A b \in BlocksOf(Chunk(<<TextBlock(y)>>, last)) : ~b.call
    BY <1>3 DEF TextBlock
  <2> QED
    BY <2>1 DEF IsKnown, Tells
<1>5. ASSUME NEW y, NEW args, NEW last
      PROVE  /\ IsCall(Chunk(<<CallBlock(y, args)>>, last), y, args)
             /\ (\E i \in Indexes : y = f + i)
                  => IsKnown(Chunk(<<CallBlock(y, args)>>, last), f)
             /\ \A x : x # y => ~Tells(Chunk(<<CallBlock(y, args)>>, last), x)
  <2>1. \A b \in BlocksOf(Chunk(<<CallBlock(y, args)>>, last)) : b.call /\ b.index = y
    BY <1>3 DEF CallBlock
  <2>2. IsCall(Chunk(<<CallBlock(y, args)>>, last), y, args)
    BY DEF IsCall, Chunk
  <2> QED
    BY <2>1, <2>2 DEF IsKnown, Tells
<1> QED
  BY <1>1, <1>2, <1>4, <1>5

(* What an event of the server says of a call, which was at was and is now *)
(* at now: an event about one call is about no other.                      *)
Says(e, i, was, now) ==
  \/ ~About(e, i) /\ now = was
  \/ /\ About(e, i)
     /\ \/ e.type = "open" /\ was.phase = "none" /\ now.phase = "open" /\ now.args = was.args
        \/ /\ e.type = "args" /\ was.phase = "open" /\ now.phase = "open"
           /\ now.args = Append(was.args, e.token)
        \/ e.type = "stop" /\ was.phase = "open" /\ now.phase = "done" /\ now.args = was.args
        \/ e.type = "call" /\ was.phase # "done" /\ now.phase = "done" /\ now.args = <<i>>

(* An event says of each call what the server has just done with it.       *)
LEMMA EventSays ==
  ASSUME server \in Servers, provider \in {"claude", "codex"},
         NEW e \in Events(provider), SendsEvent(e), NEW i \in Indexes
  PROVE  Says(e, i, server.calls[i], server'.calls[i])
<1>1. /\ server.calls \in [Indexes -> [phase : Phases, args : Seq(Int)]]
      /\ server.calls[i] \in [phase : Phases, args : Seq(Int)]
  BY DEF Servers
<1>2. /\ e.type \in {"open", "args", "stop", "call"} => e.index \in Indexes
      /\ e.type # "record"
  BY ClaudeEvents, CodexEvents
<1>3. CASE /\ e.type \in {"text", "ignored", "end", "failed", "garbled"}
           /\ \/ server' = [server EXCEPT !.texts = @ + 1]
              \/ server' = [server EXCEPT !.padding = @ + 1]
              \/ server' = [server EXCEPT !.over = TRUE]
  <2>1. server'.calls = server.calls
    BY <1>3 DEF Servers
  <2> QED
    BY <1>3, <2>1 DEF Says, About
<1>5. CASE SendsClaude(e)
  <2> DEFINE was == server.calls[e.index]
  <2>0. e.index \in Indexes /\ was \in [phase : Phases, args : Seq(Int)]
    BY <1>1, <1>2, <1>5 DEF SendsClaude
  <2>1. CASE e.type = "open" /\ IsNext(e.index)
             /\ server' = [server EXCEPT !.calls[e.index].phase = "open"]
    <3>1. was.phase = "none"
      BY <2>0, <2>1 DEF IsNext, Started
    <3>2. server'.calls[i] = IF i = e.index THEN [was EXCEPT !.phase = "open"]
                             ELSE server.calls[i]
      <4> DEFINE c == [was EXCEPT !.phase = "open"]
      <4>1. server'.calls = [server.calls EXCEPT ![e.index] = c]
        BY <2>1 DEF Servers
      <4> HIDE DEF c
      <4>2. server'.calls[i] = IF i = e.index THEN c ELSE server.calls[i]
        BY <1>1, <4>1
      <4> QED
        BY <4>2 DEF c
    <3>3. ([was EXCEPT !.phase = "open"]).phase = "open"
          /\ ([was EXCEPT !.phase = "open"]).args = was.args
      BY <2>0
    <3> QED
      BY <2>1, <3>1, <3>2, <3>3 DEF Says, About
  <2>2. CASE e.type = "args" /\ was.phase = "open"
             /\ server' = [server EXCEPT !.calls[e.index].args = Append(@, e.token)]
    <3> DEFINE a == Append(was.args, e.token)
    <3>1. server'.calls[i] = IF i = e.index THEN [was EXCEPT !.args = a]
                             ELSE server.calls[i]
      <4> DEFINE c == [was EXCEPT !.args = a]
      <4>1. server'.calls = [server.calls EXCEPT ![e.index] = c]
        BY <2>2 DEF Servers
      <4> HIDE DEF c
      <4>2. server'.calls[i] = IF i = e.index THEN c ELSE server.calls[i]
        BY <1>1, <4>1
      <4> QED
        BY <4>2 DEF c
    <3> HIDE DEF a
    <3>2. ([was EXCEPT !.args = a]).phase = was.phase /\ ([was EXCEPT !.args = a]).args = a
      BY <2>0
    <3>3. CASE i = e.index
      <4>1. server'.calls[i].phase = "open" /\ server'.calls[i].args = a /\ About(e, i)
        BY <2>2, <3>1, <3>2, <3>3 DEF About
      <4> QED
        BY <2>2, <3>3, <4>1 DEF Says, a
    <3>4. CASE i # e.index
      BY <3>1, <3>4 DEF Says, About
    <3> QED
      BY <3>3, <3>4
  <2>3. CASE e.type = "stop" /\ was.phase = "open"
             /\ server' = [server EXCEPT !.calls[e.index].phase = "done"]
    <3>2. server'.calls[i] = IF i = e.index THEN [was EXCEPT !.phase = "done"]
                             ELSE server.calls[i]
      <4> DEFINE c == [was EXCEPT !.phase = "done"]
      <4>1. server'.calls = [server.calls EXCEPT ![e.index] = c]
        BY <2>3 DEF Servers
      <4> HIDE DEF c
      <4>2. server'.calls[i] = IF i = e.index THEN c ELSE server.calls[i]
        BY <1>1, <4>1
      <4> QED
        BY <4>2 DEF c
    <3>3. ([was EXCEPT !.phase = "done"]).phase = "done"
          /\ ([was EXCEPT !.phase = "done"]).args = was.args
      BY <2>0
    <3> QED
      BY <2>3, <3>2, <3>3 DEF Says, About
  <2> QED
    BY <1>5, <2>1, <2>2, <2>3 DEF SendsClaude
<1>6. CASE SendsCodex(e)
  <2>1. /\ e.type = "call" /\ e.index \in Indexes /\ IsNext(e.index)
        /\ server' = [server EXCEPT !.calls[e.index] = [phase |-> "done", args |-> <<e.index>>]]
    BY <1>2, <1>6 DEF SendsCodex
  <2>2. server.calls[e.index].phase = "none"
    BY <2>1 DEF IsNext, Started
  <2>3. server'.calls[i] = IF i = e.index THEN [phase |-> "done", args |-> <<e.index>>]
                           ELSE server.calls[i]
    BY <1>1, <2>1 DEF Servers
  <2> QED
    BY <2>1, <2>2, <2>3 DEF Says, About
<1>7. ~SendsOllama(e)
  BY <1>2 DEF SendsOllama
<1> QED
  BY <1>3, <1>5, <1>6, <1>7 DEF SendsEvent

(* What the server has sent of a call is in the line.                      *)
LEMMA SayingKeepsTheCall ==
  ASSUME NEW e, NEW i, NEW was, NEW now, Says(e, i, was, now), NEW s
  PROVE  /\ \A c : e.type # "call" /\ ClaudeCall(s, i, was, NoEvent, c)
                     => ClaudeCall(s, i, now, e, c)
         /\ \A d : e.type \notin {"open", "args", "stop"} /\ CodexCall(s, i, was, NoEvent, d)
                     => CodexCall(s, i, now, e, d)
<1>1. ~About(NoEvent, i)
  BY DEF About, NoEvent
<1>2. ASSUME NEW c, e.type # "call", ClaudeCall(s, i, was, NoEvent, c)
      PROVE  ClaudeCall(s, i, now, e, c)
  <2>1. CASE ~About(e, i) /\ now = was
    BY <1>1, <1>2, <2>1 DEF ClaudeCall
  <2>2. CASE /\ About(e, i)
             /\ e.type = "open" /\ was.phase = "none" /\ now.phase = "open"
             /\ now.args = was.args
    BY <1>1, <1>2, <2>2 DEF ClaudeCall
  <2>3. CASE /\ About(e, i)
             /\ e.type = "args" /\ was.phase = "open" /\ now.phase = "open"
             /\ now.args = Append(was.args, e.token)
    BY <1>1, <1>2, <2>3 DEF ClaudeCall
  <2>4. CASE /\ About(e, i)
             /\ e.type = "stop" /\ was.phase = "open" /\ now.phase = "done"
             /\ now.args = was.args
    BY <1>1, <1>2, <2>4 DEF ClaudeCall
  <2> QED
    BY <1>2, <2>1, <2>2, <2>3, <2>4 DEF Says
<1>3. ASSUME NEW d, e.type \notin {"open", "args", "stop"}, CodexCall(s, i, was, NoEvent, d)
      PROVE  CodexCall(s, i, now, e, d)
  <2>1. CASE ~About(e, i) /\ now = was
    BY <1>1, <1>3, <2>1 DEF CodexCall
  <2>2. CASE /\ About(e, i)
             /\ e.type = "call" /\ was.phase # "done" /\ now.phase = "done" /\ now.args = <<i>>
    BY <1>1, <1>3, <2>2 DEF CodexCall
  <2> QED
    BY <1>3, <2>1, <2>2 DEF Says
<1> QED
  BY <1>2, <1>3

(* The answer s once a handler has sent what it makes of a line or of the  *)
(* data; and that it has made an error of it, or will.                     *)
WithItem(s) == IF producer' = "send" THEN Append(s, item') ELSE s
Fails == producer' = "send" /\ item'.type = "error"

(* Sending a message, or going on.                                         *)
LEMMA WithTheItem ==
  ASSUME NEW s \in Seq(Items), AreKnown(s, FirstIndex), item' \in Items
  PROVE  /\ \A m : StartsSending(m) =>
              /\ m \in Items
              /\ IsKnown(m, FirstIndex) => AreKnown(WithItem(s), FirstIndex)
              /\ \A x : Untold(s, x) /\ ~Tells(m, x) => Untold(WithItem(s), x)
              /\ \A x, args : Told(s, x, args) /\ ~Tells(m, x) => Told(WithItem(s), x, args)
              /\ \A x, args : Untold(s, x) /\ IsCall(m, x, args) => Told(WithItem(s), x, args)
         /\ \A r : Continues(r) => WithItem(s) = s
<1>1. ASSUME NEW m, StartsSending(m)
      PROVE  m \in Items /\ WithItem(s) = Append(s, m)
  BY <1>1 DEF StartsSending, WithItem
<1>2. ASSUME NEW r, Continues(r)
      PROVE  WithItem(s) = s
  BY <1>2, Continuing DEF WithItem
<1> QED
  BY <1>1, <1>2, ToldByAppend

(* A call of Claude is kept by what is made of the line.                   *)
LEMMA HandleClaudeKeepsTheCalls ==
  ASSUME Inv, provider = "claude", NEW e \in LineEvents, NEW r, HandleClaude(e, r),
         item' \in Items, NEW s \in Seq(Items), AreKnown(s, FirstIndex)
  PROVE  /\ AreKnown(WithItem(s), FirstIndex)
         /\ \A i \in Indexes : \A sent :
              ClaudeCall(s, i, sent, e, calls[i])
                => Fails \/ ClaudeCall(WithItem(s), i, sent, NoEvent, calls'[i])
<1>1. /\ e.type \in {"text", "end", "ignored", "garbled", "open", "stop", "args", "none"}
      /\ e.type \in {"open", "stop", "args"} => e.index \in Indexes
  BY ClaudeEvents DEF NoEvent, LineEvents
<1>2. calls \in [Indexes -> [known : BOOLEAN, args : Seq(Int)]]
  BY DEF Inv, DecoderTyped
<1>3. ~\E i : About(NoEvent, i)
  BY DEF About, NoEvent
<1> DEFINE Keeps(i, sent) ==
      ClaudeCall(s, i, sent, e, calls[i])
        => Fails \/ ClaudeCall(WithItem(s), i, sent, NoEvent, calls'[i])
<1> SUFFICES AreKnown(WithItem(s), FirstIndex) /\ \A i \in Indexes : \A sent : Keeps(i, sent)
  OBVIOUS
<1>4. CASE /\ e.type = "open"
           /\ calls' = [calls EXCEPT ![e.index] = [known |-> TRUE, args |-> <<>>]]
           /\ Continues(r)
  <2>1. WithItem(s) = s
    BY <1>4, WithTheItem
  <2>2. ASSUME NEW i \in Indexes, NEW sent PROVE Keeps(i, sent)
    <3>1. CASE i = e.index
      <4>1. calls'[i].known /\ calls'[i].args = <<>> /\ About(e, i)
        BY <1>2, <1>4, <3>1 DEF About
      <4> QED
        BY <1>3, <1>4, <2>1, <4>1 DEF ClaudeCall
    <3>2. CASE i # e.index
      <4>1. calls'[i] = calls[i] /\ ~About(e, i)
        BY <1>2, <1>4, <3>2 DEF About
      <4> QED
        BY <1>3, <2>1, <4>1 DEF ClaudeCall
    <3> QED
      BY <3>1, <3>2
  <2> QED
    BY <2>1, <2>2
<1>5. CASE e.type = "args" /\ calls' = WithFragment(e) /\ Continues(r)
  <2>1. WithItem(s) = s
    BY <1>5, WithTheItem
  <2>2. ASSUME NEW i \in Indexes, NEW sent PROVE Keeps(i, sent)
    <3>1. CASE i = e.index
      <4>1. About(e, i) /\ calls[i] \in [known : BOOLEAN, args : Seq(Int)]
        BY <1>2, <1>5, <3>1 DEF About
      <4>2. calls[i].known => calls'[i].known /\ calls'[i].args = Append(calls[i].args, e.token)
        <5>1. calls[i].known => calls'[i] = [calls[i] EXCEPT !.args = Append(@, e.token)]
          BY <1>2, <1>5, <3>1 DEF WithFragment
        <5> QED
          BY <4>1, <5>1
      <4> QED
        BY <1>3, <1>5, <2>1, <4>1, <4>2 DEF ClaudeCall
    <3>2. CASE i # e.index
      <4>1. calls'[i] = calls[i] /\ ~About(e, i)
        BY <1>2, <1>5, <3>2 DEF About, WithFragment
      <4> QED
        BY <1>3, <2>1, <4>1 DEF ClaudeCall
    <3> QED
      BY <3>1, <3>2
  <2> QED
    BY <2>1, <2>2
<1>6. CASE e.type = "stop" /\ calls' = [calls EXCEPT ![e.index] = NoCall]
  <2> DEFINE m == Chunk(<<CallBlock(e.index, calls[e.index].args)>>, FALSE)
  <2>1. \/ ~calls[e.index].known /\ Continues(r)
        \/ StartsSending(Failed("unsupported"))
        \/ StartsSending(m)
    BY <1>6 DEF HandleClaude
  <2>2. /\ IsCall(m, e.index, calls[e.index].args) /\ IsKnown(m, FirstIndex)
        /\ \A x : x # e.index => ~Tells(m, x)
    <3>1. e.index \in Indexes /\ e.index = FirstIndex + e.index
      BY <1>1, <1>6 DEF FirstIndex, Indexes
    <3> QED
      BY <3>1, MessagesTell
  <2> HIDE DEF m
  <2>3. CASE StartsSending(Failed("unsupported"))
    <3>1. Fails
      BY <2>3 DEF Fails, StartsSending, Failed
    <3> QED
      BY <3>1, <2>3, WithTheItem, MessagesTell DEF Failed
  <2>4. CASE StartsSending(m)
    <3>1. AreKnown(WithItem(s), FirstIndex)
      BY <2>2, <2>4, WithTheItem
    <3>2. ASSUME NEW i \in Indexes, NEW sent PROVE Keeps(i, sent)
      <4>1. CASE i = e.index
        <5>1. About(e, i)
          BY <1>6, <4>1 DEF About
        <5> SUFFICES ASSUME ClaudeCall(s, i, sent, e, calls[i])
                     PROVE  ClaudeCall(WithItem(s), i, sent, NoEvent, calls'[i])
          OBVIOUS
        <5>2. sent.phase # "none" /\ sent.phase # "open"
          BY <1>6, <5>1 DEF ClaudeCall
        <5>3. sent.phase = "done" => calls[i].args = sent.args /\ Untold(s, i)
          BY <5>1 DEF ClaudeCall
        <5>4. sent.phase = "done" => Told(WithItem(s), i, sent.args)
          BY <2>2, <2>4, <4>1, <5>3, WithTheItem
        <5> QED
          BY <1>3, <5>2, <5>4 DEF ClaudeCall
      <4>2. CASE i # e.index
        <5>1. calls'[i] = calls[i] /\ ~About(e, i) /\ ~Tells(m, i)
          BY <1>2, <1>6, <2>2, <4>2 DEF About
        <5>2. /\ Untold(s, i) => Untold(WithItem(s), i)
              /\ \A args : Told(s, i, args) => Told(WithItem(s), i, args)
          BY <2>4, <5>1, WithTheItem
        <5> QED
          BY <1>3, <5>1, <5>2 DEF ClaudeCall
      <4> QED
        BY <4>1, <4>2
    <3> QED
      BY <3>1, <3>2
  <2>5. CASE ~calls[e.index].known /\ Continues(r)
    <3>1. WithItem(s) = s
      BY <2>5, WithTheItem
    <3>2. ASSUME NEW i \in Indexes, NEW sent PROVE Keeps(i, sent)
      <4>1. CASE i = e.index
        <5>1. About(e, i) /\ ~calls[i].known
          BY <1>6, <2>5, <4>1 DEF About
        <5> QED
          BY <1>3, <1>6, <5>1 DEF ClaudeCall
      <4>2. CASE i # e.index
        <5>1. calls'[i] = calls[i] /\ ~About(e, i)
          BY <1>2, <1>6, <4>2 DEF About
        <5> QED
          BY <1>3, <3>1, <5>1 DEF ClaudeCall
      <4> QED
        BY <4>1, <4>2
    <3> QED
      BY <3>1, <3>2
  <2> QED
    BY <2>1, <2>3, <2>4, <2>5
<1>7. ASSUME e.type \in {"text", "end", "none", "ignored"}, calls' = calls,
             NEW m, StartsSending(m) \/ Continues(r), IsKnown(m, FirstIndex), \A x : ~Tells(m, x)
      PROVE  AreKnown(WithItem(s), FirstIndex) /\ \A i \in Indexes : \A sent : Keeps(i, sent)
  <2>1. AreKnown(WithItem(s), FirstIndex)
    BY <1>7, WithTheItem
  <2>2. ASSUME NEW i \in Indexes, NEW sent PROVE Keeps(i, sent)
    <3>1. ~About(e, i)
      BY <1>7 DEF About
    <3>2. /\ Untold(s, i) => Untold(WithItem(s), i)
          /\ \A args : Told(s, i, args) => Told(WithItem(s), i, args)
      BY <1>7, WithTheItem
    <3> QED
      BY <1>3, <1>7, <3>1, <3>2 DEF ClaudeCall
  <2> QED
    BY <2>1, <2>2
<1>8. CASE e.type = "garbled" /\ StartsSending(Failed("decode"))
  <2>1. Fails
    BY <1>8 DEF Fails, StartsSending, Failed
  <2> QED
    BY <1>8, <2>1, WithTheItem, MessagesTell DEF Failed
<1>9. CASE /\ e.type = "text" /\ StartsSending(Chunk(<<TextBlock(0)>>, FALSE))
           /\ UNCHANGED decoderVars
  BY <1>7, <1>9, MessagesTell DEF decoderVars
<1>10. CASE e.type = "end" /\ StartsSending(Chunk(<<>>, TRUE)) /\ UNCHANGED <<data, calls>>
  BY <1>7, <1>10, MessagesTell
<1>11. CASE e.type \in {"none", "ignored"} /\ Continues(r) /\ UNCHANGED decoderVars
  BY <1>7, <1>11, MessagesTell DEF decoderVars
<1> HIDE DEF Keeps
<1> QED
  BY <1>4, <1>5, <1>6, <1>8, <1>9, <1>10, <1>11 DEF HandleClaude

(* A call of Codex is kept by what is made of the data.                    *)
LEMMA DispatchKeepsTheCalls ==
  ASSUME Inv, provider = "codex", NEW d \in Events("codex") \cup {NoEvent}, NEW r,
         DispatchCodex(d, r), item' \in Items, NEW s \in Seq(Items), AreKnown(s, FirstIndex)
  PROVE  /\ AreKnown(WithItem(s), FirstIndex)
         /\ \A i \in Indexes : \A sent :
              CodexCall(s, i, sent, NoEvent, d)
                => Fails \/ CodexCall(WithItem(s), i, sent, NoEvent, NoEvent)
<1>1. d.type = "call" => d.index \in Indexes /\ d.index + 2 = FirstIndex + d.index
  BY CodexEvents DEF NoEvent, FirstIndex, Indexes
<1>2. ~\E i : About(NoEvent, i)
  BY DEF About, NoEvent
<1>3. ASSUME d.type \in {"text", "end", "none"},
             NEW m, StartsSending(m) \/ Continues(r), IsKnown(m, FirstIndex), \A x : ~Tells(m, x)
      PROVE  /\ AreKnown(WithItem(s), FirstIndex)
             /\ \A i \in Indexes : \A sent :
                  CodexCall(s, i, sent, NoEvent, d)
                    => CodexCall(WithItem(s), i, sent, NoEvent, NoEvent)
  <2>1. AreKnown(WithItem(s), FirstIndex)
    BY <1>3, WithTheItem
  <2>2. ASSUME NEW i \in Indexes, NEW sent, CodexCall(s, i, sent, NoEvent, d)
        PROVE  CodexCall(WithItem(s), i, sent, NoEvent, NoEvent)
    <3>1. ~About(d, i)
      BY <1>3 DEF About
    <3>2. /\ Untold(s, i + 2) => Untold(WithItem(s), i + 2)
          /\ \A args : Told(s, i + 2, args) => Told(WithItem(s), i + 2, args)
      BY <1>3, WithTheItem
    <3> QED
      BY <1>2, <2>2, <3>1, <3>2 DEF CodexCall
  <2> QED
    BY <2>1, <2>2
<1>4. CASE /\ d.type = "call"
           /\ StartsSending(Chunk(<<CallBlock(d.index + 2, <<d.index>>)>>, FALSE))
  <2> DEFINE m == Chunk(<<CallBlock(d.index + 2, <<d.index>>)>>, FALSE)
  <2>1. /\ IsCall(m, d.index + 2, <<d.index>>) /\ IsKnown(m, FirstIndex)
        /\ \A x : x # d.index + 2 => ~Tells(m, x)
    BY <1>1, <1>4, MessagesTell
  <2>2. StartsSending(m)
    BY <1>4
  <2> HIDE DEF m
  <2>3. AreKnown(WithItem(s), FirstIndex)
    BY <2>1, <2>2, WithTheItem
  <2>4. ASSUME NEW i \in Indexes, NEW sent, CodexCall(s, i, sent, NoEvent, d)
        PROVE  CodexCall(WithItem(s), i, sent, NoEvent, NoEvent)
    <3>1. CASE i = d.index
      <4>1. About(d, i)
        BY <1>4, <3>1 DEF About
      <4>2. sent.phase = "done" /\ sent.args = <<i>> /\ Untold(s, i + 2)
        BY <2>4, <4>1 DEF CodexCall
      <4>3. Told(WithItem(s), i + 2, <<i>>)
        BY <2>1, <2>2, <3>1, <4>2, WithTheItem
      <4> QED
        BY <1>2, <4>2, <4>3 DEF CodexCall
    <3>2. CASE i # d.index
      <4>1. ~About(d, i)
        BY <3>2 DEF About
      <4>2. ~Tells(m, i + 2)
        <5>1. i + 2 # d.index + 2
          BY <1>1, <1>4, <3>2 DEF Indexes
        <5> QED
          BY <2>1, <5>1
      <4>3. /\ Untold(s, i + 2) => Untold(WithItem(s), i + 2)
            /\ \A args : Told(s, i + 2, args) => Told(WithItem(s), i + 2, args)
        BY <2>2, <4>2, WithTheItem
      <4> QED
        BY <1>2, <2>4, <4>1, <4>3 DEF CodexCall
    <3> QED
      BY <3>1, <3>2
  <2> QED
    BY <2>3, <2>4
<1>5. CASE d.type \in {"failed", "garbled"} /\ StartsSending(Failed(d.type))
  <2>1. Fails
    BY <1>5 DEF Fails, StartsSending, Failed
  <2> QED
    BY <1>5, <2>1, WithTheItem, MessagesTell DEF Failed
<1>6. CASE d.type = "text" /\ StartsSending(Chunk(<<TextBlock(0)>>, FALSE))
  BY <1>3, <1>6, MessagesTell
<1>7. CASE d.type = "end" /\ StartsSending(Chunk(<<>>, TRUE))
  BY <1>3, <1>7, MessagesTell
<1>8. CASE d.type = "none" /\ Continues(r)
  BY <1>3, <1>8, MessagesTell
<1> QED
  BY <1>4, <1>5, <1>6, <1>7, <1>8 DEF DispatchCodex

(* And by what is made of a line, unless it garbles the data.              *)
LEMMA HandleCodexKeepsTheCalls ==
  ASSUME Inv, provider = "codex", NEW e \in LineEvents, NEW r, HandleCodex(e, r),
         item' \in Items, NEW s \in Seq(Items), AreKnown(s, FirstIndex)
  PROVE  /\ AreKnown(WithItem(s), FirstIndex)
         /\ \A i \in Indexes : \A sent :
              CodexCall(s, i, sent, e, data)
                => \/ Fails \/ data'.type = "garbled"
                   \/ CodexCall(WithItem(s), i, sent, NoEvent, data')
<1>1. ~\E i : About(NoEvent, i)
  BY DEF About, NoEvent
<1>2. CASE ctx # "live"
  <2>1. StartsSending(Failed(ctx))
    BY <1>2 DEF HandleCodex
  <2>2. Fails
    BY <2>1 DEF Fails, StartsSending, Failed
  <2> QED
    BY <2>1, <2>2, WithTheItem, MessagesTell DEF Failed
<1>3. CASE ctx = "live" /\ e = NoEvent
  <2>1. data' = NoEvent /\ DispatchCodex(data, r) /\ data \in Events("codex") \cup {NoEvent}
    BY <1>3 DEF HandleCodex, Inv, DecoderTyped
  <2>2. /\ AreKnown(WithItem(s), FirstIndex)
        /\ \A i \in Indexes : \A sent :
             CodexCall(s, i, sent, NoEvent, data)
               => Fails \/ CodexCall(WithItem(s), i, sent, NoEvent, NoEvent)
    BY <2>1, DispatchKeepsTheCalls
  <2> QED
    BY <1>3, <2>1, <2>2
<1>4. CASE ctx = "live" /\ e # NoEvent
  <2>1. /\ Continues(r)
        /\ data' = IF e.type = "ignored" THEN data
                   ELSE IF data = NoEvent THEN e ELSE [type |-> "garbled"]
    BY <1>4 DEF HandleCodex
  <2>2. WithItem(s) = s
    BY <2>1, WithTheItem
  <2>3. CASE e.type = "ignored"
    <3>1. data' = data /\ ~\E i : About(e, i)
      BY <2>1, <2>3 DEF About
    <3> QED
      BY <1>1, <2>2, <3>1 DEF CodexCall
  <2>4. CASE e.type # "ignored" /\ data = NoEvent
    <3>1. data' = e
      BY <2>1, <2>4
    <3> QED
      BY <1>1, <2>2, <2>4, <3>1 DEF CodexCall
  <2>5. CASE e.type # "ignored" /\ data # NoEvent
    <3>1. data'.type = "garbled"
      BY <2>1, <2>5
    <3> QED
      BY <2>2, <3>1
  <2> QED
    BY <2>3, <2>4, <2>5
<1> QED
  BY <1>2, <1>3, <1>4

(* A call is kept by what is made of a line, unless it is lost with what   *)
(* fails.                                                                  *)
LEMMA HandleKeepsTheCalls ==
  ASSUME Inv, Inv', provider # "ollama", NEW e \in LineEvents, NEW r, Handle(e, r),
         NEW s \in Seq(Items), AreKnown(s, FirstIndex)
  PROVE  /\ AreKnown(WithItem(s), FirstIndex)
         /\ ~Fails /\ data'.type # "garbled" =>
              \A i \in Indexes : \A sent :
                Kept(provider, s, i, sent, e, calls[i], data)
                  => Kept(provider, WithItem(s), i, sent, NoEvent, calls'[i], data')
<1>1. item' \in Items
  BY DEF Inv, StreamTyped
<1>2. CASE provider = "claude" /\ HandleClaude(e, r)
  <2>1. /\ AreKnown(WithItem(s), FirstIndex)
        /\ \A i \in Indexes : \A sent :
             ClaudeCall(s, i, sent, e, calls[i])
               => Fails \/ ClaudeCall(WithItem(s), i, sent, NoEvent, calls'[i])
    BY <1>1, <1>2, HandleClaudeKeepsTheCalls
  <2> QED
    BY <1>2, <2>1 DEF Kept
<1>3. CASE provider = "codex" /\ HandleCodex(e, r)
  <2>1. /\ AreKnown(WithItem(s), FirstIndex)
        /\ \A i \in Indexes : \A sent :
             CodexCall(s, i, sent, e, data)
               => \/ Fails \/ data'.type = "garbled"
                  \/ CodexCall(WithItem(s), i, sent, NoEvent, data')
    BY <1>1, <1>3, HandleCodexKeepsTheCalls
  <2> QED
    BY <1>3, <2>1 DEF Kept
<1> QED
  BY <1>2, <1>3 DEF Handle

(* A call that was sent whole, and of which nothing is left in the line or *)
(* in the data, has arrived.                                               *)
LEMMA KeptCallArrives ==
  ASSUME AnswerInv, provider \in {"claude", "codex"}, NoneIsOpen,
         NEW i \in Indexes, NEW s, NEW c,
         Kept(provider, s, i, server.calls[i], NoEvent, c, NoEvent)
  PROVE  Arrived(s, FirstIndex + i, server.calls[i])
<1>1. ~About(NoEvent, i)
  BY DEF About, NoEvent
<1>2. server.calls[i].phase \in {"none", "done"}
  <2>1. server.calls \in [Indexes -> [phase : Phases, args : Seq(Int)]]
    BY DEF AnswerInv, AnswerEnds, Servers
  <2> QED
    BY <2>1 DEF NoneIsOpen, Phases
<1>3. CASE provider = "claude"
  <2>1. ClaudeCall(s, i, server.calls[i], NoEvent, c) /\ FirstIndex + i = i
    BY <1>3 DEF Kept, FirstIndex, Indexes
  <2> QED
    BY <1>1, <1>2, <2>1 DEF ClaudeCall, Arrived
<1>4. CASE provider = "codex"
  <2>1. CodexCall(s, i, server.calls[i], NoEvent, NoEvent) /\ FirstIndex + i = i + 2
    BY <1>4 DEF Kept, FirstIndex, Indexes
  <2> QED
    BY <1>1, <1>2, <2>1 DEF CodexCall, Arrived
<1> QED
  BY <1>3, <1>4

-----------------------------------------------------------------------------
(* The invariant of the calls, step by step *)

(* The invariant of the calls holds at first, when none was sent.          *)
LEMMA InitCallsInv == Init => CallsInv
<1> SUFFICES ASSUME Init, provider # "ollama" PROVE CallsInv
  BY DEF CallsInv
<1> USE DEF Init
<1>1. producer = "request" /\ received = <<>> /\ pipe.queue = <<>> /\ end = "open" /\ ~Left
  BY NewPipeType DEF Left
<1>2. Made = <<>>
  BY <1>1 DEF Made, Answer
<1>3. /\ \A x : Untold(<<>>, x)
      /\ AreKnown(<<>>, FirstIndex)
  BY DEF Untold, AreKnown
<1>4. ~\E i : About(NoEvent, i)
  BY DEF About, NoEvent
<1>5. ASSUME NEW i \in Indexes
      PROVE  Kept(provider, Made, i, server.calls[i], line.event, calls[i], data)
  <2>1. server.calls[i] = [phase |-> "none", args |-> <<>>] /\ line.event = NoEvent
        /\ data = NoEvent
    OBVIOUS
  <2> QED
    BY <1>2, <1>3, <1>4, <2>1 DEF Kept, ClaudeCall, CodexCall
<1> QED
  BY <1>1, <1>2, <1>3, <1>5 DEF CallsInv, CallsAreKept

(* A step in which nothing is decoded, sent or received, and the goroutine *)
(* neither begins to send nor leaves.                                      *)
LEMMA StepWithoutTheCalls ==
  ASSUME CallsInv,
         UNCHANGED <<provider, server, line, decoderVars, result, item, received, end>>,
         pipe'.queue = pipe.queue,
         producer' # producer => producer' # "send" /\ producer # "send",
         Left' <=> Left
  PROVE  CallsInv'
<1>1. Answer' = Answer /\ (Good' <=> Good)
  BY SameAnswer
<1>2. UNCHANGED <<data, calls, complete>> /\ FirstIndex' = FirstIndex
  BY DEF decoderVars, FirstIndex
<1>3. Made' = Made /\ (Doomed' <=> Doomed)
  BY <1>1, <1>2 DEF Made, Doomed
<1>4. CallsAreKept => CallsAreKept'
  BY <1>1, <1>2, <1>3 DEF CallsAreKept
<1>5. /\ CallsArrive(Answer) => CallsArrive(Answer)'
      /\ CallsArrive(received) => CallsArrive(received)'
  BY <1>1, <1>2 DEF CallsArrive
<1> QED
  BY <1>1, <1>2, <1>3, <1>4, <1>5 DEF CallsInv

(* A goroutine that scans, sends or concludes has no caller at EOF.        *)
LEMMA NotAtEOF ==
  ASSUME AnswerInv, producer \in {"request", "scan", "send", "ended"}
  PROVE  end # "EOF" /\ ~Left
BY DEF AnswerInv, PipeIsInOrder, Left

(* What is doomed stays so while lines are handled.                        *)
LEMMA StillDoomed ==
  ASSUME NEW e, NEW r, Decodes(e, r), producer \in {"scan", "ended"},
         result \in {"none", "EOF"} \/ Doomed', ~Doomed'
  PROVE  ~Doomed /\ ~Fails /\ data'.type # "garbled"
BY DEF Decodes, Doomed, Fails

(* What is handled: the calls are kept.                                    *)
LEMMA DecodingKeepsTheCalls ==
  ASSUME Inv, AnswerInv, CallsInv, provider # "ollama", producer \in {"scan", "ended"},
         UNCHANGED <<provider, pipe, received, end>>, producer' \in {"scan", "send", "ended"},
         AreKnown(Answer, FirstIndex) => AreKnown(WithItem(Answer), FirstIndex),
         ~Doomed' =>
           /\ ~Doomed
           /\ \A i \in Indexes :
                Kept(provider, Answer, i, server.calls[i], line.event, calls[i], data)
                  => Kept(provider, WithItem(Answer), i, server'.calls[i], line'.event,
                          calls'[i], data')
  PROVE  CallsInv'
<1>1. Answer' = Answer /\ (Good' <=> Good) /\ FirstIndex' = FirstIndex
  BY SameAnswer DEF FirstIndex
<1>2. ~Left /\ ~Left' /\ end' # "EOF"
  BY NotAtEOF DEF Left
<1>3. Made = Answer /\ Made' = WithItem(Answer)
  BY <1>1 DEF Made, WithItem
<1>4. CallsAreKept'
  BY <1>1, <1>2, <1>3 DEF CallsInv, CallsAreKept
<1>5. Good' => AreKnown(Made, FirstIndex)'
  BY <1>1, <1>3 DEF CallsInv
<1> QED
  BY <1>2, <1>4, <1>5 DEF CallsInv

(* A byte is read.                                                         *)
LEMMA ReadsByteCallsInv ==
  ASSUME NEW byte \in Bytes
  PROVE  Inv /\ AnswerInv /\ CallsInv /\ Inv' /\ ReadsByte(byte) => CallsInv'
<1> SUFFICES ASSUME Inv, AnswerInv, CallsInv, Inv', ReadsByte(byte), provider # "ollama"
             PROVE  CallsInv'
  BY DEF CallsInv, ReadsByte
<1>1. /\ producer = "scan" /\ ServerSends(byte) /\ result = "none"
      /\ UNCHANGED <<provider, pipe, received, end>>
  BY DEF ReadsByte, callerVars, Inv, EndIsFinal
<1>2. /\ line \in Lines /\ NoEvent \in LineEvents /\ Answer \in Seq(Items)
      /\ provider # "codex" => data = NoEvent /\ ~complete
      /\ provider \in {"claude", "codex"}
  BY <1>1, AnswerTypes DEF Inv, BodyTyped, DecoderStops, LineEvents
<1>3. CASE byte = Newline
  <2>1. /\ Handle(line.event, "none") /\ line' = NewLine(line.event) /\ server' = server
    BY <1>1, <1>3, ByteSent DEF ReadsByte
  <2>2. line'.event = NoEvent /\ line.event \in LineEvents
    BY <1>2, <2>1 DEF NewLine, Lines
  <2>3. Decodes(line.event, "none")
    BY <1>2, <2>1, <2>2, HandleDecodes DEF Inv, StreamTyped
  <2>4. ~Doomed' => ~Doomed /\ ~Fails /\ data'.type # "garbled"
    BY <1>1, <2>3, StillDoomed
  <2>5. AreKnown(Answer, FirstIndex) =>
          /\ AreKnown(WithItem(Answer), FirstIndex)
          /\ ~Fails /\ data'.type # "garbled" =>
               \A i \in Indexes : \A sent :
                 Kept(provider, Answer, i, sent, line.event, calls[i], data)
                   => Kept(provider, WithItem(Answer), i, sent, NoEvent, calls'[i], data')
    BY <1>2, <2>1, <2>2, HandleKeepsTheCalls
  <2>6. producer' \in {"scan", "send", "ended"}
    BY <2>3 DEF Decodes
  <2>7. Good => AreKnown(Answer, FirstIndex)
    BY <1>1 DEF CallsInv, Made
  <2>8. CASE AreKnown(Answer, FirstIndex)
    BY <1>1, <2>1, <2>2, <2>4, <2>5, <2>6, <2>8, DecodingKeepsTheCalls
  <2>9. CASE ~Good
    <3>1. ~Good' /\ end' # "EOF"
      BY <1>1, <2>9, SameAnswer, NotAtEOF
    <3> QED
      BY <3>1 DEF CallsInv, CallsAreKept
  <2> QED
    BY <2>7, <2>8, <2>9
<1>4. CASE byte # Newline
  <2>1. /\ line' = [line EXCEPT !.len = @ + 1, !.event = IF byte = Part THEN @ ELSE byte]
        /\ \E r : Continues(r)
        /\ UNCHANGED decoderVars
    BY <1>4 DEF ReadsByte
  <2>2. /\ line.event = NoEvent /\ line'.event = IF byte = Part THEN NoEvent ELSE byte
    BY <1>1, <1>2, <1>4, <2>1, ByteSent DEF Lines
  <2>3. PICK r : Decodes(NoEvent, r) /\ Continues(r)
    BY <2>1, ContinuingDecodes
  <2>4. ~Doomed' => ~Doomed
    BY <1>1, <2>3, StillDoomed
  <2>5. WithItem(Answer) = Answer /\ producer' \in {"scan", "send", "ended"}
    BY <2>3, Continuing DEF WithItem
  <2>6. ASSUME NEW i \in Indexes,
               Kept(provider, Answer, i, server.calls[i], NoEvent, calls[i], data)
        PROVE  Kept(provider, Answer, i, server'.calls[i], line'.event, calls[i], data)
    <3>1. CASE byte = Part
      <4>1. server'.calls = server.calls
        <5>1. server \in Servers /\ byte \notin Events(provider)
          <6>1. Part.type = "part"
            BY DEF Part
          <6> QED
            BY <1>2, <3>1, <6>1, ClaudeEvents, CodexEvents DEF AnswerInv, AnswerEnds
        <5> QED
          BY <1>1, <1>4, <5>1 DEF ServerSends, Servers
      <4> QED
        BY <2>2, <2>6, <3>1, <4>1
    <3>2. CASE byte # Part
      <4>1. byte \in Events(provider) /\ SendsEvent(byte) /\ line'.event = byte
        BY <1>1, <1>4, <2>2, <3>2 DEF ServerSends
      <4>2. Says(byte, i, server.calls[i], server'.calls[i])
        BY <1>2, <4>1, EventSays DEF AnswerInv, AnswerEnds
      <4>3. CASE provider = "claude"
        <5>1. byte.type # "call"
          BY <4>1, <4>3, ClaudeEvents
        <5> QED
          BY <2>6, <4>1, <4>2, <4>3, <5>1, SayingKeepsTheCall DEF Kept
      <4>4. CASE provider = "codex"
        <5>1. byte.type \notin {"open", "args", "stop"}
          BY <4>1, <4>4, CodexEvents
        <5> QED
          BY <2>6, <4>1, <4>2, <4>4, <5>1, SayingKeepsTheCall DEF Kept
      <4> QED
        BY <1>2, <4>3, <4>4
    <3> QED
      BY <3>1, <3>2
  <2>7. UNCHANGED <<data, calls>>
    BY <2>1 DEF decoderVars
  <2>8. \A i \in Indexes :
          Kept(provider, Answer, i, server.calls[i], line.event, calls[i], data)
            => Kept(provider, WithItem(Answer), i, server'.calls[i], line'.event,
                    calls'[i], data')
    BY <2>2, <2>5, <2>6, <2>7
  <2> QED
    BY <1>1, <2>4, <2>5, <2>8, DecodingKeepsTheCalls
<1> QED
  BY <1>3, <1>4

(* The scanner ends; what it has of a line may be the end of a call.       *)
LEMMA ScanEndsCallsInv ==
  ASSUME Inv, AnswerInv, CallsInv, Inv', producer = "scan",
         NEW r \in {"EOF", "failed", "limit"}, ScanEnds(r),
         line.event # NoEvent \/ r # "limit" => server' = server
  PROVE  CallsInv'
<1> SUFFICES ASSUME provider # "ollama" PROVE CallsInv'
  BY DEF CallsInv, ScanEnds
<1>1. /\ result' = r /\ line'.event = NoEvent /\ result = "none"
      /\ UNCHANGED <<provider, pipe, received, end>>
  BY DEF ScanEnds, callerVars, NewLine, Inv, EndIsFinal
<1>2. /\ NoEvent \in LineEvents /\ Answer \in Seq(Items)
      /\ provider # "codex" => data = NoEvent /\ ~complete
      /\ Good => AreKnown(Answer, FirstIndex)
  BY AnswerTypes DEF Inv, BodyTyped, DecoderStops, LineEvents, CallsInv, Made
<1>3. CASE ~Good
  <2>1. ~Good' /\ end' # "EOF"
    BY <1>1, <1>3, SameAnswer, NotAtEOF
  <2> QED
    BY <2>1 DEF CallsInv, CallsAreKept
<1>4. CASE Good /\ line.len = 0
  <2>1. Continues(r) /\ UNCHANGED decoderVars /\ line.event = NoEvent
    BY <1>4 DEF ScanEnds, AnswerInv, AnswerEnds
  <2>2. Decodes(NoEvent, r)
    BY <2>1, ContinuingDecodes
  <2>3. WithItem(Answer) = Answer /\ producer' \in {"scan", "send", "ended"}
        /\ producer' # "send"
    BY <2>1, Continuing DEF WithItem
  <2>4. ~Doomed' => ~Doomed /\ server' = server
    <3>1. ~Doomed' => ~Doomed
      BY <1>1, <2>2, StillDoomed
    <3>2. ~Doomed' => r # "limit" \/ (provider # "codex" /\ complete)
      BY <1>1, <2>1 DEF Doomed, decoderVars
    <3> QED
      BY <1>2, <3>1, <3>2
  <2>5. UNCHANGED <<data, calls>>
    BY <2>1 DEF decoderVars
  <2> QED
    BY <1>1, <1>2, <2>1, <2>3, <2>4, <2>5, DecodingKeepsTheCalls
<1>5. CASE Good /\ line.len # 0
  <2>1. PICK e \in Leftover : Handle(e, r)
    BY <1>5 DEF ScanEnds
  <2>2. e \in LineEvents
    BY LeftoverIsAnEvent DEF Inv
  <2>3. Decodes(e, r)
    BY <1>2, <2>1, <2>2, HandleDecodes DEF Inv, StreamTyped
  <2>4. producer' \in {"scan", "send", "ended"}
    BY <2>3 DEF Decodes
  <2>5. \/ e = line.event /\ line.event # NoEvent
        \/ line.event = NoEvent /\ e.type \in {"garbled", "ignored"}
    BY DEF Leftover
  <2>6. ~Doomed' => ~Doomed /\ ~Fails /\ data'.type # "garbled"
    BY <1>1, <2>3, StillDoomed
  <2>7. ~Doomed' => server' = server
    <3> SUFFICES ASSUME ~Doomed', r = "limit" PROVE line.event # NoEvent
      OBVIOUS
    <3>1. provider # "codex" /\ complete'
      BY <1>1 DEF Doomed
    <3>2. Ends(e)
      BY <1>2, <2>3, <3>1, KindsOfEvent DEF Decodes, Outcome
    <3>3. e.type \in {"end", "record"}
      BY <3>2 DEF Ends
    <3> QED
      BY <2>5, <3>3
  <2>8. /\ AreKnown(WithItem(Answer), FirstIndex)
        /\ ~Fails /\ data'.type # "garbled" =>
             \A i \in Indexes : \A sent :
               Kept(provider, Answer, i, sent, e, calls[i], data)
                 => Kept(provider, WithItem(Answer), i, sent, NoEvent, calls'[i], data')
    BY <1>2, <1>5, <2>1, <2>2, HandleKeepsTheCalls
  <2>9. \A i \in Indexes : \A sent :
          Kept(provider, Answer, i, sent, line.event, calls[i], data)
            => Kept(provider, Answer, i, sent, e, calls[i], data)
    <3>1. e # line.event => ~\E i : About(e, i) \/ About(line.event, i)
      BY <2>5 DEF About, NoEvent
    <3>2. CASE e # line.event
      BY <3>1, <3>2 DEF Kept, ClaudeCall, CodexCall
    <3> QED
      BY <3>2
  <2> QED
    BY <1>1, <2>4, <2>6, <2>7, <2>8, <2>9, DecodingKeepsTheCalls
<1> QED
  BY <1>3, <1>4, <1>5

(* The body ends by itself.                                                *)
LEMMA ReadEndsCallsInv ==
  ASSUME NEW r \in {"EOF", "failed"}
  PROVE  Inv /\ AnswerInv /\ CallsInv /\ Inv' /\ ReadEnds(r) => CallsInv'
BY ScanEndsCallsInv DEF ReadEnds

(* A limit ends it at a byte that the decoder does not get.                *)
LEMMA RefusesCallsInv ==
  ASSUME NEW byte \in Bytes
  PROVE  Inv /\ AnswerInv /\ CallsInv /\ Inv' /\ Refuses(byte) => CallsInv'
<1> SUFFICES ASSUME Inv, AnswerInv, CallsInv, Inv', Refuses(byte) PROVE CallsInv'
  OBVIOUS
<1>1. producer = "scan" /\ ScanEnds("limit") /\ ServerSends(byte)
  BY DEF Refuses
<1>2. line.event # NoEvent => server' = server
  BY <1>1, ByteSent
<1> QED
  BY <1>1, <1>2, ScanEndsCallsInv

(* What was kept has arrived when the goroutine leaves with the answer.    *)
LEMMA LeavingWithTheAnswer ==
  ASSUME Inv, AnswerInv, CallsInv, provider # "ollama", Good, ~Doomed, ~Left, complete,
         line.event = NoEvent, data = NoEvent
  PROVE  CallsArrive(Made)
<1>1. provider \in {"claude", "codex"} /\ NoneIsOpen
  BY DEF Inv, BodyTyped, AnswerInv, AnswerEnds
<1>2. \A i \in Indexes :
        Kept(provider, Made, i, server.calls[i], NoEvent, calls[i], NoEvent)
  BY DEF CallsInv, CallsAreKept
<1> QED
  BY <1>1, <1>2, KeptCallArrives DEF CallsArrive

(* An item is sent, or dropped because the reader was closed.              *)
LEMMA SendsCallsInv == Inv /\ AnswerInv /\ CallsInv /\ Sends => CallsInv'
<1> SUFFICES ASSUME Inv, AnswerInv, CallsInv, Sends, provider # "ollama"
             PROVE  CallsInv'
  BY SendsFacts DEF CallsInv
<1>1. /\ producer = "send" /\ producer' = AfterSend
      /\ UNCHANGED <<provider, server, line, result, data, calls, complete, received, end>>
  BY SendsFacts DEF decoderVars
<1>2. producer' \in {"exit", "scan", "ended"} /\ ~Left /\ end' # "EOF" /\ Made' = Answer'
  BY <1>1, AfterSendFacts, NotAtEOF DEF Made
<1>3. CASE pipe.recvClosed
  <2>1. ~Good'
    BY <1>1, <1>3 DEF Good, AnswerInv, PipeIsInOrder
  <2> QED
    BY <1>2, <2>1 DEF CallsInv, CallsAreKept
<1>4. CASE ~pipe.recvClosed
  <2>1. Made' = Made /\ (Good' <=> Good /\ item.type = "message")
    <3>1. PipeIsInOrder
      BY DEF AnswerInv
    <3>2. Answer' = Append(Answer, item) /\ (Good' <=> Good /\ item.type = "message")
      BY <1>4, <3>1, SentAnswer
    <3> QED
      BY <1>1, <1>2, <3>2 DEF Made
  <2>2. Good' /\ ~Doomed' => Good /\ ~Doomed
    BY <1>1, <2>1 DEF Doomed
  <2>3. CallsAreKept'
    BY <1>1, <1>2, <2>1, <2>2 DEF CallsInv, CallsAreKept
  <2>4. ASSUME Good', Left' PROVE CallsArrive(Made)
    <3>1. complete /\ provider # "codex" /\ item.type = "message" /\ Good
      BY <1>1, <1>4, <2>1, <2>4, AfterSendFacts DEF Left
    <3>2. data = NoEvent /\ line.event = NoEvent
      BY <3>1 DEF Inv, DecoderStops, AnswerInv, CompleteIsTheEnd
    <3>3. ~Doomed
      BY <3>1, <3>2, KindsOfEvent DEF Doomed
    <3> QED
      BY <1>2, <3>1, <3>2, <3>3, LeavingWithTheAnswer
  <2>5. Good' /\ Left' => CallsArrive(Answer)'
    BY <1>1, <1>2, <2>1, <2>4 DEF CallsArrive, FirstIndex
  <2>6. Good' => AreKnown(Made, FirstIndex)'
    BY <1>1, <2>1 DEF CallsInv, FirstIndex
  <2> QED
    BY <1>2, <2>3, <2>5, <2>6 DEF CallsInv
<1> QED
  BY <1>3, <1>4

(* The end of the body is dispatched, reported or passed.                  *)
LEMMA ConcludesCallsInv == Inv /\ AnswerInv /\ CallsInv /\ Inv' /\ Concludes => CallsInv'
<1> SUFFICES ASSUME Inv, AnswerInv, CallsInv, Inv', Concludes, provider # "ollama"
             PROVE  CallsInv'
  BY ConcludesFacts DEF CallsInv
<1>1. /\ producer = "ended"
      /\ UNCHANGED <<provider, server, line, result, pipe, received, end>>
      /\ \/ data # NoEvent /\ data' = NoEvent /\ Decodes(NoEvent, result)
         \/ /\ data = NoEvent /\ UNCHANGED decoderVars
            /\ \/ producer' = "send" /\ item' \in Items /\ item'.type = "error"
               \/ result = "EOF" /\ complete /\ producer' = "exit" /\ item' = item
  BY ConcludesFacts
<1>2. /\ Answer' = Answer /\ (Good' <=> Good) /\ Made = Answer /\ Answer \in Seq(Items)
      /\ ~Left /\ end' # "EOF" /\ FirstIndex' = FirstIndex
  BY <1>1, SameAnswer, AnswerTypes, NotAtEOF DEF Made, FirstIndex
<1>3. Good => AreKnown(Answer, FirstIndex)
  BY <1>2 DEF CallsInv
<1>4. CASE ~Good
  BY <1>2, <1>4 DEF CallsInv, CallsAreKept
<1>5. CASE Good /\ data # NoEvent /\ data' = NoEvent /\ Decodes(NoEvent, result)
  <2>1. provider = "codex" /\ DispatchCodex(data, result) /\ result # "none"
    BY <1>1, <1>5 DEF Concludes, Inv, DecoderStops, EndIsFinal
  <2>2. ~Doomed' => ~Doomed /\ ~Fails
    <3>1. result \in {"none", "EOF"} \/ Doomed'
      BY <1>1, <2>1 DEF Doomed
    <3> QED
      BY <1>1, <1>5, <3>1, StillDoomed
  <2>3. ~Doomed' => line.event = NoEvent
    <3>1. ~Doomed' => result = "EOF"
      BY <1>1, <2>1 DEF Doomed
    <3> QED
      BY <3>1 DEF AnswerInv, AnswerEnds, NewLine
  <2>4. item' \in Items /\ data \in Events("codex") \cup {NoEvent}
    BY DEF Inv, StreamTyped, DecoderTyped
  <2>5. /\ AreKnown(WithItem(Answer), FirstIndex)
        /\ \A i \in Indexes : \A sent :
             CodexCall(Answer, i, sent, NoEvent, data)
               => Fails \/ CodexCall(WithItem(Answer), i, sent, NoEvent, NoEvent)
    BY <1>2, <1>3, <1>5, <2>1, <2>4, DispatchKeepsTheCalls
  <2>6. producer' \in {"scan", "send", "ended"}
    BY <1>5 DEF Decodes
  <2>7. ~Doomed' =>
          /\ ~Doomed
          /\ \A i \in Indexes :
               Kept(provider, Answer, i, server.calls[i], line.event, calls[i], data)
                 => Kept(provider, WithItem(Answer), i, server'.calls[i], line'.event,
                         calls'[i], data')
    BY <1>1, <1>5, <2>1, <2>2, <2>3, <2>5 DEF Kept
  <2> QED
    BY <1>1, <2>5, <2>6, <2>7, DecodingKeepsTheCalls
<1>6. CASE /\ Good /\ data = NoEvent
           /\ producer' = "send" /\ item' \in Items /\ item'.type = "error"
  <2>1. Doomed' /\ ~Left' /\ Made' = Append(Answer, item')
    BY <1>2, <1>6 DEF Doomed, Left, Made
  <2>2. AreKnown(Append(Answer, item'), FirstIndex)
    <3>1. IsKnown(item', FirstIndex)
      BY <1>6, MessagesTell
    <3> QED
      BY <1>2, <1>3, <1>6, <3>1, ToldByAppend
  <2>3. AreKnown(Made, FirstIndex)'
    BY <1>2, <2>1, <2>2
  <2> QED
    BY <1>2, <2>1, <2>3 DEF CallsInv, CallsAreKept
<1>7. CASE /\ Good /\ data = NoEvent /\ UNCHANGED decoderVars
           /\ result = "EOF" /\ complete /\ producer' = "exit"
  <2>1. Left' /\ Made' = Answer
    BY <1>2, <1>7 DEF Left, Made
  <2>2. line.event = NoEvent
    BY <1>7 DEF AnswerInv, AnswerEnds, NewLine
  <2>3. ~Doomed
    BY <1>1, <1>7, KindsOfEvent DEF Doomed
  <2>4. CallsArrive(Answer)
    BY <1>2, <1>7, <2>2, <2>3, LeavingWithTheAnswer
  <2>5. CallsArrive(Answer)' /\ AreKnown(Made, FirstIndex)'
    BY <1>1, <1>2, <1>3, <1>7, <2>1, <2>4 DEF CallsArrive
  <2> QED
    BY <1>2, <2>1, <2>5 DEF CallsInv, CallsAreKept
<1> QED
  BY <1>1, <1>4, <1>5, <1>6, <1>7

(* The request, the deferred calls, the context, and no step at all.       *)
LEMMA OtherCallsInv ==
  ASSUME NEW b
  PROVE  Inv /\ AnswerInv /\ CallsInv
           /\ (\/ RequestSucceeds \/ RequestFails(b) \/ ClosesWriter \/ ClosesBody \/ Cancel
               \/ UNCHANGED vars)
           => CallsInv'
<1> SUFFICES ASSUME Inv, AnswerInv, CallsInv,
                    \/ RequestSucceeds \/ RequestFails(b) \/ ClosesWriter \/ ClosesBody
                    \/ Cancel \/ UNCHANGED vars
             PROVE  CallsInv'
  OBVIOUS
<1>1. CASE RequestFails(b)
  <2>1. end' = "error" /\ ~Good'
    BY <1>1 DEF RequestFails, Good
  <2> QED
    BY <2>1 DEF CallsInv, CallsAreKept
<1>2. CASE ~RequestFails(b)
  <2>1. UNCHANGED <<provider, server, line, decoderVars, result, item, received, end>>
    BY <1>2 DEF RequestSucceeds, ClosesWriter, ClosesBody, Cancel, vars, bodyVars,
                producerVars, callerVars
  <2>2. pipe'.queue = pipe.queue
    <3>1. CASE ClosesWriter
      <4>1. pipe \in Pipes(Items) /\ pipe' = [pipe EXCEPT !.sendClosed = TRUE]
        BY <3>1 DEF Inv, StreamTyped, ClosesWriter
      <4> QED
        BY <4>1, ClosedProperties
    <3>2. CASE ~ClosesWriter
      BY <1>2, <3>2 DEF RequestSucceeds, ClosesBody, Cancel, vars
    <3> QED
      BY <3>1, <3>2
  <2>3. /\ producer' # producer => producer' # "send" /\ producer # "send"
        /\ Left' <=> Left
    BY <1>2 DEF RequestSucceeds, ClosesWriter, ClosesBody, Cancel, vars, producerVars, Left
  <2> QED
    BY <2>1, <2>2, <2>3, StepWithoutTheCalls
<1> QED
  BY <1>1, <1>2

(* What the caller gets is what was before it.                             *)
LEMMA CallerReceivesCallsInv == Inv /\ AnswerInv /\ CallsInv /\ CallerReceives => CallsInv'
<1> SUFFICES ASSUME Inv, AnswerInv, CallsInv, CallerReceives, provider # "ollama"
             PROVE  CallsInv'
  BY ReceivesFacts DEF CallsInv
<1>1. UNCHANGED <<provider, server, line, result, data, calls, complete, producer, item>>
  BY ReceivesFacts DEF decoderVars
<1>2. CASE Good /\ Left /\ Answer = received /\ received' = received /\ end' = "EOF"
  <2>1. ~Good' /\ Made = Answer
    BY <1>2 DEF Good, Made, Left
  <2>2. AreKnown(received, FirstIndex) /\ CallsArrive(received)
    BY <1>2, <2>1 DEF CallsInv
  <2>3. AreKnown(received, FirstIndex)' /\ CallsArrive(received)'
    BY <1>1, <1>2, <2>2 DEF CallsArrive, FirstIndex
  <2> QED
    BY <2>1, <2>3 DEF CallsInv, CallsAreKept
<1>3. CASE end' = "error"
  BY <1>3 DEF CallsInv, CallsAreKept, Good
<1>4. CASE Answer' = Answer /\ (Good' <=> Good) /\ end' = "open"
  <2>1. /\ Made' = Made /\ (Doomed' <=> Doomed) /\ (Left' <=> Left)
        /\ FirstIndex' = FirstIndex
    BY <1>1, <1>4 DEF Made, Doomed, Left, FirstIndex
  <2>2. CallsAreKept => CallsAreKept'
    BY <1>1, <1>4, <2>1 DEF CallsAreKept
  <2>3. CallsArrive(Answer) => CallsArrive(Answer)'
    BY <1>1, <1>4, <2>1 DEF CallsArrive
  <2> QED
    BY <1>4, <2>1, <2>2, <2>3 DEF CallsInv
<1> QED
  BY <1>2, <1>3, <1>4, ReceivedAnswer

(* A caller that leaves early has no answer; after EOF it keeps it.        *)
LEMMA CallerClosesCallsInv == Inv /\ CallsInv /\ CallerCloses => CallsInv'
<1> SUFFICES ASSUME Inv, CallsInv, CallerCloses PROVE CallsInv'
  OBVIOUS
<1>1. /\ IF end = "open" THEN end' = "closed" ELSE UNCHANGED <<end, received>>
      /\ UNCHANGED <<provider, server>>
  BY DEF CallerCloses
<1>2. ~Good' /\ (end' = "EOF" => end = "EOF" /\ UNCHANGED received)
  BY <1>1 DEF Good
<1>3. FirstIndex' = FirstIndex
  BY <1>1 DEF FirstIndex
<1>4. end' = "EOF" /\ CallsArrive(received) => CallsArrive(received)'
  BY <1>1, <1>2, <1>3 DEF CallsArrive
<1> QED
  BY <1>1, <1>2, <1>3, <1>4 DEF CallsInv, CallsAreKept

(* Every step keeps the invariant of the calls.                            *)
LEMMA NextCallsInv == Inv /\ Inv' /\ AnswerInv /\ CallsInv /\ [Next]_vars => CallsInv'
BY OtherCallsInv, ReadsByteCallsInv, ReadEndsCallsInv, RefusesCallsInv, SendsCallsInv,
   ConcludesCallsInv, CallerReceivesCallsInv, CallerClosesCallsInv
DEF Next, Produces

(* The invariant of the calls holds in every reachable state.              *)
THEOREM CallsInvHolds == Spec => []CallsInv
<1> QED
  BY InitCallsInv, NextCallsInv, InvHolds, AnswerInvHolds, PTL DEF Spec

-----------------------------------------------------------------------------
(* The calls of the caller *)

(* The arguments of the call of an index, joined message by message.       *)
JoinedWith(v, k, x) ==
  LET bs == {b \in BlocksOf(received[k]) : b.call /\ b.index = x}
  IN  IF bs = {} THEN v ELSE v \o (CHOOSE b \in bs : TRUE).args

IsTheJoin(f, x) ==
  f = [k \in 0 .. Len(received) |-> IF k = 0 THEN <<>> ELSE JoinedWith(f[k - 1], k, x)]

(* A call that one message has whole, and of which no other says anything, *)
(* is joined to what that message says.                                    *)
LEMMA JoinOfACall ==
  ASSUME received \in Seq(Messages), NEW x, NEW args \in Seq(Int), Told(received, x, args)
  PROVE  ArgsAt(x) = args
<1> DEFINE n == Len(received)
<1>1. n \in Nat /\ \A k \in 1 .. n : received[k].type = "message"
  <2>1. \A m \in Messages : m.type = "message"
    BY DEF Messages
  <2> QED
    BY <2>1, LenProperties, ElementOfSeq
<1>2. PICK m \in 1 .. n : /\ IsCall(received[m], x, args)
                          /\ \A j \in 1 .. n : j # m => ~Tells(received[j], x)
  BY DEF Told
<1>3. ASSUME NEW k \in 1 .. n, NEW v, k # m PROVE JoinedWith(v, k, x) = v
  <2>1. {b \in BlocksOf(received[k]) : b.call /\ b.index = x} = {}
    BY <1>1, <1>2, <1>3 DEF Tells
  <2> QED
    BY <2>1 DEF JoinedWith
<1>4. JoinedWith(<<>>, m, x) = args
  <2>0. ASSUME NEW b, received[m].blocks = <<b>> PROVE BlocksOf(received[m]) = {b}
    BY <2>0 DEF BlocksOf
  <2>1. BlocksOf(received[m]) = {CallBlock(x, args)}
    BY <1>2, <2>0 DEF IsCall
  <2>2. {b \in BlocksOf(received[m]) : b.call /\ b.index = x} = {CallBlock(x, args)}
    BY <2>1 DEF CallBlock
  <2>3. (CHOOSE b \in {CallBlock(x, args)} : TRUE).args = args
    <3>1. ASSUME NEW c PROVE (CHOOSE b \in {c} : TRUE) = c
      OBVIOUS
    <3>2. CallBlock(x, args).args = args
      BY DEF CallBlock
    <3> QED
      BY <3>1, <3>2
  <2>4. <<>> \o args = args
    BY ConcatEmptySeq
  <2> QED
    BY <2>2, <2>3, <2>4 DEF JoinedWith
<1> DEFINE f == [k \in 0 .. n |-> IF k < m THEN <<>> ELSE args]
<1>5. f[0] = <<>> /\ f[n] = args
  BY <1>1
<1>6. \A k \in 1 .. n : f[k] = JoinedWith(f[k - 1], k, x)
  <2> SUFFICES ASSUME NEW k \in 1 .. n PROVE f[k] = JoinedWith(f[k - 1], k, x)
    OBVIOUS
  <2>1. f[k] = (IF k < m THEN <<>> ELSE args)
        /\ f[k - 1] = (IF k - 1 < m THEN <<>> ELSE args)
    BY <1>1
  <2>2. CASE k = m
    BY <1>4, <2>1, <2>2
  <2>3. CASE k # m
    <3>1. f[k] = f[k - 1]
      BY <2>1, <2>3
    <3> QED
      BY <1>3, <2>3, <3>1
  <2> QED
    BY <2>2, <2>3
<1> HIDE DEF f
<1>7. IsTheJoin(f, x)
  <2>1. f = [k \in 0 .. n |-> f[k]]
    BY DEF f
  <2>2. \A k \in 0 .. n : f[k] = IF k = 0 THEN <<>> ELSE JoinedWith(f[k - 1], k, x)
    BY <1>1, <1>5, <1>6
  <2>3. f = [k \in 0 .. n |-> IF k = 0 THEN <<>> ELSE JoinedWith(f[k - 1], k, x)]
    BY <2>1, <2>2
  <2> QED
    BY <2>3 DEF IsTheJoin
<1> DEFINE g == CHOOSE h : IsTheJoin(h, x)
<1>8. IsTheJoin(g, x) /\ ArgsAt(x) = g[n]
  <2>1. IsTheJoin(g, x)
    BY <1>7
  <2>2. ArgsAt(x) = g[n]
    BY DEF ArgsAt, IsTheJoin, JoinedWith
  <2> QED
    BY <2>1, <2>2
<1> HIDE DEF g
<1>9. g[0] = <<>> /\ \A k \in 1 .. n : g[k] = JoinedWith(g[k - 1], k, x)
  <2>1. \A k \in 0 .. n : g[k] = IF k = 0 THEN <<>> ELSE JoinedWith(g[k - 1], k, x)
    BY <1>8 DEF IsTheJoin
  <2> QED
    BY <1>1, <2>1
<1>10. \A k \in 1 .. n : f[k - 1] = g[k - 1] => f[k] = g[k]
  BY <1>6, <1>9
<1>11. \A k \in 0 .. n : f[k] = g[k]
  <2> HIDE DEF n
  <2>1. f[0] = g[0]
    BY <1>5, <1>9
  <2> QED
    BY <1>1, <1>10, <2>1, RecursionIsUnique, ZenonT(30)
<1> QED
  BY <1>1, <1>5, <1>8, <1>11

(* A caller that has got EOF from Claude or Codex has every call that the  *)
(* server sent, and no other, each with its own arguments, whole and in    *)
(* order, however the fragments of several came by turns, for every number *)
(* of calls and fragments (Stream of claude/agenticmodel.go,               *)
(* openaicodex/agentic_stream.go).                                         *)
THEOREM ToolCallsArriveWhole == Spec => []ToolCallsAreWhole
<1>1. Inv /\ AnswerInv /\ CallsInv => ToolCallsAreWhole
  <2> SUFFICES ASSUME Inv, AnswerInv, CallsInv, end = "EOF", provider # "ollama"
               PROVE  ToolCallsAreWhole
    BY DEF ToolCallsAreWhole
  <2> DEFINE Calls == {c \in UNION {BlocksOf(received[k]) : k \in DOMAIN received} : c.call}
  <2>1. received \in Seq(Messages) /\ DOMAIN received = 1 .. Len(received)
        /\ \A k \in 1 .. Len(received) : received[k].type = "message"
    <3>1. received \in Seq(Messages)
      BY DEF Inv, StreamTyped
    <3>2. \A m \in Messages : m.type = "message"
      BY DEF Messages
    <3> QED
      BY <3>1, <3>2, LenProperties, ElementOfSeq
  <2>2. AreKnown(received, FirstIndex) /\ CallsArrive(received)
    BY DEF CallsInv
  <2>3. server.calls \in [Indexes -> [phase : Phases, args : Seq(Int)]]
    BY DEF AnswerInv, AnswerEnds, Servers
  <2>4. ASSUME NEW i \in Started
        PROVE  i \in Indexes /\ Told(received, FirstIndex + i, server.calls[i].args)
    BY <2>2 DEF Started, CallsArrive, Arrived
  <2>5. {b.index : b \in Calls} \subseteq {FirstIndex + i : i \in Started}
    <3> SUFFICES ASSUME NEW k \in 1 .. Len(received), NEW b \in BlocksOf(received[k]), b.call
                 PROVE  \E i \in Started : b.index = FirstIndex + i
      BY <2>1
    <3>1. PICK i \in Indexes : b.index = FirstIndex + i
      BY <2>1, <2>2 DEF AreKnown, IsKnown
    <3>2. Tells(received[k], FirstIndex + i)
      BY <2>1, <3>1 DEF Tells
    <3>3. i \in Started
      BY <2>2, <3>2 DEF Started, CallsArrive, Arrived, Untold
    <3> QED
      BY <3>1, <3>3
  <2>6. {FirstIndex + i : i \in Started} \subseteq {b.index : b \in Calls}
    <3> SUFFICES ASSUME NEW i \in Started
                 PROVE  \E b \in Calls : FirstIndex + i = b.index
      OBVIOUS
    <3> DEFINE c == CallBlock(FirstIndex + i, server.calls[i].args)
    <3>1. PICK k \in 1 .. Len(received) : received[k].blocks = <<c>>
      BY <2>4 DEF Told, IsCall
    <3>2. c.call /\ c.index = FirstIndex + i
      BY DEF CallBlock
    <3> HIDE DEF c
    <3>3. c \in BlocksOf(received[k])
      BY <3>1 DEF BlocksOf
    <3> QED
      BY <2>1, <3>2, <3>3
  <2>7. ASSUME NEW i \in Started PROVE ArgsAt(FirstIndex + i) = server.calls[i].args
    <3>1. server.calls[i].args \in Seq(Int)
      BY <2>3, <2>4
    <3> QED
      BY <2>1, <2>4, <3>1, JoinOfACall
  <2> QED
    BY <2>5, <2>6, <2>7 DEF ToolCallsAreWhole
<1> QED
  BY <1>1, InvHolds, AnswerInvHolds, CallsInvHolds, PTL

=============================================================================
