------------------------- MODULE CodexStream_proofs -------------------------
(***************************************************************************)
(* Proofs about CodexStream: that EOF is an answer, and that a caller that *)
(* has seen it has every tool call whole, for every number of calls, of    *)
(* tokens of their arguments, of texts, and every capacity of the pipe.    *)
(*                                                                         *)
(* Three invariants, each on top of the one before it: of the types and of *)
(* the order in the pipe (BaseInv), of the answer that is being made       *)
(* (AnswerInv), and of the calls in it (CallsInv).  The last two speak of  *)
(* Made: what the caller has, what is in the pipe and what is being sent,  *)
(* read as one sequence, which only the handling of an event makes longer. *)
(* They say nothing of an answer that is certain to end with an error.     *)
(*                                                                         *)
(* That the arguments of a call are the join of its chunks is proved by    *)
(* induction over the chunks, with the lemmas of Pipe_proofs.              *)
(***************************************************************************)
EXTENDS CodexStream, Pipe_proofs

(* The types of the variables. *)
CallChunks == [type : {"call"}, index : Nat, id : Ids, args : Seq(Nat)]
Terminals  == [type : {"terminal"}, finish : {"stop", "tool_calls"}, reasoning : Nat]
Chunks == {TextChunk} \cup CallChunks \cup Terminals
Errors == {"canceled", "server", "read", "incomplete", "panic"}
Failures == [type : {"error"}, id : {0}, keep : BOOLEAN, err : Errors]
Items == Chunks \cup Failures \cup {EOFItem}
Calls == [known : BOOLEAN, index : Nat, callID : Ids, sawDelta : BOOLEAN]

Typed ==
  /\ ctx \in {"live", "canceled"}
  /\ server \in [Outputs -> [phase : {"none", "open", "done"}, args : Seq(Nat)]]
  /\ texts \in Nat /\ items \in Nat /\ over \in BOOLEAN
  /\ producer \in {"request", "scan", "send", "ended", "exit", "report", "close", "done"}
  /\ result \in {"none", "EOF", "failed"} /\ item \in Items /\ panicked \in BOOLEAN
  /\ openCalls \in [Outputs -> Calls] /\ nextIndex \in Nat /\ reasoning \in Nat
  /\ sawToolCall \in BOOLEAN /\ completed \in BOOLEAN
  /\ pipe \in Pipes(Items) /\ produced \in Nat /\ received \in Seq(Chunks)
  /\ end \in {"open", "EOF", "error", "closed"}

(* The chunks of the answer: those the caller has, those in the pipe, and  *)
(* the one that is being sent.                                             *)
Answer == received \o pipe.queue
Made   == IF producer = "send" THEN Append(Answer, item) ELSE Answer

(* What is certain to end with an error, and what is not.                  *)
Broken == \E k \in 1 .. Len(pipe.queue) : pipe.queue[k].type = "error"
Doomed == \/ producer \in {"send", "report"} /\ item.type = "error"
          \/ producer = "exit" /\ panicked
Fine   == end = "open" /\ ~Broken /\ ~Doomed
Left   == producer \in {"exit", "report", "close", "done"}

(* An error is the last thing that is sent, and before EOF the writer is   *)
(* closed.                                                                 *)
PipeIsInOrder ==
  /\ producer = "send" => item.type \in {"text", "call", "terminal", "error"}
  /\ producer = "report" => item.type = "error"
  /\ \A k \in 1 .. Len(pipe.queue) :
       pipe.queue[k].type \in {"text", "call", "terminal", "error"}
  /\ Broken => Left
  /\ pipe.recvClosed => end # "open"
  /\ pipe.sendClosed => producer = "done"
  /\ end = "EOF" => pipe.sendClosed

(* The outputs that were announced.                                        *)
Known == {o \in Outputs : openCalls[o].known}

(* What the goroutine keeps fits what it has made; the terminal chunk is   *)
(* made once, and nothing behind it; and nobody leaves before it without   *)
(* an error.                                                               *)
AnswerIsTold ==
  Fine =>
    /\ Len(Answer) = produced
    /\ reasoning = items
    /\ sawToolCall <=> CallsOf(Made) # {}
    /\ Known # {} => sawToolCall
    /\ completed => over /\ Made # <<>> /\ Made[Len(Made)] = BuildCompletedMessage
    /\ \A k \in 1 .. Len(Made) : Made[k].type = "terminal" => completed /\ k = Len(Made)
    /\ Left => completed

(* The outputs that have an index: those announced and those done.         *)
Claimed == Known \cup Done

IndexesAreClaimed ==
  /\ Indexes(Made) = 0 .. nextIndex - 1
  /\ nextIndex = Cardinality(Claimed)
  /\ \A o \in Known :
       /\ server[o].phase # "none" /\ openCalls[o].index < nextIndex
       /\ openCalls[o].callID \in {o, Blank}
       /\ \A p \in Known : openCalls[o].index = openCalls[p].index => o = p
  /\ completed => \A o \in Outputs : server[o].phase # "open"

(* What has been made of a call that is open and was announced.            *)
OpenIsStreamed(o) ==
  LET index == openCalls[o].index
  IN  /\ IdsAt(Made, index) \subseteq {o}
      /\ ArgsAt(Made, index) = server[o].args
      /\ openCalls[o].sawDelta <=> server[o].args # <<>>

(* What has been made of a call that is done, under an index of its own.   *)
DoneIsWhole(o, index) ==
  /\ \A p \in Known : openCalls[p].index = index => p = o
  /\ IdsAt(Made, index) = {o}
  /\ ArgsAt(Made, index) = OrEmptyObject(server[o].args)

Told ==
  /\ IndexesAreClaimed
  /\ \A o \in Known \ Done : OpenIsStreamed(o)
  /\ \A o \in Done : \E index \in 0 .. nextIndex - 1 : DoneIsWhole(o, index)

CallsAreTold == Fine => Told

(* The server streams no arguments of a call before it starts it.          *)
UnstartedIsEmpty ==
  \A o \in Outputs : server[o].phase = "none" => server[o].args = <<>>
-----------------------------------------------------------------------------
(* What one chunk more changes in the tool calls of a message. *)

(* A chunk is of one of three kinds.                                       *)
LEMMA KindsOfChunk ==
  ASSUME NEW c \in Chunks
  PROVE  /\ c.type \in {"text", "call", "terminal"}
         /\ c.type = "call" => c \in CallChunks
BY DEF Chunks, CallChunks, Terminals, TextChunk

(* The item of a call is a chunk.                                          *)
LEMMA CallItems ==
  ASSUME NEW c \in Items, c.type = "call"
  PROVE  /\ c \in CallChunks
         /\ c.index \in Nat /\ c.id \in Ids /\ c.args \in Seq(Nat)
<1>1. c \in CallChunks
  BY DEF Items, Failures, EOFItem, Chunks, Terminals, TextChunk
<1> QED
  BY <1>1 DEF CallChunks

(* The calls of a longer message.                                          *)
LEMMA CallsOfAppend ==
  ASSUME NEW s \in Seq(Items), NEW c \in Items
  PROVE  CallsOf(Append(s, c)) =
           IF c.type = "call" THEN CallsOf(s) \cup {Len(s) + 1} ELSE CallsOf(s)
<1> DEFINE n == Len(s)
           t == Append(s, c)
<1>1. /\ n \in Nat /\ DOMAIN s = 1 .. n /\ DOMAIN t = 1 .. (n + 1)
      /\ t[n + 1] = c /\ \A k \in 1 .. n : t[k] = s[k]
  BY AppendProperties, LenProperties
<1> HIDE DEF n, t
<1>2. CallsOf(s) = {k \in 1 .. n : s[k].type = "call"}
  BY <1>1 DEF CallsOf
<1>3. CallsOf(t) = {k \in 1 .. (n + 1) : t[k].type = "call"}
  BY <1>1 DEF CallsOf
<1>4. CallsOf(t) = IF c.type = "call" THEN CallsOf(s) \cup {n + 1} ELSE CallsOf(s)
  BY <1>1, <1>2, <1>3
<1> QED
  BY <1>4 DEF n, t

(* Its calls are among its chunks.                                         *)
LEMMA CallsAreChunks ==
  ASSUME NEW s \in Seq(Items), NEW k \in CallsOf(s)
  PROVE  k \in 1 .. Len(s) /\ s[k] \in Items /\ s[k].type = "call"
<1>1. k \in DOMAIN s /\ s[k].type = "call" /\ DOMAIN s = 1 .. Len(s)
  BY LenProperties DEF CallsOf
<1> QED
  BY <1>1, ElementOfSeq

(* Its indexes.                                                            *)
LEMMA IndexesOfAppend ==
  ASSUME NEW s \in Seq(Items), NEW c \in Items
  PROVE  Indexes(Append(s, c)) =
           IF c.type = "call" THEN Indexes(s) \cup {c.index} ELSE Indexes(s)
<1> DEFINE n == Len(s)
           t == Append(s, c)
<1>1. /\ n \in Nat /\ t[n + 1] = c /\ \A k \in 1 .. n : t[k] = s[k]
  BY AppendProperties, LenProperties
<1>2. CallsOf(t) = IF c.type = "call" THEN CallsOf(s) \cup {n + 1} ELSE CallsOf(s)
  BY CallsOfAppend
<1>3. CallsOf(s) \subseteq 1 .. n
  BY CallsAreChunks
<1> HIDE DEF n, t
<1>4. \A k \in CallsOf(s) : t[k] = s[k]
  BY <1>1, <1>3
<1>5. Indexes(t) = IF c.type = "call" THEN Indexes(s) \cup {c.index} ELSE Indexes(s)
  BY <1>1, <1>2, <1>4 DEF Indexes
<1> QED
  BY <1>5 DEF t

(* The ids of one of them.                                                 *)
LEMMA IdsOfAppend ==
  ASSUME NEW s \in Seq(Items), NEW c \in Items, NEW index
  PROVE  IdsAt(Append(s, c), index) =
           IF c.type = "call" /\ c.index = index
           THEN IdsAt(s, index) \cup ({c.id} \ {Blank}) ELSE IdsAt(s, index)
<1> DEFINE n == Len(s)
           t == Append(s, c)
           S == {k \in CallsOf(s) : s[k].index = index}
           T == {k \in CallsOf(t) : t[k].index = index}
<1>1. /\ n \in Nat /\ t[n + 1] = c /\ \A k \in 1 .. n : t[k] = s[k]
  BY AppendProperties, LenProperties
<1>2. CallsOf(t) = IF c.type = "call" THEN CallsOf(s) \cup {n + 1} ELSE CallsOf(s)
  BY CallsOfAppend
<1>3. CallsOf(s) \subseteq 1 .. n
  BY CallsAreChunks
<1> HIDE DEF n, t
<1>4. \A k \in CallsOf(s) : t[k] = s[k]
  BY <1>1, <1>3
<1>5. T = IF c.type = "call" /\ c.index = index THEN S \cup {n + 1} ELSE S
  BY <1>1, <1>2, <1>4
<1>6. \A k \in S : t[k] = s[k]
  BY <1>4
<1>7. IdsAt(s, index) = {s[k].id : k \in S} \ {Blank}
  BY DEF IdsAt
<1>8. IdsAt(t, index) = {t[k].id : k \in T} \ {Blank}
  BY DEF IdsAt
<1> HIDE DEF S, T
<1>9. IdsAt(t, index) =
        IF c.type = "call" /\ c.index = index
        THEN IdsAt(s, index) \cup ({c.id} \ {Blank}) ELSE IdsAt(s, index)
  BY <1>1, <1>5, <1>6, <1>7, <1>8
<1> QED
  BY <1>9 DEF t

(* The arguments of one of them are joined chunk by chunk.                 *)
IsTheJoin(f, s, index) ==
  f = [k \in 0 .. Len(s) |->
         IF k = 0 THEN <<>>
         ELSE IF k \in CallsOf(s) /\ s[k].index = index THEN f[k - 1] \o s[k].args
              ELSE f[k - 1]]

(* The join of a message exists.                                         *)
LEMMA JoinExists ==
  ASSUME NEW s \in Seq(Items), NEW index
  PROVE  \E f : IsTheJoin(f, s, index) /\ ArgsAt(s, index) = f[Len(s)]
<1> DEFINE n == Len(s)
           X == Seq(Nat)
           step == [k \in 1 .. n |-> [v \in X |->
                      IF k \in CallsOf(s) /\ s[k].index = index
                      THEN v \o s[k].args ELSE v]]
<1>1. n \in Nat
  BY LenProperties
<1>2. ASSUME NEW v \in X, NEW k \in 1 .. n
      PROVE  /\ step[k][v] = IF k \in CallsOf(s) /\ s[k].index = index
                                 THEN v \o s[k].args ELSE v
             /\ step[k][v] \in X
  <2>1. step[k][v] = IF k \in CallsOf(s) /\ s[k].index = index
                         THEN v \o s[k].args ELSE v
    OBVIOUS
  <2>2. ASSUME k \in CallsOf(s) PROVE s[k].args \in X
    <3>1. s[k] \in Items /\ s[k].type = "call"
      BY <2>2, CallsAreChunks
    <3> QED
      BY <3>1, CallItems
  <2>3. step[k][v] \in X
    <3> HIDE DEF step
    <3> QED
      BY <2>1, <2>2, ConcatProperties
  <2> QED
    BY <2>1, <2>3
<1>3. step \in [1 .. n -> [X -> X]]
  BY <1>2
<1>4. PICK f \in [0 .. n -> X] :
        f[0] = <<>> /\ \A k \in 1 .. n : f[k] = step[k][f[k - 1]]
  <2> DEFINE c == <<>>
  <2>1. c \in X
    OBVIOUS
  <2> HIDE DEF X, step, n, c
  <2>2. \E f \in [0 .. n -> X] :
          f[0] = c /\ \A k \in 1 .. n : f[k] = step[k][f[k - 1]]
    BY <1>1, <1>3, <2>1, RecursionExists
  <2> QED
    BY <2>2 DEF c
<1>5. IsTheJoin(f, s, index)
  <2>1. ASSUME NEW k \in 1 .. n
        PROVE  f[k] = IF k \in CallsOf(s) /\ s[k].index = index THEN f[k - 1] \o s[k].args
                      ELSE f[k - 1]
    <3>1. f[k - 1] \in X
      BY <1>1
    <3> HIDE DEF step, X
    <3> QED
      BY <1>2, <1>4, <3>1
  <2>2. f = [k \in 0 .. n |-> f[k]]
    OBVIOUS
  <2>3. \A k \in 0 .. n : k # 0 => k \in 1 .. n
    BY <1>1
  <2> HIDE DEF n, X, step
  <2>4. \A k \in 0 .. n :
          f[k] = IF k = 0 THEN <<>>
                 ELSE IF k \in CallsOf(s) /\ s[k].index = index THEN f[k - 1] \o s[k].args
                      ELSE f[k - 1]
    BY <1>4, <2>1, <2>3
  <2>5. f = [k \in 0 .. n |->
                 IF k = 0 THEN <<>>
                 ELSE IF k \in CallsOf(s) /\ s[k].index = index THEN f[k - 1] \o s[k].args
                      ELSE f[k - 1]]
    BY <2>2, <2>4
  <2> QED
    BY <2>5 DEF IsTheJoin, n
<1> DEFINE g == CHOOSE h : IsTheJoin(h, s, index)
<1>6. IsTheJoin(g, s, index)
  BY <1>5
<1>7. ArgsAt(s, index) = g[Len(s)]
  BY DEF ArgsAt, IsTheJoin
<1> QED
  BY <1>6, <1>7

(* One chunk more is its arguments more.                                   *)
LEMMA ArgsOfAppend ==
  ASSUME NEW s \in Seq(Items), NEW c \in Items, NEW index
  PROVE  ArgsAt(Append(s, c), index) =
           IF c.type = "call" /\ c.index = index
           THEN ArgsAt(s, index) \o c.args ELSE ArgsAt(s, index)
<1> DEFINE n == Len(s)
           t == Append(s, c)
<1>1. /\ n \in Nat /\ t \in Seq(Items) /\ Len(t) = n + 1
      /\ t[n + 1] = c /\ \A k \in 1 .. n : t[k] = s[k]
  BY AppendProperties, LenProperties
<1>2. CallsOf(t) = IF c.type = "call" THEN CallsOf(s) \cup {n + 1} ELSE CallsOf(s)
  BY CallsOfAppend
<1>3. CallsOf(s) \subseteq 1 .. n
  BY CallsAreChunks
<1>4. PICK f : IsTheJoin(f, s, index) /\ ArgsAt(s, index) = f[n]
  BY JoinExists
<1> HIDE DEF n, t
<1>5. PICK g : IsTheJoin(g, t, index) /\ ArgsAt(t, index) = g[n + 1]
  BY <1>1, JoinExists
<1>6. /\ f[0] = <<>>
      /\ \A k \in 1 .. n : f[k] = IF k \in CallsOf(s) /\ s[k].index = index
                                  THEN f[k - 1] \o s[k].args ELSE f[k - 1]
  <2>1. \A k \in 0 .. n : f[k] = IF k = 0 THEN <<>>
                               ELSE IF k \in CallsOf(s) /\ s[k].index = index
                                    THEN f[k - 1] \o s[k].args ELSE f[k - 1]
    BY <1>4 DEF IsTheJoin, n
  <2>2. 0 \in 0 .. n /\ \A k \in 1 .. n : k \in 0 .. n /\ k # 0
    BY <1>1
  <2> QED
    BY <2>1, <2>2
<1>7. /\ g[0] = <<>>
      /\ \A k \in 1 .. (n + 1) : g[k] = IF k \in CallsOf(t) /\ t[k].index = index
                                        THEN g[k - 1] \o t[k].args ELSE g[k - 1]
  <2>1. \A k \in 0 .. (n + 1) : g[k] = IF k = 0 THEN <<>>
                                     ELSE IF k \in CallsOf(t) /\ t[k].index = index
                                          THEN g[k - 1] \o t[k].args ELSE g[k - 1]
    BY <1>1, <1>5 DEF IsTheJoin
  <2>2. 0 \in 0 .. (n + 1) /\ \A k \in 1 .. (n + 1) : k \in 0 .. (n + 1) /\ k # 0
    BY <1>1
  <2> QED
    BY <2>1, <2>2
<1>8. \A k \in 1 .. n : f[k - 1] = g[k - 1] => f[k] = g[k]
  <2> SUFFICES ASSUME NEW k \in 1 .. n, f[k - 1] = g[k - 1] PROVE f[k] = g[k]
    OBVIOUS
  <2>1. t[k] = s[k] /\ (k \in CallsOf(t) <=> k \in CallsOf(s)) /\ k \in 1 .. (n + 1)
    BY <1>1, <1>2, <1>3
  <2> QED
    BY <1>6, <1>7, <2>1
<1>9. f[n] = g[n]
  <2>1. \A k \in 0 .. n : f[k] = g[k]
    <3>1. n \in Nat
      BY <1>1
    <3>2. f[0] = g[0]
      BY <1>6, <1>7
    <3> QED
      BY <1>8, <3>1, <3>2, RecursionIsUnique, ZenonT(30)
  <2> QED
    BY <1>1, <2>1
<1>10. g[n + 1] = IF n + 1 \in CallsOf(t) /\ c.index = index THEN g[n] \o c.args ELSE g[n]
  <2>1. n + 1 \in 1 .. (n + 1) /\ (n + 1) - 1 = n
    BY <1>1
  <2> QED
    BY <1>1, <1>7, <2>1
<1>11. n + 1 \in CallsOf(t) <=> c.type = "call"
  BY <1>1, <1>2, <1>3
<1>12. ArgsAt(t, index) = IF c.type = "call" /\ c.index = index
                          THEN ArgsAt(s, index) \o c.args ELSE ArgsAt(s, index)
  BY <1>4, <1>5, <1>9, <1>10, <1>11
<1> QED
  BY <1>12 DEF t

-----------------------------------------------------------------------------
(* Types, and the order of the pipe *)

BaseInv == Typed /\ PipeIsInOrder

(* What is sent are items.                                                 *)
LEMMA ItemTypes ==
  /\ TextChunk \in Items /\ TextChunk.type = "text"
  /\ \A index \in Nat, id \in Ids, args \in Seq(Nat) :
       /\ CallChunk(index, id, args) \in Items
       /\ CallChunk(index, id, args).type = "call"
       /\ CallChunk(index, id, args).index = index
       /\ CallChunk(index, id, args).id = id
       /\ CallChunk(index, id, args).args = args
  /\ \A finish \in {"stop", "tool_calls"}, raws \in Nat :
       /\ TerminalChunk(finish, raws) \in Items
       /\ TerminalChunk(finish, raws).type = "terminal"
  /\ \A err \in Errors : Failed(err) \in Items /\ Failed(err).type = "error"
  /\ EOFItem \in Items /\ EOFItem.type = "EOF"
<1>1. TextChunk \in Items /\ TextChunk.type = "text"
  BY DEF TextChunk, Items, Chunks
<1>2. ASSUME NEW index \in Nat, NEW id \in Ids, NEW args \in Seq(Nat)
      PROVE  /\ CallChunk(index, id, args) \in Items
             /\ CallChunk(index, id, args).type = "call"
             /\ CallChunk(index, id, args).index = index
             /\ CallChunk(index, id, args).id = id
             /\ CallChunk(index, id, args).args = args
  BY DEF CallChunk, Items, Chunks, CallChunks
<1>3. ASSUME NEW finish \in {"stop", "tool_calls"}, NEW raws \in Nat
      PROVE  /\ TerminalChunk(finish, raws) \in Items
             /\ TerminalChunk(finish, raws).type = "terminal"
  BY DEF TerminalChunk, Items, Chunks, Terminals
<1>4. ASSUME NEW err \in Errors
      PROVE  Failed(err) \in Items /\ Failed(err).type = "error"
  BY DEF Failed, Items, Failures
<1>5. EOFItem \in Items /\ EOFItem.type = "EOF"
  BY DEF EOFItem, Items
<1> QED
  BY <1>1, <1>2, <1>3, <1>4, <1>5

(* An item that is neither an error nor EOF is a chunk.                    *)
LEMMA ChunkItems ==
  ASSUME NEW i \in Items
  PROVE  /\ i.type \in {"text", "call", "terminal", "error", "EOF"}
         /\ i.type \notin {"error", "EOF"} => i \in Chunks
BY DEF Items, Failures, EOFItem, Chunks, CallChunks, Terminals, TextChunk

(* What the events consist of.                                             *)
LEMMA EventTypes ==
  ASSUME NEW e \in Events
  PROVE  /\ e.type \in {"added", "delta", "done", "text", "reasoning", "completed",
                        "failed", "ignored"}
         /\ e.type \in {"added", "delta", "done"} =>
              e.out \in Outputs /\ e.id \in Ids /\ e.args \in Seq(Nat)
         /\ e.type = "done" => e.id \in Outputs
<1>1. CASE e \in [type : {"added"}, out : Outputs, id : Ids, args : {<<>>}]
  <2>1. <<>> \in Seq(Nat)
    OBVIOUS
  <2> QED
    BY <1>1, <2>1
<1>2. CASE e \in [type : {"delta"}, out : Outputs, id : {Blank},
                  args : {<<n>> : n \in 1 .. MaxTokens}]
  <2>1. PICK n \in 1 .. MaxTokens : e.args = <<n>>
    BY <1>2
  <2>2. n \in Nat
    BY CodexAssumption
  <2> QED
    BY <1>2, <2>1, <2>2 DEF Ids
<1>3. CASE e \in [type : {"done"}, out : Outputs, id : Outputs,
                  args : {Tokens(n) : n \in 0 .. MaxTokens}]
  <2>1. PICK n \in 0 .. MaxTokens : e.args = Tokens(n)
    BY <1>3
  <2>2. n \in Nat /\ 1 .. n \subseteq Nat
    BY CodexAssumption
  <2>3. Tokens(n) \in Seq(Nat)
    BY <2>2 DEF Tokens
  <2> QED
    BY <1>3, <2>1, <2>3 DEF Ids
<1>4. CASE e \in [type : {"text", "reasoning", "completed", "failed", "ignored"}]
  BY <1>4
<1> QED
  BY <1>1, <1>2, <1>3, <1>4 DEF Events, CallEvents

(* What the server may send next, and what it has sent then.               *)
LEMMA ServerFacts ==
  ASSUME Typed, NEW e \in Events, ServerSends(e)
  PROVE  /\ server' \in [Outputs -> [phase : {"none", "open", "done"}, args : Seq(Nat)]]
         /\ texts' \in Nat /\ items' \in Nat /\ over' \in BOOLEAN
         /\ items' = IF e.type = "reasoning" THEN items + 1 ELSE items
         /\ over => over' /\ server' = server /\ e.type = "ignored"
         /\ e.type = "completed" => over' /\ \A o \in Outputs : server[o].phase # "open"
         /\ e.type \notin {"added", "delta", "done", "ignored"} => server' = server
<1>1. ASSUME NEW x \in Events, Announces(x)
      PROVE  /\ server' \in [Outputs -> [phase : {"none", "open", "done"}, args : Seq(Nat)]]
             /\ x.type = "added" /\ UNCHANGED <<texts, items, over>>
  <2>1. x.type = "added" /\ server' = [server EXCEPT ![x.out].phase = "open"]
        /\ UNCHANGED <<texts, items, over>>
    BY <1>1 DEF Announces
  <2> QED
    BY <2>1 DEF Typed
<1>2. ASSUME NEW x \in Events, Streams(x)
      PROVE  /\ server' \in [Outputs -> [phase : {"none", "open", "done"}, args : Seq(Nat)]]
             /\ x.type = "delta" /\ UNCHANGED <<texts, items, over>>
  <2>1. x.type = "delta" /\ server' = [server EXCEPT ![x.out].args = @ \o x.args]
        /\ UNCHANGED <<texts, items, over>>
    BY <1>2 DEF Streams
  <2>2. x.out \in Outputs /\ x.args \in Seq(Nat)
    BY <2>1, EventTypes
  <2>3. server[x.out].args \o x.args \in Seq(Nat)
    BY <2>2, ConcatProperties DEF Typed
  <2> QED
    BY <2>1, <2>2, <2>3 DEF Typed
<1>3. ASSUME Finishes(e)
      PROVE  /\ server' \in [Outputs -> [phase : {"none", "open", "done"}, args : Seq(Nat)]]
             /\ e.type = "done" /\ UNCHANGED <<texts, items, over>>
  <2>1. e.type = "done" /\ server' = [server EXCEPT ![e.out] = [phase |-> "done", args |-> e.args]]
        /\ UNCHANGED <<texts, items, over>>
    BY <1>3 DEF Finishes
  <2>2. e.out \in Outputs /\ e.args \in Seq(Nat)
    BY <2>1, EventTypes
  <2> QED
    BY <2>1, <2>2 DEF Typed
<1>4. CASE ~over /\ (Announces(e) \/ Streams(e) \/ Finishes(e))
  BY <1>1, <1>2, <1>3, <1>4 DEF Typed
<1>5. CASE ~over /\ Ends(e)
  <2>1. /\ e.type \in {"completed", "failed"} /\ over' = TRUE /\ UNCHANGED <<server, texts, items>>
        /\ e.type = "completed" => \A o \in Outputs : server[o].phase # "open"
    BY <1>5 DEF Ends
  <2> QED
    BY <1>5, <2>1 DEF Typed
<1>6. CASE ~over /\ Thinks(e)
  BY <1>6 DEF Typed, Thinks
<1>7. CASE ~over /\ Speaks(e)
  BY <1>7 DEF Typed, Speaks
<1>8. CASE /\ ~over /\ e.type = "ignored"
           /\ \E lost \in Events : lost.type \in Garbled /\ (Announces(lost) \/ Streams(lost))
  BY <1>1, <1>2, <1>8 DEF Typed
<1>9. CASE e.type = "ignored" /\ UNCHANGED serverVars
  BY <1>9 DEF Typed, serverVars
<1> QED
  BY <1>4, <1>5, <1>6, <1>7, <1>8, <1>9 DEF ServerSends

(* The invariant holds before the request.                                 *)
LEMMA InitBase == Init => BaseInv
<1> SUFFICES ASSUME Init PROVE BaseInv
  OBVIOUS
<1> USE DEF Init
<1>1. Typed
  <2>1. /\ pipe \in Pipes(Items) /\ item \in Items
        /\ received \in Seq(Chunks) /\ <<>> \in Seq(Nat)
    BY NewPipeType, ItemTypes
  <2>2. openCalls \in [Outputs -> Calls]
    BY DEF NoCall, Calls, Ids
  <2> QED
    BY <2>1, <2>2 DEF Typed
<1>2. PipeIsInOrder
  <2>1. pipe.queue = <<>> /\ ~pipe.sendClosed /\ ~pipe.recvClosed /\ Len(pipe.queue) = 0
    BY NewPipeType
  <2> QED
    BY <2>1 DEF PipeIsInOrder, Broken
<1> QED
  BY <1>1, <1>2 DEF BaseInv

(* A step that leaves the pipe and the end alone leaves them in order.     *)
LEMMA SamePipe ==
  ASSUME PipeIsInOrder, UNCHANGED <<pipe, end>>,
         producer' = "send" => item'.type \in {"text", "call", "terminal", "error"},
         producer' = "report" => item'.type = "error",
         Left => Left', producer = "done" => producer' = "done"
  PROVE  PipeIsInOrder'
BY DEF PipeIsInOrder, Broken

(* The request.                                                            *)
LEMMA RequestBase ==
  ASSUME BaseInv, RequestSucceeds \/ \E b \in {"none", "closed"} : RequestFails(b)
  PROVE  BaseInv'
<1>1. CASE RequestSucceeds
  <2>1. /\ producer = "request" /\ producer' = "scan"
        /\ UNCHANGED <<ctx, serverVars, result, item, panicked, assemblyVars, pipe, produced,
                       received, end>>
    BY <1>1 DEF RequestSucceeds, callerVars
  <2>2. Typed'
    BY <2>1 DEF BaseInv, Typed, serverVars, assemblyVars
  <2>3. PipeIsInOrder'
    BY <2>1, SamePipe DEF BaseInv, Left
  <2> QED
    BY <2>2, <2>3 DEF BaseInv
<1>2. ASSUME NEW b \in {"none", "closed"}, RequestFails(b) PROVE BaseInv'
  <2>1. /\ producer = "request" /\ producer' = "done" /\ end' = "error"
        /\ UNCHANGED <<ctx, serverVars, result, item, panicked, assemblyVars, pipe, produced,
                       received>>
    BY <1>2 DEF RequestFails
  <2>2. Typed'
    BY <2>1 DEF BaseInv, Typed, serverVars, assemblyVars
  <2>3. PipeIsInOrder'
    BY <2>1 DEF BaseInv, PipeIsInOrder, Broken, Left
  <2> QED
    BY <2>2, <2>3 DEF BaseInv
<1> QED
  BY <1>1, <1>2

(* What dispatching an event does to the variables of streamResponses.     *)
LEMMA DispatchTypes ==
  ASSUME Typed, NEW e \in Events, NEW r \in {"none", "EOF", "failed"}, Dispatch(e, r)
  PROVE  /\ openCalls' \in [Outputs -> Calls] /\ nextIndex' \in Nat /\ reasoning' \in Nat
         /\ sawToolCall' \in BOOLEAN /\ completed' \in BOOLEAN
         /\ \/ producer' \in {"scan", "ended"} /\ item' = item
            \/ /\ producer' = "send" /\ item' \in Items
               /\ item'.type \in {"text", "call", "terminal", "error"}
<1> DEFINE Goal == /\ openCalls' \in [Outputs -> Calls] /\ nextIndex' \in Nat /\ reasoning' \in Nat
                   /\ sawToolCall' \in BOOLEAN /\ completed' \in BOOLEAN
                   /\ \/ producer' \in {"scan", "ended"} /\ item' = item
                      \/ /\ producer' = "send" /\ item' \in Items
                         /\ item'.type \in {"text", "call", "terminal", "error"}
<1>1. /\ openCalls \in [Outputs -> Calls] /\ nextIndex \in Nat /\ reasoning \in Nat
      /\ sawToolCall \in BOOLEAN /\ completed \in BOOLEAN
  BY DEF Typed
<1>2. ASSUME GoesOn(r) PROVE producer' \in {"scan", "ended"} /\ item' = item
  BY <1>2 DEF GoesOn, AfterEvent
<1>3. ASSUME NEW index \in Nat, NEW id \in Ids
      PROVE  CallChunk(index, id, <<>>) \in Items /\ CallChunk(index, id, <<>>).type = "call"
  <2> DEFINE none == <<>>
  <2>1. none \in Seq(Nat)
    OBVIOUS
  <2> HIDE DEF none
  <2>2. CallChunk(index, id, none) \in Items /\ CallChunk(index, id, none).type = "call"
    BY <2>1, ItemTypes
  <2> QED
    BY <2>2 DEF none
<1>4. ASSUME e.type = "added", HandleOutputItemAdded(e) PROVE Goal
  <2>1. e.out \in Outputs /\ e.id \in Ids
    BY <1>4, EventTypes
  <2>2. /\ openCalls' = [openCalls EXCEPT ![e.out] =
                           [known |-> TRUE, index |-> nextIndex, callID |-> e.id,
                            sawDelta |-> FALSE]]
        /\ nextIndex' = nextIndex + 1 /\ sawToolCall' = TRUE
        /\ producer' = "send" /\ item' = CallChunk(nextIndex, e.id, <<>>)
        /\ UNCHANGED <<reasoning, completed>>
    BY <1>4 DEF HandleOutputItemAdded, StartsSending
  <2>3. openCalls' \in [Outputs -> Calls]
    BY <1>1, <2>1, <2>2 DEF Calls
  <2> QED
    BY <1>1, <1>3, <2>1, <2>2, <2>3
<1>5. ASSUME e.type = "delta", HandleArgsDelta(e, r) PROVE Goal
  <2>1. e.out \in Outputs /\ e.args \in Seq(Nat)
    BY <1>5, EventTypes
  <2>2. openCalls[e.out] \in Calls
    BY <1>1, <2>1
  <2>3. CASE ~openCalls[e.out].known
    BY <1>1, <1>2, <1>5, <2>3 DEF HandleArgsDelta, assemblyVars
  <2>4. CASE openCalls[e.out].known
    <3>1. /\ openCalls' = [openCalls EXCEPT ![e.out].sawDelta = TRUE]
          /\ producer' = "send"
          /\ item' = CallChunk(openCalls[e.out].index, openCalls[e.out].callID, e.args)
          /\ UNCHANGED <<nextIndex, sawToolCall, reasoning, completed>>
      BY <1>5, <2>4 DEF HandleArgsDelta, StartsSending
    <3>2. openCalls[e.out].index \in Nat /\ openCalls[e.out].callID \in Ids
      BY <2>2 DEF Calls
    <3>3. openCalls' \in [Outputs -> Calls]
      BY <1>1, <2>1, <3>1 DEF Calls
    <3> QED
      BY <1>1, <2>1, <3>1, <3>2, <3>3, ItemTypes
  <2> QED
    BY <2>3, <2>4
<1>6. ASSUME e.type = "done", HandleFunctionCallDone(e) PROVE Goal
  <2>1. e.out \in Outputs /\ e.id \in Ids /\ e.args \in Seq(Nat)
    BY <1>6, EventTypes
  <2>2. openCalls[e.out] \in Calls /\ openCalls[e.out].index \in Nat
    BY <1>1, <2>1 DEF Calls
  <2>3. OrEmptyObject(e.args) \in Seq(Nat)
    BY <2>1 DEF OrEmptyObject, EmptyObject
  <2>4. CASE openCalls[e.out].known /\ openCalls[e.out].sawDelta
    <3>1. /\ producer' = "send" /\ item' = CallChunk(openCalls[e.out].index, e.id, <<>>)
          /\ UNCHANGED assemblyVars
      BY <1>6, <2>4 DEF HandleFunctionCallDone, StartsSending
    <3> QED
      BY <1>1, <1>3, <2>1, <2>2, <3>1 DEF assemblyVars
  <2>5. CASE ~(openCalls[e.out].known /\ openCalls[e.out].sawDelta)
    <3> DEFINE index == IF openCalls[e.out].known THEN openCalls[e.out].index ELSE nextIndex
    <3>1. /\ nextIndex' = IF openCalls[e.out].known THEN nextIndex ELSE nextIndex + 1
          /\ sawToolCall' = TRUE /\ producer' = "send"
          /\ item' = CallChunk(index, e.id, OrEmptyObject(e.args))
          /\ UNCHANGED <<openCalls, reasoning, completed>>
      BY <1>6, <2>5 DEF HandleFunctionCallDone, StartsSending
    <3>2. index \in Nat
      BY <1>1, <2>2
    <3> HIDE DEF index
    <3> QED
      BY <1>1, <2>1, <2>3, <3>1, <3>2, ItemTypes
  <2> QED
    BY <2>4, <2>5
<1>7. ASSUME HandleReasoningDone(r) PROVE Goal
  BY <1>1, <1>2, <1>7 DEF HandleReasoningDone
<1>8. ASSUME HandleCompleted PROVE Goal
  <2>1. /\ completed' = TRUE /\ producer' = "send" /\ item' = BuildCompletedMessage
        /\ UNCHANGED <<openCalls, nextIndex, sawToolCall, reasoning>>
    BY <1>8 DEF HandleCompleted, StartsSending
  <2>2. BuildCompletedMessage \in Items /\ BuildCompletedMessage.type = "terminal"
    BY <1>1, ItemTypes DEF BuildCompletedMessage
  <2> QED
    BY <1>1, <2>1, <2>2
<1>9. ASSUME StartsSending(TextChunk), UNCHANGED assemblyVars PROVE Goal
  BY <1>1, <1>9, ItemTypes DEF StartsSending, assemblyVars
<1>10. ASSUME StartsSending(Failed("server")), UNCHANGED assemblyVars PROVE Goal
  BY <1>1, <1>10, ItemTypes DEF StartsSending, assemblyVars, Errors
<1>11. ASSUME GoesOn(r), UNCHANGED assemblyVars PROVE Goal
  BY <1>1, <1>2, <1>11 DEF assemblyVars
<1> HIDE DEF Goal
<1>12. Goal
  BY <1>4, <1>5, <1>6, <1>7, <1>8, <1>9, <1>10, <1>11 DEF Dispatch
<1> QED
  BY <1>12 DEF Goal

(* Reading an event and handling it.                                       *)
LEMMA ReadsEventBase ==
  ASSUME BaseInv, NEW r \in {"none", "EOF", "failed"}, ReadsEvent(r)
  PROVE  BaseInv'
<1>1. /\ producer = "scan" /\ result' = r
      /\ UNCHANGED <<ctx, body, panicked, pipe, produced, received, end>>
  BY DEF ReadsEvent, callerVars
<1>2. PICK e \in Events :
        /\ ServerSends(e)
        /\ \/ Dispatch(e, r)
           \/ ctx # "live" /\ StartsSending(Failed(ctx)) /\ UNCHANGED assemblyVars
  BY DEF ReadsEvent
<1>3. /\ openCalls' \in [Outputs -> Calls] /\ nextIndex' \in Nat /\ reasoning' \in Nat
      /\ sawToolCall' \in BOOLEAN /\ completed' \in BOOLEAN
      /\ \/ producer' \in {"scan", "ended"} /\ item' = item
         \/ /\ producer' = "send" /\ item' \in Items
            /\ item'.type \in {"text", "call", "terminal", "error"}
  <2>1. CASE Dispatch(e, r)
    BY <2>1, DispatchTypes DEF BaseInv
  <2>2. CASE ctx # "live" /\ StartsSending(Failed(ctx)) /\ UNCHANGED assemblyVars
    <3>1. ctx = "canceled" /\ Failed(ctx) \in Items /\ Failed(ctx).type = "error"
      BY <2>2, ItemTypes DEF BaseInv, Typed, Errors
    <3> QED
      BY <2>2, <3>1 DEF BaseInv, Typed, StartsSending, assemblyVars
  <2> QED
    BY <1>2, <2>1, <2>2
<1>4. /\ server' \in [Outputs -> [phase : {"none", "open", "done"}, args : Seq(Nat)]]
      /\ texts' \in Nat /\ items' \in Nat /\ over' \in BOOLEAN
  BY <1>2, ServerFacts DEF BaseInv
<1>5. Typed'
  BY <1>1, <1>3, <1>4 DEF BaseInv, Typed
<1>6. PipeIsInOrder'
  BY <1>1, <1>3, SamePipe DEF BaseInv, Left
<1> QED
  BY <1>5, <1>6 DEF BaseInv

(* What the other steps of the goroutine do that do not use the pipe.      *)
LEMMA QuietFacts ==
  ASSUME BaseInv,
         \/ \E r \in {"EOF", "failed"} : ReadFails(r)
         \/ Panics \/ Concludes \/ \E panics \in BOOLEAN : ClosesBody(panics)
  PROVE  /\ UNCHANGED <<ctx, serverVars, assemblyVars, pipe, produced, received, end>>
         /\ result' \in {"none", "EOF", "failed"} /\ panicked' \in BOOLEAN
         /\ item' \in Items
         /\ producer' = "send" => item'.type = "error"
         /\ \/ producer \in {"scan", "ended"} /\ producer' \in {"ended", "send"}
            \/ producer = "scan" /\ producer' = "exit" /\ panicked'
            \/ producer = "ended" /\ producer' = "exit" /\ completed
            \/ producer = "exit" /\ producer' = "close" /\ ~panicked
            \/ producer = "exit" /\ producer' = "report" /\ item'.type = "error"
<1>1. /\ ctx \in {"live", "canceled"} /\ result \in {"none", "EOF", "failed"}
      /\ item \in Items /\ panicked \in BOOLEAN
  BY DEF BaseInv, Typed
<1>2. \A err \in Errors : Failed(err) \in Items /\ Failed(err).type = "error"
  BY ItemTypes
<1>3. CASE \E r \in {"EOF", "failed"} : ReadFails(r)
  BY <1>1, <1>3 DEF ReadFails, callerVars
<1>4. CASE Panics
  BY <1>1, <1>4 DEF Panics, callerVars
<1>5. CASE Concludes
  <2>1. /\ producer = "ended"
        /\ UNCHANGED <<ctx, serverVars, result, panicked, assemblyVars, pipe, produced,
                       received, end>>
    BY <1>5 DEF Concludes, callerVars
  <2>2. CASE result = "failed"
    <3> DEFINE err == IF ctx # "live" THEN ctx ELSE "read"
    <3>1. producer' = "send" /\ item' = Failed(err)
      BY <1>5, <2>2 DEF Concludes, StartsSending
    <3>2. err \in Errors
      BY <1>1 DEF Errors
    <3> HIDE DEF err
    <3> QED
      BY <1>1, <1>2, <2>1, <3>1, <3>2
  <2>3. CASE result # "failed" /\ ~completed
    <3>1. producer' = "send" /\ item' = Failed("incomplete")
      BY <1>5, <2>3 DEF Concludes, StartsSending
    <3> QED
      BY <1>1, <1>2, <2>1, <3>1 DEF Errors
  <2>4. CASE result # "failed" /\ completed
    BY <1>1, <1>5, <2>1, <2>4 DEF Concludes
  <2> QED
    BY <2>2, <2>3, <2>4
<1>6. ASSUME NEW panics \in BOOLEAN, ClosesBody(panics)
      PROVE  /\ UNCHANGED <<ctx, serverVars, assemblyVars, pipe, produced, received, end>>
             /\ result' \in {"none", "EOF", "failed"} /\ panicked' \in BOOLEAN
             /\ item' \in Items
             /\ \/ producer = "exit" /\ producer' = "close" /\ ~panicked
                \/ producer = "exit" /\ producer' = "report" /\ item'.type = "error"
  <2>1. /\ producer = "exit" /\ panicked' = (panicked \/ panics)
        /\ UNCHANGED <<ctx, serverVars, result, assemblyVars, pipe, produced, received, end>>
    BY <1>6 DEF ClosesBody, callerVars
  <2>2. CASE panicked'
    <3>1. producer' = "report" /\ item' = Failed("panic")
      BY <1>6, <2>2 DEF ClosesBody
    <3> QED
      BY <1>1, <1>2, <2>1, <2>2, <3>1 DEF Errors
  <2>3. CASE ~panicked'
    BY <1>1, <1>6, <2>1, <2>3 DEF ClosesBody
  <2> QED
    BY <2>2, <2>3
<1> QED
  BY <1>3, <1>4, <1>5, <1>6

(* What they keep.                                                         *)
LEMMA QuietBase ==
  ASSUME BaseInv,
         \/ \E r \in {"EOF", "failed"} : ReadFails(r)
         \/ Panics \/ Concludes \/ \E panics \in BOOLEAN : ClosesBody(panics)
  PROVE  BaseInv'
<1>1. /\ UNCHANGED <<ctx, serverVars, assemblyVars, pipe, produced, received, end>>
      /\ result' \in {"none", "EOF", "failed"} /\ panicked' \in BOOLEAN
      /\ item' \in Items
      /\ producer' = "send" => item'.type = "error"
      /\ \/ producer \in {"scan", "ended"} /\ producer' \in {"ended", "send"}
         \/ producer = "scan" /\ producer' = "exit" /\ panicked'
         \/ producer = "ended" /\ producer' = "exit" /\ completed
         \/ producer = "exit" /\ producer' = "close" /\ ~panicked
         \/ producer = "exit" /\ producer' = "report" /\ item'.type = "error"
  BY QuietFacts
<1>2. Typed'
  BY <1>1 DEF BaseInv, Typed, serverVars, assemblyVars
<1>3. PipeIsInOrder'
  BY <1>1, SamePipe DEF BaseInv, Left
<1> QED
  BY <1>2, <1>3 DEF BaseInv

(* Sending: the item goes into the pipe, or nowhere if the reader is       *)
(* closed.                                                                 *)
LEMMA SendsFacts ==
  ASSUME BaseInv, Sends
  PROVE  /\ UNCHANGED <<ctx, serverVars, result, panicked, assemblyVars, received, end>>
         /\ producer \in {"send", "report"}
         /\ item.type \in {"text", "call", "terminal", "error"}
         /\ producer = "report" => item.type = "error"
         /\ item' \in Items /\ produced' \in Nat
         /\ producer' \in {"scan", "ended", "exit", "close"}
         /\ producer = "report" <=> producer' = "close"
         /\ producer' \in {"scan", "ended"} => item.type # "error" /\ ~pipe.recvClosed
         /\ producer' = "exit" => item.type = "error" \/ pipe.recvClosed
         /\ pipe.recvClosed => pipe' = pipe /\ produced' = produced
         /\ ~pipe.recvClosed => /\ pipe' = Sent(pipe, item)
                                /\ produced' = IF item.type # "error" THEN produced + 1
                                               ELSE produced
<1>1. /\ producer \in {"send", "report"}
      /\ pipe' = IF pipe.recvClosed THEN pipe ELSE Sent(pipe, item)
      /\ produced' = IF item.type # "error" /\ ~pipe.recvClosed THEN produced + 1
                     ELSE produced
      /\ producer' = AfterSend /\ item' = EOFItem
      /\ UNCHANGED <<ctx, serverVars, result, panicked, assemblyVars, received, end>>
  BY DEF Sends, callerVars
<1>2. /\ produced \in Nat /\ EOFItem \in Items
      /\ producer = "send" => item.type \in {"text", "call", "terminal", "error"}
      /\ producer = "report" => item.type = "error"
  BY ItemTypes DEF BaseInv, Typed, PipeIsInOrder
<1>3. pipe.recvClosed \in BOOLEAN
  BY DEF BaseInv, Typed, Pipes
<1>4. CASE producer = "report"
  BY <1>1, <1>2, <1>3, <1>4 DEF AfterSend
<1>5. CASE producer = "send" /\ (item.type = "error" \/ pipe.recvClosed)
  BY <1>1, <1>2, <1>3, <1>5 DEF AfterSend
<1>6. CASE producer = "send" /\ ~(item.type = "error" \/ pipe.recvClosed)
  BY <1>1, <1>2, <1>3, <1>6 DEF AfterSend, AfterEvent
<1> QED
  BY <1>1, <1>4, <1>5, <1>6

(* The queue behind the item that was sent.                                *)
LEMMA QueueAfterSend ==
  ASSUME BaseInv, Sends, ~pipe.recvClosed
  PROVE  /\ pipe' \in Pipes(Items) /\ pipe'.queue = Append(pipe.queue, item)
         /\ pipe'.sendClosed = pipe.sendClosed /\ pipe'.recvClosed = pipe.recvClosed
         /\ Len(pipe'.queue) = Len(pipe.queue) + 1 /\ Len(pipe.queue) \in Nat
         /\ \A k \in 1 .. Len(pipe.queue) : pipe'.queue[k] = pipe.queue[k]
         /\ pipe'.queue[Len(pipe.queue) + 1] = item
<1>1. pipe \in Pipes(Items) /\ item \in Items /\ pipe' = Sent(pipe, item)
  BY SendsFacts DEF BaseInv, Typed
<1>2. pipe.queue \in Seq(Items) /\ Len(pipe.queue) \in Nat
  BY <1>1 DEF Pipes
<1>3. Sent(pipe, item).queue = Append(pipe.queue, item)
  BY <1>1 DEF Sent, Pipes
<1> QED
  BY <1>1, <1>2, <1>3, SentProperties

(* What sending keeps.                                                     *)
LEMMA SendsBase ==
  ASSUME BaseInv, Sends
  PROVE  BaseInv'
<1>1. /\ UNCHANGED <<ctx, serverVars, result, panicked, assemblyVars, received, end>>
      /\ producer \in {"send", "report"}
      /\ item.type \in {"text", "call", "terminal", "error"}
      /\ producer = "report" => item.type = "error"
      /\ item' \in Items /\ produced' \in Nat
      /\ producer' \in {"scan", "ended", "exit", "close"}
      /\ producer = "report" <=> producer' = "close"
      /\ producer' \in {"scan", "ended"} => item.type # "error" /\ ~pipe.recvClosed
      /\ pipe.recvClosed => pipe' = pipe /\ produced' = produced
  BY SendsFacts
<1>2. CASE pipe.recvClosed
  <2>1. pipe' = pipe
    BY <1>1, <1>2
  <2>2. Typed'
    BY <1>1, <2>1 DEF BaseInv, Typed, serverVars, assemblyVars
  <2>3. PipeIsInOrder'
    BY <1>1, <2>1, SamePipe, <1>2 DEF BaseInv, Left, PipeIsInOrder, Broken
  <2> QED
    BY <2>2, <2>3 DEF BaseInv
<1>3. CASE ~pipe.recvClosed
  <2>1. /\ pipe' \in Pipes(Items)
        /\ pipe'.sendClosed = pipe.sendClosed /\ pipe'.recvClosed = pipe.recvClosed
        /\ Len(pipe'.queue) = Len(pipe.queue) + 1 /\ Len(pipe.queue) \in Nat
        /\ \A k \in 1 .. Len(pipe.queue) : pipe'.queue[k] = pipe.queue[k]
        /\ pipe'.queue[Len(pipe.queue) + 1] = item
    BY <1>3, QueueAfterSend
  <2>2. Typed'
    BY <1>1, <2>1 DEF BaseInv, Typed, serverVars, assemblyVars
  <2>3. \A k \in 1 .. Len(pipe'.queue) : k \in 1 .. Len(pipe.queue) \/ k = Len(pipe.queue) + 1
    BY <2>1
  <2>4. \A k \in 1 .. Len(pipe'.queue) :
          pipe'.queue[k].type \in {"text", "call", "terminal", "error"}
    BY <1>1, <2>1, <2>3 DEF BaseInv, PipeIsInOrder
  <2>5. Broken' => Left'
    <3> SUFFICES ASSUME Broken' PROVE Left'
      OBVIOUS
    <3>1. PICK k \in 1 .. Len(pipe'.queue) : pipe'.queue[k].type = "error"
      BY DEF Broken
    <3>2. CASE k \in 1 .. Len(pipe.queue)
      <4>1. Broken
        BY <2>1, <3>1, <3>2 DEF Broken
      <4>2. producer = "report"
        BY <1>1, <4>1 DEF BaseInv, PipeIsInOrder, Left
      <4> QED
        BY <1>1, <4>2 DEF Left
    <3>3. CASE k = Len(pipe.queue) + 1
      <4>1. item.type = "error"
        BY <2>1, <3>1, <3>3
      <4> QED
        BY <1>1, <4>1 DEF Left
    <3> QED
      BY <2>3, <3>2, <3>3
  <2>6. PipeIsInOrder'
    BY <1>1, <1>3, <2>1, <2>4, <2>5 DEF BaseInv, PipeIsInOrder
  <2> QED
    BY <2>2, <2>6 DEF BaseInv
<1> QED
  BY <1>2, <1>3

(* Closing the writer, and the end of the context.                         *)
LEMMA CloseAndCancelBase ==
  ASSUME BaseInv, ClosesWriter \/ Cancel
  PROVE  BaseInv'
<1>1. pipe \in Pipes(Items)
  BY DEF BaseInv, Typed
<1>2. CASE ClosesWriter
  <2>1. /\ producer = "close" /\ producer' = "done"
        /\ pipe' = [pipe EXCEPT !.sendClosed = TRUE]
        /\ UNCHANGED <<ctx, serverVars, result, item, panicked, assemblyVars, produced,
                       received, end>>
    BY <1>2 DEF ClosesWriter, callerVars
  <2>2. /\ pipe' \in Pipes(Items) /\ pipe'.sendClosed
        /\ pipe'.queue = pipe.queue /\ pipe'.recvClosed = pipe.recvClosed
    BY <1>1, <2>1, ClosedProperties
  <2>3. Typed'
    BY <2>1, <2>2 DEF BaseInv, Typed, serverVars, assemblyVars
  <2>4. PipeIsInOrder'
    BY <2>1, <2>2 DEF BaseInv, PipeIsInOrder, Broken, Left
  <2> QED
    BY <2>3, <2>4 DEF BaseInv
<1>3. CASE Cancel
  <2>1. /\ ctx' = "canceled"
        /\ UNCHANGED <<serverVars, producer, result, item, panicked, assemblyVars, pipe,
                       produced, received, end>>
    BY <1>3 DEF Cancel, producerVars, callerVars
  <2>2. Typed'
    BY <2>1 DEF BaseInv, Typed, serverVars, assemblyVars
  <2>3. PipeIsInOrder'
    BY <2>1, SamePipe DEF BaseInv, PipeIsInOrder, Left
  <2> QED
    BY <2>2, <2>3 DEF BaseInv
<1> QED
  BY <1>2, <1>3

(* What the caller receives is the first of the queue, or EOF.             *)
LEMMA ReceivesFacts ==
  ASSUME BaseInv, CallerReceives
  PROVE  /\ UNCHANGED <<ctx, serverVars, producer, result, item, panicked, assemblyVars,
                        produced>>
         /\ end = "open" /\ pipe' \in Pipes(Items)
         /\ pipe'.sendClosed = pipe.sendClosed /\ pipe'.recvClosed = pipe.recvClosed
         /\ \/ /\ pipe.queue = <<>> /\ pipe.sendClosed
               /\ end' = "EOF" /\ UNCHANGED <<pipe, received>>
            \/ /\ pipe.queue # <<>> /\ pipe.queue[1] \in Items
               /\ pipe'.queue = Tail(pipe.queue)
               /\ Len(pipe'.queue) = Len(pipe.queue) - 1 /\ Len(pipe.queue) \in Nat
               /\ \A k \in 1 .. Len(pipe'.queue) : pipe'.queue[k] = pipe.queue[k + 1]
               /\ \/ pipe.queue[1].type = "error" /\ end' = "error" /\ received' = <<>>
                  \/ /\ pipe.queue[1] \in Chunks /\ end' = "open"
                     /\ received' = Append(received, pipe.queue[1])
<1>1. /\ end = "open" /\ CanRecv(pipe) /\ pipe' = Received(pipe)
      /\ UNCHANGED <<ctx, serverVars, producer, result, item, panicked, assemblyVars, produced>>
  BY DEF CallerReceives, producerVars
<1> DEFINE i == NextItem(pipe)
<1>2. /\ i.type = "EOF" => end' = "EOF" /\ UNCHANGED received
      /\ i.type = "error" => end' = "error" /\ received' = <<>>
      /\ i.type \notin {"EOF", "error"} => received' = Append(received, i) /\ UNCHANGED end
  <2>1. (CASE i.type = "EOF" -> end' = "EOF" /\ UNCHANGED received
           [] i.type = "error" -> end' = "error" /\ received' = <<>>
           [] OTHER -> received' = Append(received, i) /\ UNCHANGED end)
    BY Zenon DEF CallerReceives
  <2> HIDE DEF i
  <2>2. ASSUME i.type = "EOF" PROVE end' = "EOF" /\ UNCHANGED received
    <3>1. i.type # "error"
      BY <2>2
    <3> QED
      BY <2>1, <2>2, <3>1, Zenon
  <2>3. ASSUME i.type = "error" PROVE end' = "error" /\ received' = <<>>
    <3>1. i.type # "EOF"
      BY <2>3
    <3> QED
      BY <2>1, <2>3, <3>1, Zenon
  <2>4. ASSUME i.type \notin {"EOF", "error"}
        PROVE  received' = Append(received, i) /\ UNCHANGED end
    <3>1. i.type # "EOF" /\ i.type # "error"
      BY <2>4
    <3> QED
      BY <2>1, <3>1, Zenon
  <2> QED
    BY <2>2, <2>3, <2>4
<1>3. \/ i.type = "EOF" /\ end' = "EOF" /\ UNCHANGED received
      \/ i.type = "error" /\ end' = "error" /\ received' = <<>>
      \/ i.type \notin {"EOF", "error"} /\ received' = Append(received, i) /\ UNCHANGED end
  <2> HIDE DEF i
  <2> QED
    BY <1>2
<1>4. pipe \in Pipes(Items) /\ pipe.queue \in Seq(Items)
  BY DEF BaseInv, Typed, Pipes
<1>5. /\ pipe' \in Pipes(Items)
      /\ pipe'.sendClosed = pipe.sendClosed /\ pipe'.recvClosed = pipe.recvClosed
      /\ \/ /\ pipe.queue = <<>> /\ pipe.sendClosed
            /\ i = EOFItem /\ pipe' = pipe
         \/ /\ pipe.queue # <<>> /\ Len(pipe.queue) > 0
            /\ i = pipe.queue[1] /\ pipe.queue[1] \in Items
            /\ Len(pipe'.queue) = Len(pipe.queue) - 1
            /\ \A k \in 1 .. Len(pipe'.queue) : pipe'.queue[k] = pipe.queue[k + 1]
  BY <1>1, <1>4, ReceivedProperties
<1> HIDE DEF i
<1>6. CASE pipe.queue = <<>>
  BY <1>1, <1>3, <1>5, <1>6, ItemTypes
<1>7. CASE pipe.queue # <<>>
  <2>1. /\ i = pipe.queue[1] /\ i \in Items /\ Len(pipe.queue) \in Nat /\ Len(pipe.queue) > 0
    BY <1>4, <1>5, <1>7
  <2>2. i.type \in {"text", "call", "terminal", "error"}
    BY <2>1 DEF BaseInv, PipeIsInOrder
  <2>3. pipe'.queue = Tail(pipe.queue)
    BY <1>1, <1>4, <1>7 DEF Received, Pipes
  <2>4. i.type # "error" => i \in Chunks
    BY <2>1, <2>2, ChunkItems
  <2> QED
    BY <1>1, <1>3, <1>5, <1>7, <2>1, <2>2, <2>3, <2>4
<1> QED
  BY <1>6, <1>7

(* What receiving keeps.                                                   *)
LEMMA ReceivesBase ==
  ASSUME BaseInv, CallerReceives
  PROVE  BaseInv'
<1>1. /\ UNCHANGED <<ctx, serverVars, producer, result, item, panicked, assemblyVars,
                     produced>>
      /\ end = "open" /\ pipe' \in Pipes(Items)
      /\ pipe'.sendClosed = pipe.sendClosed /\ pipe'.recvClosed = pipe.recvClosed
  BY ReceivesFacts
<1>2. received \in Seq(Chunks)
  BY DEF BaseInv, Typed
<1>3. CASE pipe.queue = <<>> /\ pipe.sendClosed /\ end' = "EOF" /\ UNCHANGED <<pipe, received>>
  <2>1. Typed'
    BY <1>1, <1>3 DEF BaseInv, Typed, serverVars, assemblyVars
  <2>2. PipeIsInOrder'
    BY <1>1, <1>3 DEF BaseInv, PipeIsInOrder, Broken, Left
  <2> QED
    BY <2>1, <2>2 DEF BaseInv
<1>4. CASE /\ pipe.queue # <<>>
           /\ Len(pipe'.queue) = Len(pipe.queue) - 1 /\ Len(pipe.queue) \in Nat
           /\ \A k \in 1 .. Len(pipe'.queue) : pipe'.queue[k] = pipe.queue[k + 1]
           /\ \/ pipe.queue[1].type = "error" /\ end' = "error" /\ received' = <<>>
              \/ /\ pipe.queue[1] \in Chunks /\ end' = "open"
                 /\ received' = Append(received, pipe.queue[1])
  <2>1. received' \in Seq(Chunks) /\ end' \in {"open", "error"}
    <3>1. <<>> \in Seq(Chunks)
      OBVIOUS
    <3>2. pipe.queue[1] \in Chunks => Append(received, pipe.queue[1]) \in Seq(Chunks)
      BY <1>2, AppendProperties
    <3> QED
      BY <1>4, <3>1, <3>2
  <2>2. Typed'
    BY <1>1, <2>1 DEF BaseInv, Typed, serverVars, assemblyVars
  <2>3. \A k \in 1 .. Len(pipe'.queue) : k + 1 \in 1 .. Len(pipe.queue)
    BY <1>4
  <2>4. /\ \A k \in 1 .. Len(pipe'.queue) :
             pipe'.queue[k].type \in {"text", "call", "terminal", "error"}
        /\ Broken' => Broken
    BY <1>4, <2>3 DEF BaseInv, PipeIsInOrder, Broken
  <2>5. PipeIsInOrder'
    BY <1>1, <2>1, <2>4 DEF BaseInv, PipeIsInOrder, Left
  <2> QED
    BY <2>2, <2>5 DEF BaseInv
<1> QED
  BY <1>3, <1>4, ReceivesFacts

(* The caller's Close.                                                     *)
LEMMA ClosesFacts ==
  ASSUME BaseInv, CallerCloses
  PROVE  /\ UNCHANGED <<ctx, serverVars, producer, result, item, panicked, assemblyVars,
                        produced>>
         /\ pipe' \in Pipes(Items) /\ pipe'.recvClosed
         /\ pipe'.queue = pipe.queue /\ pipe'.sendClosed = pipe.sendClosed
         /\ \/ end = "open" /\ end' = "closed" /\ received' = <<>>
            \/ end # "open" /\ UNCHANGED <<end, received>>
<1>1. /\ pipe' = [pipe EXCEPT !.recvClosed = TRUE]
      /\ \/ end = "open" /\ end' = "closed" /\ received' = <<>>
         \/ end # "open" /\ UNCHANGED <<end, received>>
      /\ UNCHANGED <<ctx, serverVars, producer, result, item, panicked, assemblyVars, produced>>
  BY DEF CallerCloses, producerVars, callerVars
<1>2. pipe \in Pipes(Items)
  BY DEF BaseInv, Typed
<1> QED
  BY <1>1, <1>2, ClosedProperties

(* What closing the reader keeps.                                          *)
LEMMA ClosesBase ==
  ASSUME BaseInv, CallerCloses
  PROVE  BaseInv'
<1>1. /\ UNCHANGED <<ctx, serverVars, producer, result, item, panicked, assemblyVars,
                     produced>>
      /\ pipe' \in Pipes(Items) /\ pipe'.recvClosed
      /\ pipe'.queue = pipe.queue /\ pipe'.sendClosed = pipe.sendClosed
      /\ \/ end = "open" /\ end' = "closed" /\ received' = <<>>
         \/ end # "open" /\ UNCHANGED <<end, received>>
  BY ClosesFacts
<1>2. Typed'
  <2>1. <<>> \in Seq(Chunks)
    OBVIOUS
  <2>2. received' \in Seq(Chunks) /\ end' \in {"EOF", "error", "closed"}
    BY <1>1, <2>1 DEF BaseInv, Typed
  <2> QED
    BY <1>1, <2>2 DEF BaseInv, Typed, serverVars, assemblyVars
<1>3. PipeIsInOrder'
  BY <1>1 DEF BaseInv, PipeIsInOrder, Broken, Left
<1> QED
  BY <1>2, <1>3 DEF BaseInv

(* Every step keeps the types, and the pipe in order.                      *)
LEMMA NextBase == BaseInv /\ [Next]_vars => BaseInv'
<1> SUFFICES ASSUME BaseInv, [Next]_vars PROVE BaseInv'
  OBVIOUS
<1>1. CASE UNCHANGED vars
  <2>1. Typed'
    BY <1>1 DEF BaseInv, Typed, vars, serverVars, assemblyVars, producerVars, callerVars
  <2>2. PipeIsInOrder'
    BY <1>1 DEF BaseInv, PipeIsInOrder, Broken, Left, vars, producerVars, callerVars
  <2> QED
    BY <2>1, <2>2 DEF BaseInv
<1>2. CASE Next
  BY <1>2, RequestBase, ReadsEventBase, QuietBase, SendsBase, CloseAndCancelBase,
     ReceivesBase, ClosesBase DEF Next, Produces
<1> QED
  BY <1>1, <1>2

-----------------------------------------------------------------------------
(* What a step does to the answer *)

(* What the answer is made of.                                             *)
LEMMA AnswerTypes ==
  ASSUME Typed
  PROVE  /\ received \in Seq(Items) /\ pipe.queue \in Seq(Items)
         /\ Answer \in Seq(Items) /\ Made \in Seq(Items)
         /\ Len(Answer) = Len(received) + Len(pipe.queue) /\ Len(Answer) \in Nat
         /\ Len(received) \in Nat /\ Len(pipe.queue) \in Nat
<1>1. received \in Seq(Items) /\ pipe.queue \in Seq(Items) /\ item \in Items
  BY DEF Typed, Pipes, Items
<1>2. Answer \in Seq(Items) /\ Len(Answer) = Len(received) + Len(pipe.queue)
  BY <1>1, ConcatProperties DEF Answer
<1>3. Made \in Seq(Items)
  BY <1>1, <1>2, AppendProperties DEF Made
<1> QED
  BY <1>1, <1>2, <1>3, LenProperties

(* Sending moves the item from the goroutine's hand into the pipe.         *)
LEMMA SendsKeepsMade ==
  ASSUME BaseInv, Sends, Fine'
  PROVE  /\ Fine /\ Made' = Made /\ ~Left'
         /\ UNCHANGED <<serverVars, assemblyVars>>
         /\ Len(Answer) = produced => Len(Answer') = produced'
<1>1. /\ UNCHANGED <<ctx, serverVars, result, panicked, assemblyVars, received, end>>
      /\ producer \in {"send", "report"}
      /\ item.type \in {"text", "call", "terminal", "error"}
      /\ producer = "report" => item.type = "error"
      /\ producer' \in {"scan", "ended", "exit", "close"}
      /\ producer = "report" <=> producer' = "close"
      /\ producer' = "exit" => item.type = "error" \/ pipe.recvClosed
      /\ ~pipe.recvClosed => produced' = IF item.type # "error" THEN produced + 1
                                         ELSE produced
  BY SendsFacts
<1>2. ~pipe.recvClosed
  BY <1>1 DEF BaseInv, PipeIsInOrder, Fine
<1>3. /\ pipe'.queue = Append(pipe.queue, item)
      /\ Len(pipe'.queue) = Len(pipe.queue) + 1 /\ Len(pipe.queue) \in Nat
      /\ \A k \in 1 .. Len(pipe.queue) : pipe'.queue[k] = pipe.queue[k]
      /\ pipe'.queue[Len(pipe.queue) + 1] = item
  BY <1>2, QueueAfterSend
<1>4. item.type # "error"
  <2> SUFFICES ASSUME item.type = "error" PROVE FALSE
    OBVIOUS
  <2>1. Len(pipe.queue) + 1 \in 1 .. Len(pipe'.queue)
    BY <1>3
  <2>2. Broken'
    BY <1>3, <2>1 DEF Broken
  <2> QED
    BY <2>2 DEF Fine
<1>5. producer = "send" /\ producer' \in {"scan", "ended"}
  BY <1>1, <1>2, <1>4
<1>6. ~Broken
  <2>1. \A k \in 1 .. Len(pipe.queue) : k \in 1 .. Len(pipe'.queue)
    BY <1>3
  <2> QED
    BY <1>3, <2>1 DEF Fine, Broken
<1>7. Answer' = Append(Answer, item)
  <2>1. received \in Seq(Items) /\ pipe.queue \in Seq(Items) /\ item \in Items
    BY AnswerTypes DEF BaseInv, Typed
  <2>2. received \o Append(pipe.queue, item) = Append(received \o pipe.queue, item)
    BY <2>1, AppendToTheQueue
  <2> QED
    BY <1>1, <1>3, <2>2 DEF Answer
<1>8. Len(Answer') = Len(Answer) + 1
  BY <1>7, AnswerTypes, AppendProperties DEF BaseInv, Typed
<1>9. Made' = Made
  BY <1>5, <1>7 DEF Made
<1>10. Fine
  BY <1>1, <1>4, <1>5, <1>6 DEF Fine, Doomed
<1> QED
  BY <1>1, <1>2, <1>4, <1>5, <1>8, <1>9, <1>10 DEF Left

(* Receiving moves a chunk from the pipe to the caller.                    *)
LEMMA ReceivesKeepsMade ==
  ASSUME BaseInv, CallerReceives, Fine'
  PROVE  /\ Fine /\ Made' = Made /\ Left' = Left
         /\ UNCHANGED <<serverVars, assemblyVars>>
         /\ Len(Answer) = produced => Len(Answer') = produced'
<1>1. /\ UNCHANGED <<ctx, serverVars, producer, result, item, panicked, assemblyVars,
                     produced>>
      /\ end = "open" /\ pipe.queue # <<>>
      /\ pipe'.queue = Tail(pipe.queue)
      /\ Len(pipe'.queue) = Len(pipe.queue) - 1 /\ Len(pipe.queue) \in Nat
      /\ \A k \in 1 .. Len(pipe'.queue) : pipe'.queue[k] = pipe.queue[k + 1]
      /\ pipe.queue[1] \in Chunks /\ received' = Append(received, pipe.queue[1])
  BY ReceivesFacts DEF Fine
<1>2. Answer' = Answer
  <2>1. received \in Seq(Items) /\ pipe.queue \in Seq(Items)
    BY AnswerTypes DEF BaseInv
  <2>2. Append(received, pipe.queue[1]) \o Tail(pipe.queue) = received \o pipe.queue
    BY <1>1, <2>1, TakeFromTheQueue
  <2> QED
    BY <1>1, <2>2 DEF Answer
<1>3. ~Broken
  <2> SUFFICES ASSUME NEW k \in 1 .. Len(pipe.queue), pipe.queue[k].type = "error"
               PROVE  FALSE
    BY DEF Broken
  <2>1. pipe.queue[1].type # "error"
    BY <1>1, KindsOfChunk
  <2>2. k - 1 \in 1 .. Len(pipe'.queue) /\ (k - 1) + 1 = k
    BY <1>1, <2>1
  <2>3. pipe'.queue[k - 1].type = "error"
    BY <1>1, <2>2
  <2> QED
    BY <2>2, <2>3 DEF Fine, Broken
<1>4. Made' = Made /\ Left' = Left /\ Fine
  BY <1>1, <1>2, <1>3 DEF Made, Left, Fine, Doomed
<1> QED
  BY <1>1, <1>2, <1>4

(* As long as nothing is certain to fail, a step that handles no event     *)
(* leaves the answer and what the goroutine knows of it as they are.       *)
QuietStep ==
  \/ RequestSucceeds \/ \E b \in {"none", "closed"} : RequestFails(b)
  \/ \E r \in {"EOF", "failed"} : ReadFails(r)
  \/ Panics \/ Produces \/ Cancel \/ CallerReceives \/ CallerCloses
  \/ UNCHANGED vars

(* What such a step leaves as it is.                                       *)
LEMMA QuietKeepsMade ==
  ASSUME BaseInv, QuietStep, Fine'
  PROVE  /\ Fine /\ Made' = Made /\ UNCHANGED <<serverVars, assemblyVars>>
         /\ Len(Answer) = produced => Len(Answer') = produced'
         /\ Left' => Left \/ completed
<1> DEFINE Goal == /\ Fine /\ Made' = Made /\ UNCHANGED <<serverVars, assemblyVars>>
                   /\ Len(Answer) = produced => Len(Answer') = produced'
                   /\ Left' => Left \/ completed
<1>1. ASSUME RequestSucceeds PROVE Goal
  <2>1. /\ producer = "request" /\ producer' = "scan"
        /\ UNCHANGED <<serverVars, assemblyVars, pipe, produced, received, end>>
    BY <1>1 DEF RequestSucceeds, callerVars
  <2> QED
    BY <2>1 DEF Fine, Broken, Doomed, Made, Answer, Left
<1>2. ASSUME NEW b \in {"none", "closed"}, RequestFails(b) PROVE FALSE
  BY <1>2 DEF RequestFails, Fine
<1>3. ASSUME \/ \E r \in {"EOF", "failed"} : ReadFails(r)
             \/ Panics \/ Concludes \/ \E panics \in BOOLEAN : ClosesBody(panics)
      PROVE  Goal
  <2>1. /\ UNCHANGED <<ctx, serverVars, assemblyVars, pipe, produced, received, end>>
        /\ producer' = "send" => item'.type = "error"
        /\ \/ producer \in {"scan", "ended"} /\ producer' \in {"ended", "send"}
           \/ producer = "scan" /\ producer' = "exit" /\ panicked'
           \/ producer = "ended" /\ producer' = "exit" /\ completed
           \/ producer = "exit" /\ producer' = "close" /\ ~panicked
           \/ producer = "exit" /\ producer' = "report" /\ item'.type = "error"
    BY <1>3, QuietFacts
  <2>2. \/ producer \in {"scan", "ended"} /\ producer' = "ended"
        \/ producer = "ended" /\ producer' = "exit" /\ completed
        \/ producer = "exit" /\ producer' = "close" /\ ~panicked
    BY <2>1 DEF Fine, Doomed
  <2>3. Answer' = Answer /\ (Broken <=> Broken')
    BY <2>1 DEF Answer, Broken
  <2> QED
    BY <2>1, <2>2, <2>3 DEF Fine, Doomed, Made, Left
<1>4. ASSUME Sends PROVE Goal
  BY <1>4, SendsKeepsMade
<1>5. ASSUME ClosesWriter PROVE Goal
  <2>1. /\ producer = "close" /\ producer' = "done"
        /\ pipe' = [pipe EXCEPT !.sendClosed = TRUE]
        /\ UNCHANGED <<serverVars, assemblyVars, produced, received, end>>
    BY <1>5 DEF ClosesWriter, callerVars
  <2>2. pipe'.queue = pipe.queue
    BY <2>1, ClosedProperties DEF BaseInv, Typed
  <2> QED
    BY <2>1, <2>2 DEF Fine, Broken, Doomed, Made, Answer, Left
<1>6. ASSUME Cancel PROVE Goal
  <2>1. UNCHANGED <<serverVars, producer, item, panicked, assemblyVars, pipe, produced,
                    received, end>>
    BY <1>6 DEF Cancel, producerVars, callerVars
  <2> QED
    BY <2>1 DEF Fine, Broken, Doomed, Made, Answer, Left
<1>7. ASSUME CallerReceives PROVE Goal
  BY <1>7, ReceivesKeepsMade
<1>8. ASSUME CallerCloses PROVE FALSE
  BY <1>8, ClosesFacts DEF Fine
<1>9. ASSUME UNCHANGED vars PROVE Goal
  <2>1. UNCHANGED <<serverVars, producer, item, panicked, assemblyVars, pipe, produced,
                    received, end>>
    BY <1>9 DEF vars, producerVars, callerVars
  <2> QED
    BY <2>1 DEF Fine, Broken, Doomed, Made, Answer, Left
<1> HIDE DEF Goal
<1>10. Goal
  BY <1>1, <1>2, <1>3, <1>4, <1>5, <1>6, <1>7, <1>8, <1>9 DEF QuietStep, Produces
<1> QED
  BY <1>10 DEF Goal

(* An event makes nothing, or one chunk.                                   *)
LEMMA EventMakes ==
  ASSUME BaseInv, NEW r \in {"none", "EOF", "failed"}, ReadsEvent(r), Fine'
  PROVE  /\ Fine /\ ~Left' /\ UNCHANGED <<Answer, produced>>
         /\ \E e \in Events : ServerSends(e) /\ Dispatch(e, r)
         /\ \/ producer' \in {"scan", "ended"} /\ item' = item /\ Made' = Made
            \/ /\ producer' = "send" /\ item' \in Items /\ Made' = Append(Made, item')
               /\ item'.type \in {"text", "call", "terminal"}
<1>1. /\ producer = "scan"
      /\ UNCHANGED <<ctx, body, panicked, pipe, produced, received, end>>
  BY DEF ReadsEvent, callerVars
<1>2. PICK e \in Events :
        /\ ServerSends(e)
        /\ \/ Dispatch(e, r)
           \/ ctx # "live" /\ StartsSending(Failed(ctx)) /\ UNCHANGED assemblyVars
  BY DEF ReadsEvent
<1>3. Dispatch(e, r)
  <2> SUFFICES ASSUME ctx # "live", StartsSending(Failed(ctx)) PROVE FALSE
    BY <1>2
  <2>1. ctx \in Errors
    BY DEF BaseInv, Typed, Errors
  <2>2. producer' = "send" /\ item'.type = "error"
    BY <2>1, ItemTypes DEF StartsSending
  <2> QED
    BY <2>2 DEF Fine, Doomed
<1>4. \/ producer' \in {"scan", "ended"} /\ item' = item
      \/ /\ producer' = "send" /\ item' \in Items
         /\ item'.type \in {"text", "call", "terminal", "error"}
  BY <1>3, DispatchTypes DEF BaseInv
<1>5. Answer' = Answer /\ Fine
  BY <1>1 DEF Answer, Fine, Broken, Doomed
<1>6. producer' = "send" => item'.type # "error"
  BY DEF Fine, Doomed
<1> QED
  BY <1>1, <1>2, <1>3, <1>4, <1>5, <1>6 DEF Made, Left

(* A step handles an event or is quiet.                                    *)
LEMMA StepKinds ==
  [Next]_vars => QuietStep \/ \E r \in {"none", "EOF", "failed"} : ReadsEvent(r)
BY DEF Next, QuietStep

(* The cases of dispatch.                                                  *)
LEMMA DispatchCases ==
  ASSUME NEW e \in Events, NEW r, Dispatch(e, r)
  PROVE  \/ /\ e.type \in {"reasoning", "ignored", "delta"} /\ GoesOn(r)
            /\ e.type = "delta" => ~openCalls[e.out].known
            /\ reasoning' = IF e.type = "reasoning" THEN reasoning + 1 ELSE reasoning
            /\ UNCHANGED <<openCalls, nextIndex, sawToolCall, completed>>
         \/ /\ e.type = "completed" /\ StartsSending(BuildCompletedMessage)
            /\ completed' = TRUE
            /\ UNCHANGED <<openCalls, nextIndex, sawToolCall, reasoning>>
         \/ e.type = "text" /\ StartsSending(TextChunk) /\ UNCHANGED assemblyVars
         \/ e.type = "failed" /\ StartsSending(Failed("server")) /\ UNCHANGED assemblyVars
         \/ /\ e.type = "added" /\ StartsSending(CallChunk(nextIndex, e.id, <<>>))
            /\ openCalls' = [openCalls EXCEPT ![e.out] =
                               [known |-> TRUE, index |-> nextIndex, callID |-> e.id,
                                sawDelta |-> FALSE]]
            /\ nextIndex' = nextIndex + 1 /\ sawToolCall' = TRUE
            /\ UNCHANGED <<reasoning, completed>>
         \/ /\ e.type = "delta" /\ openCalls[e.out].known
            /\ StartsSending(CallChunk(openCalls[e.out].index, openCalls[e.out].callID, e.args))
            /\ openCalls' = [openCalls EXCEPT ![e.out].sawDelta = TRUE]
            /\ UNCHANGED <<nextIndex, sawToolCall, reasoning, completed>>
         \/ /\ e.type = "done" /\ openCalls[e.out].known /\ openCalls[e.out].sawDelta
            /\ StartsSending(CallChunk(openCalls[e.out].index, e.id, <<>>))
            /\ UNCHANGED assemblyVars
         \/ /\ e.type = "done" /\ openCalls[e.out].known /\ ~openCalls[e.out].sawDelta
            /\ StartsSending(CallChunk(openCalls[e.out].index, e.id, OrEmptyObject(e.args)))
            /\ sawToolCall' = TRUE
            /\ UNCHANGED <<openCalls, nextIndex, reasoning, completed>>
         \/ /\ e.type = "done" /\ ~openCalls[e.out].known
            /\ StartsSending(CallChunk(nextIndex, e.id, OrEmptyObject(e.args)))
            /\ nextIndex' = nextIndex + 1 /\ sawToolCall' = TRUE
            /\ UNCHANGED <<openCalls, reasoning, completed>>
<1>1. ASSUME e.type = "added", HandleOutputItemAdded(e)
      PROVE  /\ StartsSending(CallChunk(nextIndex, e.id, <<>>))
             /\ openCalls' = [openCalls EXCEPT ![e.out] =
                                [known |-> TRUE, index |-> nextIndex, callID |-> e.id,
                                 sawDelta |-> FALSE]]
             /\ nextIndex' = nextIndex + 1 /\ sawToolCall' = TRUE
             /\ UNCHANGED <<reasoning, completed>>
  BY <1>1 DEF HandleOutputItemAdded
<1>2. ASSUME e.type = "delta", HandleArgsDelta(e, r)
      PROVE  \/ /\ GoesOn(r) /\ ~openCalls[e.out].known /\ UNCHANGED assemblyVars
             \/ /\ openCalls[e.out].known
                /\ StartsSending(CallChunk(openCalls[e.out].index, openCalls[e.out].callID,
                                           e.args))
                /\ openCalls' = [openCalls EXCEPT ![e.out].sawDelta = TRUE]
                /\ UNCHANGED <<nextIndex, sawToolCall, reasoning, completed>>
  BY <1>2 DEF HandleArgsDelta
<1>3. ASSUME e.type = "done", HandleFunctionCallDone(e)
      PROVE  \/ /\ openCalls[e.out].known /\ openCalls[e.out].sawDelta
                /\ StartsSending(CallChunk(openCalls[e.out].index, e.id, <<>>))
                /\ UNCHANGED assemblyVars
             \/ /\ openCalls[e.out].known /\ ~openCalls[e.out].sawDelta
                /\ StartsSending(CallChunk(openCalls[e.out].index, e.id, OrEmptyObject(e.args)))
                /\ sawToolCall' = TRUE
                /\ UNCHANGED <<openCalls, nextIndex, reasoning, completed>>
             \/ /\ ~openCalls[e.out].known
                /\ StartsSending(CallChunk(nextIndex, e.id, OrEmptyObject(e.args)))
                /\ nextIndex' = nextIndex + 1 /\ sawToolCall' = TRUE
                /\ UNCHANGED <<openCalls, reasoning, completed>>
  BY <1>3 DEF HandleFunctionCallDone
<1> QED
  BY <1>1, <1>2, <1>3, ZenonT(30) DEF Dispatch, HandleReasoningDone, HandleCompleted, assemblyVars

-----------------------------------------------------------------------------
(* EOF is an answer *)

AnswerInv == BaseInv /\ AnswerIsTold /\ EOFIsAnAnswer

(* Before the request there is no answer to tell of.                       *)
LEMMA InitAnswer == Init => AnswerInv
<1> SUFFICES ASSUME Init PROVE AnswerInv
  OBVIOUS
<1>1. BaseInv
  BY InitBase
<1>2. /\ producer = "request" /\ end = "open" /\ produced = 0 /\ reasoning = items
      /\ ~sawToolCall /\ ~completed /\ received = <<>> /\ pipe.queue = <<>>
  BY NewPipeType DEF Init
<1>3. Made = <<>> /\ Len(Answer) = 0
  <2>1. received \o pipe.queue = <<>>
    BY <1>2
  <2> QED
    BY <1>2, <2>1 DEF Made, Answer
<1>4. CallsOf(Made) = {}
  <2>1. DOMAIN Made = {}
    BY <1>3
  <2> QED
    BY <2>1 DEF CallsOf
<1>5. Known = {}
  BY DEF Init, Known, NoCall
<1>6. Len(Made) = 0
  BY <1>3
<1>7. AnswerIsTold
  BY <1>2, <1>3, <1>4, <1>5, <1>6 DEF AnswerIsTold, Left
<1>8. EOFIsAnAnswer
  BY <1>2 DEF EOFIsAnAnswer
<1> QED
  BY <1>1, <1>7, <1>8 DEF AnswerInv

(* What a quiet step leaves as it is stays told.                           *)
LEMMA QuietKeepsAnswer ==
  ASSUME BaseInv, AnswerIsTold, QuietStep
  PROVE  AnswerIsTold'
<1> SUFFICES ASSUME Fine'
             PROVE  /\ Len(Answer') = produced' /\ reasoning' = items'
                    /\ sawToolCall' <=> CallsOf(Made') # {}
                    /\ Known' # {} => sawToolCall'
                    /\ completed' => /\ over' /\ Made' # <<>>
                                     /\ Made'[Len(Made')] = BuildCompletedMessage'
                    /\ \A k \in 1 .. Len(Made') :
                         Made'[k].type = "terminal" => completed' /\ k = Len(Made')
                    /\ Left' => completed'
  BY DEF AnswerIsTold
<1>1. /\ Fine /\ Made' = Made /\ UNCHANGED <<serverVars, assemblyVars>>
      /\ Len(Answer) = produced => Len(Answer') = produced'
      /\ Left' => Left \/ completed
  BY QuietKeepsMade
<1>2. /\ Known' = Known /\ BuildCompletedMessage' = BuildCompletedMessage
      /\ UNCHANGED <<items, over, reasoning, sawToolCall, completed>>
  BY <1>1 DEF serverVars, assemblyVars, Known, BuildCompletedMessage
<1> QED
  BY <1>1, <1>2 DEF AnswerIsTold

(* What an event makes of it.                                              *)
LEMMA EventKeepsAnswer ==
  ASSUME BaseInv, BaseInv', AnswerIsTold, NEW r \in {"none", "EOF", "failed"}, ReadsEvent(r)
  PROVE  AnswerIsTold'
<1> SUFFICES ASSUME Fine'
             PROVE  /\ Len(Answer') = produced' /\ reasoning' = items'
                    /\ sawToolCall' <=> CallsOf(Made') # {}
                    /\ Known' # {} => sawToolCall'
                    /\ completed' => /\ over' /\ Made' # <<>>
                                     /\ Made'[Len(Made')] = BuildCompletedMessage'
                    /\ \A k \in 1 .. Len(Made') :
                         Made'[k].type = "terminal" => completed' /\ k = Len(Made')
                    /\ Left' => completed'
  BY DEF AnswerIsTold
<1>1. /\ Fine /\ ~Left' /\ UNCHANGED <<Answer, produced>>
      /\ \/ producer' \in {"scan", "ended"} /\ item' = item /\ Made' = Made
         \/ /\ producer' = "send" /\ item' \in Items /\ Made' = Append(Made, item')
            /\ item'.type \in {"text", "call", "terminal"}
  BY EventMakes
<1>2. PICK e \in Events : ServerSends(e) /\ Dispatch(e, r)
  BY EventMakes
<1>3. /\ items' = IF e.type = "reasoning" THEN items + 1 ELSE items
      /\ over => over' /\ server' = server /\ e.type = "ignored"
      /\ e.type = "completed" => over'
  BY <1>2, ServerFacts DEF BaseInv
<1>4. /\ Len(Answer) = produced /\ reasoning = items
      /\ sawToolCall <=> CallsOf(Made) # {}
      /\ Known # {} => sawToolCall
      /\ completed => over /\ Made # <<>> /\ Made[Len(Made)] = BuildCompletedMessage
      /\ \A k \in 1 .. Len(Made) : Made[k].type = "terminal" => completed /\ k = Len(Made)
  BY <1>1 DEF AnswerIsTold
<1>5. Len(Answer') = produced' /\ ~Left'
  BY <1>1, <1>4
<1>6. Made \in Seq(Items) /\ Len(Made) \in Nat
  BY AnswerTypes, LenProperties DEF BaseInv
<1>7. sawToolCall \in BOOLEAN /\ completed \in BOOLEAN /\ completed' \in BOOLEAN
      /\ sawToolCall' \in BOOLEAN
  BY DEF BaseInv, Typed
<1>8. ASSUME GoesOn(r), e.type \in {"reasoning", "ignored", "delta"},
             reasoning' = IF e.type = "reasoning" THEN reasoning + 1 ELSE reasoning,
             UNCHANGED <<openCalls, nextIndex, sawToolCall, completed>>
      PROVE  /\ reasoning' = items'
             /\ sawToolCall' <=> CallsOf(Made') # {}
             /\ Known' # {} => sawToolCall'
             /\ completed' => /\ over' /\ Made' # <<>>
                              /\ Made'[Len(Made')] = BuildCompletedMessage'
             /\ \A k \in 1 .. Len(Made') :
                  Made'[k].type = "terminal" => completed' /\ k = Len(Made')
  <2>1. Made' = Made /\ Known' = Known
    BY <1>1, <1>8 DEF GoesOn, AfterEvent, Known
  <2>2. reasoning' = items'
    BY <1>3, <1>4, <1>8
  <2>3. completed' => BuildCompletedMessage' = BuildCompletedMessage /\ over'
    BY <1>3, <1>4, <1>8 DEF BuildCompletedMessage
  <2> QED
    BY <1>4, <1>8, <2>1, <2>2, <2>3
<1>9. ASSUME NEW i \in Items, StartsSending(i), e.type # "ignored"
      PROVE  /\ i.type \in {"text", "call", "terminal"} /\ ~completed /\ item' = i
             /\ Made' = Append(Made, i) /\ Len(Made') = Len(Made) + 1
             /\ Made'[Len(Made')] = i /\ Made' # <<>>
             /\ \A k \in 1 .. Len(Made') : k = Len(Made') \/ Made'[k].type # "terminal"
             /\ CallsOf(Made') = IF i.type = "call" THEN CallsOf(Made) \cup {Len(Made) + 1}
                                 ELSE CallsOf(Made)
  <2>1. producer' = "send" /\ item' = i
    BY <1>9 DEF StartsSending
  <2>2. i.type \in {"text", "call", "terminal"} /\ Made' = Append(Made, i)
    BY <1>1, <2>1
  <2>3. ~completed
    BY <1>3, <1>4, <1>9
  <2>4. /\ Len(Made') = Len(Made) + 1 /\ Made'[Len(Made) + 1] = i
        /\ \A k \in 1 .. Len(Made) : Made'[k] = Made[k]
        /\ Made' # <<>>
    BY <1>6, <2>2, AppendProperties
  <2>5. \A k \in 1 .. Len(Made') : k = Len(Made') \/ k \in 1 .. Len(Made)
    BY <1>6, <2>4
  <2>6. \A k \in 1 .. Len(Made) : Made'[k].type # "terminal"
    BY <1>4, <2>3, <2>4
  <2>7. CallsOf(Made') = IF i.type = "call" THEN CallsOf(Made) \cup {Len(Made) + 1}
                         ELSE CallsOf(Made)
    BY <1>6, <2>2, CallsOfAppend
  <2> QED
    BY <2>1, <2>2, <2>3, <2>4, <2>5, <2>6, <2>7
<1>10. ASSUME NEW i \in Items, i.type = "call", StartsSending(i),
              e.type \in {"added", "delta", "done"},
              sawToolCall', UNCHANGED <<reasoning, completed>>
       PROVE  /\ reasoning' = items'
              /\ sawToolCall' <=> CallsOf(Made') # {}
              /\ Known' # {} => sawToolCall'
              /\ completed' => /\ over' /\ Made' # <<>>
                               /\ Made'[Len(Made')] = BuildCompletedMessage'
              /\ \A k \in 1 .. Len(Made') :
                   Made'[k].type = "terminal" => completed' /\ k = Len(Made')
  <2>1. /\ ~completed /\ Made'[Len(Made')] = i
        /\ \A k \in 1 .. Len(Made') : k = Len(Made') \/ Made'[k].type # "terminal"
        /\ CallsOf(Made') = CallsOf(Made) \cup {Len(Made) + 1}
    BY <1>9, <1>10
  <2>2. reasoning' = items'
    BY <1>3, <1>4, <1>10
  <2>3. \A k \in 1 .. Len(Made') : Made'[k].type # "terminal"
    BY <1>10, <2>1
  <2> QED
    BY <1>10, <2>1, <2>2, <2>3
<1> DEFINE Goal == /\ reasoning' = items'
                   /\ sawToolCall' <=> CallsOf(Made') # {}
                   /\ Known' # {} => sawToolCall'
                   /\ completed' => /\ over' /\ Made' # <<>>
                                    /\ Made'[Len(Made')] = BuildCompletedMessage'
                   /\ \A k \in 1 .. Len(Made') :
                        Made'[k].type = "terminal" => completed' /\ k = Len(Made')
<1>11. ASSUME e.type = "completed", StartsSending(BuildCompletedMessage), completed' = TRUE,
              UNCHANGED <<openCalls, nextIndex, sawToolCall, reasoning>>
       PROVE  Goal
  <2>1. BuildCompletedMessage \in Items /\ BuildCompletedMessage.type = "terminal"
    BY <1>7, ItemTypes DEF BuildCompletedMessage, BaseInv, Typed
  <2>2. /\ Made'[Len(Made')] = BuildCompletedMessage /\ Made' # <<>>
        /\ \A k \in 1 .. Len(Made') : k = Len(Made') \/ Made'[k].type # "terminal"
        /\ CallsOf(Made') = CallsOf(Made)
    BY <1>9, <1>11, <2>1
  <2>3. BuildCompletedMessage' = BuildCompletedMessage /\ Known' = Known
    BY <1>11 DEF BuildCompletedMessage, Known
  <2>4. reasoning' = items' /\ over'
    BY <1>3, <1>4, <1>11
  <2> QED
    BY <1>4, <1>11, <2>2, <2>3, <2>4
<1>12. ASSUME e.type = "text", StartsSending(TextChunk), UNCHANGED assemblyVars
       PROVE  Goal
  <2>1. TextChunk \in Items /\ TextChunk.type = "text"
    BY ItemTypes
  <2>2. /\ ~completed /\ Made'[Len(Made')] = TextChunk
        /\ \A k \in 1 .. Len(Made') : k = Len(Made') \/ Made'[k].type # "terminal"
        /\ CallsOf(Made') = CallsOf(Made)
    BY <1>9, <1>12, <2>1
  <2>3. /\ Known' = Known /\ UNCHANGED <<reasoning, sawToolCall, completed>>
    BY <1>12 DEF Known, assemblyVars
  <2>4. reasoning' = items'
    BY <1>3, <1>4, <1>12, <2>3
  <2>5. \A k \in 1 .. Len(Made') : Made'[k].type # "terminal"
    BY <2>1, <2>2
  <2> QED
    BY <1>4, <2>2, <2>3, <2>4, <2>5
<1>13. ASSUME e.type = "failed", StartsSending(Failed("server"))
       PROVE  FALSE
  <2>1. Failed("server") \in Items /\ Failed("server").type = "error"
    BY ItemTypes DEF Errors
  <2> QED
    BY <1>9, <1>13, <2>1
<1>14. ASSUME e.type \in {"added", "delta", "done"}
       PROVE  e.out \in Outputs /\ e.id \in Ids /\ e.args \in Seq(Nat)
              /\ OrEmptyObject(e.args) \in Seq(Nat) /\ <<>> \in Seq(Nat)
  <2>1. e.out \in Outputs /\ e.id \in Ids /\ e.args \in Seq(Nat) /\ <<>> \in Seq(Nat)
    BY <1>14, EventTypes
  <2> QED
    BY <2>1 DEF OrEmptyObject, EmptyObject
<1>15. /\ nextIndex \in Nat
       /\ \A o \in Outputs : openCalls[o].index \in Nat /\ openCalls[o].callID \in Ids
  BY DEF BaseInv, Typed, Calls
<1>16. \A o \in Outputs : openCalls[o].known => sawToolCall
  BY <1>4 DEF Known
<1>17. ASSUME NEW index \in Nat, NEW id \in Ids, NEW args \in Seq(Nat)
       PROVE  CallChunk(index, id, args) \in Items /\ CallChunk(index, id, args).type = "call"
  BY ItemTypes
<1>18. ASSUME NEW index \in Nat, NEW id \in Ids, NEW args \in Seq(Nat),
              e.type \in {"added", "delta", "done"}, StartsSending(CallChunk(index, id, args)),
              sawToolCall', UNCHANGED <<reasoning, completed>>
       PROVE  Goal
  <2> DEFINE i == CallChunk(index, id, args)
  <2>1. i \in Items /\ i.type = "call" /\ StartsSending(i)
    BY <1>17, <1>18
  <2> HIDE DEF i
  <2> QED
    BY <1>10, <1>18, <2>1
<1> HIDE DEF Goal
<1>19. ASSUME e.type = "added", StartsSending(CallChunk(nextIndex, e.id, <<>>)),
              sawToolCall' = TRUE, UNCHANGED <<reasoning, completed>>
       PROVE  Goal
  <2> DEFINE none == <<>>
  <2>1. none \in Seq(Nat) /\ StartsSending(CallChunk(nextIndex, e.id, none))
    BY <1>19
  <2> HIDE DEF none
  <2> QED
    BY <1>14, <1>15, <1>18, <1>19, <2>1
<1>20. ASSUME e.type = "delta", openCalls[e.out].known,
              StartsSending(CallChunk(openCalls[e.out].index, openCalls[e.out].callID, e.args)),
              UNCHANGED <<sawToolCall, reasoning, completed>>
       PROVE  Goal
  BY <1>14, <1>15, <1>16, <1>18, <1>20
<1>21. ASSUME e.type = "done", openCalls[e.out].known,
              StartsSending(CallChunk(openCalls[e.out].index, e.id, <<>>)),
              UNCHANGED assemblyVars
       PROVE  Goal
  <2> DEFINE none == <<>>
  <2>1. none \in Seq(Nat) /\ StartsSending(CallChunk(openCalls[e.out].index, e.id, none))
    BY <1>21
  <2> HIDE DEF none
  <2>2. UNCHANGED <<sawToolCall, reasoning, completed>>
    BY <1>21 DEF assemblyVars
  <2> QED
    BY <1>14, <1>15, <1>16, <1>18, <1>21, <2>1, <2>2
<1>22. ASSUME e.type = "done",
              \/ StartsSending(CallChunk(openCalls[e.out].index, e.id, OrEmptyObject(e.args)))
              \/ StartsSending(CallChunk(nextIndex, e.id, OrEmptyObject(e.args))),
              sawToolCall' = TRUE, UNCHANGED <<reasoning, completed>>
       PROVE  Goal
  BY <1>14, <1>15, <1>18, <1>22
<1>23. ASSUME GoesOn(r), e.type \in {"reasoning", "ignored", "delta"},
              reasoning' = (IF e.type = "reasoning" THEN reasoning + 1 ELSE reasoning),
              UNCHANGED <<openCalls, nextIndex, sawToolCall, completed>>
       PROVE  Goal
  BY <1>8, <1>23 DEF Goal
<1>24. Goal
  <2>1. CASE e.type = "added"
    BY <1>2, <1>19, <2>1, DispatchCases
  <2>2. CASE e.type = "delta"
    BY <1>2, <1>20, <1>23, <2>2, DispatchCases
  <2>3. CASE e.type = "done"
    BY <1>2, <1>21, <1>22, <2>3, DispatchCases
  <2>4. CASE e.type \in {"reasoning", "ignored"}
    BY <1>2, <1>23, <2>4, DispatchCases
  <2>5. CASE e.type \in {"completed", "text", "failed"}
    BY <1>2, <1>11, <1>12, <1>13, <2>5, DispatchCases
  <2> QED
    BY <1>2, <2>1, <2>2, <2>3, <2>4, <2>5, DispatchCases
<1> QED
  BY <1>5, <1>24 DEF Goal

(* The caller sees EOF when the queue is empty and the writer closed, and  *)
(* nothing changes then.                                                   *)
LEMMA EOFFacts ==
  ASSUME BaseInv, [Next]_vars, end' = "EOF"
  PROVE  /\ UNCHANGED <<received, produced, items, server>>
         /\ \/ end = "EOF"
            \/ /\ end = "open" /\ producer = "done" /\ Fine /\ Made = received
               /\ Answer = received
<1>1. CASE CallerReceives
  <2>1. /\ UNCHANGED <<ctx, serverVars, producer, result, item, panicked, assemblyVars,
                       produced>>
        /\ end = "open" /\ pipe.queue = <<>> /\ pipe.sendClosed
        /\ UNCHANGED <<pipe, received>>
    BY <1>1, ReceivesFacts
  <2>2. producer = "done"
    BY <2>1 DEF BaseInv, PipeIsInOrder
  <2>3. Answer = received
    <3>1. received \in Seq(Items)
      BY AnswerTypes DEF BaseInv
    <3>2. received \o <<>> = received
      BY <3>1
    <3> QED
      BY <2>1, <3>2 DEF Answer
  <2>4. Len(pipe.queue) = 0
    BY <2>1
  <2>5. Fine /\ Made = received
    BY <2>1, <2>2, <2>3, <2>4 DEF Fine, Broken, Doomed, Made
  <2> QED
    BY <2>1, <2>2, <2>3, <2>5 DEF serverVars
<1>2. CASE ~CallerReceives /\ end # "EOF"
  <2>1. UNCHANGED end \/ end' \in {"error", "closed"}
    BY <1>2 DEF Next, vars, callerVars, RequestSucceeds, RequestFails, ReadsEvent, ReadFails,
       Panics, Produces, Sends, Concludes, ClosesBody, ClosesWriter, Cancel, CallerCloses
  <2> QED
    BY <1>2, <2>1
<1>3. CASE end = "EOF" /\ ~CallerReceives
  <2>1. producer = "done"
    BY <1>3 DEF BaseInv, PipeIsInOrder
  <2>2. ~RequestSucceeds /\ ~(\E b \in {"none", "closed"} : RequestFails(b))
    BY <2>1 DEF RequestSucceeds, RequestFails
  <2>3. ~(\E r \in {"none", "EOF", "failed"} : ReadsEvent(r))
        /\ ~(\E r \in {"EOF", "failed"} : ReadFails(r)) /\ ~Panics
    BY <2>1 DEF ReadsEvent, ReadFails, Panics
  <2>4. ~Produces
    BY <2>1 DEF Produces, Sends, Concludes, ClosesBody, ClosesWriter
  <2>5. Cancel \/ CallerCloses \/ UNCHANGED vars
    BY <1>3, <2>2, <2>3, <2>4 DEF Next
  <2>6. UNCHANGED <<received, produced, items, server>>
    BY <1>3, <2>5 DEF Cancel, CallerCloses, vars, serverVars, callerVars
  <2> QED
    BY <1>3, <2>6
<1> QED
  BY <1>1, <1>2, <1>3

(* An answer that is told of is one at its EOF.                            *)
LEMMA EOFKeepsAnswer ==
  ASSUME AnswerInv, [Next]_vars
  PROVE  EOFIsAnAnswer'
<1> SUFFICES ASSUME end' = "EOF" PROVE EOFIsAnAnswer'
  BY DEF EOFIsAnAnswer
<1>1. UNCHANGED <<received, produced, items>>
  BY EOFFacts DEF AnswerInv
<1>2. CASE end = "EOF"
  BY <1>1, <1>2 DEF AnswerInv, EOFIsAnAnswer
<1>3. CASE end # "EOF"
  <2>1. producer = "done" /\ Fine /\ Made = received /\ Answer = received
    BY <1>3, EOFFacts DEF AnswerInv
  <2>2. /\ Len(received) = produced /\ reasoning = items
        /\ sawToolCall <=> CallsOf(received) # {}
        /\ completed /\ received # <<>>
        /\ received[Len(received)] = BuildCompletedMessage
        /\ \A k \in 1 .. Len(received) : received[k].type = "terminal" => k = Len(received)
    BY <2>1 DEF AnswerInv, AnswerIsTold, Left
  <2>3. received[Len(received)] =
          TerminalChunk(IF CallsOf(received) = {} THEN "stop" ELSE "tool_calls", items)
    <3>1. (IF sawToolCall THEN "tool_calls" ELSE "stop")
            = IF CallsOf(received) = {} THEN "stop" ELSE "tool_calls"
      BY <2>2
    <3> QED
      BY <2>2, <3>1 DEF BuildCompletedMessage
  <2>4. Len(received) \in Nat
    BY AnswerTypes DEF AnswerInv, BaseInv
  <2>5. \A k \in 1 .. Len(received) - 1 : k \in 1 .. Len(received) /\ k # Len(received)
    BY <2>4
  <2>6. \A k \in 1 .. Len(received) - 1 : received[k].type # "terminal"
    BY <2>2, <2>5
  <2>7. EOFIsAnAnswer
    BY <2>2, <2>3, <2>6 DEF EOFIsAnAnswer
  <2>8. /\ Len(received) = produced /\ received # <<>>
        /\ \A k \in 1 .. Len(received) - 1 : received[k].type # "terminal"
    BY <2>2, <2>6
  <2> HIDE DEF TerminalChunk
  <2> QED
    BY <1>1, <2>3, <2>8 DEF EOFIsAnAnswer
<1> QED
  BY <1>2, <1>3

(* Every step keeps what is known of the answer.                           *)
LEMMA NextAnswer == AnswerInv /\ [Next]_vars => AnswerInv'
<1> SUFFICES ASSUME AnswerInv, [Next]_vars PROVE AnswerInv'
  OBVIOUS
<1>1. BaseInv'
  BY NextBase DEF AnswerInv
<1>2. AnswerIsTold'
  BY <1>1, StepKinds, QuietKeepsAnswer, EventKeepsAnswer DEF AnswerInv
<1>3. EOFIsAnAnswer'
  BY EOFKeepsAnswer
<1> QED
  BY <1>1, <1>2, <1>3 DEF AnswerInv

(* The invariant of the answer holds in every reachable state.             *)
THEOREM AnswerInvHolds == Spec => []AnswerInv
<1>1. Init => AnswerInv
  BY InitAnswer
<1>2. AnswerInv /\ [Next]_vars => AnswerInv'
  BY NextAnswer
<1> QED
  BY <1>1, <1>2, PTL DEF Spec

(* EOF means that the response was completed and that the caller has all   *)
(* of it, the terminal chunk last (streamResponses).                       *)
THEOREM EOFIsTheAnswer == Spec => []EOFIsAnAnswer
<1>1. AnswerInv => EOFIsAnAnswer
  BY DEF AnswerInv
<1> QED
  BY <1>1, AnswerInvHolds, PTL

-----------------------------------------------------------------------------
(* The tool calls of an answer *)

(* An index that no chunk has is one of no id and no arguments.            *)
LEMMA NothingAtOtherIndexes ==
  ASSUME NEW s \in Seq(Items), NEW index, index \notin Indexes(s)
  PROVE  IdsAt(s, index) = {} /\ ArgsAt(s, index) = <<>>
<1>1. \A k \in CallsOf(s) : s[k].index # index
  BY DEF Indexes
<1>2. IdsAt(s, index) = {}
  BY <1>1 DEF IdsAt
<1>3. PICK f : IsTheJoin(f, s, index) /\ ArgsAt(s, index) = f[Len(s)]
  BY JoinExists
<1> DEFINE n == Len(s)
           g == [k \in 0 .. n |-> <<>>]
<1>4. n \in Nat
  BY LenProperties
<1>5. \A k \in 0 .. n : f[k] = IF k = 0 THEN <<>>
                               ELSE IF k \in CallsOf(s) /\ s[k].index = index
                                    THEN f[k - 1] \o s[k].args ELSE f[k - 1]
  BY <1>3 DEF IsTheJoin
<1>6. f[0] = <<>> /\ \A k \in 1 .. n : f[k] = f[k - 1]
  <2> HIDE DEF n
  <2>1. 0 \in 0 .. n /\ \A k \in 1 .. n : k \in 0 .. n /\ k # 0
    BY <1>4
  <2> QED
    BY <1>1, <1>5, <2>1
<1>7. g[0] = <<>> /\ \A k \in 1 .. n : g[k - 1] = <<>> /\ g[k] = <<>>
  <2> HIDE DEF n
  <2>1. 0 \in 0 .. n /\ \A k \in 1 .. n : k \in 0 .. n /\ k - 1 \in 0 .. n
    BY <1>4
  <2> QED
    BY <2>1
<1>8. f[n] = <<>>
  <2>1. \A k \in 0 .. n : f[k] = g[k]
    <3>1. f[0] = g[0] /\ \A k \in 1 .. n : f[k - 1] = g[k - 1] => f[k] = g[k]
      BY <1>6, <1>7
    <3> HIDE DEF g, n
    <3> QED
      BY <1>4, <3>1, RecursionIsUnique, SMTT(30)
  <2> QED
    BY <1>4, <2>1
<1> QED
  BY <1>2, <1>3, <1>8

(* What a chunk of a call changes.                                         *)
LEMMA ChunkOfACall ==
  ASSUME BaseInv, NEW index \in Nat, NEW id \in Ids, NEW args \in Seq(Nat),
         Made' = Append(Made, CallChunk(index, id, args))
  PROVE  /\ Indexes(Made') = Indexes(Made) \cup {index}
         /\ IdsAt(Made', index) = IdsAt(Made, index) \cup ({id} \ {Blank})
         /\ ArgsAt(Made', index) = ArgsAt(Made, index) \o args
         /\ \A i : i # index => /\ IdsAt(Made', i) = IdsAt(Made, i)
                                /\ ArgsAt(Made', i) = ArgsAt(Made, i)
<1> DEFINE c == CallChunk(index, id, args)
<1>1. c \in Items /\ c.type = "call" /\ c.index = index /\ c.id = id /\ c.args = args
  BY ItemTypes
<1>2. Made \in Seq(Items) /\ Made' = Append(Made, c)
  BY AnswerTypes DEF BaseInv
<1> HIDE DEF c
<1>3. Indexes(Made') = Indexes(Made) \cup {index}
  BY <1>1, <1>2, IndexesOfAppend
<1>4. ASSUME NEW i
      PROVE  /\ IdsAt(Made', i) = IF index = i THEN IdsAt(Made, i) \cup ({id} \ {Blank})
                                  ELSE IdsAt(Made, i)
             /\ ArgsAt(Made', i) = IF index = i THEN ArgsAt(Made, i) \o args
                                   ELSE ArgsAt(Made, i)
  <2>1. IdsAt(Append(Made, c), i) =
          IF c.type = "call" /\ c.index = i
          THEN IdsAt(Made, i) \cup ({c.id} \ {Blank}) ELSE IdsAt(Made, i)
    BY <1>1, <1>2, IdsOfAppend
  <2>2. ArgsAt(Append(Made, c), i) =
          IF c.type = "call" /\ c.index = i
          THEN ArgsAt(Made, i) \o c.args ELSE ArgsAt(Made, i)
    BY <1>1, <1>2, ArgsOfAppend
  <2> QED
    BY <1>1, <1>2, <2>1, <2>2
<1> QED
  BY <1>3, <1>4

(* What any other chunk leaves as it is.                                   *)
LEMMA ChunkOfNoCall ==
  ASSUME BaseInv, NEW c \in Items, c.type # "call", Made' = Append(Made, c)
  PROVE  /\ Indexes(Made') = Indexes(Made)
         /\ \A i : IdsAt(Made', i) = IdsAt(Made, i) /\ ArgsAt(Made', i) = ArgsAt(Made, i)
<1>1. Made \in Seq(Items)
  BY AnswerTypes DEF BaseInv
<1> QED
  BY <1>1, IndexesOfAppend, IdsOfAppend, ArgsOfAppend

(* What the server's events of a call say of it.                           *)
LEMMA AnnouncedByServer ==
  ASSUME Typed, NEW e \in Events, e.type = "added", Announces(e)
  PROVE  /\ e.out \in Outputs /\ e.id \in {e.out, Blank} /\ server[e.out].phase = "none"
         /\ server'[e.out].phase = "open" /\ server'[e.out].args = server[e.out].args
         /\ \A p \in Outputs : p # e.out => server'[p] = server[p]
<1>1. e.out \in Outputs
  BY EventTypes
<1>2. /\ e.id \in {e.out, Blank} /\ server[e.out].phase = "none"
      /\ server' = [server EXCEPT ![e.out].phase = "open"]
  BY DEF Announces, MayStart
<1> QED
  BY <1>1, <1>2 DEF Typed

(* A delta makes the arguments of an open call longer.                     *)
LEMMA StreamedByServer ==
  ASSUME Typed, NEW e \in Events, e.type = "delta", Streams(e)
  PROVE  /\ e.out \in Outputs /\ e.args \in Seq(Nat) /\ server[e.out].phase = "open"
         /\ server'[e.out].phase = "open"
         /\ server'[e.out].args = server[e.out].args \o e.args
         /\ server'[e.out].args # <<>>
         /\ \A p \in Outputs : p # e.out => server'[p] = server[p]
<1>1. e.out \in Outputs /\ e.args \in Seq(Nat)
  BY EventTypes
<1>2. /\ server[e.out].phase = "open"
      /\ e.args = <<Len(server[e.out].args) + 1>>
      /\ server' = [server EXCEPT ![e.out].args = @ \o e.args]
  BY DEF Streams
<1>3. /\ server'[e.out].phase = "open"
      /\ server'[e.out].args = server[e.out].args \o e.args
      /\ \A p \in Outputs : p # e.out => server'[p] = server[p]
  BY <1>1, <1>2 DEF Typed
<1>4. server[e.out].args \o e.args # <<>>
  <2> DEFINE s == server[e.out].args
             t == e.args
  <2>1. s \in Seq(Nat) /\ t \in Seq(Nat)
    BY <1>1 DEF Typed
  <2>2. Len(t) = 1
    BY <1>2
  <2> HIDE DEF s, t
  <2>3. Len(s \o t) = Len(s) + Len(t)
    BY <2>1, ConcatProperties
  <2>4. Len(s) \in Nat
    BY <2>1, LenProperties
  <2>5. s \o t # <<>>
    BY <2>2, <2>3, <2>4
  <2> QED
    BY <2>5 DEF s, t
<1> QED
  BY <1>1, <1>2, <1>3, <1>4

(* The end of a call gives its arguments whole.                            *)
LEMMA FinishedByServer ==
  ASSUME Typed, NEW e \in Events, e.type = "done", Finishes(e)
  PROVE  /\ e.out \in Outputs /\ e.args \in Seq(Nat) /\ e.id = e.out
         /\ server[e.out].phase \in {"none", "open"}
         /\ server[e.out].args \in {<<>>, e.args}
         /\ server'[e.out] = [phase |-> "done", args |-> e.args]
         /\ \A p \in Outputs : p # e.out => server'[p] = server[p]
<1>1. e.out \in Outputs /\ e.args \in Seq(Nat)
  BY EventTypes
<1>2. /\ e.id = e.out /\ server[e.out].phase \in {"none", "open"}
      /\ server[e.out].args \in {<<>>, e.args}
      /\ server' = [server EXCEPT ![e.out] = [phase |-> "done", args |-> e.args]]
  BY DEF Finishes, MayStart
<1> QED
  BY <1>1, <1>2 DEF Typed

(* What an event says of the calls, if no more than announcements get lost. *)
LEMMA CallsOfTheServer ==
  ASSUME Typed, Garbled \subseteq {"added"}, NEW e \in Events, ServerSends(e)
  PROVE  /\ e.type = "added" => Announces(e)
         /\ e.type = "delta" => Streams(e)
         /\ e.type = "done" => Finishes(e)
         /\ e.type \notin {"added", "delta", "done"} =>
              \/ server' = server
              \/ ~over /\ \E lost \in Events : lost.type = "added" /\ Announces(lost)
<1>1. ASSUME \E lost \in Events : lost.type \in Garbled /\ (Announces(lost) \/ Streams(lost))
      PROVE  \E lost \in Events : lost.type = "added" /\ Announces(lost)
  BY <1>1 DEF Streams
<1> QED
  BY <1>1 DEF ServerSends, Announces, Streams, Finishes, Ends, Thinks, Speaks, serverVars

(* The outputs that have an index are finitely many.                       *)
LEMMA ClaimedIsFinite ==
  IsFiniteSet(Claimed) /\ IsFiniteSet(Claimed') /\ Claimed \subseteq Outputs
<1>1. IsFiniteSet(Outputs)
  BY CodexAssumption, FS_Interval DEF Outputs
<1>2. Claimed \subseteq Outputs /\ Claimed' \subseteq Outputs
  BY DEF Claimed, Known, Done
<1> QED
  BY <1>1, <1>2, FS_Subset

(* A step that says nothing of the calls that have an index.               *)
LEMMA SilenceKeepsTold ==
  ASSUME BaseInv, Told, UNCHANGED <<openCalls, nextIndex>>,
         Indexes(Made') = Indexes(Made),
         \A i : IdsAt(Made', i) = IdsAt(Made, i) /\ ArgsAt(Made', i) = ArgsAt(Made, i),
         \A o \in Claimed : server'[o] = server[o],
         Done' = Done,
         completed' => \A o \in Outputs : server'[o].phase # "open"
  PROVE  Told'
<1>1. Known' = Known /\ Claimed' = Claimed
  BY DEF Known, Claimed
<1>2. /\ Indexes(Made) = 0 .. nextIndex - 1
      /\ nextIndex = Cardinality(Claimed)
      /\ \A o \in Known :
           /\ server[o].phase # "none" /\ openCalls[o].index < nextIndex
           /\ openCalls[o].callID \in {o, Blank}
           /\ \A p \in Known : openCalls[o].index = openCalls[p].index => o = p
  BY DEF Told, IndexesAreClaimed
<1>3. IndexesAreClaimed'
  <2>1. \A o \in Known : server'[o] = server[o]
    BY DEF Claimed
  <2> QED
    BY <1>1, <1>2, <2>1 DEF IndexesAreClaimed
<1>4. ASSUME NEW o \in Known \ Done PROVE OpenIsStreamed(o)'
  <2>1. OpenIsStreamed(o) /\ server'[o] = server[o]
    BY <1>4 DEF Told, Claimed
  <2> QED
    BY <2>1 DEF OpenIsStreamed
<1>5. ASSUME NEW o \in Done PROVE \E i \in 0 .. nextIndex' - 1 : DoneIsWhole(o, i)'
  <2>1. PICK i \in 0 .. nextIndex - 1 : DoneIsWhole(o, i)
    BY <1>5 DEF Told
  <2>2. server'[o] = server[o]
    BY <1>5 DEF Claimed
  <2>3. DoneIsWhole(o, i)'
    BY <1>1, <2>1, <2>2 DEF DoneIsWhole
  <2> QED
    BY <2>1, <2>3
<1> QED
  BY <1>1, <1>3, <1>4, <1>5 DEF Told

(* What a chunk under an index of one call, or a new one, leaves told of   *)
(* the others.                                                             *)
LEMMA OthersStayTold ==
  ASSUME BaseInv, Told, NEW o \in Outputs, NEW i,
         i = nextIndex \/ (o \in Known /\ i = openCalls[o].index),
         \A j : j # i => IdsAt(Made', j) = IdsAt(Made, j) /\ ArgsAt(Made', j) = ArgsAt(Made, j),
         \A p \in Outputs : p # o => server'[p] = server[p] /\ openCalls'[p] = openCalls[p],
         openCalls'[o].known => openCalls'[o].index = i,
         nextIndex' \in {nextIndex, nextIndex + 1},
         o \notin Done
  PROVE  /\ \A p \in Known' \ Done' : p # o => OpenIsStreamed(p)'
         /\ \A p \in Done' : p # o => \E j \in 0 .. nextIndex' - 1 : DoneIsWhole(p, j)'
<1>1. nextIndex \in Nat /\ \A p \in Known : p \in Outputs
  BY DEF BaseInv, Typed, Known
<1>2. ASSUME NEW p \in Known, p # o PROVE openCalls[p].index # i
  BY <1>1, <1>2 DEF Told, IndexesAreClaimed, BaseInv, Typed, Calls
<1>3. ASSUME NEW p \in Known' \ Done', p # o PROVE OpenIsStreamed(p)'
  <2>1. p \in Outputs /\ server'[p] = server[p] /\ openCalls'[p] = openCalls[p]
    BY <1>3 DEF Known
  <2>2. p \in Known /\ p \notin Done
    BY <1>3, <2>1 DEF Known, Done
  <2>3. OpenIsStreamed(p)
    BY <2>2 DEF Told
  <2>4. openCalls[p].index # i
    BY <1>2, <1>3, <2>2
  <2> QED
    BY <2>1, <2>3, <2>4 DEF OpenIsStreamed
<1>4. ASSUME NEW p \in Done', p # o
      PROVE  \E j \in 0 .. nextIndex' - 1 : DoneIsWhole(p, j)'
  <2>1. p \in Outputs /\ server'[p] = server[p] /\ p \in Done
    BY <1>4 DEF Done
  <2>2. PICK j \in 0 .. nextIndex - 1 : DoneIsWhole(p, j)
    BY <2>1 DEF Told
  <2>3. j # i
    BY <1>1, <1>4, <2>2 DEF DoneIsWhole
  <2>4. \A q \in Known' : openCalls'[q].index = j => q = p
    <3> SUFFICES ASSUME NEW q \in Known', openCalls'[q].index = j PROVE q = p
      OBVIOUS
    <3>1. q \in Outputs /\ openCalls'[q].known
      BY DEF Known
    <3>2. q # o
      BY <2>3, <3>1
    <3>3. openCalls'[q] = openCalls[q] /\ q \in Known
      BY <3>1, <3>2 DEF Known
    <3> QED
      BY <2>2, <3>3 DEF DoneIsWhole
  <2>5. IdsAt(Made', j) = {p} /\ ArgsAt(Made', j) = OrEmptyObject(server'[p].args)
    BY <2>1, <2>2, <2>3 DEF DoneIsWhole
  <2>6. DoneIsWhole(p, j)'
    BY <2>4, <2>5 DEF DoneIsWhole
  <2>7. j \in 0 .. nextIndex' - 1
    BY <1>1, <2>2
  <2> QED
    BY <2>6, <2>7
<1> QED
  BY <1>3, <1>4

(* A call that is announced gets the next index.                           *)
LEMMA AnnouncedIsTold ==
  ASSUME BaseInv, Told, UnstartedIsEmpty, ~completed', NEW e \in Events, e.type = "added",
         Announces(e), NEW none \in Seq(Nat), none = <<>>,
         Made' = Append(Made, CallChunk(nextIndex, e.id, none)),
         openCalls' = [openCalls EXCEPT ![e.out] =
                         [known |-> TRUE, index |-> nextIndex, callID |-> e.id,
                          sawDelta |-> FALSE]],
         nextIndex' = nextIndex + 1
  PROVE  Told'
<1> DEFINE o == e.out
<1>1. /\ o \in Outputs /\ e.id \in {o, Blank} /\ server[o].phase = "none"
      /\ server'[o].phase = "open" /\ server'[o].args = <<>>
      /\ \A p \in Outputs : p # o => server'[p] = server[p]
  BY AnnouncedByServer DEF BaseInv, UnstartedIsEmpty
<1>2. /\ nextIndex \in Nat /\ e.id \in Ids /\ openCalls \in [Outputs -> Calls]
  BY EventTypes DEF BaseInv, Typed
<1>3. /\ openCalls'[o] = [known |-> TRUE, index |-> nextIndex, callID |-> e.id,
                          sawDelta |-> FALSE]
      /\ \A p \in Outputs : p # o => openCalls'[p] = openCalls[p]
  BY <1>1, <1>2
<1> HIDE DEF o
<1>4. /\ Indexes(Made') = Indexes(Made) \cup {nextIndex}
      /\ IdsAt(Made', nextIndex) = IdsAt(Made, nextIndex) \cup ({e.id} \ {Blank})
      /\ ArgsAt(Made', nextIndex) = ArgsAt(Made, nextIndex) \o none
      /\ \A i : i # nextIndex => /\ IdsAt(Made', i) = IdsAt(Made, i)
                                 /\ ArgsAt(Made', i) = ArgsAt(Made, i)
  BY <1>2, ChunkOfACall
<1>5. /\ Indexes(Made) = 0 .. nextIndex - 1 /\ nextIndex = Cardinality(Claimed)
      /\ \A p \in Known :
           /\ server[p].phase # "none" /\ openCalls[p].index < nextIndex
           /\ openCalls[p].callID \in {p, Blank}
           /\ \A q \in Known : openCalls[p].index = openCalls[q].index => p = q
  BY DEF Told, IndexesAreClaimed
<1>6. o \notin Known /\ o \notin Done /\ o \notin Claimed
  BY <1>1, <1>5 DEF Done, Claimed
<1>7. Known' = Known \cup {o} /\ Done' = Done /\ Claimed' = Claimed \cup {o}
  BY <1>1, <1>3, <1>6 DEF Known, Done, Claimed
<1>8. IndexesAreClaimed'
  <2>1. Indexes(Made') = 0 .. nextIndex' - 1
    <3>1. (0 .. nextIndex - 1) \cup {nextIndex} = 0 .. nextIndex /\ nextIndex' - 1 = nextIndex
      BY <1>2
    <3> QED
      BY <1>4, <1>5, <3>1
  <2>2. nextIndex' = Cardinality(Claimed')
    BY <1>5, <1>6, <1>7, ClaimedIsFinite, FS_AddElement
  <2>3. ASSUME NEW p \in Known'
        PROVE  /\ server'[p].phase # "none" /\ openCalls'[p].index < nextIndex'
               /\ openCalls'[p].callID \in {p, Blank}
               /\ \A q \in Known' : openCalls'[p].index = openCalls'[q].index => p = q
    <3>1. ASSUME NEW q \in Known, q # o
          PROVE  /\ q \in Outputs /\ openCalls'[q] = openCalls[q] /\ server'[q] = server[q]
                 /\ openCalls[q].index \in Nat /\ openCalls[q].index < nextIndex
      BY <1>1, <1>2, <1>3, <1>5, <3>1 DEF Known, Calls
    <3>2. CASE p = o
      <4>1. \A q \in Known' : openCalls'[p].index = openCalls'[q].index => p = q
        BY <1>2, <1>3, <1>7, <3>1, <3>2
      <4> QED
        BY <1>1, <1>2, <1>3, <3>2, <4>1
    <3>3. CASE p # o /\ p \in Known
      BY <1>2, <1>3, <1>5, <1>7, <3>1, <3>3
    <3> QED
      BY <1>7, <3>2, <3>3
  <2> QED
    BY <2>1, <2>2, <2>3 DEF IndexesAreClaimed
<1>9. /\ \A p \in Known' \ Done' : p # o => OpenIsStreamed(p)'
      /\ \A p \in Done' : p # o => \E j \in 0 .. nextIndex' - 1 : DoneIsWhole(p, j)'
  <2>1. /\ openCalls'[o].index = nextIndex /\ nextIndex' \in {nextIndex, nextIndex + 1}
        /\ \A p \in Outputs : p # o => /\ server'[p] = server[p]
                                        /\ openCalls'[p] = openCalls[p]
    <3>1. openCalls'[o].index = nextIndex
      BY <1>3
    <3>2. \A p \in Outputs : p # o => server'[p] = server[p] /\ openCalls'[p] = openCalls[p]
      BY <1>1, <1>3
    <3>3. nextIndex' \in {nextIndex, nextIndex + 1}
      OBVIOUS
    <3> QED
      BY <3>1, <3>2, <3>3
  <2>2. \A j : j # nextIndex => /\ IdsAt(Made', j) = IdsAt(Made, j)
                                /\ ArgsAt(Made', j) = ArgsAt(Made, j)
    BY <1>4
  <2> DEFINE i == nextIndex
  <2>3. /\ i = nextIndex /\ openCalls'[o].index = i
        /\ \A j : j # i => IdsAt(Made', j) = IdsAt(Made, j) /\ ArgsAt(Made', j) = ArgsAt(Made, j)
    BY <2>1, <2>2
  <2> HIDE DEF i
  <2> QED
    BY <1>1, <1>6, <2>1, <2>3, OthersStayTold
<1>10. OpenIsStreamed(o)'
  <2>1. nextIndex \notin Indexes(Made) /\ Made \in Seq(Items)
    BY <1>2, <1>5, AnswerTypes DEF BaseInv
  <2>2. IdsAt(Made, nextIndex) = {} /\ ArgsAt(Made, nextIndex) = <<>>
    BY <2>1, NothingAtOtherIndexes
  <2>3. ArgsAt(Made', nextIndex) = <<>>
    <3>1. ArgsAt(Made, nextIndex) = none /\ none \o none = none
      BY <2>2, ConcatEmptySeq
    <3> QED
      BY <1>4, <3>1
  <2>4. IdsAt(Made', nextIndex) \subseteq {o}
    BY <1>1, <1>4, <2>2
  <2> QED
    BY <1>1, <1>3, <2>3, <2>4 DEF OpenIsStreamed
<1> QED
  BY <1>6, <1>7, <1>8, <1>9, <1>10 DEF Told

(* A call that is known keeps its index, whatever is heard of it.          *)
LEMMA KnownKeepsItsIndex ==
  ASSUME BaseInv, Told, ~completed', NEW o \in Known, server'[o].phase # "none",
         Indexes(Made') = Indexes(Made) \cup {openCalls[o].index},
         \A p \in Outputs : p # o => server'[p] = server[p] /\ openCalls'[p] = openCalls[p],
         openCalls'[o].known, openCalls'[o].index = openCalls[o].index,
         openCalls'[o].callID = openCalls[o].callID,
         nextIndex' = nextIndex
  PROVE  IndexesAreClaimed' /\ Known' = Known
<1>1. /\ Indexes(Made) = 0 .. nextIndex - 1 /\ nextIndex = Cardinality(Claimed)
      /\ \A p \in Known :
           /\ server[p].phase # "none" /\ openCalls[p].index < nextIndex
           /\ openCalls[p].callID \in {p, Blank}
           /\ \A q \in Known : openCalls[p].index = openCalls[q].index => p = q
  BY DEF Told, IndexesAreClaimed
<1>2. Known' = Known
  BY DEF Known
<1>3. Claimed' = Claimed
  BY <1>2 DEF Claimed, Known, Done
<1>4. nextIndex \in Nat /\ openCalls[o].index \in Nat
  BY DEF BaseInv, Typed, Calls, Known
<1>5. Indexes(Made') = 0 .. nextIndex' - 1
  BY <1>1, <1>4
<1>6. \A p \in Known : p \in Outputs /\ openCalls'[p].index = openCalls[p].index
                       /\ openCalls'[p].callID = openCalls[p].callID
                       /\ server'[p].phase # "none"
  BY <1>1 DEF Known
<1>7. IndexesAreClaimed'
  BY <1>1, <1>2, <1>3, <1>5, <1>6 DEF IndexesAreClaimed
<1> QED
  BY <1>2, <1>7

(* A delta of a known call is added to its arguments.                      *)
LEMMA StreamedIsTold ==
  ASSUME BaseInv, Told, ~completed', NEW e \in Events, e.type = "delta", Streams(e),
         openCalls[e.out].known,
         Made' = Append(Made, CallChunk(openCalls[e.out].index, openCalls[e.out].callID, e.args)),
         openCalls' = [openCalls EXCEPT ![e.out].sawDelta = TRUE],
         nextIndex' = nextIndex
  PROVE  Told'
<1> DEFINE o == e.out
           i == openCalls[o].index
<1>1. /\ o \in Outputs /\ e.args \in Seq(Nat) /\ server[o].phase = "open"
      /\ server'[o].phase = "open" /\ server'[o].args = server[o].args \o e.args
      /\ server'[o].args # <<>>
      /\ \A p \in Outputs : p # o => server'[p] = server[p]
  BY StreamedByServer DEF BaseInv
<1>2. openCalls \in [Outputs -> Calls] /\ i \in Nat /\ openCalls[o].callID \in Ids
  BY <1>1 DEF BaseInv, Typed, Calls
<1>3. /\ openCalls'[o].known /\ openCalls'[o].index = i /\ openCalls'[o].sawDelta = TRUE
      /\ openCalls'[o].callID = openCalls[o].callID
      /\ \A p \in Outputs : p # o => openCalls'[p] = openCalls[p]
  BY <1>1, <1>2 DEF Calls
<1>4. o \in Known /\ o \notin Done
  BY <1>1 DEF Known, Done
<1> HIDE DEF i
<1>5. /\ Indexes(Made') = Indexes(Made) \cup {i}
      /\ IdsAt(Made', i) = IdsAt(Made, i) \cup ({openCalls[o].callID} \ {Blank})
      /\ ArgsAt(Made', i) = ArgsAt(Made, i) \o e.args
      /\ \A j : j # i => IdsAt(Made', j) = IdsAt(Made, j) /\ ArgsAt(Made', j) = ArgsAt(Made, j)
  <2>1. Made' = Append(Made, CallChunk(i, openCalls[o].callID, e.args))
    BY DEF i
  <2> QED
    BY <1>1, <1>2, <2>1, ChunkOfACall
<1> HIDE DEF o
<1>6. IndexesAreClaimed' /\ Known' = Known
  BY <1>1, <1>3, <1>4, <1>5, KnownKeepsItsIndex DEF i
<1>7. Done' = Done
  BY <1>1 DEF Done
<1>8. /\ \A p \in Known' \ Done' : p # o => OpenIsStreamed(p)'
      /\ \A p \in Done' : p # o => \E j \in 0 .. nextIndex' - 1 : DoneIsWhole(p, j)'
  BY <1>1, <1>3, <1>4, <1>5, OthersStayTold, ZenonT(30) DEF i
<1>9. OpenIsStreamed(o)'
  <2>1. /\ IdsAt(Made, i) \subseteq {o} /\ ArgsAt(Made, i) = server[o].args
        /\ openCalls[o].callID \in {o, Blank}
    BY <1>4 DEF Told, IndexesAreClaimed, OpenIsStreamed, i
  <2> QED
    BY <1>1, <1>3, <1>5, <2>1 DEF OpenIsStreamed
<1> QED
  BY <1>4, <1>6, <1>7, <1>8, <1>9 DEF Told

(* A known call that is done gets its id, and its arguments unless they    *)
(* were streamed.                                                          *)
LEMMA KnownIsDone ==
  ASSUME BaseInv, Told, ~completed', NEW e \in Events, e.type = "done", Finishes(e),
         openCalls[e.out].known, NEW args \in Seq(Nat),
         args = IF openCalls[e.out].sawDelta THEN <<>> ELSE OrEmptyObject(e.args),
         Made' = Append(Made, CallChunk(openCalls[e.out].index, e.id, args)),
         UNCHANGED <<openCalls, nextIndex>>
  PROVE  Told'
<1> DEFINE o == e.out
<1>1. /\ o \in Outputs /\ e.args \in Seq(Nat) /\ e.id = o
      /\ server[o].phase \in {"none", "open"} /\ server[o].args \in {<<>>, e.args}
      /\ server'[o].phase = "done" /\ server'[o].args = e.args
      /\ \A p \in Outputs : p # o => server'[p] = server[p]
  <2>1. server'[o] = [phase |-> "done", args |-> e.args]
    BY FinishedByServer DEF BaseInv
  <2>2. server'[o].phase = "done" /\ server'[o].args = e.args
    BY <2>1
  <2> QED
    BY <2>2, FinishedByServer DEF BaseInv
<1>2. /\ openCalls \in [Outputs -> Calls] /\ openCalls[o].index \in Nat
      /\ o \in Ids /\ o # Blank
  BY <1>1 DEF BaseInv, Typed, Calls, Ids, Outputs, Blank
<1>3. openCalls[o].known /\ openCalls[o].sawDelta \in BOOLEAN
  BY <1>1, <1>2 DEF Calls
<1>4. o \in Known /\ o \notin Done
  BY <1>1, <1>3 DEF Known, Done
<1>5. args = IF openCalls[o].sawDelta THEN <<>> ELSE OrEmptyObject(e.args)
  OBVIOUS
<1> PICK i \in Nat : i = openCalls[o].index
  BY <1>2
<1>6. /\ Indexes(Made') = Indexes(Made) \cup {i}
      /\ IdsAt(Made', i) = IdsAt(Made, i) \cup ({o} \ {Blank})
      /\ ArgsAt(Made', i) = ArgsAt(Made, i) \o args
      /\ \A j : j # i => IdsAt(Made', j) = IdsAt(Made, j) /\ ArgsAt(Made', j) = ArgsAt(Made, j)
  <2>1. Made' = Append(Made, CallChunk(i, o, args))
    BY <1>1
  <2> QED
    BY <1>2, <2>1, ChunkOfACall, ZenonT(30)
<1> HIDE DEF o
<1>7. IndexesAreClaimed' /\ Known' = Known
  BY <1>1, <1>3, <1>4, <1>6, KnownKeepsItsIndex
<1>8. Done' = Done \cup {o}
  BY <1>1 DEF Done
<1>9. /\ \A p \in Known' \ Done' : p # o => OpenIsStreamed(p)'
      /\ \A p \in Done' : p # o => \E j \in 0 .. nextIndex' - 1 : DoneIsWhole(p, j)'
  BY <1>1, <1>4, <1>6, OthersStayTold
<1>10. /\ IdsAt(Made, i) \subseteq {o} /\ ArgsAt(Made, i) = server[o].args
       /\ openCalls[o].sawDelta <=> server[o].args # <<>>
       /\ i < nextIndex
       /\ \A p \in Known : openCalls[p].index = i => p = o
  <2>1. OpenIsStreamed(o)
    BY <1>4 DEF Told
  <2>2. \A p \in Known : openCalls[p].index = openCalls[o].index => p = o
    BY <1>4 DEF Told, IndexesAreClaimed
  <2>3. i < nextIndex
    BY <1>4 DEF Told, IndexesAreClaimed
  <2> QED
    BY <2>1, <2>2, <2>3 DEF OpenIsStreamed
<1>11. IdsAt(Made', i) = {o}
  BY <1>2, <1>6, <1>10
<1>12. ArgsAt(Made', i) = OrEmptyObject(server'[o].args)
  <2>1. CASE openCalls[o].sawDelta
    <3>1. server[o].args = e.args /\ e.args # <<>> /\ args = <<>>
      BY <1>1, <1>5, <1>10, <2>1
    <3>2. e.args \o <<>> = e.args
      BY <1>1, ConcatEmptySeq
    <3>3. ArgsAt(Made', i) = e.args
      BY <1>6, <1>10, <3>1, <3>2
    <3>4. OrEmptyObject(e.args) = e.args
      BY <3>1 DEF OrEmptyObject
    <3> QED
      BY <1>1, <3>3, <3>4
  <2>2. CASE ~openCalls[o].sawDelta
    <3>1. server[o].args = <<>> /\ args = OrEmptyObject(e.args)
      BY <1>5, <1>10, <2>2
    <3>2. <<>> \o args = args
      BY ConcatEmptySeq
    <3> QED
      BY <1>1, <1>6, <1>10, <3>1, <3>2
  <2> QED
    BY <1>3, <2>1, <2>2
<1>13. \E j \in 0 .. nextIndex' - 1 : DoneIsWhole(o, j)'
  <2>1. DoneIsWhole(o, i)'
    BY <1>7, <1>10, <1>11, <1>12 DEF DoneIsWhole
  <2>2. i \in 0 .. nextIndex' - 1
    BY <1>2, <1>10 DEF BaseInv, Typed
  <2> QED
    BY <2>1, <2>2
<1> QED
  BY <1>7, <1>8, <1>9, <1>13 DEF Told

(* A call that was not announced gets an index when it is done.            *)
LEMMA UnknownIsDone ==
  ASSUME BaseInv, Told, ~completed', NEW e \in Events, e.type = "done", Finishes(e),
         ~openCalls[e.out].known, NEW args \in Seq(Nat), args = OrEmptyObject(e.args),
         Made' = Append(Made, CallChunk(nextIndex, e.id, args)),
         openCalls' = openCalls, nextIndex' = nextIndex + 1
  PROVE  Told'
<1> DEFINE o == e.out
<1> PICK i \in Nat : i = nextIndex
  BY DEF BaseInv, Typed
<1>1. /\ o \in Outputs /\ e.id = o /\ server[o].phase \in {"none", "open"}
      /\ server'[o].phase = "done" /\ server'[o].args = e.args
      /\ \A p \in Outputs : p # o => server'[p] = server[p]
  <2>1. server'[o] = [phase |-> "done", args |-> e.args]
    BY FinishedByServer DEF BaseInv
  <2>2. server'[o].phase = "done" /\ server'[o].args = e.args
    BY <2>1
  <2> QED
    BY <2>2, FinishedByServer DEF BaseInv
<1>2. i \in Nat /\ o \in Ids /\ o # Blank /\ nextIndex' = i + 1 /\ ~openCalls[o].known
  BY <1>1 DEF BaseInv, Typed, Ids, Outputs, Blank
<1>3. o \notin Known /\ o \notin Done /\ o \notin Claimed
  BY <1>1, <1>2 DEF Known, Done, Claimed
<1>4. args = OrEmptyObject(e.args) /\ i = nextIndex
  OBVIOUS
<1>5. /\ Indexes(Made') = Indexes(Made) \cup {i}
      /\ IdsAt(Made', i) = IdsAt(Made, i) \cup ({o} \ {Blank})
      /\ ArgsAt(Made', i) = ArgsAt(Made, i) \o args
      /\ \A j : j # i => IdsAt(Made', j) = IdsAt(Made, j) /\ ArgsAt(Made', j) = ArgsAt(Made, j)
  <2>1. Made' = Append(Made, CallChunk(i, o, args))
    BY <1>1
  <2> HIDE DEF o
  <2> QED
    BY <1>2, <2>1, ChunkOfACall
<1> HIDE DEF o
<1>6. /\ Indexes(Made) = 0 .. nextIndex - 1 /\ nextIndex = Cardinality(Claimed)
      /\ \A p \in Known :
           /\ server[p].phase # "none" /\ openCalls[p].index < nextIndex
           /\ openCalls[p].callID \in {p, Blank}
           /\ \A q \in Known : openCalls[p].index = openCalls[q].index => p = q
  BY DEF Told, IndexesAreClaimed
<1>7. Known' = Known /\ Done' = Done \cup {o} /\ Claimed' = Claimed \cup {o}
  BY <1>1 DEF Known, Done, Claimed
<1>8. \A p \in Known : p \in Outputs /\ server'[p] = server[p] /\ openCalls[p].index \in Nat
  BY <1>1, <1>3 DEF Known, BaseInv, Typed, Calls
<1>9. IndexesAreClaimed'
  <2>1. Indexes(Made') = 0 .. nextIndex' - 1
    <3>1. (0 .. i - 1) \cup {i} = 0 .. i /\ nextIndex' - 1 = i
      BY <1>2
    <3> QED
      BY <1>4, <1>5, <1>6, <3>1
  <2>2. nextIndex' = Cardinality(Claimed')
    BY <1>3, <1>6, <1>7, ClaimedIsFinite, FS_AddElement
  <2>3. \A p \in Known : openCalls[p].index < nextIndex'
    BY <1>2, <1>6, <1>8
  <2> QED
    BY <1>6, <1>7, <1>8, <2>1, <2>2, <2>3 DEF IndexesAreClaimed
<1>10. /\ \A p \in Known' \ Done' : p # o => OpenIsStreamed(p)'
       /\ \A p \in Done' : p # o => \E j \in 0 .. nextIndex' - 1 : DoneIsWhole(p, j)'
  <2>1. \A p \in Outputs : p # o => server'[p] = server[p] /\ openCalls'[p] = openCalls[p]
    BY <1>1
  <2>2. nextIndex' \in {nextIndex, nextIndex + 1} /\ ~openCalls'[o].known
    BY <1>2
  <2> QED
    BY <1>1, <1>3, <1>4, <1>5, <2>1, <2>2, OthersStayTold
<1>11. DoneIsWhole(o, i)'
  <2>1. i \notin Indexes(Made) /\ Made \in Seq(Items)
    BY <1>2, <1>6, AnswerTypes DEF BaseInv
  <2>2. IdsAt(Made, i) = {} /\ ArgsAt(Made, i) = <<>>
    BY <2>1, NothingAtOtherIndexes
  <2>3. <<>> \o args = args
    BY ConcatEmptySeq
  <2>4. IdsAt(Made', i) = {o} /\ ArgsAt(Made', i) = OrEmptyObject(server'[o].args)
    BY <1>1, <1>2, <1>4, <1>5, <2>2, <2>3
  <2>5. \A p \in Known' : openCalls'[p].index # i
    BY <1>2, <1>6, <1>7, <1>8
  <2> QED
    BY <2>4, <2>5 DEF DoneIsWhole
<1>12. i \in 0 .. nextIndex' - 1
  BY <1>2
<1>13. \E j \in 0 .. nextIndex' - 1 : DoneIsWhole(o, j)'
  BY <1>11, <1>12
<1> QED
  BY <1>3, <1>7, <1>9, <1>10, <1>13 DEF Told

(* The cases of an event, but for the loss of its message.                 *)
LEMMA EventKeepsTold ==
  ASSUME AnswerInv, AnswerInv', UnstartedIsEmpty, CallsAreTold, Garbled \subseteq {"added"},
         NEW r \in {"none", "EOF", "failed"}, ReadsEvent(r)
  PROVE  CallsAreTold'
<1> SUFFICES ASSUME Fine' PROVE Told'
  BY DEF CallsAreTold
<1>1. /\ Fine
      /\ \/ producer' \in {"scan", "ended"} /\ item' = item /\ Made' = Made
         \/ /\ producer' = "send" /\ item' \in Items /\ Made' = Append(Made, item')
            /\ item'.type \in {"text", "call", "terminal"}
  BY EventMakes DEF AnswerInv
<1>2. PICK e \in Events : ServerSends(e) /\ Dispatch(e, r)
  BY EventMakes DEF AnswerInv
<1>3. BaseInv /\ Typed /\ Told
  BY <1>1 DEF AnswerInv, BaseInv, CallsAreTold
<1>4. /\ completed => over
      /\ completed' => over'
      /\ over => over' /\ server' = server /\ e.type = "ignored"
      /\ e.type = "completed" => \A o \in Outputs : server[o].phase # "open"
  BY <1>1, <1>2, <1>3, ServerFacts DEF AnswerInv, AnswerIsTold
<1>5. /\ e.type = "added" => Announces(e)
      /\ e.type = "delta" => Streams(e)
      /\ e.type = "done" => Finishes(e)
      /\ e.type \notin {"added", "delta", "done"} =>
           \/ server' = server
           \/ ~over /\ \E lost \in Events : lost.type = "added" /\ Announces(lost)
  BY <1>2, <1>3, CallsOfTheServer
<1>6. ASSUME NEW i, StartsSending(i) PROVE Made' = Append(Made, i)
  BY <1>1, <1>6 DEF StartsSending
<1>7. e.type # "ignored" => ~completed
  BY <1>4
<1>8. completed => \A o \in Outputs : server[o].phase # "open"
  BY <1>3 DEF Told, IndexesAreClaimed
<1>9. ASSUME e.type \notin {"added", "delta", "done"}, UNCHANGED <<openCalls, nextIndex>>,
             Indexes(Made') = Indexes(Made),
             \A i : IdsAt(Made', i) = IdsAt(Made, i) /\ ArgsAt(Made', i) = ArgsAt(Made, i),
             completed' => completed \/ e.type = "completed"
      PROVE  Told'
  <2>1. CASE server' = server
    <3>1. Done' = Done /\ \A o \in Claimed : server'[o] = server[o]
      BY <2>1 DEF Done
    <3>2. completed' => \A o \in Outputs : server'[o].phase # "open"
      BY <1>4, <1>8, <1>9, <2>1
    <3> QED
      BY <1>3, <1>9, <3>1, <3>2, SilenceKeepsTold
  <2>2. ASSUME NEW lost \in Events, ~over, lost.type = "added", Announces(lost) PROVE Told'
    <3>1. /\ lost.out \in Outputs /\ server[lost.out].phase = "none"
          /\ server'[lost.out].phase = "open"
          /\ \A p \in Outputs : p # lost.out => server'[p] = server[p]
      BY <1>3, <2>2, AnnouncedByServer
    <3>2. lost.out \notin Claimed
      BY <1>3, <3>1 DEF Claimed, Done, Told, IndexesAreClaimed
    <3>3. Done' = Done /\ \A o \in Claimed : server'[o] = server[o]
      BY <3>1, <3>2, ClaimedIsFinite DEF Done
    <3>4. ~completed'
      <4>1. over' = over
        BY <2>2 DEF Announces
      <4> QED
        BY <1>4, <2>2, <4>1
    <3> QED
      BY <1>3, <1>9, <3>3, <3>4, SilenceKeepsTold
  <2> QED
    BY <1>5, <1>9, <2>1, <2>2
<1>10. ASSUME NEW i \in Items, i.type # "call", StartsSending(i),
              e.type \notin {"added", "delta", "done"}, UNCHANGED <<openCalls, nextIndex>>,
              completed' => completed \/ e.type = "completed"
       PROVE  Told'
  BY <1>3, <1>6, <1>9, <1>10, ChunkOfNoCall
<1>11. ASSUME GoesOn(r), e.type \in {"reasoning", "ignored", "delta"},
              e.type = "delta" => ~openCalls[e.out].known,
              UNCHANGED <<openCalls, nextIndex, completed>>
       PROVE  Told'
  <2>1. Made' = Made
    BY <1>1, <1>11 DEF GoesOn, AfterEvent
  <2>2. CASE e.type # "delta"
    BY <1>9, <1>11, <2>1, <2>2
  <2>3. CASE e.type = "delta"
    <3>1. /\ e.out \in Outputs /\ server[e.out].phase = "open"
          /\ server'[e.out].phase = "open"
          /\ \A p \in Outputs : p # e.out => server'[p] = server[p]
      BY <1>3, <1>5, <2>3, StreamedByServer
    <3>2. e.out \notin Claimed
      BY <1>11, <2>3, <3>1 DEF Claimed, Known, Done
    <3>3. Done' = Done /\ \A o \in Claimed : server'[o] = server[o]
      BY <3>1, <3>2, ClaimedIsFinite DEF Done
    <3>4. ~completed'
      BY <1>7, <1>11, <2>3
    <3> QED
      BY <1>3, <1>11, <2>1, <3>3, <3>4, SilenceKeepsTold
  <2> QED
    BY <2>2, <2>3
<1>12. ASSUME e.type = "completed", StartsSending(BuildCompletedMessage),
              UNCHANGED <<openCalls, nextIndex>>
       PROVE  Told'
  <2>1. BuildCompletedMessage \in Items /\ BuildCompletedMessage.type = "terminal"
    BY <1>3, ItemTypes DEF BuildCompletedMessage, Typed
  <2> QED
    BY <1>10, <1>12, <2>1
<1>13. ASSUME e.type = "text", StartsSending(TextChunk), UNCHANGED assemblyVars PROVE Told'
  <2>1. TextChunk \in Items /\ TextChunk.type = "text"
    BY ItemTypes
  <2>2. UNCHANGED <<openCalls, nextIndex, completed>>
    BY <1>13 DEF assemblyVars
  <2> QED
    BY <1>10, <1>13, <2>1, <2>2
<1>14. ASSUME e.type = "failed", StartsSending(Failed("server")) PROVE FALSE
  <2>1. Failed("server").type = "error"
    BY ItemTypes DEF Errors
  <2> QED
    BY <1>1, <1>14, <2>1 DEF StartsSending
<1>15. ASSUME e.type = "added", StartsSending(CallChunk(nextIndex, e.id, <<>>)),
              openCalls' = [openCalls EXCEPT ![e.out] =
                              [known |-> TRUE, index |-> nextIndex, callID |-> e.id,
                               sawDelta |-> FALSE]],
              nextIndex' = nextIndex + 1, UNCHANGED completed
       PROVE  Told'
  <2> PICK none : none = <<>>
    OBVIOUS
  <2>1. none \in Seq(Nat)
    OBVIOUS
  <2>2. Made' = Append(Made, CallChunk(nextIndex, e.id, none))
    BY <1>6, <1>15
  <2>3. ~completed' /\ Announces(e)
    BY <1>5, <1>7, <1>15
  <2> QED
    BY <1>3, <1>15, <2>1, <2>2, <2>3, AnnouncedIsTold
<1>16. ASSUME e.type = "delta", openCalls[e.out].known,
              StartsSending(CallChunk(openCalls[e.out].index, openCalls[e.out].callID, e.args)),
              openCalls' = [openCalls EXCEPT ![e.out].sawDelta = TRUE],
              UNCHANGED <<nextIndex, completed>>
       PROVE  Told'
  <2>1. Made' = Append(Made, CallChunk(openCalls[e.out].index, openCalls[e.out].callID, e.args))
    BY <1>6, <1>16
  <2>2. ~completed' /\ Streams(e)
    BY <1>5, <1>7, <1>16
  <2> QED
    BY <1>3, <1>16, <2>1, <2>2, StreamedIsTold
<1>17. ASSUME e.type = "done" PROVE OrEmptyObject(e.args) \in Seq(Nat)
  <2>1. e.args \in Seq(Nat) /\ <<0>> \in Seq(Nat)
    BY <1>17, EventTypes
  <2> QED
    BY <2>1 DEF OrEmptyObject, EmptyObject
<1>18. ASSUME e.type = "done", openCalls[e.out].known, openCalls[e.out].sawDelta,
              StartsSending(CallChunk(openCalls[e.out].index, e.id, <<>>)),
              UNCHANGED assemblyVars
       PROVE  Told'
  <2> PICK args : args = <<>>
    OBVIOUS
  <2>1. args \in Seq(Nat)
        /\ args = IF openCalls[e.out].sawDelta THEN <<>> ELSE OrEmptyObject(e.args)
    BY <1>18
  <2>2. Made' = Append(Made, CallChunk(openCalls[e.out].index, e.id, args))
    BY <1>6, <1>18
  <2>3. ~completed' /\ Finishes(e) /\ UNCHANGED <<openCalls, nextIndex>>
    BY <1>5, <1>7, <1>18 DEF assemblyVars
  <2> QED
    BY <1>3, <1>18, <2>1, <2>2, <2>3, KnownIsDone
<1>19. ASSUME e.type = "done", openCalls[e.out].known, ~openCalls[e.out].sawDelta,
              StartsSending(CallChunk(openCalls[e.out].index, e.id, OrEmptyObject(e.args))),
              UNCHANGED <<openCalls, nextIndex, completed>>
       PROVE  Told'
  <2> PICK args : args = OrEmptyObject(e.args)
    OBVIOUS
  <2>1. args \in Seq(Nat)
        /\ args = IF openCalls[e.out].sawDelta THEN <<>> ELSE OrEmptyObject(e.args)
    BY <1>17, <1>19
  <2>2. Made' = Append(Made, CallChunk(openCalls[e.out].index, e.id, args))
    BY <1>6, <1>19
  <2>3. ~completed' /\ Finishes(e)
    BY <1>5, <1>7, <1>19
  <2> QED
    BY <1>3, <1>19, <2>1, <2>2, <2>3, KnownIsDone
<1>20. ASSUME e.type = "done", ~openCalls[e.out].known,
              StartsSending(CallChunk(nextIndex, e.id, OrEmptyObject(e.args))),
              nextIndex' = nextIndex + 1, UNCHANGED <<openCalls, completed>>
       PROVE  Told'
  <2> PICK args : args = OrEmptyObject(e.args)
    OBVIOUS
  <2>1. args \in Seq(Nat)
    BY <1>17, <1>20
  <2>2. Made' = Append(Made, CallChunk(nextIndex, e.id, args))
    BY <1>6, <1>20
  <2>3. ~completed' /\ Finishes(e)
    BY <1>5, <1>7, <1>20
  <2> QED
    BY <1>3, <1>20, <2>1, <2>2, <2>3, UnknownIsDone
<1>21. CASE e.type = "added"
  BY <1>2, <1>15, <1>21, DispatchCases
<1>22. CASE e.type = "delta"
  BY <1>2, <1>11, <1>16, <1>22, DispatchCases
<1>23. CASE e.type = "done"
  BY <1>2, <1>18, <1>19, <1>20, <1>23, DispatchCases
<1>24. CASE e.type \in {"reasoning", "ignored"}
  BY <1>2, <1>11, <1>24, DispatchCases
<1>25. CASE e.type \in {"completed", "text", "failed"}
  BY <1>2, <1>12, <1>13, <1>14, <1>25, DispatchCases
<1> QED
  BY <1>2, <1>21, <1>22, <1>23, <1>24, <1>25, DispatchCases

(* What a quiet step leaves as it is stays told.                           *)
LEMMA QuietKeepsTold ==
  ASSUME BaseInv, CallsAreTold, QuietStep
  PROVE  CallsAreTold'
<1> SUFFICES ASSUME Fine' PROVE Told'
  BY DEF CallsAreTold
<1>1. Fine /\ Made' = Made /\ UNCHANGED <<serverVars, assemblyVars>>
  BY QuietKeepsMade
<1>2. Told
  BY <1>1 DEF CallsAreTold
<1>3. UNCHANGED <<openCalls, nextIndex, completed, server>>
  BY <1>1 DEF serverVars, assemblyVars
<1>4. Done' = Done /\ (completed' => \A o \in Outputs : server'[o].phase # "open")
  BY <1>2, <1>3 DEF Done, Told, IndexesAreClaimed
<1> QED
  BY <1>1, <1>2, <1>3, <1>4, SilenceKeepsTold

(* No event gives arguments to a call that has not started.                *)
LEMMA NextUnstarted ==
  ASSUME BaseInv, UnstartedIsEmpty, Garbled \subseteq {"added"}, [Next]_vars
  PROVE  UnstartedIsEmpty'
<1>1. ASSUME server' = server PROVE UnstartedIsEmpty'
  BY <1>1 DEF UnstartedIsEmpty
<1>2. ASSUME NEW r \in {"none", "EOF", "failed"}, ReadsEvent(r) PROVE UnstartedIsEmpty'
  <2>1. PICK e \in Events : ServerSends(e)
    BY <1>2 DEF ReadsEvent
  <2>2. ASSUME NEW x \in Events, x.type = "added", Announces(x) PROVE UnstartedIsEmpty'
    BY <2>2, AnnouncedByServer DEF BaseInv, UnstartedIsEmpty
  <2>3. ASSUME e.type = "delta", Streams(e) PROVE UnstartedIsEmpty'
    BY <2>3, StreamedByServer DEF BaseInv, UnstartedIsEmpty
  <2>4. ASSUME e.type = "done", Finishes(e) PROVE UnstartedIsEmpty'
    <3>1. /\ server'[e.out] = [phase |-> "done", args |-> e.args]
          /\ \A p \in Outputs : p # e.out => server'[p] = server[p]
      BY <2>4, FinishedByServer DEF BaseInv
    <3>2. server'[e.out].phase = "done"
      BY <3>1
    <3> QED
      BY <3>1, <3>2 DEF UnstartedIsEmpty
  <2> QED
    BY <1>1, <2>1, <2>2, <2>3, <2>4, CallsOfTheServer DEF BaseInv
<1>3. ASSUME QuietStep PROVE server' = server
  BY <1>3 DEF QuietStep, RequestSucceeds, RequestFails, ReadFails, Panics, Produces, Sends,
     Concludes, ClosesBody, ClosesWriter, Cancel, CallerReceives, CallerCloses, vars, serverVars
<1> QED
  BY <1>1, <1>2, <1>3, StepKinds

(* At EOF the answer that was told of is what the caller has.              *)
LEMMA EOFKeepsToolCalls ==
  ASSUME AnswerInv, CallsAreTold, ToolCallsAreWhole, [Next]_vars
  PROVE  ToolCallsAreWhole'
<1> SUFFICES ASSUME end' = "EOF" PROVE ToolCallsAreWhole'
  BY DEF ToolCallsAreWhole
<1>1. UNCHANGED <<received, server>>
  BY EOFFacts DEF AnswerInv
<1>2. Done' = Done
  BY <1>1 DEF Done
<1>3. CASE end = "EOF"
  BY <1>1, <1>2, <1>3 DEF ToolCallsAreWhole
<1>4. CASE end # "EOF"
  <2>1. producer = "done" /\ Fine /\ Made = received
    BY <1>4, EOFFacts DEF AnswerInv
  <2>2. completed /\ Told
    BY <2>1 DEF AnswerInv, AnswerIsTold, Left, CallsAreTold
  <2>3. /\ Indexes(received) = 0 .. nextIndex - 1 /\ nextIndex = Cardinality(Claimed)
        /\ \A o \in Known : server[o].phase # "none"
        /\ \A o \in Outputs : server[o].phase # "open"
    BY <2>1, <2>2 DEF Told, IndexesAreClaimed
  <2>4. Known \subseteq Done
    BY <2>3 DEF Known, Done, AnswerInv, BaseInv, Typed
  <2>5. Indexes(received) = 0 .. Cardinality(Done) - 1
    BY <2>3, <2>4 DEF Claimed
  <2>6. ASSUME NEW o \in Done
        PROVE  \E index \in Indexes(received) :
                 /\ IdsAt(received, index) = {o}
                 /\ ArgsAt(received, index) = OrEmptyObject(server[o].args)
    <3>1. PICK index \in 0 .. nextIndex - 1 : DoneIsWhole(o, index)
      BY <2>2, <2>6 DEF Told
    <3> QED
      BY <2>1, <2>3, <3>1 DEF DoneIsWhole
  <2> QED
    BY <1>1, <1>2, <2>5, <2>6 DEF ToolCallsAreWhole
<1> QED
  BY <1>3, <1>4

CallsInv == AnswerInv /\ UnstartedIsEmpty /\ CallsAreTold /\ ToolCallsAreWhole

(* Before the request there are no calls.                                  *)
LEMMA InitCalls == Init => CallsInv
<1> SUFFICES ASSUME Init PROVE CallsInv
  OBVIOUS
<1>1. AnswerInv
  BY InitAnswer
<1>2. /\ producer = "request" /\ end = "open" /\ nextIndex = 0 /\ ~completed
      /\ received = <<>> /\ pipe.queue = <<>>
      /\ \A o \in Outputs : /\ server[o].phase = "none" /\ server[o].args = <<>>
                            /\ ~openCalls[o].known
  BY NewPipeType DEF Init, NoCall
<1>3. UnstartedIsEmpty /\ ToolCallsAreWhole
  BY <1>2 DEF UnstartedIsEmpty, ToolCallsAreWhole
<1>4. Known = {} /\ Done = {} /\ Claimed = {}
  BY <1>2 DEF Known, Done, Claimed
<1>5. Indexes(Made) = {}
  <2>1. received \o pipe.queue = <<>>
    BY <1>2
  <2>2. DOMAIN Made = {}
    BY <1>2, <2>1 DEF Made, Answer
  <2> QED
    BY <2>2 DEF Indexes, CallsOf
<1>6. Indexes(Made) = 0 .. nextIndex - 1 /\ Cardinality(Claimed) = 0
  BY <1>2, <1>4, <1>5, FS_EmptySet
<1>7. Told
  BY <1>2, <1>4, <1>6 DEF Told, IndexesAreClaimed
<1> QED
  BY <1>1, <1>3, <1>7 DEF CallsInv, CallsAreTold

(* Every step keeps what is known of the calls.                            *)
LEMMA NextCalls ==
  ASSUME Garbled \subseteq {"added"}
  PROVE  CallsInv /\ [Next]_vars => CallsInv'
<1> SUFFICES ASSUME CallsInv, [Next]_vars PROVE CallsInv'
  OBVIOUS
<1>1. AnswerInv' /\ BaseInv
  BY NextAnswer DEF CallsInv, AnswerInv
<1>2. UnstartedIsEmpty'
  BY <1>1, NextUnstarted DEF CallsInv
<1>3. CallsAreTold'
  BY <1>1, StepKinds, QuietKeepsTold, EventKeepsTold DEF CallsInv
<1>4. ToolCallsAreWhole'
  BY EOFKeepsToolCalls DEF CallsInv
<1> QED
  BY <1>1, <1>2, <1>3, <1>4 DEF CallsInv

(* As long as the server's announcements are all that may get lost, a      *)
(* caller that has got the whole response has every tool call of it once,  *)
(* under an index and with an id of its own and with exactly the arguments *)
(* the server gave it, however the events of parallel calls are            *)
(* interleaved (handleOutputItemAdded, handleArgsDelta,                    *)
(* handleFunctionCallDone).                                                *)
THEOREM ToolCallsArriveWhole ==
  ASSUME Garbled \subseteq {"added"}
  PROVE  Spec => []ToolCallsAreWhole
<1>1. Init => CallsInv
  BY InitCalls
<1>2. CallsInv /\ [Next]_vars => CallsInv'
  BY NextCalls
<1>3. CallsInv => ToolCallsAreWhole
  BY DEF CallsInv
<1> QED
  BY <1>1, <1>2, <1>3, PTL DEF Spec
=============================================================================
