----------------------- MODULE ResponsesProducer_proofs -----------------------
(***************************************************************************)
(* Proofs about ResponsesProducer: that the end of a stream is orderly,    *)
(* and that the producer keeps the promise of StreamContract, for every    *)
(* number of events and staged chunks and every capacity of the pipe.      *)
(*                                                                         *)
(* What makes both inductive is where the chunks are: the caller has the   *)
(* first of those produced, the queue holds the others in order, and       *)
(* behind them at most the report of the end, which is decided only once   *)
(* the body is closed (QueueIsInOrder, ReportIsBehind, ReportIsHonest).    *)
(* And who closes it: the producer or the callback, each of which may find *)
(* the other at work (OneCloses, BodyIsClosedFirst, GoodEndIsClean).       *)
(***************************************************************************)
EXTENDS ResponsesProducer, Pipe_proofs

Parsing   == {"read", "check", "send"}
Closing   == {"ended", "stopped", "closing", "report"}
Reporting == {"last", "close", "done"}
Producers == Parsing \cup Closing \cup Reporting
Outcomes == ReadErrors \cup {"canceled", "deadline", "gone", "panic", "terminal", "invalid"}
Items == [type : {"message", "error", "usage", "EOF"}, id : Nat, keep : BOOLEAN,
          err : Outcomes \cup {"none", "close"}]

TypeOK ==
  /\ ctx \in {"live", "canceled", "deadline"} /\ events \in 0 .. MaxEvents
  /\ body \in {"open", "closing", "closed"} /\ closes \in Nat /\ closeFailed \in BOOLEAN
  /\ callback \in {"armed", "stopped", "started", "closing", "done"}
  /\ producer \in Producers /\ event \in Events \cup {"none"} /\ staged \in Nat
  /\ parsed \in Outcomes \cup {"none"} /\ closeErr \in BOOLEAN /\ last \in Items
  /\ pipe \in Pipes(Items)
  /\ produced \in Seq(Nat) /\ complete \in BOOLEAN
  /\ received \in Seq(Nat) /\ closing \in BOOLEAN
  /\ end \in {"open", "EOF", "error", "closed"}

(* The chunks that are to be sent, and how many there may be. *)
Pending == IF producer = "send" THEN staged ELSE 0
ChunksAreBounded ==
  /\ Len(produced) + Pending <= (IF complete THEN MaxStaged ELSE 0) + events
  /\ producer = "check" => Len(produced) < events

(* A chunk is on its way from an event that brought some, and a response   *)
(* that was completed is not read on.                                      *)
ChunksHaveAnEvent ==
  /\ producer = "send" => staged > 0 /\ event \in {"chunk", "completed"}
  /\ producer = "send" => (complete <=> event = "completed")
  /\ complete => producer \notin {"read", "check"}
  /\ parsed = "terminal" => complete

(* The caller has the first chunks, the queue the ones that follow. *)
QueueIsInOrder ==
  /\ \A i \in 1 .. Len(produced) : produced[i] = i
  /\ \A i \in 1 .. Len(received) : received[i] = i
  /\ Len(received) <= Len(produced)
  /\ \A k \in 1 .. Len(produced) - Len(received) :
       pipe.queue[k] = Message(Len(received) + k, TRUE)

(* Behind the chunks there is nothing but the report. *)
Reported == producer \in {"close", "done"}
ReportIsBehind ==
  LET unread == Len(produced) - Len(received)
  IN  \/ Len(pipe.queue) = unread
      \/ Len(pipe.queue) = unread + 1 /\ Reported /\ ~closing /\ pipe.queue[unread + 1] = last

(* The usage chunk is for a completed response; everything else that is    *)
(* reported is an error.                                                   *)
ReportIsHonest ==
  /\ producer = "last" \/ (Reported /\ parsed # "gone") => last.type \in {"usage", "error"}
  /\ last.type = "usage" => complete

(* A caller that is still receiving has got everything that was put into   *)
(* the pipe, the report included, or will.                                 *)
ReportReachesTheCaller ==
  /\ pipe.recvClosed => end # "open"
  /\ parsed = "gone" => pipe.recvClosed
  /\ pipe.sendClosed => producer = "done"
  /\ Reported /\ end = "open" =>
       closing \/ Len(pipe.queue) > Len(produced) - Len(received)
  /\ closing => Reported /\ complete /\ pipe.queue = <<>>
  /\ end \in {"EOF", "error"} => Reported /\ pipe.queue = <<>>
  /\ end = "EOF" => closing

(* The connection is closed by one of the two, and only if it was open.    *)
OneCloses ==
  /\ closes = IF body = "open" THEN 0 ELSE 1
  /\ body = "closing" <=> producer = "closing" \/ callback = "closing"
  /\ producer = "closing" => callback # "closing"

(* The body is closed before the report is chosen. *)
BodyIsClosedFirst ==
  producer \in Reporting \cup {"report"} => body = "closed"

(* The producer knows of a failed Close, or the callback that made it had  *)
(* been started by a context that has ended, which the producer will see.  *)
GoodEndIsClean ==
  /\ callback \in {"started", "closing", "done"} => ctx # "live"
  /\ closeFailed => body = "closed" /\ (closeErr \/ ctx # "live")
  /\ last.type = "usage" => producer \in Reporting /\ ~closeFailed
  /\ closing => ~closeFailed

ConnectionInv == OneCloses /\ BodyIsClosedFirst /\ GoodEndIsClean

Inv ==
  /\ TypeOK /\ ChunksAreBounded /\ ChunksHaveAnEvent
  /\ QueueIsInOrder /\ ReportIsBehind /\ ReportIsHonest
  /\ ReportReachesTheCaller /\ ConnectionInv

-----------------------------------------------------------------------------
(* Inv holds initially, and the parser keeps it. *)

(* The inductive invariant holds when the request has been answered. *)
LEMMA InitInv == Init => Inv
<1> SUFFICES ASSUME Init PROVE Inv
  OBVIOUS
<1> USE ProducerAssumption DEF Init
<1>1. TypeOK
  <2>1. last \in Items
    BY DEF Items, EOFItem, Outcomes
  <2>2. pipe \in Pipes(Items)
    BY NewPipeType
  <2>3. producer \in Producers
    BY DEF Producers, Parsing
  <2>4. produced \in Seq(Nat) /\ received \in Seq(Nat)
    OBVIOUS
  <2>5. /\ closeErr \in BOOLEAN /\ complete \in BOOLEAN /\ closing \in BOOLEAN
        /\ closeFailed \in BOOLEAN
    OBVIOUS
  <2> QED
    BY <2>1, <2>2, <2>3, <2>4, <2>5 DEF TypeOK
<1> USE DEF NewPipe
<1>2. ChunksAreBounded /\ ChunksHaveAnEvent /\ QueueIsInOrder
  BY DEF ChunksAreBounded, Pending, ChunksHaveAnEvent, QueueIsInOrder
<1>3. ReportIsBehind /\ ReportIsHonest /\ ReportReachesTheCaller
  BY DEF ReportIsBehind, Reported, ReportIsHonest, ReportReachesTheCaller, EOFItem
<1>4. ConnectionInv
  BY DEF ConnectionInv, OneCloses, BodyIsClosedFirst, GoodEndIsClean, Reporting, EOFItem
<1> QED
  BY <1>1, <1>2, <1>3, <1>4 DEF Inv

(* What is said of the connection holds on when nobody touches it, and     *)
(* nobody is told anything new.                                            *)
LEMMA ConnectionIsUntouched ==
  ASSUME Inv, UNCHANGED <<bodyVars, callback, closeErr, last, closing>>,
         ctx' = ctx \/ ctx' # "live",
         \/ producer' = producer
         \/ producer \in Parsing /\ producer' \in Parsing \cup {"ended"}
         \/ producer = "ended" /\ producer' = "stopped"
         \/ producer \in Reporting /\ producer' \in Reporting
  PROVE  ConnectionInv'
<1> USE DEF Inv, ConnectionInv, bodyVars, Parsing, Reporting
<1>1. OneCloses'
  BY DEF OneCloses
<1>2. BodyIsClosedFirst' /\ GoodEndIsClean'
  BY DEF BodyIsClosedFirst, GoodEndIsClean
<1> QED
  BY <1>1, <1>2

(* A step of the parser that sends nothing changes only what is said of    *)
(* the chunks to come.                                                     *)
LEMMA ParserStep ==
  ASSUME Inv, producer \in Parsing, producer' \in Parsing \cup {"ended"},
         UNCHANGED <<ctx, bodyVars, callback, closeErr, last, pipe, produced, callerVars>>,
         complete => complete', parsed' = "gone" => pipe.recvClosed,
         TypeOK', ChunksAreBounded', ChunksHaveAnEvent'
  PROVE  Inv'
<1> USE DEF Parsing
<1>1. QueueIsInOrder' /\ ReportIsBehind'
  BY DEF Inv, QueueIsInOrder, ReportIsBehind, Reported, callerVars
<1>2. ReportIsHonest'
  BY DEF Inv, ReportIsHonest, Reported
<1>3. ReportReachesTheCaller' /\ ConnectionInv'
  BY ConnectionIsUntouched DEF Inv, ReportReachesTheCaller, Reported, callerVars
<1> QED
  BY <1>1, <1>2, <1>3 DEF Inv

(* Reading an event. *)
LEMMA ReadsEventInv ==
  ASSUME Inv, NEW e \in Events, ReadsEvent(e)
  PROVE  Inv'
<1>1. TypeOK'
  BY ProducerAssumption DEF Inv, ReadsEvent, TypeOK, Producers, Parsing, bodyVars, callerVars
<1>2. ChunksAreBounded' /\ ChunksHaveAnEvent'
  BY ProducerAssumption
     DEF Inv, ReadsEvent, TypeOK, ChunksAreBounded, Pending, ChunksHaveAnEvent
<1>3. parsed' = "gone" => pipe.recvClosed
  BY DEF Inv, ReadsEvent, ReportReachesTheCaller
<1> QED
  BY <1>1, <1>2, <1>3, ParserStep DEF ReadsEvent, Parsing

(* The parser returns without having sent what it may have staged. *)
LEMMA ParserReturns ==
  ASSUME Inv, producer \in Parsing, producer' = "ended",
         parsed' \in Outcomes \ {"terminal"}, parsed' = "gone" => pipe.recvClosed,
         UNCHANGED <<ctx, events, bodyVars, callback, event, staged, closeErr, last, pipe,
                     produced, complete, callerVars>>
  PROVE  Inv'
<1>1. TypeOK'
  BY DEF Inv, TypeOK, Producers, Closing, bodyVars, callerVars
<1>2. ChunksAreBounded' /\ ChunksHaveAnEvent'
  BY ProducerAssumption
     DEF Inv, Parsing, TypeOK, ChunksAreBounded, Pending, ChunksHaveAnEvent
<1> QED
  BY <1>1, <1>2, ParserStep

(* The four ways in which it does so. *)
LEMMA ParserFailsInv ==
  ASSUME Inv,
         \/ \E e \in ReadErrors : ReadFails(e)
         \/ SeesCancellation \/ SendFindsCallerGone \/ ParserPanics
  PROVE  Inv'
<1> USE ParserReturns DEF Returns, Outcomes, ReadErrors, Parsing
<1>1. ASSUME NEW e \in ReadErrors, ReadFails(e)
      PROVE  Inv'
  BY <1>1 DEF ReadFails
<1>2. ASSUME SeesCancellation
      PROVE  Inv'
  <2>1. ctx \in {"canceled", "deadline"}
    BY <1>2 DEF Inv, TypeOK, SeesCancellation
  <2> QED
    BY <1>2, <2>1 DEF SeesCancellation
<1>3. ASSUME SendFindsCallerGone
      PROVE  Inv'
  <2>1. pipe.recvClosed
    BY <1>3 DEF SendFindsCallerGone
  <2> QED
    BY <1>3, <2>1 DEF SendFindsCallerGone
<1>4. ASSUME ParserPanics
      PROVE  Inv'
  BY <1>4 DEF ParserPanics
<1> QED
  BY <1>1, <1>2, <1>3, <1>4

(* Handling an event.  A completed response stages its chunks once. *)
LEMMA DispatchesInv ==
  ASSUME Inv, NEW n \in 0 .. MaxStaged, Dispatches(n)
  PROVE  Inv'
<1> USE ProducerAssumption DEF Inv, Returns, Events
<1>1. /\ staged' = IF event = "chunk" THEN 1 ELSE IF event = "completed" THEN n ELSE 0
      /\ staged' > 0 => producer' = "send" /\ parsed' = parsed
  BY Zenon DEF Dispatches
<1>2. /\ producer = "check" /\ complete' = (event = "completed")
      /\ (complete' <=> event = "completed") /\ complete' \in BOOLEAN
      /\ ~(staged' > 0) =>
           IF event = "ignored" THEN producer' = "read" /\ parsed' = parsed
           ELSE producer' = "ended" /\ parsed' = IF event = "completed" THEN "terminal" ELSE "invalid"
      /\ UNCHANGED <<ctx, events, bodyVars, callback, event, closeErr, last, pipe, produced,
                     callerVars>>
  BY Zenon DEF Dispatches
<1>3. TypeOK' /\ ~complete
  BY <1>1, <1>2
     DEF TypeOK, Producers, Parsing, Closing, Outcomes, bodyVars, callerVars,
         ChunksHaveAnEvent
<1>4. ChunksAreBounded'
  BY <1>1, <1>2, <1>3 DEF TypeOK, ChunksAreBounded, Pending
<1>5. ChunksHaveAnEvent'
  BY <1>1, <1>2, <1>3 DEF TypeOK, ChunksHaveAnEvent
<1>6. parsed' = "gone" => pipe.recvClosed
  BY <1>1, <1>2 DEF ReportReachesTheCaller
<1> QED
  BY <1>1, <1>2, <1>3, <1>4, <1>5, <1>6, ParserStep DEF Parsing

(* Sending a chunk puts it behind the others, and nothing is behind it.    *)
LEMMA SendsChunkInv ==
  ASSUME Inv, SendsChunk
  PROVE  Inv'
<1> DEFINE n == Len(produced) + 1
           m == Message(n, TRUE)
<1>1. /\ produced \in Seq(Nat) /\ n \in Nat \ {0} /\ received \in Seq(Nat)
      /\ pipe \in Pipes(Items) /\ m \in Items
  BY DEF Inv, TypeOK, Message, Items, Outcomes
<1>2. /\ Len(pipe.queue) = Len(produced) - Len(received)
      /\ Len(produced) \in Nat /\ Len(received) \in Nat /\ Len(pipe.queue) \in Nat
  BY DEF Inv, TypeOK, Pipes, SendsChunk, ReportIsBehind, Reported
<1>3. produced' = Append(produced, n) /\ pipe' = Sent(pipe, m)
  BY DEF SendsChunk
<1> HIDE DEF n, m
<1>4. /\ pipe' \in Pipes(Items) /\ Len(pipe'.queue) = Len(pipe.queue) + 1
      /\ pipe'.recvClosed = pipe.recvClosed /\ pipe'.sendClosed = pipe.sendClosed
      /\ \A k \in 1 .. Len(pipe.queue) : pipe'.queue[k] = pipe.queue[k]
      /\ pipe'.queue[Len(pipe.queue) + 1] = m
  BY <1>1, <1>3, SentProperties
<1>5. /\ produced' \in Seq(Nat) /\ Len(produced') = n
      /\ \A k \in 1 .. Len(produced) : produced'[k] = produced[k]
      /\ produced'[n] = n
  BY <1>1, <1>3, AppendProperties DEF n
<1>6. /\ producer = "send" /\ producer' \in {"read", "send", "ended"}
      /\ staged' = staged - 1 /\ (producer' = "send" <=> staged > 1)
      /\ producer' = "ended" <=> staged <= 1 /\ event = "completed"
      /\ parsed' = IF producer' = "ended" THEN "terminal" ELSE parsed
      /\ UNCHANGED <<ctx, events, bodyVars, callback, event, closeErr, last, complete,
                     received, closing, end>>
  BY DEF SendsChunk, Returns, Inv, TypeOK, callerVars
<1>7. TypeOK'
  BY <1>4, <1>5, <1>6
     DEF Inv, TypeOK, Producers, Parsing, Closing, Outcomes, bodyVars, ChunksHaveAnEvent
<1>8. ChunksAreBounded' /\ ChunksHaveAnEvent'
  BY <1>1, <1>5, <1>6, ProducerAssumption
     DEF n, Inv, TypeOK, ChunksAreBounded, Pending, ChunksHaveAnEvent
<1>9. QueueIsInOrder'
  <2>1. \A i \in 1 .. Len(produced') : produced'[i] = i
    BY <1>2, <1>5 DEF n, Inv, QueueIsInOrder
  <2>2. ASSUME NEW k \in 1 .. Len(produced') - Len(received')
        PROVE  pipe'.queue[k] = Message(Len(received') + k, TRUE)
    <3>1. k = Len(pipe.queue) + 1 \/ k \in 1 .. Len(pipe.queue)
      BY <1>1, <1>2, <1>5, <1>6 DEF n
    <3>2. CASE k = Len(pipe.queue) + 1
      <4>1. Len(received') + k = n
        BY <1>1, <1>2, <1>6, <3>2 DEF n
      <4> QED
        BY <1>4, <3>2, <4>1 DEF m
    <3>3. CASE k \in 1 .. Len(pipe.queue)
      BY <1>1, <1>2, <1>4, <1>6, <3>3 DEF Inv, QueueIsInOrder
    <3> QED
      BY <3>1, <3>2, <3>3
  <2>3. Len(received') <= Len(produced')
    BY <1>2, <1>5, <1>6 DEF n, Inv, QueueIsInOrder
  <2>4. \A i \in 1 .. Len(received') : received'[i] = i
    BY <1>6 DEF Inv, QueueIsInOrder
  <2> QED
    BY <2>1, <2>2, <2>3, <2>4 DEF QueueIsInOrder
<1>10. ReportIsBehind' /\ ReportIsHonest'
  BY <1>1, <1>2, <1>4, <1>5, <1>6
     DEF n, Inv, ReportIsBehind, ReportIsHonest, Reported
<1>11. ReportReachesTheCaller' /\ ConnectionInv'
  BY <1>4, <1>6, ConnectionIsUntouched DEF Inv, ReportReachesTheCaller, Reported, Parsing
<1> QED
  BY <1>7, <1>8, <1>9, <1>10, <1>11 DEF Inv

-----------------------------------------------------------------------------
(* The end of the stream, the context and the caller. *)

(* A step that neither moves chunks nor changes what the parser returned.  *)
Quiet == UNCHANGED <<events, event, staged, parsed, produced, complete, received, closing>>

(* Such a step keeps what is said of the chunks when the parser is done,   *)
(* or goes on where it was.                                                *)
LEMMA QuietStep ==
  ASSUME Inv, Quiet,
         producer' = producer \/ producer' \notin {"read", "check", "send"}
  PROVE  ChunksAreBounded' /\ ChunksHaveAnEvent'
BY ProducerAssumption DEF Quiet, Inv, TypeOK, ChunksAreBounded, Pending, ChunksHaveAnEvent

(* A step of the producer or the callback that has to do with closing the  *)
(* connection leaves everything else alone.                                *)
LEMMA ClosingStep ==
  ASSUME Inv, Quiet, UNCHANGED <<ctx, last, pipe, end>>,
         producer' = producer \/ (producer \in Closing /\ producer' \in Closing),
         TypeOK', ConnectionInv'
  PROVE  Inv'
<1>1. ChunksAreBounded' /\ ChunksHaveAnEvent'
  BY QuietStep DEF Closing
<1>2. QueueIsInOrder' /\ ReportIsBehind' /\ ReportIsHonest'
  BY DEF Inv, Quiet, Closing, QueueIsInOrder, ReportIsBehind, ReportIsHonest, Reported
<1>3. (Reported' <=> Reported) /\ (producer = "done" <=> producer' = "done")
  BY DEF Closing, Reported
<1>4. UNCHANGED <<pipe, parsed, produced, complete, received, closing, end>>
  BY DEF Quiet
<1>5. ReportReachesTheCaller'
  BY <1>3, <1>4 DEF Inv, ReportReachesTheCaller
<1> QED
  BY <1>1, <1>2, <1>5 DEF Inv

(* The callback is stopped, if it was not started. *)
LEMMA StopsCallbackInv ==
  ASSUME Inv, StopsCallback
  PROVE  Inv'
<1> USE DEF Inv, StopsCallback, bodyVars, callerVars
<1>1. TypeOK'
  BY DEF TypeOK, Producers, Closing
<1>2. ConnectionInv'
  BY DEF ConnectionInv, OneCloses, BodyIsClosedFirst, GoodEndIsClean, Reporting
<1> QED
  BY <1>1, <1>2, ClosingStep DEF Quiet, Closing

(* What a Close does to the connection. *)
LEMMA ConnectionIsClosedType ==
  ASSUME NEW failed \in BOOLEAN, closeFailed \in BOOLEAN, ConnectionIsClosed(failed)
  PROVE  /\ body' = "closed" /\ closes' = closes
         /\ closeFailed' \in BOOLEAN /\ (closeFailed' <=> closeFailed \/ failed)
BY Zenon DEF ConnectionIsClosed

(* The producer closes the body, unless the callback has. *)
LEMMA ProducerClosesInv ==
  ASSUME Inv,
         \/ ProducerBeginsToClose \/ ProducerFindsBodyClosed
         \/ \E failed \in BOOLEAN : ProducerCloses(failed)
  PROVE  Inv'
<1> USE DEF Inv, TypeOK, ConnectionInv, OneCloses, BodyIsClosedFirst, GoodEndIsClean,
            Producers, Closing, Reporting, bodyVars, callerVars
<1>1. CASE ProducerBeginsToClose
  <2> USE <1>1 DEF ProducerBeginsToClose, ConnectionBeginsToClose, FirstToClose
  <2>1. TypeOK'
    OBVIOUS
  <2>2. ConnectionInv'
    OBVIOUS
  <2> QED
    BY <2>1, <2>2, ClosingStep DEF Quiet
<1>2. CASE ProducerFindsBodyClosed
  <2> USE <1>2 DEF ProducerFindsBodyClosed, LaterToClose
  <2>1. TypeOK'
    OBVIOUS
  <2>2. ConnectionInv'
    OBVIOUS
  <2> QED
    BY <2>1, <2>2, ClosingStep DEF Quiet
<1>3. ASSUME NEW failed \in BOOLEAN, ProducerCloses(failed)
      PROVE  Inv'
  <2>1. /\ body' = "closed" /\ closes' = closes
        /\ closeFailed' \in BOOLEAN /\ (closeFailed' <=> closeFailed \/ failed)
    BY <1>3, ConnectionIsClosedType DEF ProducerCloses
  <2>2. /\ closeErr' = failed /\ producer = "closing" /\ producer' = "report"
        /\ UNCHANGED <<ctx, events, callback, event, staged, parsed, last, pipe, produced,
                       complete, received, closing, end>>
    BY <1>3 DEF ProducerCloses
  <2>3. TypeOK'
    BY <2>1, <2>2
  <2>4. ConnectionInv'
    BY <2>1, <2>2 DEF ReportReachesTheCaller, Reported
  <2>5. Quiet /\ UNCHANGED <<ctx, last, pipe, end>>
    BY <2>2 DEF Quiet
  <2> QED
    BY <2>2, <2>3, <2>4, <2>5, ClosingStep
<1> QED
  BY <1>1, <1>2, <1>3

(* The callback starts at any time after the context has ended, and closes *)
(* the body, unless the producer has.                                      *)
LEMMA CallbackInv ==
  ASSUME Inv, Callback
  PROVE  Inv'
<1> USE DEF Inv, TypeOK, ConnectionInv, OneCloses, BodyIsClosedFirst, GoodEndIsClean,
            Producers, Closing, Reporting, bodyVars, streamVars, producerVars, callerVars
<1>1. CASE CallbackStarts
  <2> USE <1>1 DEF CallbackStarts
  <2>1. TypeOK' /\ ConnectionInv'
    OBVIOUS
  <2> QED
    BY <2>1, ClosingStep DEF Quiet
<1>2. CASE CallbackBeginsToClose
  <2> USE <1>2 DEF CallbackBeginsToClose, ConnectionBeginsToClose, FirstToClose
  <2>1. TypeOK' /\ ConnectionInv'
    OBVIOUS
  <2> QED
    BY <2>1, ClosingStep DEF Quiet
<1>3. CASE CallbackFindsBodyClosed
  <2> USE <1>3 DEF CallbackFindsBodyClosed, LaterToClose
  <2>1. TypeOK' /\ ConnectionInv'
    OBVIOUS
  <2> QED
    BY <2>1, ClosingStep DEF Quiet
<1>4. ASSUME NEW failed \in BOOLEAN, CallbackCloses(failed)
      PROVE  Inv'
  <2>1. /\ body' = "closed" /\ closes' = closes
        /\ closeFailed' \in BOOLEAN /\ (closeFailed' <=> closeFailed \/ failed)
    BY <1>4, ConnectionIsClosedType DEF CallbackCloses
  <2>2. /\ callback = "closing" /\ callback' = "done"
        /\ UNCHANGED <<ctx, events, streamVars>>
    BY <1>4 DEF CallbackCloses
  <2>3. TypeOK'
    BY <2>1, <2>2
  <2>4. ConnectionInv'
    BY <2>1, <2>2 DEF ReportReachesTheCaller, Reported
  <2>5. Quiet /\ UNCHANGED <<ctx, last, pipe, end>>
    BY <2>2 DEF Quiet
  <2> QED
    BY <2>2, <2>3, <2>4, <2>5, ClosingStep
<1> QED
  BY <1>1, <1>2, <1>3, <1>4 DEF Callback

(* What is reported is well-typed, and is the usage chunk only for a       *)
(* response that was completed and whose connection was closed well.       *)
LEMMA ReportType ==
  ASSUME Inv
  PROVE  /\ Report \in Items /\ Report.type \in {"usage", "error"}
         /\ Report.type = "usage" => complete /\ ~closeFailed
BY DEF Report, Failed, UsageChunk, Items, Outcomes, Inv, TypeOK, ChunksHaveAnEvent,
       ConnectionInv, GoodEndIsClean

(* The report is chosen. *)
LEMMA ChoosesReportInv ==
  ASSUME Inv, ChoosesReport
  PROVE  Inv'
<1> USE DEF Inv, ChoosesReport, bodyVars, callerVars
<1>1. TypeOK'
  BY ReportType DEF TypeOK, Producers, Reporting
<1>2. ChunksAreBounded' /\ ChunksHaveAnEvent'
  BY QuietStep DEF Quiet
<1>3. QueueIsInOrder' /\ ReportIsBehind'
  BY DEF QueueIsInOrder, ReportIsBehind, Reported
<1>4. ReportIsHonest'
  BY ReportType DEF ReportIsHonest, Reported
<1>5. ReportReachesTheCaller'
  BY DEF TypeOK, ReportReachesTheCaller, Reported
<1>6. ConnectionInv'
  BY ReportType DEF ConnectionInv, OneCloses, BodyIsClosedFirst, GoodEndIsClean, Reporting
<1> QED
  BY <1>1, <1>2, <1>3, <1>4, <1>5, <1>6

(* The report goes behind the chunks, unless nobody is there to get it.    *)
LEMMA SendsReportInv ==
  ASSUME Inv, SendsReport
  PROVE  Inv'
<1>1. /\ producer = "last" /\ producer' = "close"
      /\ UNCHANGED <<ctx, events, bodyVars, callback, event, staged, parsed, closeErr, last,
                     produced, complete, received, closing, end>>
  BY DEF SendsReport, callerVars
<1>2. /\ Len(pipe.queue) = Len(produced) - Len(received) /\ ~closing
      /\ pipe.recvClosed \in BOOLEAN
  BY <1>1 DEF Inv, TypeOK, Pipes, ReportIsBehind, ReportReachesTheCaller, Reported
<1>3. pipe \in Pipes(Items) /\ last \in Items
  BY DEF Inv, TypeOK
<1>4. \/ pipe.recvClosed /\ pipe' = pipe
      \/ pipe' = Sent(pipe, last)
  BY <1>2 DEF SendsReport
<1>5. /\ pipe' \in Pipes(Items)
      /\ pipe'.recvClosed = pipe.recvClosed /\ pipe'.sendClosed = pipe.sendClosed
      /\ \A k \in 1 .. Len(pipe.queue) : pipe'.queue[k] = pipe.queue[k]
      /\ \/ pipe.recvClosed /\ pipe' = pipe
         \/ Len(pipe'.queue) = Len(pipe.queue) + 1 /\ pipe'.queue[Len(pipe.queue) + 1] = last
  <2>1. CASE pipe.recvClosed /\ pipe' = pipe
    BY <1>3, <2>1
  <2>2. CASE pipe' = Sent(pipe, last)
    BY <1>3, <2>2, SentProperties
  <2> QED
    BY <1>4, <2>1, <2>2
<1>6. TypeOK'
  BY <1>1, <1>5 DEF Inv, TypeOK, Producers, Reporting, bodyVars
<1>7. ChunksAreBounded' /\ ChunksHaveAnEvent'
  BY <1>1, QuietStep DEF Quiet
<1>8. QueueIsInOrder' /\ ReportIsHonest'
  BY <1>1, <1>2, <1>5 DEF Inv, QueueIsInOrder, ReportIsHonest, Reported
<1>9. ReportIsBehind'
  BY <1>1, <1>2, <1>5 DEF Inv, ReportIsBehind, Reported
<1>10. ReportReachesTheCaller' /\ ConnectionInv'
  <2>1. parsed # "gone" \/ pipe.recvClosed
    BY DEF Inv, ReportReachesTheCaller
  <2>2. Len(produced) \in Nat /\ Len(received) \in Nat
    BY DEF Inv, TypeOK
  <2> QED
    BY <1>1, <1>2, <1>5, <2>1, <2>2, ConnectionIsUntouched
       DEF Inv, ReportReachesTheCaller, Reported, Reporting
<1> QED
  BY <1>6, <1>7, <1>8, <1>9, <1>10 DEF Inv

(* The writer is closed. *)
LEMMA ClosesWriterInv ==
  ASSUME Inv, ClosesWriter
  PROVE  Inv'
<1>1. /\ producer = "close" /\ producer' = "done"
      /\ UNCHANGED <<ctx, events, bodyVars, callback, event, staged, parsed, closeErr, last,
                     produced, complete, received, closing, end>>
  BY DEF ClosesWriter, callerVars
<1>2. /\ pipe' \in Pipes(Items) /\ pipe'.queue = pipe.queue
      /\ pipe'.recvClosed = pipe.recvClosed
  BY ClosedProperties DEF ClosesWriter, Inv, TypeOK
<1>3. TypeOK'
  BY <1>1, <1>2 DEF Inv, TypeOK, Producers, Reporting, bodyVars
<1>4. ChunksAreBounded' /\ ChunksHaveAnEvent'
  BY <1>1, QuietStep DEF Quiet
<1>5. QueueIsInOrder' /\ ReportIsBehind' /\ ReportIsHonest'
  BY <1>1, <1>2 DEF Inv, QueueIsInOrder, ReportIsBehind, ReportIsHonest, Reported
<1>6. ReportReachesTheCaller' /\ ConnectionInv'
  BY <1>1, <1>2, ConnectionIsUntouched DEF Inv, ReportReachesTheCaller, Reported, Reporting
<1> QED
  BY <1>3, <1>4, <1>5, <1>6 DEF Inv

(* The context ends. *)
LEMMA CancelInv ==
  ASSUME Inv, NEW e \in {"canceled", "deadline"}, Cancel(e)
  PROVE  Inv'
<1> USE DEF Inv, Cancel, streamVars, producerVars, callerVars
<1>1. TypeOK'
  BY DEF TypeOK, bodyVars
<1>2. ChunksAreBounded' /\ ChunksHaveAnEvent'
  BY QuietStep DEF Quiet
<1>3. QueueIsInOrder' /\ ReportIsBehind' /\ ReportIsHonest'
  BY DEF QueueIsInOrder, ReportIsBehind, ReportIsHonest, Reported
<1>4. ReportReachesTheCaller' /\ ConnectionInv'
  BY ConnectionIsUntouched DEF ReportReachesTheCaller, Reported
<1> QED
  BY <1>1, <1>2, <1>3, <1>4

(* The caller closes its reader. *)
LEMMA CallerClosesInv ==
  ASSUME Inv, CallerCloses
  PROVE  Inv'
<1>1. /\ end' = IF end = "open" THEN "closed" ELSE end
      /\ UNCHANGED <<ctx, events, bodyVars, callback, producer, event, staged, parsed,
                     closeErr, last, produced, complete, received, closing>>
  BY DEF CallerCloses, producerVars
<1>2. /\ pipe' \in Pipes(Items) /\ pipe'.queue = pipe.queue
      /\ pipe'.sendClosed = pipe.sendClosed /\ pipe'.recvClosed
  BY ClosedProperties DEF CallerCloses, Inv, TypeOK
<1>3. TypeOK'
  BY <1>1, <1>2 DEF Inv, TypeOK, bodyVars
<1>4. ChunksAreBounded' /\ ChunksHaveAnEvent'
  BY <1>1, QuietStep DEF Quiet
<1>5. QueueIsInOrder' /\ ReportIsBehind' /\ ReportIsHonest'
  BY <1>1, <1>2 DEF Inv, QueueIsInOrder, ReportIsBehind, ReportIsHonest, Reported
<1>6. ReportReachesTheCaller' /\ ConnectionInv'
  BY <1>1, <1>2, ConnectionIsUntouched DEF Inv, ReportReachesTheCaller, Reported
<1> QED
  BY <1>3, <1>4, <1>5, <1>6 DEF Inv

(* What the caller finds in the pipe: the next chunk; behind the last one  *)
(* the report; and EOF only when it already has the report.                *)
ReceivesChunk ==
  /\ NextItem(pipe) = Message(Len(received) + 1, TRUE)
  /\ Len(received) < Len(produced) /\ ~closing
ReceivesReport ==
  /\ NextItem(pipe) = last /\ last.type \in {"usage", "error"} /\ Reported /\ ~closing
  /\ Len(received) = Len(produced) /\ Len(pipe.queue) = 1
ReceivesEOF ==
  /\ NextItem(pipe) = EOFItem /\ pipe.queue = <<>>
  /\ Reported /\ closing /\ Len(received) = Len(produced)

(* What a caller that receives finds is one of these.                      *)
LEMMA CallerFinds ==
  ASSUME Inv, CallerReceives
  PROVE  ReceivesChunk \/ ReceivesReport \/ ReceivesEOF
<1>1. /\ pipe \in Pipes(Items) /\ CanRecv(pipe) /\ end = "open"
      /\ Len(produced) \in Nat /\ Len(received) \in Nat /\ Len(pipe.queue) \in Nat
      /\ pipe.recvClosed \in BOOLEAN
  BY DEF Inv, TypeOK, Pipes, CallerReceives
<1>2. parsed # "gone"
  BY <1>1 DEF Inv, ReportReachesTheCaller
<1>3. CASE pipe.queue = <<>> /\ pipe.sendClosed /\ NextItem(pipe) = EOFItem
  BY <1>1, <1>3
     DEF Inv, ReportReachesTheCaller, ReportIsBehind, QueueIsInOrder, Reported, ReceivesEOF
<1>4. CASE pipe.queue # <<>> /\ Len(pipe.queue) > 0 /\ NextItem(pipe) = pipe.queue[1]
  <2>1. ~closing
    BY <1>4 DEF Inv, ReportReachesTheCaller
  <2>2. CASE Len(received) < Len(produced)
    <3>1. 1 \in 1 .. Len(produced) - Len(received)
      BY <1>1, <2>2
    <3> QED
      BY <1>4, <2>1, <2>2, <3>1 DEF Inv, QueueIsInOrder, ReceivesChunk
  <2>3. CASE Len(received) = Len(produced)
    <3>1. Len(pipe.queue) = 1 /\ Reported /\ pipe.queue[1] = last
      BY <1>1, <1>4, <2>3 DEF Inv, ReportIsBehind
    <3> QED
      BY <1>2, <1>4, <2>1, <2>3, <3>1 DEF Inv, ReportIsHonest, ReceivesReport
  <2> QED
    BY <1>1, <2>2, <2>3 DEF Inv, QueueIsInOrder
<1> QED
  BY <1>1, <1>3, <1>4, ReceivedProperties

(* The caller gets it. *)
LEMMA CallerReceivesInv ==
  ASSUME Inv, CallerReceives
  PROVE  Inv'
<1> DEFINE item == NextItem(pipe)
<1>1. /\ pipe \in Pipes(Items) /\ CanRecv(pipe) /\ end = "open"
      /\ pipe' = Received(pipe)
      /\ received' = IF item.type = "message" THEN Append(received, item.id) ELSE received
      /\ (closing' <=> closing \/ item.type = "usage") /\ closing' \in BOOLEAN
      /\ end' = IF item.type \in {"error", "EOF"} THEN item.type ELSE "open"
      /\ UNCHANGED <<ctx, events, bodyVars, callback, producer, event, staged, parsed,
                     closeErr, last, produced, complete>>
  BY DEF CallerReceives, Inv, TypeOK, producerVars
<1>2. /\ Len(produced) \in Nat /\ Len(received) \in Nat /\ Len(pipe.queue) \in Nat
      /\ received \in Seq(Nat)
  BY DEF Inv, TypeOK, Pipes
<1>3. /\ pipe' \in Pipes(Items)
      /\ pipe'.sendClosed = pipe.sendClosed /\ pipe'.recvClosed = pipe.recvClosed
      /\ \/ pipe.queue = <<>> /\ pipe' = pipe
         \/ /\ Len(pipe'.queue) = Len(pipe.queue) - 1
            /\ \A k \in 1 .. Len(pipe'.queue) : pipe'.queue[k] = pipe.queue[k + 1]
  BY <1>1, ReceivedProperties
<1> HIDE DEF item
<1>4. ASSUME item.type = "usage" => item = last PROVE ConnectionInv'
  BY <1>1, <1>4
     DEF Inv, ConnectionInv, OneCloses, BodyIsClosedFirst, GoodEndIsClean, bodyVars
<1>5. ReportIsHonest'
  BY <1>1 DEF Inv, ReportIsHonest, Reported
<1>6. ChunksAreBounded' /\ ChunksHaveAnEvent'
  BY <1>1 DEF Inv, ChunksAreBounded, Pending, ChunksHaveAnEvent
<1>7. CASE ReceivesChunk
  <2>1. item.type = "message" /\ item.id = Len(received) + 1
    BY <1>7 DEF item, ReceivesChunk, Message
  <2>2. /\ received' = Append(received, Len(received) + 1)
        /\ end' = "open" /\ closing' = closing /\ ~closing
    BY <1>1, <1>7, <2>1 DEF Inv, TypeOK, ReceivesChunk
  <2>3. /\ received' \in Seq(Nat) /\ Len(received') = Len(received) + 1
        /\ \A k \in 1 .. Len(received) : received'[k] = received[k]
        /\ received'[Len(received) + 1] = Len(received) + 1
    BY <1>2, <2>2, AppendProperties
  <2>4. TypeOK'
    BY <1>1, <1>3, <2>2, <2>3 DEF Inv, TypeOK, bodyVars
  <2>5. /\ Len(pipe'.queue) = Len(pipe.queue) - 1
        /\ \A k \in 1 .. Len(pipe'.queue) : pipe'.queue[k] = pipe.queue[k + 1]
    BY <1>2, <1>3, <1>7 DEF Inv, ReportIsBehind, ReceivesChunk
  <2>6. QueueIsInOrder'
    <3>1. \A i \in 1 .. Len(received') : received'[i] = i
      BY <1>2, <2>3 DEF Inv, QueueIsInOrder
    <3>2. ASSUME NEW k \in 1 .. Len(produced') - Len(received')
          PROVE  pipe'.queue[k] = Message(Len(received') + k, TRUE)
      <4>1. /\ k + 1 \in 1 .. Len(produced) - Len(received)
            /\ Len(received) + (k + 1) = Len(received') + k
        BY <1>1, <1>2, <2>3
      <4>2. pipe.queue[k + 1] = Message(Len(received') + k, TRUE)
        BY <4>1 DEF Inv, QueueIsInOrder
      <4>3. k \in 1 .. Len(pipe'.queue)
        BY <1>2, <2>5, <4>1 DEF Inv, ReportIsBehind
      <4> QED
        BY <2>5, <4>2, <4>3
    <3>3. Len(received') <= Len(produced') /\ produced' = produced
      BY <1>1, <1>2, <1>7, <2>3 DEF ReceivesChunk
    <3> QED
      BY <3>1, <3>2, <3>3 DEF Inv, QueueIsInOrder
  <2>7. ReportIsBehind'
    <3>1. Len(produced') - Len(received') = Len(produced) - Len(received) - 1
      BY <1>1, <1>2, <2>3
    <3>2. CASE Len(pipe.queue) = Len(produced) - Len(received)
      BY <1>2, <2>5, <3>1, <3>2 DEF ReportIsBehind
    <3>3. CASE /\ Len(pipe.queue) = Len(produced) - Len(received) + 1
               /\ Reported /\ pipe.queue[Len(produced) - Len(received) + 1] = last
      <4>1. Len(pipe'.queue) \in 1 .. Len(pipe'.queue)
        BY <1>2, <1>7, <2>5, <3>3 DEF ReceivesChunk
      <4>2. pipe'.queue[Len(pipe'.queue)] = pipe.queue[Len(pipe'.queue) + 1]
        BY <2>5, <4>1
      <4>3. Len(pipe'.queue) + 1 = Len(produced) - Len(received) + 1
        BY <1>2, <2>5, <3>3
      <4>4. Len(pipe'.queue) = Len(produced') - Len(received') + 1
        BY <1>2, <3>1, <4>1, <4>3
      <4>5. Reported' /\ ~closing'
        BY <1>1, <2>2, <3>3 DEF Reported
      <4> QED
        BY <1>1, <3>3, <4>2, <4>3, <4>4, <4>5 DEF ReportIsBehind
    <3> QED
      BY <3>2, <3>3 DEF Inv, ReportIsBehind
  <2>8. ReportReachesTheCaller'
    BY <1>1, <1>2, <1>3, <1>7, <2>2, <2>3, <2>5
       DEF Inv, ReportReachesTheCaller, ReceivesChunk, Reported
  <2> QED
    BY <1>4, <1>5, <1>6, <2>1, <2>4, <2>6, <2>7, <2>8 DEF Inv
<1>8. CASE ReceivesReport
  <2>1. /\ received' = received /\ Reported /\ Reported'
        /\ end' \in {"error", "open"} /\ (end' = "open" => closing' /\ complete)
        /\ (closing' => complete)
    BY <1>1, <1>8 DEF item, ReceivesReport, Inv, TypeOK, ReportIsHonest, Reported
  <2>2. Len(pipe'.queue) = 0 /\ pipe'.queue = <<>>
    BY <1>3, <1>8, EmptySeq DEF ReceivesReport, Pipes
  <2>3. TypeOK' /\ item = last
    BY <1>1, <1>3, <1>8, <2>1 DEF item, ReceivesReport, Inv, TypeOK, bodyVars
  <2>4. QueueIsInOrder' /\ ReportIsBehind'
    <3>1. produced' = produced /\ Len(produced') - Len(received') = 0
      BY <1>1, <1>2, <1>8, <2>1 DEF ReceivesReport
    <3>2. QueueIsInOrder'
      <4>1. \A k \in 1 .. Len(produced') - Len(received') :
              pipe'.queue[k] = Message(Len(received') + k, TRUE)
        BY <3>1
      <4> QED
        BY <2>1, <3>1, <4>1 DEF Inv, QueueIsInOrder
    <3> QED
      BY <2>2, <3>1, <3>2 DEF ReportIsBehind
  <2>5. ReportReachesTheCaller'
    BY <1>1, <1>3, <2>1, <2>2 DEF Inv, ReportReachesTheCaller, Reported
  <2> QED
    BY <1>4, <1>5, <1>6, <2>3, <2>4, <2>5 DEF Inv
<1>9. CASE ReceivesEOF
  <2>1. /\ received' = received /\ pipe' = pipe /\ end' = "EOF" /\ closing'
        /\ closing' = closing
    BY <1>1, <1>3, <1>9, ReceivedProperties DEF item, ReceivesEOF, EOFItem, Inv, TypeOK
  <2>2. TypeOK' /\ item.type # "usage"
    BY <1>1, <1>3, <1>9, <2>1 DEF item, ReceivesEOF, EOFItem, Inv, TypeOK, bodyVars
  <2>3. QueueIsInOrder' /\ ReportIsBehind'
    BY <1>1, <2>1 DEF Inv, QueueIsInOrder, ReportIsBehind, Reported
  <2>4. ReportReachesTheCaller'
    BY <1>1, <1>9, <2>1 DEF Inv, ReportReachesTheCaller, Reported, ReceivesEOF
  <2> QED
    BY <1>4, <1>5, <1>6, <2>2, <2>3, <2>4 DEF Inv
<1> QED
  BY <1>7, <1>8, <1>9, CallerFinds

(* Every step keeps the inductive invariant. *)
LEMMA NextInv == Inv /\ [Next]_vars => Inv'
<1> SUFFICES ASSUME Inv, [Next]_vars PROVE Inv'
  OBVIOUS
<1>1. ASSUME NEW e \in Events, ReadsEvent(e) PROVE Inv'
  BY <1>1, ReadsEventInv
<1>2. ASSUME \/ \E e \in ReadErrors : ReadFails(e)
             \/ SeesCancellation \/ SendFindsCallerGone \/ ParserPanics
      PROVE  Inv'
  BY <1>2, ParserFailsInv
<1>3. ASSUME NEW n \in 0 .. MaxStaged, Dispatches(n) PROVE Inv'
  BY <1>3, DispatchesInv
<1>4. ASSUME \/ ProducerBeginsToClose \/ ProducerFindsBodyClosed
             \/ \E failed \in BOOLEAN : ProducerCloses(failed)
      PROVE  Inv'
  BY <1>4, ProducerClosesInv
<1>5. ASSUME NEW e \in {"canceled", "deadline"}, Cancel(e) PROVE Inv'
  BY <1>5, CancelInv
<1>6. CASE UNCHANGED vars
  <2> USE <1>6 DEF vars, streamVars, producerVars, callerVars, Inv
  <2>1. TypeOK'
    BY DEF TypeOK, bodyVars
  <2>2. ChunksAreBounded' /\ ChunksHaveAnEvent'
    BY QuietStep DEF Quiet
  <2>3. QueueIsInOrder' /\ ReportIsBehind' /\ ReportIsHonest'
    BY DEF QueueIsInOrder, ReportIsBehind, ReportIsHonest, Reported
  <2>4. ReportReachesTheCaller' /\ ConnectionInv'
    BY ConnectionIsUntouched DEF ReportReachesTheCaller, Reported
  <2> QED
    BY <2>1, <2>2, <2>3, <2>4
<1> QED
  BY <1>1, <1>2, <1>3, <1>4, <1>5, <1>6, SendsChunkInv, StopsCallbackInv,
     ChoosesReportInv, SendsReportInv, ClosesWriterInv, CallbackInv, CallerReceivesInv,
     CallerClosesInv
     DEF Next, Produces

(* The inductive invariant holds in every reachable state. *)
THEOREM InvHolds == Spec => []Inv
BY InitInv, NextInv, PTL DEF Spec

-----------------------------------------------------------------------------
(* The caller learns of a good end only behind the terminal message of a   *)
(* completed response, no Close of whose connection failed; and of any end *)
(* only when the connection is closed, by the producer or the callback.    *)
(* It is closed once: a callback that was not stopped and comes after that *)
(* does not touch it.                                                      *)
THEOREM EndComesInOrder == Spec => []EndIsOrderly
<1>1. Inv => EndIsOrderly
  BY DEF Inv, TypeOK, ReportReachesTheCaller, ConnectionInv, OneCloses, BodyIsClosedFirst,
         GoodEndIsClean, Reported, Reporting, EndIsOrderly
<1> QED
  BY <1>1, InvHolds, PTL

(* Sending a chunk is producing it: it is one of the contract's chunks.    *)
LEMMA SendingProduces ==
  ASSUME Inv, SendsChunk
  PROVE  \E c \in 1 .. MaxChunks : Contract!Produce(c)
<1>1. Len(produced) + 1 \in 1 .. MaxChunks
  BY ProducerAssumption
     DEF Inv, TypeOK, SendsChunk, ChunksAreBounded, Pending, ChunksHaveAnEvent, MaxChunks
<1>2. Contract!Produce(Len(produced) + 1)
  BY DEF SendsChunk, callerVars, Contract!Produce
<1> QED
  BY <1>1, <1>2

(* Handling an event completes the response or changes nothing.            *)
LEMMA DispatchingCompletes ==
  ASSUME Inv, NEW n \in 0 .. MaxStaged, Dispatches(n)
  PROVE  Contract!Complete \/ UNCHANGED <<produced, complete, received, closing, end>>
<1>1. /\ ~complete /\ complete \in BOOLEAN
      /\ (complete' <=> event = "completed") /\ complete' \in BOOLEAN
      /\ UNCHANGED <<produced, received, closing, end>>
  BY DEF Inv, TypeOK, ChunksHaveAnEvent, Dispatches, callerVars
<1> QED
  BY <1>1 DEF Contract!Complete

(* The caller receives what the contract allows it to.                     *)
LEMMA ReceivingIsAllowed ==
  ASSUME Inv, CallerReceives
  PROVE  \/ Contract!Receive \/ Contract!ReceiveClosing
         \/ Contract!ReceiveEOF \/ Contract!ReceiveError
<1> DEFINE item == NextItem(pipe)
<1>1. /\ end = "open" /\ closing \in BOOLEAN /\ complete \in BOOLEAN
      /\ received' = IF item.type = "message" THEN Append(received, item.id) ELSE received
      /\ (closing' <=> closing \/ item.type = "usage") /\ closing' \in BOOLEAN
      /\ end' = IF item.type \in {"error", "EOF"} THEN item.type ELSE "open"
      /\ UNCHANGED <<produced, complete>>
  BY DEF CallerReceives, Inv, TypeOK
<1>2. /\ Len(produced) \in Nat /\ Len(received) \in Nat
      /\ produced \in Seq(Nat) /\ received \in Seq(Nat)
  BY DEF Inv, TypeOK
<1> HIDE DEF item
<1>3. CASE ReceivesChunk
  <2>1. item.type = "message" /\ item.id = Len(received) + 1
    BY <1>3 DEF item, ReceivesChunk, Message
  <2>2. produced[Len(received) + 1] = Len(received) + 1
    BY <1>2, <1>3 DEF Inv, QueueIsInOrder, ReceivesChunk
  <2>3. closing' = closing /\ end' = end /\ ~closing
    BY <1>1, <1>3, <2>1 DEF ReceivesChunk
  <2>4. Contract!Receive
    BY <1>1, <1>3, <2>1, <2>2, <2>3 DEF ReceivesChunk, Contract!Receive
  <2> QED
    BY <2>4
<1>4. ASSUME Len(received) = Len(produced) PROVE received = produced
  BY <1>2, <1>4, SeqEqual DEF Inv, QueueIsInOrder
<1>5. CASE ReceivesReport
  <2>1. /\ received = produced /\ received' = received /\ ~closing
        /\ \/ item.type = "usage" /\ closing' /\ complete /\ end' = end
           \/ item.type = "error" /\ closing' = closing /\ end' = "error"
    BY <1>1, <1>4, <1>5 DEF item, ReceivesReport, Inv, ReportIsHonest
  <2>2. Contract!ReceiveClosing \/ Contract!ReceiveError
    BY <1>1, <2>1 DEF Contract!ReceiveClosing, Contract!ReceiveError, Contract!Finished
  <2> QED
    BY <2>2
<1>6. CASE ReceivesEOF
  <2>1. /\ received = produced /\ received' = received /\ closing' = closing
        /\ complete /\ end' = "EOF"
    BY <1>1, <1>4, <1>6
       DEF item, ReceivesEOF, EOFItem, Inv, ReportReachesTheCaller
  <2>2. Contract!ReceiveEOF
    BY <1>1, <2>1 DEF Contract!ReceiveEOF, Contract!Finished
  <2> QED
    BY <2>2
<1> QED
  BY <1>3, <1>5, <1>6, CallerFinds

(* A step of the call is a step of the contract or changes nothing in it.  *)
LEMMA NextRefines ==
  ASSUME Inv, [Next]_vars
  PROVE  [Contract!Next]_(Contract!contractVars)
<1> USE DEF Contract!contractVars, Contract!Next
<1>1. ASSUME SendsChunk PROVE Contract!Next
  BY <1>1, SendingProduces
<1>2. ASSUME NEW n \in 0 .. MaxStaged, Dispatches(n)
      PROVE  [Contract!Next]_(Contract!contractVars)
  BY <1>2, DispatchingCompletes
<1>3. ASSUME CallerReceives PROVE Contract!Next
  BY <1>3, ReceivingIsAllowed
<1>4. ASSUME CallerCloses PROVE [Contract!Next]_(Contract!contractVars)
  BY <1>4 DEF CallerCloses, Contract!Abandon
<1>5. ASSUME \/ \E e \in Events : ReadsEvent(e)
             \/ \E e \in ReadErrors : ReadFails(e)
             \/ ParserPanics \/ SeesCancellation \/ SendFindsCallerGone
             \/ StopsCallback \/ ProducerBeginsToClose \/ ProducerFindsBodyClosed
             \/ \E failed \in BOOLEAN : ProducerCloses(failed)
             \/ ChoosesReport \/ SendsReport \/ ClosesWriter
             \/ CallbackStarts \/ CallbackBeginsToClose \/ CallbackFindsBodyClosed
             \/ \E failed \in BOOLEAN : CallbackCloses(failed)
             \/ \E e \in {"canceled", "deadline"} : Cancel(e)
             \/ UNCHANGED vars
      PROVE  UNCHANGED Contract!contractVars
  BY <1>5
     DEF ReadsEvent, ReadFails, ParserPanics, SeesCancellation, SendFindsCallerGone,
         StopsCallback, ProducerBeginsToClose, ProducerFindsBodyClosed, ProducerCloses,
         ChoosesReport, SendsReport, ClosesWriter, CallbackStarts, CallbackBeginsToClose,
         CallbackFindsBodyClosed, CallbackCloses, Cancel,
         vars, streamVars, producerVars, callerVars
<1> QED
  BY <1>1, <1>2, <1>3, <1>4, <1>5 DEF Next, Produces, Callback

(* The producer keeps the promise of StreamContract. *)
THEOREM KeepsTheContract == Spec => ImplementsContract
<1>1. Init => Contract!Init
  BY DEF Init, Contract!Init
<1>2. Inv /\ [Next]_vars => [Contract!Next]_(Contract!contractVars)
  BY NextRefines
<1> QED
  BY <1>1, <1>2, InvHolds, PTL DEF Spec, ImplementsContract, Contract!Spec
=============================================================================
