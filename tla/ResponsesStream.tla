--------------------------- MODULE ResponsesStream --------------------------
(***************************************************************************)
(* The assembly of a streamed Responses answer                             *)
(* (opencodego/responses_stream.go: dispatchResponsesEvent and             *)
(* responsesStreamState): output items are announced, grow by deltas, are  *)
(* finished, and are all repeated by the response.completed event, which   *)
(* is checked against everything streamed before it and supplies what was  *)
(* not streamed.  Any step may be missing or come out of order; an event   *)
(* that does not fit ends the stream with an error.                        *)
(*                                                                         *)
(* Text and arguments are sequences of tokens, ids and raw reasoning items *)
(* are model values.  Whatever fails to decode, or has a bad status, role, *)
(* content or name, ends the stream like any other error and is one        *)
(* action.                                                                 *)
(***************************************************************************)
EXTENDS Integers, Sequences, FiniteSets, SequencesExt

CONSTANTS
  MaxIndex,        \* the largest output_index an event names
  MaxOutputs,      \* maxResponsesOutputs
  MaxRetained,     \* maxResponsesEventBytes as the budget of retain, in tokens
  ItemIDs, CallIDs, RawReasoning,
  Texts,           \* the texts of deltas and of message items
  ArgumentTexts,   \* the arguments of deltas and of call items
  JSONTexts,       \* those of them that are valid JSON
  MaxReasoning     \* bound on the reasoning deltas, which no budget counts

NoID == "noID"
None == "none"

ASSUME ResponsesAssumption ==
  /\ MaxIndex \in Nat /\ MaxOutputs \in Nat /\ MaxRetained \in Nat
  /\ MaxReasoning \in Nat
  /\ NoID \notin ItemIDs \cup CallIDs
  /\ JSONTexts \subseteq ArgumentTexts
  /\ \A t \in Texts \cup ArgumentTexts : t \in Seq(Range(t))

Index == 0 .. MaxIndex
ItemTypes == {"message", "function_call", "reasoning"}

VARIABLES
  st,         \* the responsesStreamState
  emitted,    \* every chunk sent to the caller
  outcome,    \* "open", or how parseResponsesStream returned
  final       \* the output of the accepted response.completed (history)

vars == <<st, emitted, outcome, final>>

-----------------------------------------------------------------------------
(* The state, items and chunks *)

NoCall == [index |-> -1, callID |-> NoID, args |-> <<>>, doneArgs |-> <<None>>,
           sawDelta |-> FALSE, completed |-> FALSE]

NewState ==
  [outputs   |-> [i \in Index |-> None],
   calls     |-> [i \in Index |-> NoCall],
   callIDs   |-> [c \in CallIDs |-> -1],
   outputIDs |-> [i \in Index |-> NoID],
   itemIDs   |-> [d \in ItemIDs |-> -1],
   reasoning |-> [i \in Index |-> None],
   finished  |-> [i \in Index |-> FALSE],
   text      |-> [i \in Index |-> <<>>],
   nextCall  |-> 0,
   retained  |-> 0]

MessageItem(id, text) ==
  [type |-> "message", id |-> id, callID |-> NoID, args |-> <<>>, text |-> text, raw |-> None]
CallItem(id, callID, args) ==
  [type |-> "function_call", id |-> id, callID |-> callID, args |-> args,
   text |-> <<>>, raw |-> None]
ReasoningItem(id, raw) ==
  [type |-> "reasoning", id |-> id, callID |-> NoID, args |-> <<>>, text |-> <<>>, raw |-> raw]

Items ==
  LET ids == ItemIDs \cup {NoID}
  IN  {MessageItem(id, t) : id \in ids, t \in Texts}
        \cup {CallItem(id, c, a) : id \in ids, c \in CallIDs \cup {NoID}, a \in ArgumentTexts}
        \cup {ReasoningItem(id, r) : id \in ids, r \in RawReasoning}

(* The output a text chunk comes from is not part of the chunk; it is kept *)
(* here for the properties.                                                *)
TextChunk(i, text) ==
  [kind |-> "text", output |-> i, index |-> -1, callID |-> NoID, data |-> text]
ReasoningChunk(i) ==
  [kind |-> "reasoning", output |-> i, index |-> -1, callID |-> NoID, data |-> <<>>]
ToolCallChunk(i, call, args) ==
  [kind |-> "call", output |-> i, index |-> call.index, callID |-> call.callID, data |-> args]

(* What a handler does: fails, or leaves a state and sends chunks. *)
Fails == [ok |-> FALSE]
Does(s, chunks) == [ok |-> TRUE, state |-> s, chunks |-> chunks]

(* Mutant *)
RetainsEachAlone(s, n) == n <= MaxRetained

Retains(s, n) == s.retained + n <= MaxRetained
Retain(s, n)  == [s EXCEPT !.retained = @ + n]

-----------------------------------------------------------------------------
(* claimCallID and claimItemID: an id belongs to one output for good. *)

(* Mutant *)
MayClaimCallAgain(s, i, callID) == TRUE

MayClaimCall(s, i, callID) == callID = NoID \/ s.callIDs[callID] \in {-1, i}
ClaimCall(s, i, callID) ==
  IF callID = NoID THEN s ELSE [s EXCEPT !.callIDs[callID] = i]

(* Mutant *)
MayClaimItemTwice(s, i, id) == id = NoID \/ s.itemIDs[id] \in {-1, i}

MayClaimItem(s, i, id) ==
  \/ id = NoID
  \/ s.outputIDs[i] \in {NoID, id} /\ s.itemIDs[id] \in {-1, i}
ClaimItem(s, i, id) ==
  IF id = NoID THEN s ELSE [s EXCEPT !.outputIDs[i] = id, !.itemIDs[id] = i]

Outputs(s) == {i \in Index : s.outputs[i] # None}

Full(s) == Cardinality(Outputs(s)) >= MaxOutputs

Calls(s) == {i \in Index : s.calls[i].index # -1}

(* A call gets the next tool index when it is first heard of. *)
NewCall(s, i, callID) ==
  LET call == [NoCall EXCEPT !.index = s.nextCall, !.callID = callID]
  IN  [ClaimCall(s, i, callID) EXCEPT !.calls[i] = call, !.nextCall = @ + 1]

-----------------------------------------------------------------------------
(* response.output_item.added: addItem *)
AddItem(s, i, item) ==
  LET claimed == [ClaimItem(s, i, item.id) EXCEPT !.outputs[i] = item.type]
      added   == NewCall(claimed, i, item.callID)
  IN  IF s.outputs[i] # None \/ Full(s) \/ ~MayClaimItem(s, i, item.id)
      THEN Fails
      ELSE IF item.type # "function_call" THEN Does(claimed, <<>>)
      ELSE IF item.args # <<>> \/ ~MayClaimCall(s, i, item.callID) THEN Fails
      ELSE Does(added, <<ToolCallChunk(i, added.calls[i], <<>>)>>)

(* response.output_text.delta *)
TextDelta(s, i, delta) ==
  IF s.outputs[i] # "message" \/ s.finished[i] \/ ~Retains(s, Len(delta)) THEN Fails
  ELSE Does([Retain(s, Len(delta)) EXCEPT !.text[i] = @ \o delta],
            IF delta = <<>> THEN <<>> ELSE <<TextChunk(i, delta)>>)

(* response.reasoning_text.delta and reasoning_summary_text.delta *)
ReasoningDelta(s, i) ==
  IF s.outputs[i] # "reasoning" \/ s.finished[i] THEN Fails
  ELSE Does(s, <<ReasoningChunk(i)>>)

HasDoneArgs(call) == call.doneArgs # <<None>>

(* response.function_call_arguments.delta: addArguments *)
AddArguments(s, i, delta) ==
  LET call == s.calls[i]
  IN  IF \/ call.index = -1 \/ call.completed \/ HasDoneArgs(call)
         \/ ~Retains(s, Len(delta))
      THEN Fails
      ELSE IF delta = <<>> THEN Does(s, <<>>)
      ELSE Does([Retain(s, Len(delta)) EXCEPT !.calls[i].sawDelta = TRUE,
                                              !.calls[i].args = @ \o delta],
                <<ToolCallChunk(i, call, delta)>>)

(* response.function_call_arguments.done: finishArguments *)
FinishArguments(s, i, args) ==
  LET call == s.calls[i]
  IN  IF \/ call.index = -1 \/ call.completed \/ HasDoneArgs(call)
         \/ args \notin JSONTexts
         \/ call.sawDelta /\ call.args # args
      THEN Fails
      ELSE Does([s EXCEPT !.calls[i].doneArgs = args], <<>>)

-----------------------------------------------------------------------------
(* A whole call item against what was streamed of it.  finishItem and      *)
(* reconcileCall share all but what they do with a call already completed. *)

CallMismatch(s, i, item) ==
  \/ item.callID = NoID \/ item.args \notin JSONTexts
  \/ ~MayClaimCall(s, i, item.callID)
  \/ /\ s.calls[i].index # -1
     /\ \/ s.calls[i].callID \notin {NoID, item.callID}
        \/ HasDoneArgs(s.calls[i]) /\ s.calls[i].doneArgs # item.args

(* A call with no deltas is sent whole; one with deltas only gets its id   *)
(* if it had none.                                                         *)
CompleteCall(s, i, item) ==
  LET known == IF s.calls[i].index = -1 THEN NewCall(s, i, item.callID)
               ELSE [ClaimCall(s, i, item.callID) EXCEPT !.calls[i].callID = item.callID]
      streamed == s.calls[i].sawDelta
      backfill == s.calls[i].callID = NoID
      done == [known EXCEPT !.calls[i].completed = TRUE]
      call == done.calls[i]
  IN  IF streamed
      THEN IF call.args # item.args THEN Fails
           ELSE Does(done, IF backfill THEN <<ToolCallChunk(i, call, <<>>)>> ELSE <<>>)
      ELSE IF ~Retains(s, Len(item.args)) THEN Fails
      ELSE Does([Retain(done, Len(item.args)) EXCEPT !.calls[i].args = item.args],
                <<ToolCallChunk(i, call, item.args)>>)

FinishCall(s, i, item) ==
  IF CallMismatch(s, i, item) \/ s.calls[i].completed THEN Fails
  ELSE CompleteCall(s, i, item)

(* Mutant *)
ReconcileCallAgain(s, i, item) ==
  IF CallMismatch(s, i, item) THEN Fails ELSE CompleteCall(s, i, item)

ReconcileCall(s, i, item) ==
  IF CallMismatch(s, i, item) THEN Fails
  ELSE IF ~s.calls[i].completed THEN CompleteCall(s, i, item)
  ELSE IF s.calls[i].args # item.args THEN Fails
  ELSE Does(ClaimCall(s, i, item.callID), <<>>)

(* Mutant *)
WholeSnapshot(sent, snapshot) == snapshot

Suffix(sent, snapshot) == SubSeq(snapshot, Len(sent) + 1, Len(snapshot))

(* reconcileMessage: the snapshot must extend what was streamed, or equal  *)
(* it once the item is finished.                                           *)
ReconcileMessage(s, i, item) ==
  LET suffix == Suffix(s.text[i], item.text)
  IN  IF s.finished[i]
      THEN IF item.text = s.text[i] THEN Does(s, <<>>) ELSE Fails
      ELSE IF ~IsPrefix(s.text[i], item.text) \/ ~Retains(s, Len(suffix)) THEN Fails
      ELSE Does([Retain(s, Len(suffix)) EXCEPT !.text[i] = item.text],
                IF suffix = <<>> THEN <<>> ELSE <<TextChunk(i, suffix)>>)

FinishReasoning(s, i, item) ==
  IF s.reasoning[i] # None \/ ~Retains(s, 1) THEN Fails
  ELSE Does([Retain(s, 1) EXCEPT !.reasoning[i] = item.raw], <<>>)

ReconcileReasoning(s, i, item) ==
  IF s.reasoning[i] = None THEN FinishReasoning(s, i, item)
  ELSE IF s.reasoning[i] = item.raw THEN Does(s, <<>>) ELSE Fails

-----------------------------------------------------------------------------
(* response.output_item.done: finishItem *)
FinishItem(s, i, item) ==
  LET claimed == [ClaimItem(s, i, item.id) EXCEPT !.outputs[i] = item.type]
      step == CASE item.type = "function_call" -> FinishCall(claimed, i, item)
                [] item.type = "reasoning"     -> FinishReasoning(claimed, i, item)
                [] item.type = "message"       -> ReconcileMessage(claimed, i, item)
  IN  IF \/ s.finished[i] \/ ~MayClaimItem(s, i, item.id)
         \/ s.outputs[i] \notin {None, item.type}
         \/ s.outputs[i] = None /\ Full(s)
         \/ ~step.ok
      THEN Fails
      ELSE Does([step.state EXCEPT !.finished[i] = TRUE], step.chunks)

(* response.completed: complete.  The items are reconciled one by one and  *)
(* their chunks staged; nothing is sent unless all of it fits.             *)
ReconcileItem(s, i, item) ==
  LET claimed == ClaimItem(s, i, item.id)
  IN  IF ~MayClaimItem(s, i, item.id) \/ s.outputs[i] \notin {None, item.type} THEN Fails
      ELSE CASE item.type = "function_call" -> ReconcileCall(claimed, i, item)
             [] item.type = "reasoning"     -> ReconcileReasoning(claimed, i, item)
             [] item.type = "message"       -> ReconcileMessage(claimed, i, item)

Reconcile(s, items) ==
  LET Upto[n \in 0 .. Len(items)] ==
        IF n = 0 THEN Does(s, <<>>)
        ELSE IF ~Upto[n - 1].ok THEN Fails
        ELSE LET next == ReconcileItem(Upto[n - 1].state, n - 1, items[n])
             IN  IF next.ok THEN Does(next.state, Upto[n - 1].chunks \o next.chunks) ELSE Fails
  IN  Upto[Len(items)]

(* Mutant *)
CoveredCalls(s, items) ==
  \A i \in Calls(s) : i < Len(items) /\ s.calls[i].completed

(* Everything streamed is in the response, and every call is complete.     *)
Covered(s, items) ==
  /\ \A i \in Calls(s) : i < Len(items) /\ items[i + 1].type = "function_call"
                           /\ s.calls[i].completed
  /\ \A i \in Index : s.reasoning[i] # None =>
       i < Len(items) /\ items[i + 1].type = "reasoning"
  /\ \A i \in Outputs(s) : i < Len(items)

Complete(s, items) ==
  LET step == Reconcile(s, items)
  IN  IF step.ok /\ Covered(step.state, items) THEN step ELSE Fails

-----------------------------------------------------------------------------
Init ==
  /\ st = NewState
  /\ emitted = <<>>
  /\ outcome = "open"
  /\ final = <<>>

(* A send reports that the caller has closed its reader; the stream then   *)
(* ends without the sends that were still to come.                         *)
Sends(step) ==
  \/ /\ emitted' = emitted \o step.chunks
     /\ st' = step.state
     /\ UNCHANGED <<outcome, final>>
  \/ /\ \E k \in 0 .. Len(step.chunks) - 1 :
          emitted' = emitted \o SubSeq(step.chunks, 1, k)
     /\ outcome' = "gone"
     /\ UNCHANGED <<st, final>>

EndsWith(result) ==
  outcome' = result /\ UNCHANGED <<st, emitted, final>>

Handle(step) ==
  /\ outcome = "open"
  /\ IF step.ok THEN Sends(step) ELSE EndsWith("error")

OutputItemAdded(i, item) == Handle(AddItem(st, i, item))
OutputTextDelta(i, delta) == Handle(TextDelta(st, i, delta))

(* Bounded by MaxReasoning: these chunks are neither retained nor counted. *)
ReasoningTextDelta(i) ==
  /\ Cardinality({k \in DOMAIN emitted : emitted[k].kind = "reasoning"}) < MaxReasoning
  /\ Handle(ReasoningDelta(st, i))

FunctionArgsDelta(i, delta) == Handle(AddArguments(st, i, delta))
FunctionArgsDone(i, args) == Handle(FinishArguments(st, i, args))
OutputItemDone(i, item) == Handle(FinishItem(st, i, item))

Completed(items) ==
  LET step == Complete(st, items)
  IN  /\ outcome = "open"
      /\ IF ~step.ok THEN EndsWith("error")
         ELSE \/ /\ emitted' = emitted \o step.chunks
                 /\ st' = step.state
                 /\ outcome' = "terminal"
                 /\ final' = items
              \/ /\ \E k \in 0 .. Len(step.chunks) - 1 :
                      emitted' = emitted \o SubSeq(step.chunks, 1, k)
                 /\ outcome' = "gone"
                 /\ UNCHANGED <<st, final>>

(* Malformed events, failed, incomplete and error events, and a body that  *)
(* ends, fails, is cancelled or exceeds the event limit.                   *)
Fail ==
  /\ outcome = "open"
  /\ EndsWith("error")

Next ==
  \/ \E i \in Index :
       \/ \E item \in Items : OutputItemAdded(i, item) \/ OutputItemDone(i, item)
       \/ \E delta \in Texts : OutputTextDelta(i, delta)
       \/ ReasoningTextDelta(i)
       \/ \E delta \in ArgumentTexts : FunctionArgsDelta(i, delta)
       \/ \E args \in ArgumentTexts : FunctionArgsDone(i, args)
  \/ \E items \in BoundedSeq(Items, MaxIndex + 1) : Completed(items)
  \/ Fail

Spec == Init /\ [][Next]_vars

-----------------------------------------------------------------------------
(* What the caller has, when it concatenates the chunks by output. *)
ChunksOf(chunks, i, kind) ==
  {k \in DOMAIN chunks : chunks[k].kind = kind /\ chunks[k].output = i}
DeliveredData(chunks, i, kind) ==
  LET Join[k \in 0 .. Len(chunks)] ==
        IF k = 0 THEN <<>>
        ELSE IF k \in ChunksOf(chunks, i, kind) THEN Join[k - 1] \o chunks[k].data
        ELSE Join[k - 1]
  IN  Join[Len(chunks)]
DeliveredCallIDs(chunks, i) == {chunks[k].callID : k \in ChunksOf(chunks, i, "call")} \ {NoID}

Alive == outcome \in {"open", "terminal"}

(* The state knows exactly what the caller has been sent of every text and *)
(* of every call, so that a later snapshot is compared with what was       *)
(* really delivered ("Reconcile terminal output snapshots without          *)
(* duplicating emitted text/calls").                                       *)
StateIsWhatWasDelivered ==
  Alive => \A i \in Index :
    /\ st.text[i] = DeliveredData(emitted, i, "text")
    /\ st.calls[i].args = DeliveredData(emitted, i, "call")
    /\ DeliveredCallIDs(emitted, i) = {st.calls[i].callID} \ {NoID}

(* A stream that ends well has delivered, in fragments or whole, exactly   *)
(* the texts and calls of the completed response: every character once,    *)
(* every call with its id, and nothing that the response does not repeat.  *)
AnswerIsDelivered ==
  outcome = "terminal" =>
    /\ \A i \in DOMAIN final :
         LET item == final[i]
         IN  CASE item.type = "message" -> DeliveredData(emitted, i - 1, "text") = item.text
               [] item.type = "function_call" ->
                    /\ DeliveredData(emitted, i - 1, "call") = item.args
                    /\ DeliveredCallIDs(emitted, i - 1) = {item.callID}
               [] item.type = "reasoning" -> st.reasoning[i - 1] = item.raw
    /\ \A c \in Range(emitted) :
         /\ c.output < Len(final)
         /\ final[c.output + 1].type =
              CASE c.kind = "text" -> "message" [] c.kind = "call" -> "function_call"
                [] c.kind = "reasoning" -> "reasoning"

(* The chunks of tool calls, and the indexes shown before one of them.     *)
CallsIn(chunks) == {k \in DOMAIN chunks : chunks[k].kind = "call"}
IndexesBefore(chunks, n) == {chunks[k].index : k \in {j \in CallsIn(chunks) : j < n}}

(* A chunk with the index of a tool call always belongs to the same call   *)
(* and never to two: the indexes are handed out without gaps in the order  *)
(* of the first chunks, and no two calls show the same id ("Interleaved    *)
(* calls must concatenate into distinct valid calls").                     *)
ToolCallsAreDistinct ==
  /\ \A k \in CallsIn(emitted) :
       LET before == IndexesBefore(emitted, k)
       IN  emitted[k].index \in before \cup {Cardinality(before)}
  /\ \A j, k \in CallsIn(emitted) :
       /\ emitted[j].index = emitted[k].index <=> emitted[j].output = emitted[k].output
       /\ emitted[j].callID = emitted[k].callID /\ emitted[k].callID # NoID
            => emitted[j].output = emitted[k].output

(* An item id names one output for the whole stream, and an output has one *)
(* id, whichever of added, done and completed brought it first.            *)
ItemIdsAreOwned ==
  \A i \in Index, id \in ItemIDs :
    st.itemIDs[id] = i <=> st.outputIDs[i] = id

(* What was sent, in tokens, and the outputs whose reasoning is kept.      *)
Weight(chunks) ==
  LET Sum[k \in 0 .. Len(chunks)] == IF k = 0 THEN 0 ELSE Sum[k - 1] + Len(chunks[k].data)
  IN  Sum[Len(chunks)]

Kept(s) == {i \in Index : s.reasoning[i] # None}

(* All the text and arguments sent to a caller, and the reasoning kept for *)
(* the terminal message, stay within the budget of one event               *)
(* (responses_stream.go: retain, maxResponsesEventBytes).                  *)
DeliveryIsBounded == Weight(emitted) + Cardinality(Kept(st)) <= MaxRetained

(* Once an item is finished, no chunk of it is sent again, not even by the *)
(* completed response that repeats it.                                     *)
FinishedItemsAreQuiet ==
  [][\A k \in Len(emitted) + 1 .. Len(emitted') : ~st.finished[emitted'[k].output]]_vars
=============================================================================
