------------------------ MODULE ResponsesConversation ------------------------
(***************************************************************************)
(* A conversation over the Responses protocol of opencodego, which keeps   *)
(* no state at the server: the caller holds the history, every request is  *)
(* built from the whole of it (buildResponsesRequest,                      *)
(* responsesMessagesToInput), and the answer, decoded                      *)
(* (decodeResponsesResponse) or put together from a stream, becomes a part *)
(* of it, with the encrypted reasoning items in its Extra.                 *)
(*                                                                         *)
(* The caller adds messages of any role, answers tool calls rightly or     *)
(* wrongly, may store the history as JSON and read it back, and may drop   *)
(* its oldest message.  The server gives every call and reasoning item of  *)
(* the conversation an identity of its own, or an answer that the decoder  *)
(* refuses.                                                                *)
(***************************************************************************)
EXTENDS Naturals, Sequences, FiniteSets, SequencesExt

CONSTANTS
  MaxCalls,     \* bound on the ids of calls
  MaxMessages,  \* bound on the history
  MaxPrompts,   \* bound on the messages of the system and the user
  MaxItems,     \* bound on the items of all answers
  MaxAnswers,   \* bound on the answers
  MaxChanges    \* bound on what the caller does to the history that it should not

ASSUME ConversationAssumption ==
  {MaxCalls, MaxMessages, MaxPrompts, MaxItems, MaxAnswers, MaxChanges} \subseteq Nat

(* The options of a call that decide whether it is sent: its tools by name *)
(* and its tool choice.  A sampling option is refused.                     *)
Options ==
  [sampling : {FALSE}, tools : {<<>>, <<"lookup">>}, choice : {"none", "forbidden", "forced"}]
    \cup [sampling : {FALSE}, tools : {<<"lookup", "lookup">>, <<"">>}, choice : {"none"}]
    \cup [sampling : {TRUE}, tools : {<<>>}, choice : {"none"}]

VARIABLES
  history,      \* the caller's messages
  phase,        \* "caller" or "server", who has the turn
  streams,      \* whether the answer will be streamed
  request,      \* what the call at hand was built into
  answers,      \* the output items of the answers in the history (history)
  changes       \* how often the caller did what it should not (history)

vars == <<history, phase, streams, request, answers, changes>>

CallIds == 1 .. MaxCalls
Blank   == 0                    \* an absent id

Call(id, name, valid) == [id |-> id, name |-> name, valid |-> valid]
NoExtra == [encoding |-> "none", items |-> <<>>]
Msg(role) == [role |-> role, text |-> TRUE, thought |-> FALSE, extra |-> NoExtra,
              calls |-> <<>>, answers |-> Blank, name |-> ""]

-----------------------------------------------------------------------------
(* The request *)

(* Items of the input; a call's arguments go with it.                      *)
Item(type, id) == [type |-> type, id |-> id]
CallItems(calls) == [k \in DOMAIN calls |-> Item("function_call", calls[k].id)]
ReasoningItems(extra) == [k \in DOMAIN extra.items |-> Item("reasoning", extra.items[k])]
IdsOf(calls) == {calls[k].id : k \in DOMAIN calls}

Rejected == [ok |-> FALSE, items |-> <<>>, pending |-> {}, seen |-> {}]

(* hasUnsupportedResponsesContent *)
HasUnsupportedContent(m) == m.thought

(* Mutant *)
ReasoningFitsUnstored(extra) == extra.encoding \in {"none", "raw"}

(* responsesReasoningFromExtra: the items as they were decoded, or as JSON *)
(* has read them back.                                                     *)
ReasoningFits(extra) == extra.encoding \in {"none", "raw", "any"}

CallsFit(acc, calls) ==
  /\ \A k \in DOMAIN calls : /\ calls[k].id # Blank /\ calls[k].name # "" /\ calls[k].valid
                             /\ calls[k].id \notin acc.seen
  /\ \A j, k \in DOMAIN calls : calls[j].id = calls[k].id => j = k

Pending(acc, id) == {p \in acc.pending : p.id = id}

AssistantTurn(acc, m) ==
  IF m.answers # Blank \/ ~ReasoningFits(m.extra) \/ ~CallsFit(acc, m.calls) THEN Rejected
  ELSE [acc EXCEPT
          !.items   = @ \o ReasoningItems(m.extra)
                        \o (IF m.text THEN <<Item("output_text", 0)>> ELSE <<>>)
                        \o CallItems(m.calls),
          !.pending = @ \cup {[id |-> m.calls[k].id, name |-> m.calls[k].name]
                                : k \in DOMAIN m.calls},
          !.seen    = @ \cup IdsOf(m.calls)]

(* Mutant *)
ToolTurnAgain(acc, m) ==
  IF m.answers = Blank \/ Pending(acc, m.answers) = {} \/ m.calls # <<>>
     \/ \E p \in Pending(acc, m.answers) : m.name \notin {"", p.name}
  THEN Rejected
  ELSE [acc EXCEPT !.items = Append(@, Item("function_call_output", m.answers))]

(* A result answers a call that is pending, under its name or none.        *)
ToolTurn(acc, m) ==
  IF m.answers = Blank \/ Pending(acc, m.answers) = {} \/ m.calls # <<>>
     \/ \E p \in Pending(acc, m.answers) : m.name \notin {"", p.name}
  THEN Rejected
  ELSE [acc EXCEPT !.items   = Append(@, Item("function_call_output", m.answers)),
                   !.pending = @ \ Pending(acc, m.answers)]

OtherTurn(acc, m) ==
  IF m.calls # <<>> \/ m.answers # Blank THEN Rejected
  ELSE IF m.role = "system" THEN acc
  ELSE [acc EXCEPT !.items = Append(@, Item("input_text", 0))]

WithMessage(acc, m) ==
  IF ~acc.ok \/ HasUnsupportedContent(m) THEN Rejected
  ELSE CASE m.role = "assistant" -> AssistantTurn(acc, m)
         [] m.role = "tool" -> ToolTurn(acc, m)
         [] OTHER -> OtherTurn(acc, m)

(* responsesMessagesToInput *)
Input(messages) ==
  LET acc[n \in 0 .. Len(messages)] ==
        IF n = 0 THEN [Rejected EXCEPT !.ok = TRUE] ELSE WithMessage(acc[n - 1], messages[n])
  IN  acc[Len(messages)]

(* buildResponsesTools *)
ToolsFit(tools) ==
  /\ \A k \in DOMAIN tools : tools[k] # ""
  /\ \A j, k \in DOMAIN tools : tools[j] = tools[k] => j = k

(* responsesToolChoice *)
ToolChoice(opts) ==
  CASE opts.choice = "none" -> "auto"
    [] opts.choice = "forbidden" -> "none"
    [] opts.choice = "forced" /\ opts.tools # <<>> -> "required"
    [] OTHER -> "invalid"

NoRequest == [status |-> "none", items |-> <<>>]

(* buildResponsesRequest *)
Request(messages, opts) ==
  LET input == Input(messages)
  IN  IF opts.sampling \/ ~ToolsFit(opts.tools) \/ ToolChoice(opts) = "invalid"
      THEN [status |-> "options", items |-> <<>>]
      ELSE [status |-> IF input.ok THEN "built" ELSE "input", items |-> input.items]

-----------------------------------------------------------------------------
(* The answer.  The server gives its calls and reasoning items numbers of  *)
(* their own, unless it repeats a call; a bad item is one that is          *)
(* incomplete, lacks what its type needs, or is of another type.           *)
Shapes ==
  {<<"bad">>} \cup
  {s \in SeqOf({"message", "call", "repeat", "reasoning"}, MaxItems) :
     \A k \in DOMAIN s : s[k] = "repeat" => \E j \in 1 .. k - 1 : s[j] = "call"}

GivenOf(type) ==
  Cardinality({at \in (DOMAIN answers) \X (1 .. MaxItems) :
                 /\ at[2] \in DOMAIN answers[at[1]]
                 /\ answers[at[1]][at[2]].type = type})
UpTo(shape, k, type) == Cardinality({j \in 1 .. k : shape[j] = type})

OutputOf(shape) ==
  [k \in DOMAIN shape |->
     LET type == IF shape[k] = "repeat" THEN "call" ELSE shape[k]
     IN  [type |-> type, id |-> IF type = "message" THEN 0
                                ELSE GivenOf(type) + UpTo(shape, k, type)]]

(* The ids of the items of a type, in their order.                         *)
Numbers(items, type) ==
  LET numbers[n \in 0 .. Len(items)] ==
        IF n = 0 THEN <<>>
        ELSE IF items[n].type = type THEN Append(numbers[n - 1], items[n].id)
        ELSE numbers[n - 1]
  IN  numbers[Len(items)]

(* decodeResponsesResponse accepts items it knows, and every call once.    *)
Decodes(output) ==
  /\ Numbers(output, "bad") = <<>>
  /\ IsInjective(Numbers(output, "call"))

(* Mutant *)
DecodedWithLastReasoning(output) ==
  LET raws == Numbers(output, "reasoning")
      calls == Numbers(output, "call")
  IN  [Msg("assistant") EXCEPT
         !.text  = Numbers(output, "message") # <<>>,
         !.extra = IF raws = <<>> THEN NoExtra
                   ELSE [encoding |-> "raw", items |-> <<raws[Len(raws)]>>],
         !.calls = [k \in DOMAIN calls |-> Call(calls[k], "lookup", TRUE)]]

(* The message of an answer: its text, and its calls and reasoning items   *)
(* in their order.                                                         *)
Decoded(output) ==
  LET raws == Numbers(output, "reasoning")
      calls == Numbers(output, "call")
  IN  [Msg("assistant") EXCEPT
         !.text  = Numbers(output, "message") # <<>>,
         !.extra = IF raws = <<>> THEN NoExtra ELSE [encoding |-> "raw", items |-> raws],
         !.calls = [k \in DOMAIN calls |-> Call(calls[k], "lookup", TRUE)]]

(* A stream also gives the text of a reasoning item, if the server sends   *)
(* it, as ReasoningContent, which becomes that of the whole message.       *)
Assembled(output, thought) == [Decoded(output) EXCEPT !.thought = thought]

-----------------------------------------------------------------------------
Init ==
  /\ history = <<>> /\ phase = "caller" /\ streams = FALSE
  /\ request = NoRequest
  /\ answers = <<>> /\ changes = 0

-----------------------------------------------------------------------------
(* The caller *)

Adds(m, change) ==
  /\ phase = "caller" /\ Len(history) < MaxMessages
  /\ changes + change <= MaxChanges
  /\ history' = Append(history, m) /\ changes' = changes + change
  /\ request' = NoRequest
  /\ UNCHANGED <<phase, streams, answers>>

Prompts == {k \in DOMAIN history : history[k].role \in {"system", "user"}}

AddsPrompt(m) == Cardinality(Prompts) < MaxPrompts /\ Adds(m, 0)

Given    == UNION {ToSet(Numbers(answers[a], "call")) : a \in DOMAIN answers}
Answered == {history[k].answers : k \in DOMAIN history}

AddsResult(m) ==
  Adds(m, IF m.answers \in Given \ Answered /\ m.name # "other" THEN 0 ELSE 1)

(* An assistant message that is no answer.                                 *)
AddsAssistant(m) == Adds(m, 1)

(* The history is written to JSON and read back: the reasoning items are   *)
(* no longer []json.RawMessage but []any.                                  *)
Stores ==
  /\ phase = "caller"
  /\ history' = [k \in DOMAIN history |->
                   [history[k] EXCEPT !.extra.encoding = IF @ = "raw" THEN "any" ELSE @]]
  /\ request' = NoRequest
  /\ UNCHANGED <<phase, streams, answers, changes>>

Forgets ==
  /\ phase = "caller" /\ history # <<>> /\ changes < MaxChanges
  /\ history' = Tail(history) /\ changes' = changes + 1
  /\ request' = NoRequest
  /\ UNCHANGED <<phase, streams, answers>>

(* Generate or Stream; a request that cannot be built is an error.         *)
Sends(opts, stream) ==
  /\ phase = "caller"
  /\ request' = Request(history, opts)
  /\ IF request'.status = "built" THEN phase' = "server" /\ streams' = stream
     ELSE UNCHANGED <<phase, streams>>
  /\ UNCHANGED <<history, answers, changes>>

(* The server *)

(* An answer that is refused, or fails, or is none, adds nothing.          *)
Fails ==
  /\ phase = "server" /\ phase' = "caller" /\ streams' = FALSE
  /\ request' = NoRequest
  /\ UNCHANGED <<history, answers, changes>>

Answers(shape, thought) ==
  /\ phase = "server" /\ Len(answers) < MaxAnswers /\ Len(history) < MaxMessages
  /\ Len(FlattenSeq(answers)) + Len(shape) <= MaxItems
  /\ LET output == OutputOf(shape)
     IN  /\ ToSet(Numbers(output, "call")) \subseteq CallIds
         /\ thought => streams /\ Numbers(output, "reasoning") # <<>>
         /\ IF Decodes(output)
            THEN /\ answers' = Append(answers, output)
                 /\ history' = Append(history, Assembled(output, thought))
            ELSE UNCHANGED <<answers, history>>
  /\ phase' = "caller" /\ streams' = FALSE
  /\ request' = NoRequest
  /\ UNCHANGED changes

-----------------------------------------------------------------------------
PromptMessages == {Msg("system"), Msg("user")}

Result(id, name) == [Msg("tool") EXCEPT !.answers = id, !.name = name]
ResultMessages ==
  UNION {{Result(id, name) : name \in {"", "lookup", "other"}} : id \in CallIds \cup {Blank}}

(* Calls of any kind, and an Extra of another type.                        *)
ForeignMessages ==
  {[Msg("assistant") EXCEPT !.extra.encoding = "other"]} \cup
  {[Msg("assistant") EXCEPT !.calls = calls] :
     calls \in {<<Call(i, "lookup", TRUE)>> : i \in CallIds \cup {Blank}}
                 \cup {<<Call(1, "", TRUE)>>, <<Call(1, "lookup", FALSE)>>,
                       <<Call(1, "lookup", TRUE), Call(1, "other", TRUE)>>}}

Next ==
  \/ \E m \in PromptMessages : AddsPrompt(m)
  \/ \E m \in ResultMessages : AddsResult(m)
  \/ \E m \in ForeignMessages : AddsAssistant(m)
  \/ Stores \/ Forgets
  \/ \E opts \in Options, stream \in BOOLEAN : Sends(opts, stream)
  \/ Fails \/ \E shape \in Shapes, thought \in BOOLEAN : Answers(shape, thought)

Spec == Init /\ [][Next]_vars

-----------------------------------------------------------------------------
Positions(type, id) ==
  {k \in DOMAIN request.items : request.items[k] = Item(type, id)}
IdsIn(type) ==
  {request.items[k].id : k \in {j \in DOMAIN request.items : request.items[j].type = type}}

(* A request holds every call once, every result after the call it is the  *)
(* result of, and no second one, whatever the caller did to its history    *)
(* (responsesMessagesToInput: pendingCalls, seenCalls).                    *)
CallsArePaired ==
  /\ \A id \in IdsIn("function_call") : Cardinality(Positions("function_call", id)) = 1
  /\ \A id \in IdsIn("function_call_output") :
       /\ Cardinality(Positions("function_call_output", id)) = 1
       /\ \E call \in Positions("function_call", id) :
            \A result \in Positions("function_call_output", id) : call < result

Unchanged == changes = 0

(* A caller that keeps every answer whole and answers its calls once is    *)
(* never refused for its history, also when it stored it in between, as    *)
(* long as no stream gave it reasoning as text                             *)
(* (responsesMessagesToInput, responsesReasoningFromExtra).                *)
HonestHistoryIsAccepted ==
  Unchanged /\ (\A k \in DOMAIN history : ~history[k].thought) => request.status # "input"

(* Every request of such a caller replays all reasoning items of all the   *)
(* answers so far, once and in their order, those of an answer before its  *)
(* calls and after the calls of the answers before it                      *)
(* (decodeResponsesResponse, responsesReasoningFromExtra).                 *)
ReasoningIsReplayed ==
  Unchanged /\ request.status = "built" /\ phase = "server" =>
    /\ Numbers(request.items, "reasoning")
         = FlattenSeq([a \in DOMAIN answers |-> Numbers(answers[a], "reasoning")])
    /\ \A a, b \in DOMAIN answers :
         \A r \in ToSet(Numbers(answers[a], "reasoning")),
            c \in ToSet(Numbers(answers[b], "call")) :
           \A j \in Positions("reasoning", r), k \in Positions("function_call", c) :
             a <= b <=> j < k

(* "Responses also replays encrypted reasoning items across a stateless    *)
(* tool loop ... See opencodego/examples/toolcall for a bounded two-turn   *)
(* streaming function-tool exchange" (README.md): an answer can be sent    *)
(* back as it came.                                                        *)
AnswerCanBeSentBack == Unchanged => request.status # "input"
=============================================================================
