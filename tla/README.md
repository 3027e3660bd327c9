# Formal models of eino-providers

TLA+ specifications of `eino-providers`, the Go library that offers several
model providers behind eino's interfaces. They model what is hard to test in
it: streams that are cancelled, cut off, abandoned or malformed while several
goroutines work on them; retries whose attempts must not be mixed up; and the
assembly of a streamed answer out of events that may be missing, repeated or
interleaved; byte limits that fall in the middle of a record; a conversation
whose history the caller keeps and may change. TLC checks the models on small
instances; TLAPS proves all of their safety properties, and that two of the
streams implement an abstract contract, for every instance.

## The system

| Part | Source | State | Operations | Hard because |
|---|---|---|---|---|
| Operation state | `opencodego/observation.go`, `errors.go` | attempt number, last HTTP error, observation of the body | begin attempt, record HTTP error, update body, classify | shared by all goroutines of a call; late updates of an earlier attempt |
| Nonstreaming call | `opencodego/chatmodel.go`, `transport.go`, `stream.go` (`observedJSONBody`) | one buffered body per attempt | RoundTrip, Read, Close, finalize, generate | the SDK retries; Read and Close run together; limits |
| SSE observer | `opencodego/body_observer.go`, `stream.go` (`observeSSEUsage`) | event in progress, output, pending error | Read, Close | data, terminal event and error in one read; silent servers |
| Chat stream | `opencodego/stream.go` (`normalizeObservedStream`) | SDK pipe, output pipe | Recv, Send, cancel, Close | four goroutines, two pipes, a callback |
| Responses assembly | `opencodego/responses_stream.go` | items, calls, ids, texts, budget | one handler per event | any order of events; snapshots repeat what was streamed |
| Responses producer | `opencodego/responses_model.go` | body, pipe | parse, close, report | several outcomes compete for the last item |
| Responses codec | `opencodego/responses.go` | none; the caller's history is its state | build request, decode response | pairing of tool calls and results, and reasoning items, over several turns |
| Codex stream | `openaicodex/responses.go`, `chatmodel.go` | open calls, reasoning | one handler per event | goes on after completion; no callback closes the body |
| Agentic contract | `agentic.go`, `agentic_http.go` | blocks seen, bytes read | limits, validation, split and restore | streamed blocks repeat their index; limits across reads |
| Agentic producers | `claude`, `ollama`, `openaicodex` (`agentic*.go`) | scanner, calls in progress, pipe | request, scan, decode, send, close | the scanner hands over half a line before an error; calls come by turns; small pipes |
| Registry, factory, error classes | `registry.go`, `factory.go`, `errors.go` | map of constructors | register, look up, classify | concurrent use |
| Gemini, OpenAI, Claude and Ollama classic | `gemini`, `openai`, `claude`, `ollama` | none | constructors | wrappers of eino-ext models |

How they interact. `chatModel.generate` puts a fresh `operationState` into the
request's context and calls the SDK, which calls `observingTransport.RoundTrip`
once per attempt. RoundTrip begins an attempt and, for a successful response,
wraps the body: `observedJSONBody` for JSON, `terminalBodyObserver` for SSE.
The SDK reads the wrapped body; the wrapper records usage, completion and
errors in the state; `generate` or `normalizeObservedStream` reads them there
when the SDK has returned, because the usage and errors the SDK reports are not
trusted. On the Responses route there is no SDK: `runResponsesStream` parses the
body and sends into the caller's pipe. In both, `context.AfterFunc` closes the
source when the request's context ends. The Codex model and the native agentic
models have no such callback: they rely on `net/http` to end a read. A native
agentic model is wrapped twice: its HTTP client limits the bytes of a body and
of each of its records before the scanner sees them, and `boundedAgenticModel`
counts the blocks of the messages on their way to the caller.

## Modules

| Module | Models | Extends |
|---|---|---|
| `OperationState` | `operationState`, `wireUsageObservation`, `observedUsageTokenUsage`, `classifyInvocationError`, as operators on a record | |
| `GenerateOperation` | one nonstreaming call with all its attempts | `OperationState` |
| `BodyObserver` | `terminalBodyObserver` and `observeSSEUsage` | `OperationState` |
| `Pipe` | eino's `schema.Pipe` (external) as operators on a record | |
| `StreamContract` | abstract: what a caller may rely on from an `opencodego` stream | |
| `ChatStream` | network, observer, SDK (external), `normalizeObservedStream`, callback, caller | `BodyObserver`, `Pipe` |
| `ResponsesStream` | `dispatchResponsesEvent`, `responsesStreamState` | |
| `ResponsesProducer` | `responsesModel.Stream`, `runResponsesStream`, callback, caller | `Pipe` |
| `CodexStream` | the raw Codex model's `Stream`, `streamResponses` and its handlers, the deferred calls, Generate or another caller | `Pipe` |
| `AgenticBody` | `agenticLimitedBody` and `agenticEventLimitedBody`, as operators on their counts | |
| `AgenticStream` | the native `Stream` of Claude, Ollama and Codex under those limits, the bounded model, the caller | `AgenticBody`, `Pipe` |
| `ResponsesConversation` | `buildResponsesRequest`, `responsesMessagesToInput`, `decodeResponsesResponse` in a conversation of several turns | |
| `MC*` | the instances that TLC checks | one each |
| `Pipe_proofs` | lemmas about the pipe and about induction and recursion over a sequence | `Pipe` |
| `GenerateOperation_proofs` | the theorems about the nonstreaming call | `GenerateOperation` |
| `ChatStream_proofs` | the theorems about the observer and the chat stream | `ChatStream`, `Pipe_proofs` |
| `ResponsesStream_proofs` | the theorems about the assembly | `ResponsesStream`, `Pipe_proofs` |
| `ResponsesProducer_proofs` | the theorems about the producer | `ResponsesProducer`, `Pipe_proofs` |
| `CodexStream_proofs` | the theorems about the Codex stream | `CodexStream`, `Pipe_proofs` |
| `AgenticStream_proofs` | the theorems about the native streams | `AgenticStream`, `Pipe_proofs` |
| `ResponsesConversation_proofs` | the theorems about the conversation | `ResponsesConversation`, `Pipe_proofs` |

**OperationState.** Every access to the state is one critical section of
`state.mu`, so each is one operator and is used in one atomic step. Counts keep
their presence and their width: `MaxInt` stands for the largest `int`, and
`WrappedSum` is Go's addition. Cached and reasoning details are only copied and
are left out, and so is the fallback by which `mapInvocationError` finds an HTTP
error inside the error itself: on these routes the transport hands out a
sanitized response and keeps the typed error in the state.

**GenerateOperation.** `call` is where the SDK is, `body[a]` the wrapper of
attempt `a`. `Read` is split where it gives up control: on entering the network
read, and at EOF where it unlocks before `finalizeBody`. `Close` is split the
same way, so that a Read and a Close may meet anywhere. A document is a number
of units and what it says about usage; attempt `a` reports the counts `a`, which
makes attempts tell apart and, with `MaxInt = 3`, makes those of the second
overflow. The SDK may give a body up at any point and close it, may decode what
it has read, may retry any answer, and is interrupted by the context when it
waits.

**BodyObserver.** The body is a sequence of units. A `part` is a piece of an
event, any other unit completes the event, and its kind is what the observer
makes of it: an ordinary chunk, usage, `message_start`, `message_delta`, the
terminal event, a malformed event, malformed usage. `Read` scans one unit at a
time; a batch is what one network read returned, with or without an error. The
byte limit of an event is a limit on its units.

**ChatStream.** The SDK is a goroutine that reads through the observer, decodes
every event into at most one message, stops at its terminal event or reads to
EOF, may reject an event, and closes the body at the end. `Normalized` is the
order of tests in the loop of `normalizeObservedStream`. A panic in `Recv` is
possible at any time.

**StreamContract.** Chunks are received in the order in which they were made; a
closing chunk with the usage comes after all of them and only for a completed
response; EOF comes only for a completed response all of which was received; a
stream ends once. `ChatStream` and `ResponsesProducer` implement it under
refinement mappings stated in their modules (`Contract`, `ImplementsContract`).

**ResponsesStream.** One operator per handler takes the state to what it does,
or to `Fails`; one action per event type. Texts are sequences of tokens, ids and
raw reasoning items are model values. Names, roles, statuses and JSON shapes that
do not fit all end the stream and are the action `Fail`. `st` keeps
what the Go struct keeps; `emitted` records what the caller has been sent. The
properties look at every output by itself: the order in which the texts of
several message items interleave in one eino message is not judged. `Completed`
takes the items of the final response one after the other; the loop is the
recursive function `Reconcile`, and what has been delivered is stated by
recursive functions over the chunks, because proofs can reason about those.

**ResponsesProducer.** What an event means is left to `ResponsesStream`: here an
event is ignored, brings a chunk, is rejected, or completes the response with
some staged chunks and the terminal message. The callback of `context.AfterFunc`
is a goroutine of its own: after the context has ended it starts at any time,
unless `stopCancellation` comes first (`StopsCallback`), which does not wait for
one that was started and whose answer is ignored. It may therefore be about to close the body when
the caller has the end of the stream and the producer is gone. Both close through
`observedBodySource`, whose `sync.Once` (external) is the state of `body`: the
first begins and ends the close of the connection in two steps
(`ProducerBeginsToClose`, `ProducerCloses`, and so for the callback), the other
waits for the second step and learns of no error (`ProducerFindsBodyClosed`).
`closes` and `closeFailed` record what happened to the connection, whoever did it;
`closeErr` is what the producer knows of it. The deferred `cancel` comes when the
callback has been stopped or started, and has no effect.

**CodexStream.** One action reads an event, looks at the context and handles the
event; it may as well be the event that was left in the buffer when the stream
ended, which is handled whatever became of the context. The handlers keep
`openCalls`, `nextIndex`, `sawToolCall` as the code does. The server is an actor
that keeps to its protocol, so that there is something to compare the assembled
calls with: it numbers its calls in order, repeats streamed arguments in the
finished item, and may leave out an announcement, its call id, or send it
unparseable. There is one item at a time to send; the caller drops what it has
when it meets an error or leaves, as Generate does. The model does not implement
`StreamContract`, because the code goes on reading after `response.completed`
and may send an error behind the terminal chunk; its EOF is judged by
`EOFIsAnAnswer`.

**AgenticBody and AgenticStream.** A body is read byte by byte: a `Part`, the byte
that makes a line an event of the protocol, or a newline. Carriage returns are
left out: the code counts them like other bytes and lets them stand in an empty
line, so that what is shown is shown of bodies whose lines end in a newline, not
of those that use CRLF. Once a limit has returned its
error nobody reads on, so a read of many bytes is as many reads of one. The
three providers are three instances of one loop, told apart by `provider`: what
a line means (`HandleClaude`, `HandleOllama`, `HandleCodex`), when a record ends,
and whether the goroutine returns after the last message (Codex reads on). The
server keeps to its protocol until it is cut off, fails, garbles a line or falls
silent, so that there is something to compare the answer with; a Claude server
may stream two calls by turns. `record` is kept by the definition of a record
and not by the counters of the code, which `LimitsAreExact` compares with it.
A message is the set of blocks it carries; reasoning is not told apart from
text. `json.Valid` of the arguments of a Claude call is whether there are any.

**ResponsesConversation.** There is no server state: `request` is computed from
the whole `history` by a recursive function, as the loop of
`responsesMessagesToInput` does it.
A message is its role, whether it has text and reasoning text, the reasoning
items in its Extra with the Go type they have, its calls and the call it
answers. The caller is an actor that may do anything to its history; `changes`
counts what it should not do, and the properties about an honest caller ask that
there was nothing. Storing the history is not a change: it turns
`[]json.RawMessage` into `[]any`, which the code provides for. The order of texts
and calls inside one answer is not kept by the decoder and not judged.

Operators under a comment "Mutant" are variants of the operator that follows
them, each a plausible bug in the code it models. Putting one in the place of its
operator makes the property named for it in `PROJECT.json` fail.

## What is checked

| Run | Configuration | Bounds | Shows |
|---|---|---|---|
| `generate` | `MCGenerateOperation.cfg` | 2 attempts, bodies of 1 to 3 units, buffer of 2 | observations, errors, usage and closing belong to the right attempt |
| `observer` | `MCBodyObserver.cfg` | 3 units, 2 per read, events of 2 | what the SDK may see, what is recorded first, which usage results; terminal events and Close end a read |
| `observer_usage` | `MCBodyObserverUsage.cfg` | 4 units | finding, see below |
| `chat_stream` | `MCChatStream.cfg` | 3 units, 2 per read, SDK pipe of 1 | the stream implements `StreamContract`; its usage chunk is exact; EOF leaves nothing behind; cancellation and abandonment end everything; a receiving caller is answered |
| `responses_identity` | `MCResponsesStreamIdentity.cfg` | 2 outputs, 2 item ids, 2 call ids, symmetric | calls and items are not mixed up |
| `responses_data` | `MCResponsesStreamData.cfg` | 2 outputs, texts of up to 2 tokens, budget of 3 | every token is delivered once, within the budget |
| `producer` | `MCResponsesProducer.cfg` | 3 events, 2 staged chunks, pipe of 2 | the stream implements `StreamContract`, closes its connection once and before it tells the end, releases it when cancelled, answers its caller |
| `codex` | `MCCodexStream.cfg` | 2 calls, 1 token of arguments, 1 text or reasoning item, pipe of 1 | tool calls are whole; EOF is an answer; a receiving caller is answered |
| `codex_close` | `MCCodexStreamClose.cfg` | 1 call | finding, see below |
| `agentic_stream` | `MCAgenticStream.cfg` | records of 3 bytes, 2 calls of 1 fragment, 1 text, 2 bytes of padding, 2 blocks, pipes of 1 and 2 | limits are exact; calls are whole; EOF is an answer; the stream ends and is answered |
| `conversation` | `MCResponsesConversation.cfg` | 4 messages, 2 answers of 3 items together, 2 call ids, 1 change | requests are paired; honest histories are accepted; reasoning is replayed |
| `conversation_stream` | `MCResponsesConversationStream.cfg` | the same | finding, see below |

Why these bounds are enough. Two attempts give a late body and a retried error;
a third only repeats the relation between a body and its successor. A buffer of
two and a body of three give every case of room: none, some, exactly enough, one
too many. Three units in batches of two let an event start in one read and end
in the next, with something behind its end, and let a `message_start` follow a
`message_delta`. A pipe of one fills up with a single message that nobody takes,
which is what a full pipe of sixteen does. Two outputs, two ids of each kind are
the smallest number that can be confused, and item ids and call ids are
interchangeable, which justifies the symmetry (no liveness is checked there).
Texts of two tokens are streamed in part, whole or not at all. The limit on the
number of outputs is larger than any instance that ends in minutes, and is not
reached. A Codex call of one token has its arguments empty, streamed, or only in
the finished item, which are the cases the handlers tell apart. A record of
three bytes is too small for some events with padding and exactly large enough
for others, with the blank line that ends it; a response limit of twenty cuts
the longer answers off. Two answers, two calls and a result between them are the
shortest conversation in which a call can be answered twice, too early or in the
wrong turn. How a context ends, by cancellation or by its deadline, makes no
difference to `ChatStream`, `CodexStream` and `AgenticStream`, which is why one
of them is enough there.

Deadlock is not checked: every one of these systems stops when its call is over.

Fairness. A goroutine that can run does (`StreamRead`, `SDK`, the normalizing
goroutine, the producer, the callback). A network read returns once its body is
closed or its context has ended, and closing a body returns, which `net/http`
does. Nothing is assumed of the server. Nothing is assumed of the caller either,
except in `CallerIsAnswered`, whose premise is that it keeps receiving. The SDK
is assumed not to stall. Panics, failures and cancellations are never fair.

### Divergences found

`AnswerCanBeSentBack`: the Responses route "also replays encrypted reasoning
items across a stateless tool loop" and refers to `opencodego/examples/toolcall`
for a streaming exchange of two turns (`README.md:163`). The example appends the
concatenated answer to its history and sends it. If the server streamed the
reasoning as text too, the answer has `ReasoningContent`
(`responses_stream.go:209`), which `hasUnsupportedResponsesContent` refuses
(`responses.go:264`): the second turn fails before it is sent. A caller has to
clear the field itself.

`UsageFitsInt`: counts whose sum exceeds an `int` are malformed usage, says
`stream_test.go:91`, and both `usageFromRaw` and the `message_delta` case of
`observeSSEUsage` make the test. A `message_start` that arrives after a
`message_delta` replaces the input count and keeps the output count without
testing their sum (`stream.go:115`), and the total handed to the caller is
negative. Servers do not send that order; nothing in the code refuses it.

`ClosedReaderAborts`: a Codex stream "aborts when ctx is cancelled or when the
consumer closes the reader", says the comment of `Stream`
(`openaicodex/chatmodel.go:158`). The goroutine learns of a closed reader only
from its next `Send`. While the server is silent there is none, so the goroutine
and the connection stay until the server speaks or the caller's context ends;
the deferred `cancel` runs only when the goroutine returns.

Seen while modelling, and not the subject of a run. The ids and streaming indexes
of Ollama's calls are positions in one record (`ollama/agenticmodel.go:359`), so
the calls of two records of a stream are taken for one; `ToolCallsAreWhole`
leaves Ollama out. A cancelled or failed read of an agentic stream is reported as
a `ResourceLimitError` (`claude/agenticmodel.go:168`), and a real limit may be
hidden by the decoding error of the line it cut. `opencodego`'s
`SplitAgenticContinuation` removes the response identity that its
`RestoreAgenticContinuation` asks for (`agentic_continuation.go:24`).

## What is proved

40 theorems in 7 modules, and `Pipe_proofs` with lemmas they share. They hold
for every value of the constants that satisfies the named assumption of the
module: capacities of pipes, sizes of reads, limits, numbers of events, calls,
outputs, texts. The assumptions are what the constants of the code and the types
of Go give (capacities, limits and read sizes are positive, the other bounds are
natural numbers, an id that is missing is no id) and TLC evaluates them on every
run. An invariant was checked by TLC on the instances of the runs before it was
proved (`ChatStream` 396,082 and 2,177,421 distinct states, `AgenticStream`
888,910 and 888,074, `CodexStream` 5,397,852, `ResponsesStream` 30,972 and
31,452, `ResponsesConversation` 562,372). In every module there is one lemma per
action, or per kind of step, and the theorems combine them.

**`GenerateOperation_proofs`** (any number of attempts, any length of body and
limit, any `MaxInt` at least the number of attempts).
`TypeCorrect`: `TypeOK`, with the bound on the buffer. `ObservationIsCurrent`:
`ObservationBelongsToAttempt`. `BlameIsRight`: `FinalAttemptIsBlamed`.
`UsageIsObserved`: `UsageIsThatOfTheMessage`. `NoBodyIsLeftOpen`:
`BodiesLeftAreClosed`. There are two invariants, one on top of the other.
`Inv` (theorem `InvHolds`) gives the first three. That an observation belongs to
its attempt needs the facts that bodies of attempts to come are empty
(`FutureIsEmpty`), that a body is finalized by at most one of Read and Close and
only after it was marked so (`FinalizersAreKnown`), and that a body which has
begun nothing yet has no observation (`SentIsFresh`). That the last attempt is
blamed needs that the HTTP error in the state is always the answer of the
current attempt (`HTTPErrorIsTheAnswer`), that errors recorded by an observer
never look like an HTTP or authentication error (`ObservedErrors`), and that
nothing changes after the outcome (`OutcomeIsLast`). `UsageInv` (theorem
`UsageInvHolds`) follows the body of the current attempt to its end: what a
finalized body has recorded is its whole document (`RecordedIsFinal`,
`SettledIsWhole`), the SDK decodes a message only from a settled body
(`MessageIsSettled`), and a body is left behind only closed (`LeftIsClosed`).

**`ChatStream_proofs`, about the observer** (any events, length of body, size of
reads and limit of an event). `OnlyWholeEvents`: `ExposesWholeEvents`.
`EndIsClean`: `CleanEndIsComplete`. `OperationKnowsTheEnd`: `EndIsRecorded`.
`BodyIsReleased`: `SourceIsReleased`. `UsageIsObserved`: `UsageIsThatOfTheWire`.
The properties speak of what was exposed; the invariant accounts for the rest of
the wire: all of it is exposed, in the event in progress or in the batch still
to be scanned, until Read drops what follows the end (`NothingIsLost`), and then
Read does not go back to the network (`ReaderHasStopped`).

**`ChatStream_proofs`, about the stream**. `NothingIsLeftBehind`: `EOFLeavesNothingBehind`.
`UsageChunkIsObserved`: `UsageChunkIsExact`. `KeepsTheContract`:
`ImplementsContract`. Every step of the stream is a step of the observer or
leaves its variables alone, so that the observer's invariant is simply part of
this one. The rest says where the messages are on their way: the caller has the
first of those produced, then the output pipe, the normalizing goroutine and the
SDK's pipe hold the others in order (`CallerHasTheFirst`, `NormHoldsTheNext`,
`QueueIsInOrder`, `SDKHoldsTheLatest`), and nothing is missing unless a pipe was
closed by its reader (`NothingIsDropped`); an EOF was earned by a complete body
(`EndIsEarned`). With these every step of `ChatStream` maps to a step of
`StreamContract` or to a stutter. The contract states no fairness, so that this is
the whole refinement.

**`ResponsesProducer_proofs`**. `EndComesInOrder`: `EndIsOrderly`.
`KeepsTheContract`: `ImplementsContract`. The queue continues what was received
(`QueueIsInOrder`); behind it stands at most the report of the end, which is
decided only once the body is closed (`ReportIsBehind`, `BodyIsClosedFirst`) and
says what happened (`ReportIsHonest`, `ReportReachesTheCaller`). The connection
is closed by the producer or by the callback, which may be at work before, with
or after it (`OneCloses`). That the callback drops the error of its close does
no harm, because it was started by a context that had ended, and the producer
looks at the context before it calls a response completed (`GoodEndIsClean`).

**`ResponsesStream_proofs`** (any number of outputs, ids and texts, any budget).
`IdsAreOwned`: `ItemIdsAreOwned`. `StateIsDelivered`: `StateIsWhatWasDelivered`.
`TheAnswerIsDelivered`: `AnswerIsDelivered`. `ToolCallsStayApart`:
`ToolCallsAreDistinct`. `DeliveryStaysBounded`: `DeliveryIsBounded`.
`FinishedItemsStayQuiet`: the action property `FinishedItemsAreQuiet`. Every
handler is a `Step` on one output: it leaves the other outputs alone
(`OnlyOutput`), keeps what every state satisfies (`Sound`), and either sends
nothing (`Quiet`) or one chunk that says exactly what it changed (`Loud`). One
lemma (`StepCovers`) shows that a `Step` preserves all that the chunks sent say
of the state (`Covers`: the texts, arguments and ids told, the indexes numbered
without gaps, the budget), so that per handler only its being a `Step` is left.
`response.completed` takes a step for every item of the response; the state
after `n` items is the induction hypothesis (`ReconciledTo`). A caller may leave
while those chunks are sent and has then only the first of them, which is why
the invariant keeps `GapFree`, `Distinct` and `Bounded` of what was received
beside `Covers`, which then no longer holds.

**`CodexStream_proofs`**. `EOFIsTheAnswer`: `EOFIsAnAnswer`.
`ToolCallsArriveWhole`: `ToolCallsAreWhole`. Three invariants: types and the
order of the pipe (`BaseInv`), the answer (`AnswerInv`), the calls in it
(`CallsInv`). The last two speak of `Made`: what the caller has, what is in the
pipe and what is being sent, as one sequence, which only the handling of an
event makes longer. `ToolCallsArriveWhole` has the hypothesis that only
announcements of a call may be lost (`Garbled \subseteq {"added"}`), which is
what the handlers ignore and repair from the finished item; a lost piece of
arguments does lose arguments. Both runs are instances of it.

**`AgenticStream_proofs`** (each of the three providers). `LimitsHold`:
`LimitsAreExact`. `EOFIsTheAnswer`: `EOFIsAnAnswer`. `ToolCallsArriveWhole`:
`ToolCallsAreWhole`. Three invariants, each on top of the one before. `Inv`
relates the counts of the limited bodies to the record and the response as the
bytes define them (`BytesAreCounted`), and the blocks counted to the blocks
received (`BlocksAreCounted`). `AnswerInv` says that unless an error is on its
way every text the server has sent is in the line, the data, the item, the queue
or with the caller (`AnswerIsCounted`, `AnswerIsWhole`), and that the message
marked as the last closes them. `CallsInv` says where every call is that the
server has announced. One of Claude is opened, streamed by turns with others and
stopped: while it is open the decoder has what was handled of its arguments (the
last event may still be in the line), and once it was stopped one message has
them whole and no other speaks of it (`ClaudeCall`). One of Codex is one event,
in the line, in the data or in one message (`CodexCall`).

**`ResponsesConversation_proofs`** (conversations, answers and numbers of calls
of any size). `CallsStayPaired`: `CallsArePaired`. `HonestHistoriesAreAccepted`:
`HonestHistoryIsAccepted`. `ReasoningStaysReplayed`: `ReasoningIsReplayed`. A
request is a function of the history, so there are two layers. The state
invariant `Inv` says which history it is: a request is that of the history as it
is (`RequestIsCurrent`), the ids that the server has given are its own
(`IdsAreFresh`), and as long as nothing was changed, `upto` names for every
message how many of the answers are among the messages so far, each of which is a
prompt, the next answer, or the first result of a call of an earlier answer
(`IsHonest`). What the request then holds is shown by induction over the
messages of the history. `Paired` needs no such history: results stand behind
their calls and what is pending was called. `Accepted` says that no call has been
seen which is not of an answer so far, and that a call of theirs without a result
is pending. `Replays` says that the reasoning is that of the answers so far, one
after the other, and where it stands to the calls.

**`Pipe_proofs`**: what each operator on a pipe does to its queue, and three facts
on which the inductions rest: an inductive subset of the naturals is all of them
(`SetInduction`), a recursive definition over `0 .. n` has a solution
(`RecursionExists`) and only one (`RecursionIsUnique`). They are stated with sets
and functions as their parameters instead of operators, so that they can be
instantiated.

### Only model-checked

- All liveness (`CallerIsAnswered`, that everything ends, that a read ends):
  fairness and ENABLED are out of the prover's reach.
- The three divergences above are counterexamples that TLC finds.

## What is not modelled

See `components` in `PROJECT.json` for every part and its reason. In short: the
registry runs every operation under one lock, error classes are a pure mapping,
a continuation is two calls without state; building the requests of the native
agentic models, their `Generate`, and the limits on request and error bodies are
sequential and left out of `AgenticStream`; thin
wrappers of eino-ext models, configuration, request headers, examples and
scripts hold no state worth a model. SSE line framing, JSON decoding and the text
of errors are abstracted to their result. The SDKs, `net/http` and eino's pipe
are modelled from their use here and marked external in the map.

## Plan

1. Done: the nonstreaming call, the SSE observer, the chat stream, the Responses
   stream and producer, the contract, the Codex stream, the first theorems.
2. Done: the limited bodies and the native agentic streams of Claude, Ollama and
   Codex; the Responses request and answer over a conversation.
3. Done: proofs of all safety properties of the nonstreaming call, the observer,
   the chat stream, the Responses stream and producer, the Codex stream, the
   native streams and the conversation; proofs of the two refinements.
4. Codex against a server that stays silent after `response.completed`; the
   split and restoring of continuations.
