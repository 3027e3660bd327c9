-------------------------------- MODULE Pipe --------------------------------
(***************************************************************************)
(* eino's schema.Pipe, through which every stream of the library reaches   *)
(* its caller, as src/ uses it: a bounded channel with a writer that sends *)
(* and closes and a reader that receives and closes.  Closing the reader   *)
(* makes a Send return "closed" but does not end a Recv; closing the       *)
(* writer ends the Recvs once the queue is empty.                          *)
(***************************************************************************)
EXTENDS Naturals, Sequences

(* What goes through a pipe: messages, numbered by what they were made of; *)
(* errors; the message that closes a stream with its usage.  A message     *)
(* that is not kept holds nothing but the SDK's usage.                     *)
Message(n, keep) == [type |-> "message", id |-> n, keep |-> keep, err |-> "none"]
Failed(e)  == [type |-> "error", id |-> 0, keep |-> TRUE, err |-> e]
UsageChunk == [type |-> "usage", id |-> 0, keep |-> TRUE, err |-> "none"]
EOFItem    == [type |-> "EOF", id |-> 0, keep |-> FALSE, err |-> "none"]

NewPipe == [queue |-> <<>>, sendClosed |-> FALSE, recvClosed |-> FALSE]

CanSend(pipe, cap) == Len(pipe.queue) < cap
Sent(pipe, item)   == [pipe EXCEPT !.queue = Append(@, item)]
CanRecv(pipe)      == pipe.queue # <<>> \/ pipe.sendClosed
NextItem(pipe)     == IF pipe.queue # <<>> THEN Head(pipe.queue) ELSE EOFItem
Received(pipe)     == IF pipe.queue # <<>> THEN [pipe EXCEPT !.queue = Tail(@)] ELSE pipe
=============================================================================
