--------------------------- MODULE StreamContract ---------------------------
(***************************************************************************)
(* What a caller of a streaming operation may rely on, whatever protocol,  *)
(* SDK and transport are behind it.  The provider produces chunks; the     *)
(* caller receives them in order, and the stream ends for it exactly once: *)
(* with EOF, with an error, or because the caller closed its reader.  EOF  *)
(* means that the server completed its response and that the caller has    *)
(* every chunk of it.  The closing chunk with the usage comes at most      *)
(* once, after all the others, and only for a completed response.          *)
(*                                                                         *)
(* The promise abstracts from how any producer works: it is the            *)
(* specification that ChatStream is shown to implement.                    *)
(***************************************************************************)
EXTENDS Naturals, Sequences

CONSTANT Chunk

VARIABLES
  produced,    \* the chunks the provider has made of the response so far
  complete,    \* the server completed the response and nothing was wrong
  received,    \* those the caller has received, in that order
  closing,     \* the caller has the closing usage chunk
  end          \* how the stream ended for the caller

contractVars == <<produced, complete, received, closing, end>>

Init ==
  /\ produced = <<>> /\ complete = FALSE
  /\ received = <<>> /\ closing = FALSE
  /\ end = "open"

Produce(c) ==
  /\ produced' = Append(produced, c)
  /\ UNCHANGED <<complete, received, closing, end>>

Complete ==
  /\ ~complete /\ complete' = TRUE
  /\ UNCHANGED <<produced, received, closing, end>>

Receive ==
  /\ end = "open" /\ ~closing /\ Len(received) < Len(produced)
  /\ received' = Append(received, produced[Len(received) + 1])
  /\ UNCHANGED <<produced, complete, closing, end>>

(* Nothing is left to produce or to receive. *)
Finished == complete /\ received = produced

ReceiveClosing ==
  /\ end = "open" /\ ~closing /\ Finished
  /\ closing' = TRUE
  /\ UNCHANGED <<produced, complete, received, end>>

ReceiveEOF ==
  /\ end = "open" /\ Finished
  /\ end' = "EOF"
  /\ UNCHANGED <<produced, complete, received, closing>>

ReceiveError ==
  /\ end = "open" /\ ~closing
  /\ end' = "error"
  /\ UNCHANGED <<produced, complete, received, closing>>

Abandon ==
  /\ end = "open"
  /\ end' = "closed"
  /\ UNCHANGED <<produced, complete, received, closing>>

Next ==
  \/ \E c \in Chunk : Produce(c)
  \/ Complete \/ Receive \/ ReceiveClosing
  \/ ReceiveEOF \/ ReceiveError \/ Abandon

Spec == Init /\ [][Next]_contractVars
=============================================================================
