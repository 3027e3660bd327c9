------------------------ MODULE MCResponsesProducer ------------------------
(* Instances of ResponsesProducer that TLC checks. *)
EXTENDS ResponsesProducer
=============================================================================
