----------------------- MODULE MCResponsesConversation -----------------------
(* Instances of ResponsesConversation that TLC checks. *)
EXTENDS ResponsesConversation
=============================================================================
