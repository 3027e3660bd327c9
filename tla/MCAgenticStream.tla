--------------------------- MODULE MCAgenticStream ---------------------------
(* Instances of AgenticStream that TLC checks. *)
EXTENDS AgenticStream
=============================================================================
