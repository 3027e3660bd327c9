------------------------ MODULE MCGenerateOperation -------------------------
(* The instance of GenerateOperation that TLC checks. *)
EXTENDS GenerateOperation
=============================================================================
