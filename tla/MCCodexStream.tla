---------------------------- MODULE MCCodexStream ----------------------------
(* Instances of CodexStream that TLC checks. *)
EXTENDS CodexStream
=============================================================================
