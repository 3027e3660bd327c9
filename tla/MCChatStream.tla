---------------------------- MODULE MCChatStream ----------------------------
(* Instances of ChatStream that TLC checks. *)
EXTENDS ChatStream

Ev(kind, in, out) ==
  [kind |-> kind, usage |-> [input |-> in, output |-> out, total |-> Absent]]

(* Usage arrives with the completing chunk, and nothing malformed. *)
ShortEvents == {Ev("stop", Absent, Absent), Ev("usage", Present(0), Present(1))}
=============================================================================
