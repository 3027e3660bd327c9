--------------------------- MODULE MCBodyObserver ---------------------------
(* Instances of BodyObserver that TLC checks. *)
EXTENDS BodyObserver

Ev(kind, in, out) ==
  [kind |-> kind, usage |-> [input |-> in, output |-> out, total |-> Absent]]

Plain(kind) == Ev(kind, Absent, Absent)

(* A Messages stream whose message_delta comes before any output count. *)
MessagesEvents ==
  {Plain("chunk"), Plain("stop"), Plain("bad"),
   Ev("start", Present(1), Absent), Ev("delta", Absent, Present(1))}

ChatEvents ==
  {Plain("chunk"), Plain("stop"), Plain("badUsage"),
   [kind |-> "usage", usage |-> [input |-> Present(1), output |-> Present(1),
                                 total |-> Absent]]}

AllEvents == MessagesEvents \cup ChatEvents
=============================================================================
