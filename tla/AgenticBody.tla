----------------------------- MODULE AgenticBody -----------------------------
(***************************************************************************)
(* The bodies that NewAgenticLimitedHTTPClient puts around a successful    *)
(* response (agentic_http.go): agenticLimitedBody, which bounds the whole, *)
(* and around it, if the response says that it is an event stream or       *)
(* NDJSON, agenticEventLimitedBody, which bounds every record.             *)
(*                                                                         *)
(* Both count byte by byte, and once one of them has returned its error    *)
(* nobody reads on; so a Read of many bytes is as many Reads of one, each  *)
(* of which is allowed or refused.  The bound of an error body is never    *)
(* reached by who reads it, which stops there.                             *)
(***************************************************************************)
EXTENDS Naturals

CONSTANTS MaxEventBytes, MaxResponseBytes

ASSUME AgenticBodyAssumption ==
  MaxEventBytes \in Nat \ {0} /\ MaxResponseBytes \in Nat \ {0}

(* How the body is cut into records: at blank lines, at newlines, or not   *)
(* at all, when the response does not have one of the two types.           *)
Framings == {"sse", "ndjson", "none"}

(* read of agenticLimitedBody; read and lineEmpty of the other.            *)
NewCounts == [read |-> 0, event |-> 0, lineEmpty |-> FALSE]

(* The limit that another byte exceeds, if any.                            *)
Exceeded(counts, framing) ==
  IF counts.read >= MaxResponseBytes THEN "response_bytes"
  ELSE IF framing # "none" /\ counts.event >= MaxEventBytes THEN "event_bytes"
  ELSE "none"

(* Mutant *)
CountedByLine(counts, newline, framing) ==
  [read  |-> counts.read + 1,
   event |-> IF framing = "none" \/ newline THEN 0 ELSE counts.event + 1,
   lineEmpty |-> FALSE]

(* A byte that was allowed.  The newline that ends a record is counted,    *)
(* and ends the count.                                                     *)
Counted(counts, newline, framing) ==
  LET ends == newline /\ (framing = "ndjson" \/ counts.lineEmpty)
  IN  [read  |-> counts.read + 1,
       event |-> IF framing = "none" \/ ends THEN 0 ELSE counts.event + 1,
       lineEmpty |-> framing = "sse" /\ newline /\ ~ends]
=============================================================================
