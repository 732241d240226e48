----------------------------- MODULE MetricSink -----------------------------
(***************************************************************************)
(* What a sender of metrics promises its callers: a call puts at most one  *)
(* datagram on the network, it returns, and what it returns is true:       *)
(* "sent" exactly when the whole message left, "omitted" only when nothing *)
(* did.                                                                    *)
(***************************************************************************)
CONSTANT Caller

VARIABLES busy,     (* the callers inside a call                            *)
          out,      (* what the call put on the network                     *)
          result    (* what the last call returned                          *)

vars == <<busy, out, result>>

Init ==
  /\ busy = [c \in Caller |-> FALSE]
  /\ out = [c \in Caller |-> "nothing"]
  /\ result = [c \in Caller |-> "none"]

Call(c) ==
  /\ ~busy[c]
  /\ busy' = [busy EXCEPT ![c] = TRUE]
  /\ out' = [out EXCEPT ![c] = "nothing"]
  /\ result' = [result EXCEPT ![c] = "none"]

Transmit(c) ==
  /\ busy[c]
  /\ out[c] = "nothing"
  /\ \E amount \in {"part", "whole"} : out' = [out EXCEPT ![c] = amount]
  /\ UNCHANGED <<busy, result>>

(* The answers that are true of what the call transmitted *)
Truthful(amount) ==
  IF amount = "whole" THEN {"sent"}
  ELSE IF amount = "part" THEN {"failed"}
  ELSE {"omitted", "failed", "threw"}

Return(c) ==
  /\ busy[c]
  /\ busy' = [busy EXCEPT ![c] = FALSE]
  /\ \E r \in Truthful(out[c]) : result' = [result EXCEPT ![c] = r]
  /\ UNCHANGED out

Next == \E c \in Caller : Call(c) \/ Transmit(c) \/ Return(c)

Spec == Init /\ [][Next]_vars /\ \A c \in Caller : WF_vars(Return(c))
=============================================================================
