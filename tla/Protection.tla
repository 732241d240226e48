----------------------------- MODULE Protection -----------------------------
(***************************************************************************)
(* What an application hides behind the authentication filters: content    *)
(* that the response may only hold when the Authorization field is valid.  *)
(***************************************************************************)
EXTENDS Evaluation

CONSTANTS Secret,   (* the chunks that need authentication                  *)
          Gate,     (* filters that nothing passes without a valid field    *)
          Safe      (* filters that write no secret without a valid field   *)

Writing == {"output", "continue_ok", "complete_with_status", "complete_with_challenge"}

(* An output, or a function, that writes no secret                         *)
Public(o) == o.op \in Writing => o.content.chunk \notin Secret

Schemes == {"bearer_auth", "mac_auth"}

(* The function of a scheme filter is only called for a valid field: it    *)
(* may write what it likes.                                                *)
SafeLeaf(f) ==
  /\ Public(f)
  /\ f.op = "func" => Public(f.answer)
  /\ f.op \in {"path", "params", "header", "content", "authorization"} => Public(f.func)

(* A filter behind a gate need not be safe.                                *)
SafeParts(f) ==
  /\ f \in Leaf => SafeLeaf(f)
  /\ f.op = "then" => f.first \in Safe /\ (f.second \in Safe \/ f.first \in Gate)
  /\ f.op = "choice" => \A i \in DOMAIN f.opts : f.opts[i] \in Safe \cup {None}
  /\ f.op = "on_error" => {f.expr, f.handler} \subseteq Safe \cup {None}
  /\ f.op = "on_error_complete" => f.expr \in Safe \cup {None}

(* No on_error is a gate: it makes a parser that goes on of one that is    *)
(* complete.                                                               *)
GateParts(f) ==
  /\ f \in Leaf => f.op \in Schemes
  /\ f.op = "then" => f.first \in Gate \/ f.second \in Gate
  /\ f.op = "choice" => \A i \in DOMAIN f.opts : f.opts[i] \in Gate \cup {None}
  /\ f.op # "on_error"
  /\ f.op = "on_error_complete" => f.expr \in Gate

ASSUME ProtectionAssumption ==
  /\ Safe \subseteq Filter /\ \A f \in Safe : SafeParts(f)
  /\ Gate \subseteq Filter /\ \A f \in Gate : GateParts(f)
  /\ Explanation.chunk \notin Secret

(* The application only evaluates safe expressions. *)
Protected == Program \cup Later \subseteq Safe

Clean(msg) == \A i \in DOMAIN msg.body : msg.body[i] \notin Secret

(* What an authentication filter protects is only written for a valid      *)
(* field: its challenge ends the parsing, however the filters before it    *)
(* and around it are combined, in every evaluation on the context.         *)
AuthenticatedOnly ==
  Protected /\ ~Clean(response) => request.field[Authorization] = "valid"
=============================================================================
