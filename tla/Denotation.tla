----------------------------- MODULE Denotation -----------------------------
(***************************************************************************)
(* What a filter expression means: the parser it maps a message to, by its *)
(* structure, and what that parser makes of the response.                  *)
(***************************************************************************)
EXTENDS Filters, FiniteSetsExt

(* The meaning of the parts; that of an expression is its denotation.      *)
CONSTANT Meaning(_, _, _)

(* The first option that does not fail, or that completes *)
Alternatives(opts, req, msg) ==
  LET tried == {i \in DOMAIN opts : ~IsNone(opts[i])}
      succeeded == {i \in tried : NotFailedOrComplete(Meaning(opts[i], req, msg))}
  IN IF succeeded = {} THEN FailWith(msg, NotFound)
                       ELSE Meaning(opts[Min(succeeded)], req, msg)

ExprMeaning(f, req, msg) ==
  CASE f.op = "then" ->
         LET p == Meaning(f.first, req, msg)
         IN IF p.failed \/ p.complete THEN p ELSE Meaning(f.second, req, p.msg)
    [] f.op = "choice" -> Alternatives(f.opts, req, msg)
    [] f.op \in {"on_error", "on_error_complete"} /\ IsNone(f.expr) -> Parse(msg)
    [] f.op = "on_error" /\ ~IsNone(f.expr) ->
         LET p == Meaning(f.expr, req, msg)
         IN IF ~IsNone(f.handler) /\ (p.failed \/ HasError(p.msg.status))
            THEN Meaning(f.handler, req, p.msg)
            ELSE Parse(msg)
    [] f.op = "on_error_complete" /\ ~IsNone(f.expr) ->
         LET p == Meaning(f.expr, req, msg)
         IN IF p.complete \/ ~(p.failed \/ HasError(p.msg.status)) THEN p
            ELSE IF f.status = 0 THEN Complete(p.msg)
            ELSE Complete(SetStatus(p.msg, f.status))
    [] OTHER -> LeafFilter(f, req, msg)

(* What a parser adds to the response: a failed one its status, another    *)
(* one the headers and the body of its message as well.                    *)
Reply(before, p) ==
  IF p.failed
  THEN SetStatus(before, IF p.msg.status = 0 THEN InternalServerError ELSE p.msg.status)
  ELSE [status |-> IF p.msg.status = 0 THEN OK ELSE p.msg.status,
        header |-> [n \in HeaderName |-> IF p.msg.header[n] = NoValue THEN before.header[n]
                                         ELSE p.msg.header[n]],
        body   |-> before.body \o p.msg.body]
=============================================================================
