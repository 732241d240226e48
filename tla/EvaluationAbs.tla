--------------------------- MODULE EvaluationAbs ---------------------------
(***************************************************************************)
(* Evaluating an expression answers the request with its meaning, in one   *)
(* step.                                                                   *)
(***************************************************************************)
EXTENDS Denotation

VARIABLES asked,    (* the expression and the request, whatever they are    *)
          result,   (* the parser the evaluation returns, in a set          *)
          reply     (* the response                                         *)

vars == <<asked, result, reply>>

Init ==
  /\ result = {}
  /\ reply = NewMessage

Evaluate ==
  /\ result = {}
  /\ LET p == Meaning(asked.expression, asked.request, NewMessage)
     IN result' = {p} /\ reply' = Reply(reply, p)
  /\ UNCHANGED asked

(* Another expression may be asked for once there is a result. *)
Ask ==
  /\ result # {}
  /\ result' = {}
  /\ UNCHANGED reply

Next == Evaluate \/ Ask

Spec == Init /\ [][Next]_vars
=============================================================================
