----------------------------- MODULE Refinement -----------------------------
(***************************************************************************)
(* The calls, returns and frames of an evaluation compute the meaning of   *)
(* the expression, as EvaluationAbs states it.                             *)
(***************************************************************************)
EXTENDS Evaluation, Denotation

Meanings == INSTANCE EvaluationAbs WITH
  asked  <- [expression |-> program, request |-> request],
  result <- IF mode = "done" THEN {par} ELSE {},
  reply  <- response

(* The meaning of an expression is made of the meanings of its parts. *)
Compositional ==
  \A f \in Filter, req \in Request, msg \in Message :
    Meaning(f, req, msg) = ExprMeaning(f, req, msg)

(* Every evaluation returns the meaning of the expression and answers with *)
(* it in one step, and nothing else changes the response.                  *)
ComputesMeaning == Meanings!Spec

(* Every expression that is evaluated is answered. *)
EveryEvaluationEnds == (mode = "apply") ~> (mode = "done")
=============================================================================
