---------------------------- MODULE MCRefinement ----------------------------
(***************************************************************************)
(* The meaning of every expression of an instance of Evaluation, which is  *)
(* defined by the meanings of its parts.                                   *)
(***************************************************************************)
EXTENDS MCEvaluation, Refinement

MCMeaning(f, req, msg) == ExprMeaning(f, req, msg)

(* What is evaluated on a context that has a response already              *)
MCLater == {Then(Write1, MethodGet)}
=============================================================================
