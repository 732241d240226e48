---------------------------- MODULE MCEvaluation ----------------------------
(***************************************************************************)
(* Instances of Evaluation for TLC: the filter expressions up to a depth   *)
(* over a few leaves.                                                      *)
(***************************************************************************)
EXTENDS Evaluation

CONSTANTS v1, v2, c1, c2, get, post, root, other, Accept, Cache

Plain(c)  == [type |-> NoValue, chunk |-> c]
Typed(c)  == [type |-> v1, chunk |-> c]
MCExplanation == [type |-> v1, chunk |-> c1]

Wrap(o) == [op |-> "func", answer |-> o]

MethodGet  == [op |-> "method", methods |-> {get}]
Write1     == [op |-> "output", content |-> Typed(c1)]
Rheader    == [op |-> "rheader",
               dict |-> [n \in HeaderName |-> IF n = Cache THEN v2 ELSE NoValue]]
Challenge  == [op |-> "authorization", challenge |-> v1, func |-> None]
Continue   == Wrap([op |-> "continue_ok", content |-> Plain(c2)])
Finish     == Wrap([op |-> "complete_with_status", code |-> 200, content |-> Plain(c2)])
Teapot     == Wrap([op |-> "fail_with", code |-> 418])
BareFail   == Wrap([op |-> "fail"])
Denied     == Wrap([op |-> "complete_with_error", code |-> 403])
HeaderOnly == [op |-> "header", fields |-> <<Accept>>, func |-> None]

Thens(F, G)   == {Then(f, g) : f \in F, g \in G}
ChoiceOf(F, G) == {[op |-> "choice", opts |-> <<f, g>>] : f \in F, g \in G}
OnErrors(F, G) ==
  {[op |-> "on_error", expr |-> f, handler |-> g] : f \in F, g \in G}
Guards(F, codes) ==
  {[op |-> "on_error_complete", expr |-> f, status |-> c] : f \in F, c \in codes}

OrNone(F) == F \cup {None}

Combined(F, G) ==
  Thens(F, G) \cup ChoiceOf(OrNone(F), OrNone(G))
    \cup OnErrors(OrNone(F), OrNone(G)) \cup Guards(OrNone(F), {0, 503})

(* Every combination of the leaves, and every combination of those with a  *)
(* leaf on the one or the other side.                                      *)
Leaves == {MethodGet, Write1, Rheader, Continue, Finish, BareFail}
Depth1 == Combined(Leaves, Leaves)
Depth2 == Combined(Depth1, Leaves) \cup Combined(Leaves, Depth1)
MCFilter == Leaves \cup Depth1 \cup Depth2
             \cup {[op |-> "choice", opts |-> << >>]}

(* The functions of a disciplined application, and its other leaves *)
StrictLeaves == {MethodGet, Challenge, Continue, Teapot, Denied}
StrictDepth1 == Combined(StrictLeaves, StrictLeaves)
StrictFilter ==
  StrictLeaves \cup StrictDepth1
    \cup Thens({Continue}, StrictDepth1) \cup ChoiceOf(StrictDepth1, {Teapot})
    \cup OnErrors({Teapot}, StrictDepth1) \cup Guards(StrictDepth1, {0})

(* What is evaluated on a context that has a response already: every part  *)
(* of a response, alone and after a failure                                *)
Write2   == [op |-> "output", content |-> [type |-> v2, chunk |-> c2]]
Session  == {Write1, Write2, Rheader, Teapot, Finish, Then(Write2, Teapot)}

SessionFilter == StrictFilter \cup Session

HeaderFilters == {HeaderOnly, Write1, MethodGet} \cup Thens({MethodGet}, {HeaderOnly})

AuthRequests ==
  [method : Method, path : Path, type : OptionalValue,
   field : [Field -> FieldState]]

MCRequest(m, state) ==
  [method |-> m, path |-> root, type |-> NoValue,
   field |-> [f \in Field |-> state]]

MCRequests == {MCRequest(get, "valid"), MCRequest(post, "absent")}
=============================================================================
