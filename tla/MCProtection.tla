---------------------------- MODULE MCProtection ----------------------------
(***************************************************************************)
(* An instance of Protection for TLC: authentication filters before, after *)
(* and within the other filters, and which of the expressions are safe.    *)
(***************************************************************************)
EXTENDS MCEvaluation, Protection

MCSecret == {c2}

(* Every kind of leaf, with and without a function, before an output that  *)
(* only a valid Authorization field should lead to.                        *)
Hidden   == [op |-> "output", content |-> Plain(c2)]
Known    == [op |-> "bearer_auth", func |-> None]
Signed   == [op |-> "mac_auth", func |-> Hidden]
Optional == {None, [op |-> "parse"], [op |-> "complete"]}

OtherLeaves ==
  {MethodGet, Write1, HeaderOnly, [op |-> "pass"], Wrap(None)}
    \cup [op : {"path"}, paths : {{root}}, func : Optional]
    \cup [op : {"params"}, func : Optional]
    \cup [op : {"content"}, type : {v1, NoValue}, func : Optional]

AuthFilter ==
  LET protected == {Then(Known, Hidden), Signed}
      before == OtherLeaves \cup Thens(OtherLeaves, protected)
      either == {[op |-> "choice", opts |-> <<Known, f>>] : f \in {Signed, MethodGet}}
      guarded == Guards(before \cup either, {0, 503})
      handled == OnErrors({Known} \cup protected, OrNone({Write1, Signed}))
  IN protected \cup {Known, Hidden} \cup before \cup either \cup guarded \cup handled
       \cup ChoiceOf(OrNone(before), OrNone(protected))
       \cup Thens(Guards(before, {0}), OtherLeaves)
       \cup Thens(either \cup guarded \cup handled, {Hidden})

(* The gates and the safe expressions, as many as there are *)
RECURSIVE Closes(_), Protects(_)

Closes(f) ==
  \/ f.op \in Schemes
  \/ f.op = "then" /\ (Closes(f.first) \/ Closes(f.second))
  \/ f.op = "choice" /\ \A i \in DOMAIN f.opts : IsNone(f.opts[i]) \/ Closes(f.opts[i])
  \/ f.op = "on_error_complete" /\ Closes(f.expr)

Protects(f) ==
  \/ IsNone(f)
  \/ f \in Leaf /\ SafeLeaf(f)
  \/ f.op = "then" /\ Protects(f.first) /\ (Protects(f.second) \/ Closes(f.first))
  \/ f.op = "choice" /\ \A i \in DOMAIN f.opts : Protects(f.opts[i])
  \/ f.op = "on_error" /\ Protects(f.expr) /\ Protects(f.handler)
  \/ f.op = "on_error_complete" /\ Protects(f.expr)

MCGate == {f \in AuthFilter : Closes(f)}
MCSafe == {f \in AuthFilter : Protects(f)}
=============================================================================
