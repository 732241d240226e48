------------------------- MODULE Refinement_proofs -------------------------
(***************************************************************************)
(* The evaluation of any expression computes its meaning: Evaluation       *)
(* implements EvaluationAbs.                                               *)
(***************************************************************************)
EXTENDS Refinement, Evaluation_proofs

(* The options of a choice that end it                                     *)
Taken(opts, req, msg) ==
  {i \in {i \in DOMAIN opts : ~IsNone(opts[i])} :
     NotFailedOrComplete(Meaning(opts[i], req, msg))}

LEMMA AlternativesTaken ==
  ASSUME NEW opts, NEW req, NEW msg
  PROVE  Alternatives(opts, req, msg) =
           IF Taken(opts, req, msg) = {} THEN FailWith(msg, NotFound)
           ELSE Meaning(opts[Min(Taken(opts, req, msg))], req, msg)
BY DEF Alternatives, Taken

(* The round of the loop that finds no option left                         *)
LEMMA NoAlternative ==
  ASSUME NEW req, NEW msg
  PROVE  Alternatives(<< >>, req, msg) = FailWith(msg, NotFound)
<1>1. DOMAIN << >> = {}
  OBVIOUS
<1>2. Taken(<< >>, req, msg) = {}
  BY <1>1 DEF Taken
<1>3. QED
  BY <1>2, AlternativesTaken

(* and the round that tries the first of them                              *)
LEMMA NextAlternative ==
  ASSUME NEW opts \in Seq(MaybeFilter), opts # << >>, NEW req, NEW msg
  PROVE  Alternatives(opts, req, msg) =
           IF ~IsNone(Head(opts)) /\ NotFailedOrComplete(Meaning(Head(opts), req, msg))
           THEN Meaning(Head(opts), req, msg)
           ELSE Alternatives(Tail(opts), req, msg)
<1> DEFINE T == Taken(opts, req, msg)
           R == Taken(Tail(opts), req, msg)
<1>1. /\ Head(opts) = opts[1] /\ 1 \in DOMAIN opts /\ DOMAIN opts = 1 .. Len(opts)
      /\ Len(opts) \in Nat /\ DOMAIN Tail(opts) = 1 .. Len(opts) - 1
      /\ \A i \in 1 .. Len(opts) - 1 : Tail(opts)[i] = opts[i + 1]
  BY HeadTailProperties, LenProperties, EmptySeq
<1>2. T \in SUBSET Nat /\ R \in SUBSET Nat
  BY <1>1 DEF Taken
<1>3. 1 \in T <=> ~IsNone(Head(opts)) /\ NotFailedOrComplete(Meaning(Head(opts), req, msg))
  BY <1>1 DEF Taken
<1>4. \A i \in R : i + 1 \in T /\ Tail(opts)[i] = opts[i + 1]
  BY <1>1 DEF Taken
<1>5. \A i \in T \ {1} : i - 1 \in R
  <2> SUFFICES ASSUME NEW i \in T \ {1} PROVE i - 1 \in R
    OBVIOUS
  <2>1. i \in 1 .. Len(opts) /\ i - 1 \in 1 .. Len(opts) - 1 /\ (i - 1) + 1 = i
    BY <1>1 DEF Taken
  <2>2. Tail(opts)[i - 1] = opts[i]
    BY <1>1, <2>1
  <2>3. QED
    BY <1>1, <2>1, <2>2 DEF Taken
<1>6. \A i \in T : i >= 1
  BY <1>1 DEF Taken
<1> HIDE DEF T, R
<1>7. CASE 1 \in T
  <2>1. Min(T) = 1
    BY <1>2, <1>6, <1>7, LeastIsMin
  <2>2. QED
    BY <1>1, <1>3, <1>7, <2>1, AlternativesTaken DEF T
<1>8. CASE 1 \notin T /\ R = {}
  <2>1. T = {}
    BY <1>5, <1>8
  <2>2. QED
    BY <1>3, <1>8, <2>1, AlternativesTaken DEF T, R
<1>9. CASE 1 \notin T /\ R # {}
  <2>1. Min(R) \in R /\ \A i \in R : Min(R) <= i
    BY <1>2, <1>9, LeastExists
  <2>2. Min(R) + 1 \in T /\ \A i \in T : Min(R) + 1 <= i
    <3>1. ASSUME NEW i \in T PROVE Min(R) + 1 <= i
      <4>1. i \in Nat /\ Min(R) \in Nat /\ i - 1 \in R
        BY <1>2, <1>5, <1>9, <2>1
      <4>2. Min(R) <= i - 1
        BY <2>1, <4>1
      <4>3. QED
        BY <4>1, <4>2
    <3>2. QED
      BY <1>4, <2>1, <3>1
  <2>3. Min(T) = Min(R) + 1
    BY <1>2, <2>2, LeastIsMin
  <2>4. opts[Min(T)] = Tail(opts)[Min(R)] /\ T # {}
    BY <1>4, <2>1, <2>2, <2>3
  <2>5. QED
    BY <1>3, <1>9, <2>4, AlternativesTaken DEF T, R
<1>10. QED
  BY <1>7, <1>8, <1>9

-----------------------------------------------------------------------------
(* What a frame makes of the parser that returns to it                     *)
Resume(fr, req, p) ==
  CASE fr.op = "then" ->
         IF FailedOrComplete(p) THEN p ELSE Meaning(fr.second, req, p.msg)
    [] fr.op = "choice" ->
         IF NotFailedOrComplete(p) THEN p ELSE Alternatives(fr.opts, req, fr.msg)
    [] fr.op = "on_error" ->
         IF Handles(fr, p) THEN Meaning(fr.handler, req, p.msg) ELSE Parse(fr.msg)
    [] fr.op = "on_error_complete" ->
         IF ~Completes(p) THEN p
         ELSE IF fr.status # 0 THEN CompleteWithError(p.msg, fr.status)
         ELSE Complete(p.msg)

(* The frames make goal of p: want holds what each of the calls returns,   *)
(* the evaluator's first, the one that returns p last.                     *)
Leads(s, req, p, goal) ==
  \E want : /\ want[1] = goal
            /\ \A i \in 1 .. Len(s) : want[i] = Resume(s[i], req, want[i + 1])
            /\ want[Len(s) + 1] = p

LEMMA LeadsEmpty ==
  ASSUME NEW req, NEW p, NEW goal
  PROVE  Leads(<< >>, req, p, goal) <=> p = goal
<1>1. Len(<< >>) = 0
  OBVIOUS
<1>2. ASSUME p = goal PROVE Leads(<< >>, req, p, goal)
  <2> DEFINE want == [i \in {1} |-> p]
  <2>1. want[1] = p
    OBVIOUS
  <2> HIDE DEF want
  <2>2. Len(<< >>) + 1 = 1 /\ 1 .. Len(<< >>) = {}
    BY <1>1
  <2>3. QED
    BY <1>2, <2>1, <2>2 DEF Leads
<1>3. QED
  BY <1>1, <1>2 DEF Leads

LEMMA LeadsPush ==
  ASSUME NEW s \in Seq(Frame), NEW fr \in Frame, NEW req, NEW p, NEW goal,
         Leads(s, req, Resume(fr, req, p), goal)
  PROVE  Leads(Append(s, fr), req, p, goal)
<1> DEFINE t == Append(s, fr)
           q == Resume(fr, req, p)
           n == Len(s)
<1>1. PICK want : /\ want[1] = goal
                  /\ \A i \in 1 .. n : want[i] = Resume(s[i], req, want[i + 1])
                  /\ want[n + 1] = q
  BY DEF Leads
<1>2. n \in Nat /\ Len(t) = n + 1 /\ t[n + 1] = fr /\ \A i \in 1 .. n : t[i] = s[i]
  BY AppendProperties
<1> DEFINE w == [i \in 1 .. n + 2 |-> IF i = n + 2 THEN p ELSE want[i]]
<1>3. w[1] = goal /\ w[n + 2] = p /\ w[n + 1] = q /\ \A i \in 1 .. n + 1 : w[i] = want[i]
  BY <1>1, <1>2
<1> HIDE DEF w, t, n
<1>4. ASSUME NEW i \in 1 .. Len(t) PROVE w[i] = Resume(t[i], req, w[i + 1])
  <2>1. CASE i \in 1 .. n
    <3>1. i + 1 \in 1 .. n + 1 /\ i \in 1 .. n + 1
      BY <1>2, <2>1
    <3>2. QED
      BY <1>1, <1>2, <1>3, <2>1, <3>1
  <2>2. CASE i = n + 1
    <3>1. i + 1 = n + 2
      BY <1>2, <2>2
    <3>2. QED
      BY <1>2, <1>3, <2>2, <3>1
  <2>3. QED
    BY <1>2, <2>1, <2>2
<1>5. Len(t) + 1 = n + 2
  BY <1>2
<1>6. QED
  BY <1>3, <1>4, <1>5 DEF Leads, t

LEMMA LeadsPop ==
  ASSUME NEW s \in Seq(Frame), s # << >>, NEW req, NEW p, NEW goal, Leads(s, req, p, goal)
  PROVE  Leads(SubSeq(s, 1, Len(s) - 1), req, Resume(s[Len(s)], req, p), goal)
<1> DEFINE r == SubSeq(s, 1, Len(s) - 1)
           n == Len(s)
<1>1. PICK want : /\ want[1] = goal
                  /\ \A i \in 1 .. n : want[i] = Resume(s[i], req, want[i + 1])
                  /\ want[n + 1] = p
  BY DEF Leads
<1>2. n \in Nat /\ Len(r) = n - 1 /\ n \in 1 .. n
      /\ \A i \in 1 .. Len(r) : r[i] = s[i] /\ i \in 1 .. n
  BY PopShape
<1> HIDE DEF r, n
<1>3. \A i \in 1 .. Len(r) : want[i] = Resume(r[i], req, want[i + 1])
  BY <1>1, <1>2
<1>4. want[Len(r) + 1] = Resume(s[n], req, p)
  BY <1>1, <1>2
<1>5. Leads(r, req, Resume(s[n], req, p), goal)
  BY <1>1, <1>3, <1>4 DEF Leads
<1>6. QED
  BY <1>5 DEF r, n

(* How the meaning of an expression is that of the calls it makes          *)
LEMMA MeaningLeaf ==
  ASSUME Compositional, NEW f \in Filter, f \in Leaf, NEW req \in Request, NEW msg \in Message
  PROVE  Meaning(f, req, msg) = LeafFilter(f, req, msg)
<1>1. f.op \notin {"then", "choice", "on_error", "on_error_complete"}
  BY DEF Leaf
<1>2. ExprMeaning(f, req, msg) = LeafFilter(f, req, msg)
  BY <1>1 DEF ExprMeaning
<1>3. QED
  BY <1>2 DEF Compositional

LEMMA MeaningThen ==
  ASSUME Compositional, NEW f \in Filter, f.op = "then", NEW req \in Request, NEW msg \in Message
  PROVE  Meaning(f, req, msg) =
           Resume([op |-> "then", second |-> f.second], req, Meaning(f.first, req, msg))
<1>1. Meaning(f, req, msg) = ExprMeaning(f, req, msg)
  BY DEF Compositional
<1>2. QED
  BY <1>1 DEF ExprMeaning, Resume, FailedOrComplete

LEMMA MeaningChoice ==
  ASSUME Compositional, NEW f \in Filter, f.op = "choice", NEW req \in Request, NEW msg \in Message
  PROVE  Meaning(f, req, msg) = Alternatives(f.opts, req, msg)
<1>1. Meaning(f, req, msg) = ExprMeaning(f, req, msg)
  BY DEF Compositional
<1>2. QED
  BY <1>1 DEF ExprMeaning

LEMMA MeaningOnError ==
  ASSUME Compositional, NEW f \in Filter, f.op = "on_error", NEW req \in Request, NEW msg \in Message
  PROVE  Meaning(f, req, msg) =
           IF IsNone(f.expr) THEN Parse(msg)
           ELSE Resume([op |-> "on_error", handler |-> f.handler, msg |-> msg], req,
                       Meaning(f.expr, req, msg))
<1>1. Meaning(f, req, msg) = ExprMeaning(f, req, msg)
  BY DEF Compositional
<1>2. QED
  BY <1>1 DEF ExprMeaning, Resume, Handles

LEMMA MeaningOnErrorComplete ==
  ASSUME Compositional, NEW f \in Filter, f.op = "on_error_complete", NEW req \in Request,
         NEW msg \in Message
  PROVE  Meaning(f, req, msg) =
           IF IsNone(f.expr) THEN Parse(msg)
           ELSE Resume([op |-> "on_error_complete", status |-> f.status], req,
                       Meaning(f.expr, req, msg))
<1>1. Meaning(f, req, msg) = ExprMeaning(f, req, msg)
  BY DEF Compositional
<1>2. QED
  BY <1>1 DEF ExprMeaning, Resume, Completes, CompleteWithError

-----------------------------------------------------------------------------
(* The property is about the end of an evaluation: while it runs, what the *)
(* filter at hand returns, and the frames make of it, is the meaning of    *)
(* the whole expression.                                                   *)
Goal == Meaning(program, request, NewMessage)

MeaningInv ==
  /\ mode = "apply"  => Leads(stack, request, Meaning(expr, request, par.msg), Goal)
  /\ mode = "return" => Leads(stack, request, par, Goal)
  /\ mode = "choose" => Leads(Rest, request, Alternatives(Top.opts, request, Top.msg), Goal)

LEMMA CallMeans ==
  ASSUME NEW f, NEW msg, Call(f, msg), UNCHANGED <<request, program>>,
         Leads(stack', request, Meaning(f, request, msg), Goal)
  PROVE  MeaningInv'
BY DEF Call, Parse, MeaningInv, Goal

LEMMA ReturnMeans ==
  ASSUME NEW p, Return(p), UNCHANGED <<request, program>>,
         Leads(stack', request, p, Goal)
  PROVE  MeaningInv'
BY DEF Return, MeaningInv, Goal

LEMMA PushShape ==
  ASSUME NEW s \in Seq(Frame), NEW fr \in Frame
  PROVE  LET t == Append(s, fr)
         IN  t[Len(t)] = fr /\ SubSeq(t, 1, Len(t) - 1) = s
<1>1. Len(s) \in Nat /\ Len(Append(s, fr)) = Len(s) + 1
  BY AppendProperties
<1>2. QED
  BY <1>1, AppendProperties

LEMMA MeaningStep == Compositional /\ TypeInv /\ MeaningInv /\ [Next]_vars => MeaningInv'
<1> SUFFICES ASSUME Compositional, TypeInv, MeaningInv, [Next]_vars PROVE MeaningInv'
  OBVIOUS
<1> DEFINE Eval(f, msg) == Meaning(f, request, msg)
<1>1. /\ stack \in Seq(Frame) /\ par.msg \in Message /\ par \in Parser
      /\ expr \in Filter /\ request \in Request
  BY FilterAssumption DEF TypeInv, TypeOK, Parser
<1>2. stack # << >> =>
        /\ Top \in Frame /\ Rest \in Seq(Frame)
        /\ \A p : Leads(stack, request, p, Goal) => Leads(Rest, request, Resume(Top, request, p), Goal)
  BY <1>1, PopType, LeadsPop DEF Top, Rest
<1>3. ASSUME NEW s \in Seq(Frame), NEW fr \in Frame, NEW p, stack' = Append(s, fr),
             Leads(s, request, Resume(fr, request, p), Goal)
      PROVE  Leads(stack', request, p, Goal)
  BY <1>3, LeadsPush
<1>4. mode = "apply" => Leads(stack, request, Meaning(expr, request, par.msg), Goal)
  BY DEF MeaningInv
<1>5. mode = "return" => Leads(stack, request, par, Goal)
  BY DEF MeaningInv
<1>6. ASSUME ApplyLeaf PROVE MeaningInv'
  <2>1. Leads(stack, request, LeafFilter(expr, request, par.msg), Goal)
    BY <1>1, <1>4, <1>6, MeaningLeaf DEF ApplyLeaf
  <2>2. QED
    BY <1>6, <2>1, ReturnMeans DEF ApplyLeaf, context
<1>7. ASSUME ApplyThen PROVE MeaningInv'
  <2> DEFINE fr == [op |-> "then", second |-> expr.second]
             p == Meaning(expr.first, request, par.msg)
  <2>1. /\ mode = "apply" /\ expr.op = "then" /\ stack' = Append(stack, fr)
        /\ Call(expr.first, par.msg) /\ UNCHANGED <<request, program>>
    BY <1>7 DEF ApplyThen, Applying, Push, context
  <2>2. fr \in Frame
    BY <1>1, <2>1, Parts DEF Frame
  <2>3. Leads(stack, request, Resume(fr, request, p), Goal)
    BY <1>1, <1>4, <2>1, MeaningThen
  <2>4. Leads(stack', request, p, Goal)
    BY <1>1, <1>3, <2>1, <2>2, <2>3
  <2>5. QED
    BY <2>1, <2>4, CallMeans
<1>8. ASSUME ReturnThen PROVE MeaningInv'
  <2>1. /\ mode = "return" /\ stack # << >> /\ Top.op = "then" /\ stack' = Rest
        /\ UNCHANGED <<request, program>>
    BY <1>8 DEF ReturnThen, Returning, Pop, context
  <2>2. Leads(stack', request, Resume(Top, request, par), Goal)
    BY <1>2, <1>5, <2>1
  <2>3. Resume(Top, request, par) = IF FailedOrComplete(par) THEN par
                                    ELSE Meaning(Top.second, request, par.msg)
    BY <2>1 DEF Resume
  <2>4. QED
    BY <1>8, <2>1, <2>2, <2>3, CallMeans, ReturnMeans DEF ReturnThen
<1>9. ASSUME ApplyChoice PROVE MeaningInv'
  <2> DEFINE fr == [op |-> "choice", opts |-> expr.opts, msg |-> par.msg]
  <2>1. /\ mode = "apply" /\ expr.op = "choice" /\ stack' = Append(stack, fr)
        /\ mode' = "choose" /\ UNCHANGED <<request, program>>
    BY <1>9 DEF ApplyChoice, Applying, Push, context
  <2>2. fr \in Frame
    BY <1>1, <2>1, Parts DEF Frame
  <2>3. Leads(stack, request, Alternatives(fr.opts, request, fr.msg), Goal)
    BY <1>1, <1>4, <2>1, MeaningChoice
  <2> HIDE DEF fr
  <2>4. Top' = fr /\ Rest' = stack
    BY <1>1, <2>1, <2>2, PushShape DEF Top, Rest
  <2>5. QED
    BY <2>1, <2>3, <2>4 DEF MeaningInv, Goal
<1>10. ASSUME NextOption PROVE MeaningInv'
  <2>1. /\ mode = "choose" /\ stack # << >> /\ Top.op = "choice"
        /\ Top \in Frame /\ Rest \in Seq(Frame) /\ Top.opts \in Seq(MaybeFilter)
        /\ UNCHANGED <<request, program>>
        /\ Leads(Rest, request, Alternatives(Top.opts, request, Top.msg), Goal)
    BY <1>2, <1>10, FrameParts DEF NextOption, TypeInv, Choosing, MeaningInv, context
  <2>2. CASE Top.opts = << >>
    <3>1. Return(Exhausted(Top.msg)) /\ stack' = Rest
      BY <1>10, <2>2 DEF NextOption, Pop
    <3>2. Alternatives(Top.opts, request, Top.msg) = Exhausted(Top.msg)
      BY <2>2, NoAlternative DEF Exhausted
    <3>3. QED
      BY <2>1, <3>1, <3>2, ReturnMeans
  <2>3. CASE Top.opts # << >>
    <3> DEFINE fr == [Top EXCEPT !.opts = Tail(@)]
               f == Head(Top.opts)
    <3>1. /\ stack' = Append(Rest, fr)
          /\ IF IsNone(f) THEN UNCHANGED <<mode, expr, par, completed>> ELSE Call(f, Top.msg)
      BY <1>10, <2>3 DEF NextOption, OptionMessage
    <3>2. /\ fr \in Frame /\ fr.op = "choice" /\ fr.msg = Top.msg /\ fr.opts = Tail(Top.opts)
      <4>1. Tail(Top.opts) \in Seq(MaybeFilter)
        BY <2>1, <2>3
      <4>2. QED
        BY <2>1, <4>1 DEF Frame
    <3>3. Alternatives(Top.opts, request, Top.msg) =
            IF ~IsNone(f) /\ NotFailedOrComplete(Eval(f, Top.msg)) THEN Eval(f, Top.msg)
            ELSE Alternatives(fr.opts, request, fr.msg)
      BY <2>1, <2>3, <3>2, NextAlternative
    <3> HIDE DEF fr, f
    <3>4. CASE IsNone(f)
      <4>1. Top' = fr /\ Rest' = Rest /\ mode' = "choose"
        BY <2>1, <3>1, <3>2, <3>4, PushShape DEF Top, Rest
      <4>2. Leads(Rest, request, Alternatives(fr.opts, request, fr.msg), Goal)
        BY <2>1, <3>3, <3>4
      <4>3. QED
        BY <2>1, <4>1, <4>2 DEF MeaningInv, Goal
    <3>5. CASE ~IsNone(f)
      <4>1. Alternatives(Top.opts, request, Top.msg) = Resume(fr, request, Eval(f, Top.msg))
        BY <3>2, <3>3, <3>5 DEF Resume
      <4>2. Leads(stack', request, Eval(f, Top.msg), Goal)
        BY <1>3, <2>1, <3>1, <3>2, <4>1
      <4>3. QED
        BY <2>1, <3>1, <3>5, <4>2, CallMeans
    <3>6. QED
      BY <3>4, <3>5
  <2>4. QED
    BY <2>2, <2>3
<1>11. ASSUME ReturnChoice PROVE MeaningInv'
  <2>1. /\ mode = "return" /\ stack # << >> /\ Top.op = "choice" /\ UNCHANGED <<request, program>>
    BY <1>11 DEF ReturnChoice, Returning, context
  <2>2. Leads(Rest, request, Resume(Top, request, par), Goal)
    BY <1>2, <1>5, <2>1
  <2>3. Resume(Top, request, par) = IF NotFailedOrComplete(par) THEN par
                                    ELSE Alternatives(Top.opts, request, Top.msg)
    BY <2>1 DEF Resume
  <2>4. CASE NotFailedOrComplete(par)
    BY <1>11, <2>1, <2>2, <2>3, <2>4, ReturnMeans DEF ReturnChoice, Pop
  <2>5. CASE ~NotFailedOrComplete(par)
    BY <1>11, <2>1, <2>2, <2>3, <2>5 DEF ReturnChoice, MeaningInv, Goal, Top, Rest
  <2>6. QED
    BY <2>4, <2>5
<1>12. ASSUME ApplyOnError PROVE MeaningInv'
  <2>1. mode = "apply" /\ expr.op = "on_error" /\ UNCHANGED <<request, program>>
    BY <1>12 DEF ApplyOnError, Applying, context
  <2>2. CASE IsNone(expr.expr)
    BY <1>1, <1>4, <1>12, <2>1, <2>2, MeaningOnError, ReturnMeans DEF ApplyOnError
  <2>3. CASE ~IsNone(expr.expr)
    <3> DEFINE fr == [op |-> "on_error", handler |-> expr.handler, msg |-> par.msg]
               p == Meaning(expr.expr, request, par.msg)
    <3>1. fr \in Frame
      BY <1>1, <2>1, Parts DEF Frame
    <3>2. stack' = Append(stack, fr) /\ Call(expr.expr, par.msg)
      BY <1>12, <2>3 DEF ApplyOnError, Push
    <3>3. Leads(stack, request, Resume(fr, request, p), Goal)
      BY <1>1, <1>4, <2>1, <2>3, MeaningOnError
    <3>4. QED
      BY <1>1, <1>3, <2>1, <3>1, <3>2, <3>3, CallMeans
  <2>4. QED
    BY <2>2, <2>3
<1>13. ASSUME ReturnOnError PROVE MeaningInv'
  <2>1. /\ mode = "return" /\ stack # << >> /\ Top.op = "on_error" /\ stack' = Rest
        /\ UNCHANGED <<request, program>>
    BY <1>13 DEF ReturnOnError, Returning, Pop, context
  <2>2. Leads(stack', request, Resume(Top, request, par), Goal)
    BY <1>2, <1>5, <2>1
  <2>3. Resume(Top, request, par) = IF Handles(Top, par)
                                    THEN Meaning(Top.handler, request, par.msg) ELSE Parse(Top.msg)
    BY <2>1 DEF Resume
  <2>4. QED
    BY <1>13, <2>1, <2>2, <2>3, CallMeans, ReturnMeans DEF ReturnOnError
<1>14. ASSUME ApplyOnErrorComplete PROVE MeaningInv'
  <2>1. mode = "apply" /\ expr.op = "on_error_complete" /\ UNCHANGED <<request, program>>
    BY <1>14 DEF ApplyOnErrorComplete, Applying, context
  <2>2. CASE IsNone(expr.expr)
    BY <1>1, <1>4, <1>14, <2>1, <2>2, MeaningOnErrorComplete, ReturnMeans
       DEF ApplyOnErrorComplete
  <2>3. CASE ~IsNone(expr.expr)
    <3> DEFINE fr == [op |-> "on_error_complete", status |-> expr.status]
               p == Meaning(expr.expr, request, par.msg)
    <3>1. fr \in Frame
      BY <1>1, <2>1, Parts DEF Frame
    <3>2. stack' = Append(stack, fr) /\ Call(expr.expr, par.msg)
      BY <1>14, <2>3 DEF ApplyOnErrorComplete, Push
    <3>3. Leads(stack, request, Resume(fr, request, p), Goal)
      BY <1>1, <1>4, <2>1, <2>3, MeaningOnErrorComplete
    <3>4. QED
      BY <1>1, <1>3, <2>1, <3>1, <3>2, <3>3, CallMeans
  <2>4. QED
    BY <2>2, <2>3
<1>15. ASSUME ReturnOnErrorComplete PROVE MeaningInv'
  <2>1. /\ mode = "return" /\ stack # << >> /\ Top.op = "on_error_complete" /\ stack' = Rest
        /\ UNCHANGED <<request, program>>
    BY <1>15 DEF ReturnOnErrorComplete, Returning, Pop, context
  <2>2. Leads(stack', request, Resume(Top, request, par), Goal)
    BY <1>2, <1>5, <2>1
  <2>3. Return(Resume(Top, request, par))
    BY <1>15, <2>1 DEF ReturnOnErrorComplete, Resume
  <2>4. QED
    BY <2>1, <2>2, <2>3, ReturnMeans
<1>16. ASSUME Respond PROVE MeaningInv'
  BY <1>16 DEF Respond, MeaningInv
<1>17. ASSUME Again PROVE MeaningInv'
  <2>1. stack' = << >> /\ mode' = "apply" /\ expr' = program' /\ par'.msg = NewMessage
    BY <1>17 DEF Again, TypeInv, Returned, Parse
  <2>2. Leads(<< >>, request', Goal', Goal')
    BY LeadsEmpty
  <2>3. QED
    BY <2>1, <2>2 DEF MeaningInv, Goal
<1>18. ASSUME UNCHANGED vars PROVE MeaningInv'
  BY <1>18 DEF vars, MeaningInv, Goal, Top, Rest
<1>19. QED
  BY <1>6, <1>7, <1>8, <1>9, <1>10, <1>11, <1>12, <1>13, <1>14, <1>15, <1>16, <1>17, <1>18
     DEF Next, Step, Done

(* What the evaluator adds to the response is what the meaning says.       *)
LEMMA AnsweredReply ==
  ASSUME NEW resp \in Message, NEW p \in Parser
  PROVE  Answered(resp, p) = Meanings!Reply(resp, p)
<1> USE DEF ResolveStatus, OK, InternalServerError, SetStatus, Meanings!Reply, Meanings!OK,
            Meanings!InternalServerError, Meanings!SetStatus
<1>1. CASE p.failed
  BY <1>1 DEF Answered
<1>2. CASE ~p.failed
  <2> DEFINE code == IF p.msg.status # 0 THEN p.msg.status ELSE 200
             set  == [n \in HeaderName |-> IF p.msg.header[n] # NoValue THEN p.msg.header[n]
                                           ELSE resp.header[n]]
             a    == Answered(resp, p)
  <2>1. a = [status |-> a.status, header |-> a.header, body |-> a.body]
    BY AnsweredType DEF Message
  <2>2. a.status = code /\ a.header = set /\ a.body = resp.body \o p.msg.body
    BY <1>2 DEF Answered, SetHeaders, Message
  <2> HIDE DEF a, code, set
  <2>3. a = [status |-> code, header |-> set, body |-> resp.body \o p.msg.body]
    BY <2>1, <2>2
  <2> USE DEF a, code, set
  <2>4. Meanings!Reply(resp, p) = [status |-> code, header |-> set, body |-> resp.body \o p.msg.body]
    <3>1. set = [n \in HeaderName |-> IF p.msg.header[n] = NoValue THEN resp.header[n]
                                      ELSE p.msg.header[n]]
      OBVIOUS
    <3>2. QED
      BY <1>2, <3>1
  <2>5. QED
    BY <2>3, <2>4
<1>3. QED
  BY <1>1, <1>2

(* Running calls and returns are no step of the abstract evaluation; what  *)
(* the evaluator does once they have ended is.                             *)
LEMMA RefinesInit == Init => Meanings!Init
<1> SUFFICES ASSUME Init PROVE mode # "done" /\ response = Meanings!NewMessage
  BY DEF Meanings!Init
<1>1. QED
  BY DEF Init, NoResponse, NewMessage, Meanings!NewMessage

LEMMA RefinesStep == TypeInv /\ MeaningInv /\ [Next]_vars => [Meanings!Next]_(Meanings!vars)
<1> SUFFICES ASSUME TypeInv, MeaningInv, [Next]_vars PROVE [Meanings!Next]_(Meanings!vars)
  OBVIOUS
<1>1. ASSUME mode # "done", mode' # "done", UNCHANGED <<request, program, response>>
      PROVE  UNCHANGED Meanings!vars
  BY <1>1 DEF Meanings!vars
<1>2. ASSUME Respond PROVE Meanings!Evaluate
  <2>1. /\ mode = "return" /\ stack = << >> /\ mode' = "done" /\ par' = par
        /\ response' = Answered(response, par) /\ UNCHANGED <<request, program>>
    BY <1>2 DEF Respond
  <2>2. par = Meaning(program, request, Meanings!NewMessage)
    BY <2>1, LeadsEmpty DEF MeaningInv, Goal, NewMessage, Meanings!NewMessage
  <2>3. response' = Meanings!Reply(response, par)
    BY <2>1, AnsweredReply DEF TypeInv, TypeOK
  <2>4. QED
    BY <2>1, <2>2, <2>3 DEF Meanings!Evaluate
<1>3. ASSUME Again PROVE Meanings!Ask
  BY <1>3 DEF Again, Meanings!Ask
<1>4. ASSUME UNCHANGED vars PROVE UNCHANGED Meanings!vars
  BY <1>4 DEF vars, Meanings!vars
<1>5. ASSUME NextOption PROVE mode # "done" /\ mode' # "done"
  BY <1>5 DEF NextOption, Call, Return
<1>6. QED
  BY <1>1, <1>2, <1>3, <1>4, <1>5
     DEF Next, Step, Done, Meanings!Next, context, Call, Return, Applying, Returning,
         ApplyLeaf, ApplyThen, ReturnThen, ApplyChoice, NextOption, ReturnChoice, ApplyOnError,
         ReturnOnError, ApplyOnErrorComplete, ReturnOnErrorComplete

(* Whatever expressions the application builds, and however often it       *)
(* evaluates them on a context, the evaluation returns their meaning.      *)
THEOREM Implementation == Compositional => (Spec => ComputesMeaning)
<1> SUFFICES ASSUME Compositional PROVE Spec => ComputesMeaning
  OBVIOUS
<1>1. Init => MeaningInv
  <2>1. Leads(<< >>, request, Goal, Goal)
    BY LeadsEmpty
  <2>2. QED
    BY <2>1 DEF Init, MeaningInv, Goal, Parse
<1>2. TypeInv /\ MeaningInv /\ [Next]_vars => MeaningInv'
  BY MeaningStep
<1>3. Spec => []TypeInv
  BY InitType, TypeStep, ChoosingStep, ReturnedStep, PTL DEF Spec, TypeInv
<1>4. QED
  BY <1>1, <1>2, <1>3, RefinesInit, RefinesStep, PTL
     DEF Spec, ComputesMeaning, Meanings!Spec
=============================================================================
