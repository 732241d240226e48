--------------------------- MODULE FilterAlgebra ---------------------------
(***************************************************************************)
(* The laws by which filter expressions can be rewritten.  A filter is     *)
(* here any function from messages to parsers, and the combinators are     *)
(* functions of filters: the operators >= and >> of filter.hpp, choice and *)
(* on_error_complete.                                                      *)
(***************************************************************************)
EXTENDS HtMessage, Integers, TLAPS

FilterFunc == [Message -> Parser]

(* p >= f *)
Bind(p, f) == IF FailedOrComplete(p) THEN p ELSE f[p.msg]

(* f >> g *)
Composed(f, g) == [m \in Message |-> Bind(f[m], g)]

(* The filter pass *)
Pass == [m \in Message |-> Parse(m)]

(* The first option of a choice whose parser it returns *)
Succeeds(f, m) == NotFailedOrComplete(f[m])
IsFirst(opts, m, i) ==
  /\ i \in DOMAIN opts
  /\ Succeeds(opts[i], m)
  /\ \A j \in 1 .. i - 1 : ~Succeeds(opts[j], m)

Choice(opts) ==
  [m \in Message |->
     IF \E i \in DOMAIN opts : IsFirst(opts, m, i)
     THEN opts[CHOOSE i \in DOMAIN opts : IsFirst(opts, m, i)][m]
     ELSE FailWith(m, NotFound)]

(* What on_error_complete makes of the parser its expression returned *)
Completed(p, code) ==
  IF p.complete \/ ~(p.failed \/ HasError(p.msg.status)) THEN p
  ELSE IF code # 0 THEN CompleteWithError(p.msg, code) ELSE Complete(p.msg)

OnErrorComplete(f, code) == [m \in Message |-> Completed(f[m], code)]

-----------------------------------------------------------------------------
(* The combinators return parsers of messages. *)
LEMMA ComposedType ==
  ASSUME NEW f \in FilterFunc, NEW g \in FilterFunc
  PROVE  Composed(f, g) \in FilterFunc
BY DEF FilterFunc, Composed, Bind, Parser

LEMMA FailWithType ==
  ASSUME NEW m \in Message, NEW code \in Nat
  PROVE  FailWith(m, code) \in Parser
BY DEF FailWith, Fail, SetStatus, Parser, Message

(* >> groups either way: (f >> g) >> h and f >> (g >> h) are one filter.   *)
THEOREM ComposeAssociative ==
  ASSUME NEW f \in FilterFunc, NEW g \in FilterFunc, NEW h \in FilterFunc
  PROVE  Composed(Composed(f, g), h) = Composed(f, Composed(g, h))
<1> SUFFICES ASSUME NEW m \in Message
             PROVE  Bind(Bind(f[m], g), h) = Bind(f[m], Composed(g, h))
  BY DEF Composed
<1>1. f[m] \in Parser /\ f[m].msg \in Message
  BY DEF FilterFunc, Parser
<1>2. CASE FailedOrComplete(f[m])
  BY <1>2 DEF Bind
<1>3. CASE ~FailedOrComplete(f[m])
  BY <1>1, <1>3 DEF Bind, Composed
<1>4. QED
  BY <1>2, <1>3

(* pass before a filter changes nothing. *)
THEOREM PassBefore ==
  ASSUME NEW f \in FilterFunc
  PROVE  Composed(Pass, f) = f
BY DEF Composed, Pass, Bind, Parse, FailedOrComplete, FilterFunc

(* Nor does pass after it: a parser that neither failed nor completed      *)
(* holds nothing but its message.                                          *)
THEOREM PassAfter ==
  ASSUME NEW f \in FilterFunc
  PROVE  Composed(f, Pass) = f
<1>1. ASSUME NEW m \in Message PROVE Bind(f[m], Pass) = f[m]
  <2>1. f[m] \in Parser
    BY DEF FilterFunc
  <2>2. CASE FailedOrComplete(f[m])
    BY <2>2 DEF Bind
  <2>3. CASE ~FailedOrComplete(f[m])
    <3>1. f[m] = Parse(f[m].msg)
      BY <2>1, <2>3 DEF Parser, FailedOrComplete, Parse
    <3>2. QED
      BY <2>1, <2>3, <3>1 DEF Bind, Pass, Parser
  <2>4. QED
    BY <2>2, <2>3
<1>2. QED
  BY <1>1 DEF Composed, FilterFunc

(* A second on_error_complete around the first has nothing left to do,     *)
(* whatever their statuses are.                                            *)
THEOREM GuardIdempotent ==
  ASSUME NEW f \in FilterFunc, NEW code \in Nat, NEW other \in Nat
  PROVE  OnErrorComplete(OnErrorComplete(f, code), other) = OnErrorComplete(f, code)
<1>1. ASSUME NEW p \in Parser PROVE Completed(Completed(p, code), other) = Completed(p, code)
  BY DEF Completed, CompleteWithError, Complete, Parser
<1>2. \A m \in Message : f[m] \in Parser
  BY DEF FilterFunc
<1>3. \A m \in Message :
        Completed(OnErrorComplete(f, code)[m], other) = OnErrorComplete(f, code)[m]
  BY <1>1, <1>2 DEF OnErrorComplete
<1>4. QED
  BY <1>3 DEF OnErrorComplete

(* on_error_complete keeps its promise for any expression that does not    *)
(* itself return a parser both failed and complete.                        *)
THEOREM GuardCompletes ==
  ASSUME NEW f \in FilterFunc, NEW code \in Nat, NEW m \in Message,
         ~(f[m].failed /\ f[m].complete)
  PROVE  LET p == OnErrorComplete(f, code)[m]
         IN ~p.failed /\ (HasError(p.msg.status) => p.complete)
BY DEF OnErrorComplete, Completed, CompleteWithError, Complete, FilterFunc, Parser

(* The parser a choice returns is the one of its first option to succeed.  *)
LEMMA ChoiceTakesFirst ==
  ASSUME NEW opts \in Seq(FilterFunc), NEW m \in Message,
         NEW i \in DOMAIN opts, IsFirst(opts, m, i)
  PROVE  Choice(opts)[m] = opts[i][m]
<1>1. ASSUME NEW j \in DOMAIN opts, IsFirst(opts, m, j) PROVE j = i
  <2>1. j \notin 1 .. i - 1 /\ i \notin 1 .. j - 1
    BY <1>1 DEF IsFirst
  <2>2. i \in Nat \ {0} /\ j \in Nat \ {0}
    OBVIOUS
  <2>3. QED
    BY <2>1, <2>2
<1>2. (CHOOSE j \in DOMAIN opts : IsFirst(opts, m, j)) = i
  BY <1>1
<1>3. QED
  BY <1>2 DEF Choice

LEMMA ChoiceFails ==
  ASSUME NEW opts, NEW m \in Message,
         \A i \in DOMAIN opts : ~Succeeds(opts[i], m)
  PROVE  Choice(opts)[m] = FailWith(m, NotFound)
BY DEF Choice, IsFirst

(* A choice of two and one of three filters, spelled out *)
LEMMA ChoiceOfTwo ==
  ASSUME NEW f \in FilterFunc, NEW g \in FilterFunc, NEW m \in Message
  PROVE  Choice(<<f, g>>)[m] = IF Succeeds(f, m) THEN f[m] ELSE
           IF Succeeds(g, m) THEN g[m] ELSE
           FailWith(m, NotFound)
<1> DEFINE s == <<f, g>>
<1>1. /\ s \in Seq(FilterFunc)
      /\ DOMAIN s = {1, 2}
      /\ s[1] = f /\ s[2] = g
  OBVIOUS
<1> HIDE DEF s
<1>2. CASE Succeeds(f, m)
  <2>1. IsFirst(s, m, 1)
    BY <1>1, <1>2 DEF IsFirst
  <2>2. Choice(s)[m] = f[m]
    BY <1>1, <2>1, ChoiceTakesFirst
  <2>3. QED
    BY <1>2, <2>2 DEF s
<1>3. CASE ~Succeeds(f, m) /\ Succeeds(g, m)
  <2>1. IsFirst(s, m, 2)
    BY <1>1, <1>3 DEF IsFirst
  <2>2. Choice(s)[m] = g[m]
    BY <1>1, <2>1, ChoiceTakesFirst
  <2>3. QED
    BY <1>3, <2>2 DEF s
<1>4. CASE ~Succeeds(f, m) /\ ~Succeeds(g, m)
  <2>1. Choice(s)[m] = FailWith(m, NotFound)
    BY <1>1, <1>4, ChoiceFails
  <2>2. QED
    BY <1>4, <2>1 DEF s
<1>5. QED
  BY <1>2, <1>3, <1>4

LEMMA ChoiceOfThree ==
  ASSUME NEW f \in FilterFunc, NEW g \in FilterFunc, NEW h \in FilterFunc, NEW m \in Message
  PROVE  Choice(<<f, g, h>>)[m] = IF Succeeds(f, m) THEN f[m] ELSE
           IF Succeeds(g, m) THEN g[m] ELSE
           IF Succeeds(h, m) THEN h[m] ELSE
           FailWith(m, NotFound)
<1> DEFINE s == <<f, g, h>>
<1>1. /\ s \in Seq(FilterFunc)
      /\ DOMAIN s = {1, 2, 3}
      /\ s[1] = f /\ s[2] = g /\ s[3] = h
  OBVIOUS
<1> HIDE DEF s
<1>2. CASE Succeeds(f, m)
  <2>1. IsFirst(s, m, 1)
    BY <1>1, <1>2 DEF IsFirst
  <2>2. Choice(s)[m] = f[m]
    BY <1>1, <2>1, ChoiceTakesFirst
  <2>3. QED
    BY <1>2, <2>2 DEF s
<1>3. CASE ~Succeeds(f, m) /\ Succeeds(g, m)
  <2>1. IsFirst(s, m, 2)
    BY <1>1, <1>3 DEF IsFirst
  <2>2. Choice(s)[m] = g[m]
    BY <1>1, <2>1, ChoiceTakesFirst
  <2>3. QED
    BY <1>3, <2>2 DEF s
<1>4. CASE ~Succeeds(f, m) /\ ~Succeeds(g, m) /\ Succeeds(h, m)
  <2>1. IsFirst(s, m, 3)
    BY <1>1, <1>4 DEF IsFirst
  <2>2. Choice(s)[m] = h[m]
    BY <1>1, <2>1, ChoiceTakesFirst
  <2>3. QED
    BY <1>4, <2>2 DEF s
<1>5. CASE ~Succeeds(f, m) /\ ~Succeeds(g, m) /\ ~Succeeds(h, m)
  <2>1. Choice(s)[m] = FailWith(m, NotFound)
    BY <1>1, <1>5, ChoiceFails
  <2>2. QED
    BY <1>5, <2>1 DEF s
<1>6. QED
  BY <1>2, <1>3, <1>4, <1>5

(* A choice is itself a filter. *)
LEMMA ChoiceType ==
  ASSUME NEW f \in FilterFunc, NEW g \in FilterFunc
  PROVE  Choice(<<f, g>>) \in FilterFunc
<1>1. ASSUME NEW m \in Message PROVE Choice(<<f, g>>)[m] \in Parser
  <2>1. f[m] \in Parser /\ g[m] \in Parser /\ FailWith(m, NotFound) \in Parser
    BY FailWithType DEF FilterFunc, NotFound
  <2>2. QED
    BY <2>1, ChoiceOfTwo
<1>2. \A opts : Choice(opts) = [m \in Message |-> Choice(opts)[m]]
  BY DEF Choice
<1>3. QED
  BY <1>1, <1>2 DEF FilterFunc

(* choice(f, choice(g, h)) is choice(f, g, h): the inner "Not Found" is    *)
(* dropped with the message it was set on.                                 *)
THEOREM ChoiceFlattens ==
  ASSUME NEW f \in FilterFunc, NEW g \in FilterFunc, NEW h \in FilterFunc
  PROVE  Choice(<<f, Choice(<<g, h>>)>>) = Choice(<<f, g, h>>)
<1> DEFINE inner == Choice(<<g, h>>)
<1>1. inner \in FilterFunc
  BY ChoiceType
<1>2. ASSUME NEW m \in Message PROVE Choice(<<f, inner>>)[m] = Choice(<<f, g, h>>)[m]
  <2>1. inner[m] = IF Succeeds(g, m) THEN g[m] ELSE
                   IF Succeeds(h, m) THEN h[m] ELSE FailWith(m, NotFound)
    BY ChoiceOfTwo
  <2>2. Succeeds(inner, m) <=> Succeeds(g, m) \/ Succeeds(h, m)
    BY <2>1 DEF Succeeds, NotFailedOrComplete, FailWith, Fail
  <2>3. Choice(<<f, inner>>)[m] = IF Succeeds(f, m) THEN f[m] ELSE
                                  IF Succeeds(inner, m) THEN inner[m] ELSE
                                  FailWith(m, NotFound)
    BY <1>1, ChoiceOfTwo
  <2>4. Choice(<<f, g, h>>)[m] = IF Succeeds(f, m) THEN f[m] ELSE
                                 IF Succeeds(g, m) THEN g[m] ELSE
                                 IF Succeeds(h, m) THEN h[m] ELSE
                                 FailWith(m, NotFound)
    BY ChoiceOfThree
  <2>5. QED
    BY <2>1, <2>2, <2>3, <2>4
<1>3. QED
  BY <1>2 DEF Choice
=============================================================================
