------------------------- MODULE Evaluation_proofs -------------------------
(***************************************************************************)
(* Theorems of Evaluation, for any set of filter expressions and requests. *)
(***************************************************************************)
EXTENDS Evaluation, SequenceTheorems, NaturalLemmas

(* The operations of a message return messages. *)
LEMMA NewMessageType == NewMessage \in Message
BY DEF NewMessage, Message, Headers, OptionalValue

LEMMA StatusType ==
  ASSUME NEW msg \in Message, NEW code \in Nat
  PROVE  SetStatus(msg, code) \in Message /\ SetStatus(msg, code).status = code
BY DEF SetStatus, Message

LEMMA HeadersType ==
  ASSUME NEW msg \in Message, NEW dict \in Headers
  PROVE  SetHeaders(msg, dict) \in Message
BY DEF SetHeaders, Message, Headers, OptionalValue

LEMMA HeaderType ==
  ASSUME NEW msg \in Message, NEW n \in HeaderName, NEW v \in OptionalValue
  PROVE  SetHeader(msg, n, v) \in Message
BY DEF SetHeader, Message, Headers

LEMMA OutputType ==
  ASSUME NEW msg \in Message, NEW content \in Content
  PROVE  Output(msg, content) \in Message
<1> DEFINE x == SetHeader(msg, ContentType, content.type)
<1>1. x \in Message /\ content.chunk \in Chunk
  BY HeaderType, HeaderAssumption DEF Content
<1> HIDE DEF x
<1>2. x.body \in Seq(Chunk)
  BY <1>1 DEF Message
<1>3. Append(x.body, content.chunk) \in Seq(Chunk)
  BY <1>1, <1>2
<1>4. [x EXCEPT !.body = Append(x.body, content.chunk)] \in Message
  BY <1>1, <1>3 DEF Message
<1>5. QED
  BY <1>4 DEF Output, x

LEMMA OutputStatusType ==
  ASSUME NEW msg \in Message, NEW code \in Nat, NEW content \in Content
  PROVE  OutputStatus(msg, code, content) \in Message
BY OutputType, StatusType DEF OutputStatus

LEMMA ChallengeType ==
  ASSUME NEW msg \in Message, NEW v \in OptionalValue
  PROVE  /\ SetChallenge(msg, v) \in Message
         /\ SetChallenge(msg, v).status = Unauthorized
<1>1. SetHeader(msg, Authenticate, v) \in Message
  BY HeaderType, HeaderAssumption
<1>2. QED
  BY <1>1, StatusType DEF SetChallenge, Unauthorized

(* So do the functions of parser.hpp, none of which returns a parser that  *)
(* is failed and complete.                                                 *)
LEMMA ParserType ==
  ASSUME NEW msg \in Message
  PROVE  /\ Parse(msg) \in Parser
         /\ Fail(msg) \in Parser
         /\ Complete(msg) \in Parser
BY DEF Parse, Fail, Complete, Parser

(* What a function of the application, or no function, returns. *)
LEMMA AnswerType ==
  ASSUME NEW o \in Outcome, NEW msg \in Message
  PROVE  /\ Answer(o, msg) \in Parser
         /\ ~(Answer(o, msg).failed /\ Answer(o, msg).complete)
         /\ Answer(o, msg).failed /\ FailsWithError(o) => HasError(Answer(o, msg).msg.status)
<1> USE ParserType DEF Answer
<1>1. CASE o \in [op : {"parse", "fail", "complete"}]
  BY <1>1 DEF FailsWithError, Parse, Fail, Complete
<1>2. CASE o \in [op : {"fail_with", "complete_with_error"}, code : Nat]
  <2>1. SetStatus(msg, o.code) \in Message /\ SetStatus(msg, o.code).status = o.code
    BY <1>2, StatusType
  <2>2. QED
    BY <1>2, <2>1 DEF FailsWithError, FailWith, Fail, CompleteWithError, Complete
<1>3. CASE o \in [op : {"continue_ok", "output"}, content : Content]
  <2>1. OutputStatus(msg, OK, o.content) \in Message /\ Output(msg, o.content) \in Message
    BY <1>3, OutputStatusType, OutputType DEF OK
  <2>2. QED
    BY <1>3, <2>1 DEF ContinueOk, Parse
<1>4. CASE o \in [op : {"complete_with_status"}, code : Nat, content : Content]
  <2>1. OutputStatus(msg, o.code, o.content) \in Message
    BY <1>4, OutputStatusType
  <2>2. QED
    BY <1>4, <2>1 DEF CompleteWithStatus, Complete
<1>5. CASE o \in [op : {"complete_with_challenge"}, challenge : HeaderValue, content : Content]
  <2>1. SetChallenge(msg, o.challenge) \in Message /\ o.content \in Content
    BY <1>5, ChallengeType DEF OptionalValue
  <2>2. Output(SetChallenge(msg, o.challenge), o.content) \in Message
    BY <2>1, OutputType
  <2>3. QED
    BY <1>5, <2>2 DEF CompleteWithChallenge, Complete
<1>6. QED
  BY <1>1, <1>2, <1>3, <1>4, <1>5 DEF Outcome
(* A failed parser is not complete, and has an error status whenever the   *)
(* application's functions set one.                                        *)
Sound(p, disciplined) ==
  /\ p \in Parser
  /\ ~(p.failed /\ p.complete)
  /\ p.failed /\ disciplined => HasError(p.msg.status)

LEMMA FailWithSound ==
  ASSUME NEW msg \in Message, NEW code \in Nat, HasError(code), NEW d
  PROVE  Sound(FailWith(msg, code), d)
BY StatusType, ParserType DEF Sound, FailWith, Fail

LEMMA ParseSound ==
  ASSUME NEW msg \in Message, NEW d
  PROVE  Sound(Parse(msg), d)
BY ParserType DEF Sound, Parse

LEMMA CallOrSound ==
  ASSUME NEW func \in Func, NEW msg \in Message
  PROVE  Sound(CallOr(func, msg), FailsWithError(func))
<1>1. CASE IsNone(func)
  BY <1>1, ParseSound DEF CallOr
<1>2. CASE ~IsNone(func)
  BY <1>2, AnswerType DEF CallOr, Sound, Func, None, IsNone
<1>3. QED
  BY <1>1, <1>2

(* The leaves whose function the application writes *)
WithFunc == {"path", "params", "header", "content", "authorization",
             "bearer_auth", "mac_auth"}

DisciplinedLeaf(f) ==
  /\ f.op = "func" => FailsWithError(f.answer)
  /\ f.op \in WithFunc => FailsWithError(f.func)

(* So every leaf returns a parser like the functions of parser.hpp do.     *)
LEMMA LeafSound ==
  ASSUME NEW f \in Leaf, NEW req \in Request, NEW msg \in Message
  PROVE  Sound(LeafFilter(f, req, msg), DisciplinedLeaf(f))
<1> USE DEF LeafFilter
<1>1. CASE f \in [op : {"pass"}]
  BY <1>1, ParseSound DEF PassFilter
<1>2. CASE f \in [op : {"output"}, content : Content]
  BY <1>2, ParseSound, OutputType DEF OutputFilter
<1>3. CASE f \in [op : {"rheader"}, dict : Headers]
  BY <1>3, ParseSound, HeadersType DEF RheaderFilter
<1>4. CASE f \in [op : {"method"}, methods : SUBSET Method]
  BY <1>4, ParseSound, FailWithSound
     DEF MethodFilter, HasError, MethodNotAllowed, BadRequest
<1>5. CASE f \in [op : {"path"}, paths : SUBSET Path, func : Func]
  <2>1. HasError(NotFound) /\ NotFound \in Nat
    BY DEF HasError, NotFound, BadRequest
  <2>2. Sound(CallOr(f.func, msg), DisciplinedLeaf(f))
    BY <1>5, CallOrSound DEF DisciplinedLeaf, WithFunc, Sound
  <2>3. QED
    BY <1>5, <2>1, <2>2, FailWithSound DEF PathFilter
<1>6. CASE f \in [op : {"params"}, func : Func]
  BY <1>6, CallOrSound DEF DisciplinedLeaf, WithFunc, Sound, ParamsFilter
<1>7. CASE f \in [op : {"header"}, fields : Seq(Field), func : Func]
  <2>1. Sound(CallOr(f.func, msg), DisciplinedLeaf(f))
    BY <1>7, CallOrSound DEF DisciplinedLeaf, WithFunc, Sound
  <2>2. QED
    BY <1>7, <2>1, ParseSound DEF HeaderFilter
<1>8. CASE f \in [op : {"content"}, type : OptionalValue, func : Func]
  <2>1. HasError(UnsupportedMediaType) /\ UnsupportedMediaType \in Nat
    BY DEF HasError, UnsupportedMediaType, BadRequest
  <2>2. Sound(CallOr(f.func, msg), DisciplinedLeaf(f))
    BY <1>8, CallOrSound DEF DisciplinedLeaf, WithFunc, Sound
  <2>3. QED
    BY <1>8, <2>1, <2>2, FailWithSound DEF ContentFilter
<1>9. CASE f \in [op : {"authorization"}, challenge : OptionalValue, func : Func]
  <2>1. HasError(Unauthorized) /\ Unauthorized \in Nat
    BY DEF HasError, Unauthorized, BadRequest
  <2>2. Sound(CallOr(f.func, msg), DisciplinedLeaf(f))
    BY <1>9, CallOrSound DEF DisciplinedLeaf, WithFunc, Sound
  <2>3. f.challenge \in OptionalValue
    BY <1>9
  <2>4. Sound(Fail(SetChallenge(msg, f.challenge)), DisciplinedLeaf(f))
    BY <2>1, <2>3, ChallengeType, ParserType DEF Sound, Fail
  <2>5. QED
    BY <1>9, <2>1, <2>2, <2>4, FailWithSound DEF AuthorizationFilter
<1>10. CASE f \in [op : {"bearer_auth", "mac_auth"}, func : Func]
  <2>1. Sound(CallOr(f.func, msg), DisciplinedLeaf(f))
    BY <1>10, CallOrSound DEF DisciplinedLeaf, WithFunc, Sound
  <2>2. {Bearer, Mac} \subseteq OptionalValue /\ BadRequest \in Nat
    BY FieldAssumption DEF OptionalValue, BadRequest
  <2>3. OutputStatus(msg, BadRequest, Explanation) \in Message
    BY <2>2, OutputStatusType, FieldAssumption
  <2>4. \A scheme \in {Bearer, Mac} : Output(SetChallenge(msg, scheme), Explanation) \in Message
    BY <2>2, ChallengeType, OutputType, FieldAssumption
  <2>5. \A m \in Message : Sound(Complete(m), DisciplinedLeaf(f))
    BY ParserType DEF Sound, Complete
  <2>6. req.field[Authorization] \in {"absent", "empty", "malformed", "valid"}
    BY FieldAssumption DEF Request, FieldState
  <2>7. /\ Sound(BearerAuthFilter(f, req, msg), DisciplinedLeaf(f))
        /\ Sound(MacAuthFilter(f, req, msg), DisciplinedLeaf(f))
    BY <2>1, <2>3, <2>4, <2>5, <2>6
       DEF BearerAuthFilter, MacAuthFilter, CompleteWithChallenge, CompleteWithStatus
  <2>8. QED
    BY <1>10, <2>7
<1>11. CASE f \in [op : {"func"}, answer : Func]
  BY <1>11, CallOrSound DEF FuncFilter, DisciplinedLeaf, WithFunc, Sound
<1>12. QED
  BY <1>1, <1>2, <1>3, <1>4, <1>5, <1>6, <1>7, <1>8, <1>9, <1>10, <1>11 DEF Leaf
-----------------------------------------------------------------------------
(* The parts of an expression are expressions.                             *)
LEMMA Parts ==
  ASSUME NEW f \in Filter
  PROVE  /\ f.op = "then" => f.first \in Filter /\ f.second \in Filter
         /\ f.op = "choice" => f.opts \in Seq(MaybeFilter)
         /\ f.op = "on_error" => f.expr \in MaybeFilter /\ f.handler \in MaybeFilter
         /\ f.op = "on_error_complete" => f.expr \in MaybeFilter /\ f.status \in Nat
<1>1. f \in Leaf \/ f \in Compound
  BY FilterAssumption
<1>2. CASE f \in Leaf
  BY <1>2 DEF Leaf
<1>3. CASE f \in Compound
  BY <1>3 DEF Compound
<1>4. QED
  BY <1>1, <1>2, <1>3

LEMMA MaybeIsFilter ==
  ASSUME NEW f \in MaybeFilter, ~IsNone(f)
  PROVE  f \in Filter
BY DEF MaybeFilter, None, IsNone

(* The call stack, without its innermost frame and with another one.       *)
LEMMA PopType ==
  ASSUME NEW s \in Seq(Frame), s # << >>
  PROVE  /\ s[Len(s)] \in Frame
         /\ SubSeq(s, 1, Len(s) - 1) \in Seq(Frame)
<1>1. Len(s) \in Nat \ {0} /\ \A i \in 1 .. Len(s) : s[i] \in Frame
  BY EmptySeq
<1>2. Len(s) - 1 \in Int /\ \A i \in 1 .. Len(s) - 1 : s[i] \in Frame
  BY <1>1
<1>3. QED
  BY <1>1, <1>2, SubSeqProperties

(* What the innermost frame holds.                                         *)
LEMMA FrameParts ==
  ASSUME NEW fr \in Frame
  PROVE  /\ fr.op = "then" => fr.second \in Filter
         /\ fr.op = "choice" => fr.opts \in Seq(MaybeFilter) /\ fr.msg \in Message
         /\ fr.op = "on_error" => fr.handler \in MaybeFilter /\ fr.msg \in Message
         /\ fr.op = "on_error_complete" => fr.status \in Nat
BY DEF Frame
(* The response is a message: what resolve_status and the copies make.     *)
LEMMA AnsweredType ==
  ASSUME NEW resp \in Message, NEW p \in Parser
  PROVE  Answered(resp, p) \in Message
<1> DEFINE r == SetStatus(resp, ResolveStatus(p))
           h == SetHeaders(r, p.msg.header)
<1>1. p.msg \in Message /\ p.msg.header \in Headers /\ p.msg.body \in Seq(Chunk)
  BY DEF Parser, Message
<1>2. ResolveStatus(p) \in Nat
  BY <1>1 DEF ResolveStatus, Message, InternalServerError, OK
<1>3. r \in Message
  BY <1>2, StatusType
<1>4. h \in Message
  BY <1>1, <1>3, HeadersType
<1> HIDE DEF r, h
<1>5. h.body \o p.msg.body \in Seq(Chunk)
  <2>1. h.body \in Seq(Chunk)
    BY <1>4 DEF Message
  <2>2. QED
    BY <1>1, <2>1
<1>6. [h EXCEPT !.body = @ \o p.msg.body] \in Message
  BY <1>4, <1>5 DEF Message
<1>7. QED
  BY <1>3, <1>6 DEF Answered, r, h

(* The two ways a step ends: a call and a return.                          *)
LEMMA CallType ==
  ASSUME TypeOK, NEW f \in Filter, NEW msg \in Message, Call(f, msg)
  PROVE  /\ mode' = "apply" /\ expr' \in Filter /\ par' \in Parser
         /\ completed' \in SUBSET Parser
BY ParserType DEF Call, TypeOK

LEMMA ReturnType ==
  ASSUME TypeOK, NEW p \in Parser, Return(p)
  PROVE  /\ mode' = "return" /\ expr' \in Filter /\ par' \in Parser
         /\ completed' \in SUBSET Parser
BY DEF Return, TypeOK

-----------------------------------------------------------------------------
(* TypeOK is not inductive: the round of a choice needs to know that the   *)
(* innermost frame is the one of the choice, and another evaluation of the *)
(* same context, that the one before has returned from every call.         *)
Choosing == mode = "choose" => stack # << >> /\ Top.op = "choice"

Returned == mode = "done" => stack = << >>

TypeInv == TypeOK /\ Choosing /\ Returned

LEMMA ReturnedStep == TypeInv /\ [Next]_vars => Returned'
<1> SUFFICES ASSUME TypeInv, [Next]_vars PROVE Returned'
  OBVIOUS
<1> USE DEF TypeInv, Returned
<1>1. ASSUME mode' # "done" PROVE Returned'
  BY <1>1
<1>2. ASSUME Respond PROVE Returned'
  BY <1>2 DEF Respond
<1>3. ASSUME NextOption PROVE mode' # "done"
  BY <1>3 DEF NextOption, Call, Return
<1>4. ASSUME UNCHANGED vars PROVE Returned'
  BY <1>4 DEF vars
<1>5. QED
  BY <1>1, <1>2, <1>3, <1>4
     DEF Next, Step, Again, Done, ApplyLeaf, ApplyThen, ReturnThen, ApplyChoice, ReturnChoice,
         ApplyOnError, ReturnOnError, ApplyOnErrorComplete, ReturnOnErrorComplete,
         Returning, Call, Return

LEMMA ChoosingStep == TypeInv /\ [Next]_vars => Choosing'
<1> SUFFICES ASSUME TypeInv, [Next]_vars PROVE Choosing'
  OBVIOUS
<1> USE DEF TypeInv, Choosing, Top
<1>1. ASSUME mode' # "choose" PROVE Choosing'
  BY <1>1
<1>2. ASSUME ApplyChoice PROVE Choosing'
  <2>1. stack' = Append(stack, [op |-> "choice", opts |-> expr.opts, msg |-> par.msg])
    BY <1>2 DEF ApplyChoice, Push
  <2>2. Len(stack') = Len(stack) + 1 /\ stack'[Len(stack) + 1].op = "choice" /\ stack' # << >>
    BY <2>1, AppendProperties DEF TypeOK
  <2>3. QED
    BY <2>2
<1>3. ASSUME NextOption, mode' = "choose" PROVE Choosing'
  <2> DEFINE fr == [Top EXCEPT !.opts = Tail(@)]
  <2>1. stack # << >> /\ Top \in Frame /\ Rest \in Seq(Frame) /\ Top.op = "choice"
    BY <1>3, PopType DEF NextOption, TypeOK, Rest
  <2>2. stack' = Append(Rest, fr)
    BY <1>3 DEF NextOption, Return
  <2>3. fr.op = "choice"
    BY <2>1 DEF Frame
  <2> HIDE DEF fr
  <2>4. Len(stack') = Len(Rest) + 1 /\ stack'[Len(Rest) + 1] = fr /\ stack' # << >>
    BY <2>1, <2>2, AppendProperties
  <2>5. QED
    BY <2>3, <2>4
<1>4. ASSUME ReturnChoice PROVE Choosing'
  BY <1>4 DEF ReturnChoice, Returning, Return
<1>5. ASSUME UNCHANGED vars PROVE Choosing'
  BY <1>5 DEF vars
<1>6. QED
  BY <1>1, <1>2, <1>3, <1>4, <1>5
     DEF Next, Step, Again, ApplyLeaf, ApplyThen, ReturnThen, ApplyOnError, ReturnOnError,
         ApplyOnErrorComplete, ReturnOnErrorComplete, Respond, Done, Call, Return

(* Each step keeps the types.                                              *)
LEMMA TypeStep == TypeInv /\ [Next]_vars => TypeOK'
<1> SUFFICES ASSUME TypeInv, [Next]_vars PROVE TypeOK'
  OBVIOUS
<1> USE DEF TypeInv
<1>1. par.msg \in Message /\ expr \in Filter /\ request \in Request
  BY FilterAssumption DEF TypeOK, Parser
<1>2. stack # << >> => Top \in Frame /\ Rest \in Seq(Frame)
  BY PopType DEF TypeOK, Top, Rest
<1>3. ASSUME ApplyLeaf PROVE TypeOK'
  <2>1. LeafFilter(expr, request, par.msg) \in Parser
    BY <1>1, <1>3, LeafSound DEF ApplyLeaf, Sound
  <2>2. QED
    BY <1>3, <2>1, ReturnType DEF ApplyLeaf, TypeOK, context
<1>4. ASSUME ApplyThen PROVE TypeOK'
  <2>1. expr.first \in Filter /\ expr.second \in Filter
    BY <1>1, <1>4, Parts DEF ApplyThen, Applying
  <2>2. [op |-> "then", second |-> expr.second] \in Frame
    BY <2>1 DEF Frame
  <2>3. stack' \in Seq(Frame)
    BY <1>4, <2>2 DEF ApplyThen, Push, TypeOK
  <2>4. QED
    BY <1>1, <1>4, <2>1, <2>3, CallType DEF ApplyThen, TypeOK, context
<1>5. ASSUME ReturnThen PROVE TypeOK'
  <2>1. Top.second \in Filter /\ stack' \in Seq(Frame)
    BY <1>2, <1>5, FrameParts DEF ReturnThen, Returning, Pop
  <2>2. par \in Parser
    BY DEF TypeOK
  <2>3. QED
    BY <1>1, <1>5, <2>1, <2>2, CallType, ReturnType DEF ReturnThen, TypeOK, context
<1>6. ASSUME ApplyChoice PROVE TypeOK'
  <2>1. expr.opts \in Seq(MaybeFilter)
    BY <1>1, <1>6, Parts DEF ApplyChoice, Applying
  <2>2. [op |-> "choice", opts |-> expr.opts, msg |-> par.msg] \in Frame
    BY <1>1, <2>1 DEF Frame
  <2>3. stack' \in Seq(Frame)
    BY <1>6, <2>2 DEF ApplyChoice, Push, TypeOK
  <2>4. QED
    BY <1>6, <2>3 DEF ApplyChoice, TypeOK, context
<1>7. ASSUME NextOption PROVE TypeOK'
  <2>1. stack # << >> /\ Top.op = "choice"
    BY <1>7 DEF NextOption, Choosing
  <2>2. Top.opts \in Seq(MaybeFilter) /\ Top.msg \in Message /\ Rest \in Seq(Frame)
    BY <1>2, <2>1, FrameParts
  <2>3. CASE Top.opts = << >>
    <3>1. Exhausted(Top.msg) \in Parser
      BY <2>2, StatusType, ParserType DEF Exhausted, FailWith, NotFound
    <3>2. QED
      BY <1>7, <2>2, <2>3, <3>1, ReturnType DEF NextOption, Pop, TypeOK, context
  <2>4. CASE Top.opts # << >>
    <3>1. Head(Top.opts) \in MaybeFilter /\ Tail(Top.opts) \in Seq(MaybeFilter)
      BY <2>2, <2>4
    <3>2. [Top EXCEPT !.opts = Tail(@)] \in Frame
      BY <1>2, <2>1, <3>1 DEF Frame
    <3>3. stack' \in Seq(Frame)
      BY <1>7, <2>2, <2>4, <3>2 DEF NextOption
    <3>4. CASE IsNone(Head(Top.opts))
      BY <1>7, <2>4, <3>3, <3>4 DEF NextOption, TypeOK, context
    <3>5. CASE ~IsNone(Head(Top.opts))
      BY <1>7, <2>2, <2>4, <3>1, <3>3, <3>5, MaybeIsFilter, CallType
         DEF NextOption, OptionMessage, TypeOK, context
    <3>6. QED
      BY <3>4, <3>5
  <2>5. QED
    BY <2>3, <2>4
<1>8. ASSUME ReturnChoice PROVE TypeOK'
  <2>1. Rest \in Seq(Frame) /\ par \in Parser
    BY <1>2, <1>8 DEF ReturnChoice, Returning, TypeOK
  <2>2. CASE NotFailedOrComplete(par)
    BY <1>8, <2>1, <2>2, ReturnType DEF ReturnChoice, Pop, TypeOK, context
  <2>3. CASE ~NotFailedOrComplete(par)
    BY <1>8, <2>3 DEF ReturnChoice, TypeOK, context
  <2>4. QED
    BY <2>2, <2>3
<1>9. ASSUME ApplyOnError PROVE TypeOK'
  <2>1. expr.expr \in MaybeFilter /\ expr.handler \in MaybeFilter
    BY <1>1, <1>9, Parts DEF ApplyOnError, Applying
  <2>2. CASE IsNone(expr.expr)
    BY <1>1, <1>9, <2>2, ParserType, ReturnType DEF ApplyOnError, TypeOK, context
  <2>3. CASE ~IsNone(expr.expr)
    <3>1. [op |-> "on_error", handler |-> expr.handler, msg |-> par.msg] \in Frame
      BY <1>1, <2>1 DEF Frame
    <3>2. stack' \in Seq(Frame)
      BY <1>9, <2>3, <3>1 DEF ApplyOnError, Push, TypeOK
    <3>3. QED
      BY <1>1, <1>9, <2>1, <2>3, <3>2, MaybeIsFilter, CallType
         DEF ApplyOnError, TypeOK, context
  <2>4. QED
    BY <2>2, <2>3
<1>10. ASSUME ReturnOnError PROVE TypeOK'
  <2>1. Rest \in Seq(Frame) /\ Top.handler \in MaybeFilter /\ Top.msg \in Message
    BY <1>2, <1>10, FrameParts DEF ReturnOnError, Returning
  <2>2. overridden' \in BOOLEAN
    BY <1>10 DEF ReturnOnError
  <2>3. CASE Handles(Top, par)
    <3>1. Top.handler \in Filter
      BY <2>1, <2>3, MaybeIsFilter DEF Handles
    <3>2. Call(Top.handler, par.msg)
      BY <1>10, <2>3 DEF ReturnOnError
    <3>3. QED
      BY <1>1, <1>10, <2>1, <2>2, <3>1, <3>2, CallType DEF ReturnOnError, Pop, TypeOK, context
  <2>4. CASE ~Handles(Top, par)
    BY <1>10, <2>1, <2>2, <2>4, ParserType, ReturnType DEF ReturnOnError, Pop, TypeOK, context
  <2>5. QED
    BY <2>3, <2>4
<1>11. ASSUME ApplyOnErrorComplete PROVE TypeOK'
  <2>1. expr.expr \in MaybeFilter /\ expr.status \in Nat
    BY <1>1, <1>11, Parts DEF ApplyOnErrorComplete, Applying
  <2>2. CASE IsNone(expr.expr)
    BY <1>1, <1>11, <2>2, ParserType, ReturnType DEF ApplyOnErrorComplete, TypeOK, context
  <2>3. CASE ~IsNone(expr.expr)
    <3>1. [op |-> "on_error_complete", status |-> expr.status] \in Frame
      BY <2>1 DEF Frame
    <3>2. stack' \in Seq(Frame)
      BY <1>11, <2>3, <3>1 DEF ApplyOnErrorComplete, Push, TypeOK
    <3>3. QED
      BY <1>1, <1>11, <2>1, <2>3, <3>2, MaybeIsFilter, CallType
         DEF ApplyOnErrorComplete, TypeOK, context
  <2>4. QED
    BY <2>2, <2>3
<1>12. ASSUME ReturnOnErrorComplete PROVE TypeOK'
  <2>1. Rest \in Seq(Frame) /\ Top.status \in Nat /\ par \in Parser
    BY <1>2, <1>12, FrameParts DEF ReturnOnErrorComplete, Returning, TypeOK
  <2>2. /\ Complete(par.msg) \in Parser
        /\ CompleteWithError(par.msg, Top.status) \in Parser
    BY <1>1, <2>1, StatusType, ParserType DEF CompleteWithError
  <2>3. QED
    BY <1>12, <2>1, <2>2, ReturnType DEF ReturnOnErrorComplete, Pop, TypeOK, context
<1>13. ASSUME Respond PROVE TypeOK'
  <2>1. results' \in Seq(Parser)
    BY <1>13 DEF Respond, TypeOK
  <2>2. response' \in Message
    BY <1>13, AnsweredType DEF Respond, TypeOK
  <2>3. QED
    BY <1>13, <2>1, <2>2 DEF Respond, TypeOK
<1>14. ASSUME Again PROVE TypeOK'
  <2>1. program' \in Program \cup Later /\ expr' \in Filter
    BY <1>14, FilterAssumption DEF Again
  <2>2. par' \in Parser
    BY <1>14, NewMessageType, ParserType DEF Again
  <2>3. completed' \in SUBSET Parser /\ overridden' \in BOOLEAN /\ mode' = "apply"
    BY <1>14 DEF Again
  <2>4. QED
    BY <1>14, <2>1, <2>2, <2>3 DEF Again, TypeOK
<1>15. ASSUME UNCHANGED vars PROVE TypeOK'
  BY <1>15 DEF vars, TypeOK
<1>16. QED
  BY <1>3, <1>4, <1>5, <1>6, <1>7, <1>8, <1>9, <1>10, <1>11, <1>12, <1>13, <1>14, <1>15
     DEF Next, Step, Done

(* An evaluation starts with them.                                         *)
LEMMA InitType == Init => TypeInv
<1> SUFFICES ASSUME Init PROVE TypeOK
  BY DEF Init, TypeInv, Choosing, Returned
<1>1. NewMessage \in Message /\ NoResponse \in Message
  BY DEF NewMessage, NoResponse, Message, Headers, OptionalValue
<1>2. par \in Parser
  BY <1>1, ParserType DEF Init
<1>3. stack \in Seq(Frame) /\ results \in Seq(Parser)
  BY DEF Init
<1>4. QED
  BY <1>1, <1>2, <1>3, FilterAssumption DEF Init, TypeOK

(* The state of an evaluation keeps its types: every call is of a filter   *)
(* of the expression, and every frame has the parts its return needs.      *)
THEOREM Typing == Spec => []TypeOK
<1>1. Init => TypeInv
  BY InitType
<1>2. TypeInv /\ [Next]_vars => TypeInv'
  BY TypeStep, ChoosingStep, ReturnedStep DEF TypeInv
<1>3. TypeInv => TypeOK
  BY DEF TypeInv
<1>4. QED
  BY <1>1, <1>2, <1>3, PTL DEF Spec
-----------------------------------------------------------------------------
(* The parser in flight is sound, and the response is what the evaluator   *)
(* makes of it.                                                            *)
SoundInv ==
  /\ Sound(par, Disciplined)
  /\ mode = "done" /\ par.failed /\ Disciplined => HasError(response.status)

LEMMA DisciplinedParts ==
  ASSUME NEW f \in Filter, Disciplined
  PROVE  DisciplinedLeaf(f)
BY DEF Disciplined, DisciplinedLeaf, WithFunc

LEMMA CallSound ==
  ASSUME NEW f, NEW msg \in Message, Call(f, msg)
  PROVE  SoundInv'
<1>1. Sound(Parse(msg), Disciplined)
  BY ParseSound
<1>2. QED
  BY <1>1 DEF Call, SoundInv

LEMMA ReturnSound ==
  ASSUME NEW p, Sound(p, Disciplined), Return(p)
  PROVE  SoundInv'
BY DEF Return, SoundInv

LEMMA SoundStep == TypeInv /\ SoundInv /\ [Next]_vars => SoundInv'
<1> SUFFICES ASSUME TypeInv, SoundInv, [Next]_vars PROVE SoundInv'
  OBVIOUS
<1>1. /\ par \in Parser /\ par.msg \in Message /\ expr \in Filter /\ request \in Request
      /\ stack # << >> => Top \in Frame
  BY FilterAssumption, PopType DEF TypeInv, TypeOK, Parser, Top
<1>2. \A msg \in Message : Sound(Parse(msg), Disciplined) /\ Sound(Complete(msg), Disciplined)
  BY ParseSound, ParserType DEF Sound, Complete
<1>3. Sound(par, Disciplined)
  BY DEF SoundInv
<1>4. ASSUME ApplyLeaf PROVE SoundInv'
  <2>1. Sound(LeafFilter(expr, request, par.msg), Disciplined)
    BY <1>1, <1>4, LeafSound, DisciplinedParts DEF ApplyLeaf, Sound
  <2>2. QED
    BY <1>4, <2>1, ReturnSound DEF ApplyLeaf
<1>5. ASSUME ApplyThen PROVE SoundInv'
  BY <1>1, <1>5, CallSound DEF ApplyThen
<1>6. ASSUME ReturnThen PROVE SoundInv'
  BY <1>1, <1>3, <1>6, CallSound, ReturnSound DEF ReturnThen
<1>7. ASSUME ApplyChoice PROVE SoundInv'
  BY <1>7 DEF ApplyChoice, SoundInv
<1>8. ASSUME NextOption PROVE SoundInv'
  <2>1. Top.msg \in Message
    BY <1>1, <1>8, FrameParts DEF NextOption, TypeInv, Choosing
  <2>2. Sound(Exhausted(Top.msg), Disciplined)
    BY <2>1, FailWithSound DEF Exhausted, NotFound, HasError, BadRequest
  <2>3. CASE UNCHANGED <<mode, par>>
    BY <1>8, <2>3 DEF NextOption, SoundInv
  <2>4. CASE \E f : Call(f, Top.msg)
    BY <2>1, <2>4, CallSound
  <2>5. QED
    BY <1>8, <2>2, <2>3, <2>4, ReturnSound DEF NextOption, OptionMessage
<1>9. ASSUME ReturnChoice PROVE SoundInv'
  <2>1. CASE Return(par)
    BY <1>3, <2>1, ReturnSound
  <2>2. CASE mode' = "choose" /\ par' = par
    BY <1>3, <2>2 DEF SoundInv
  <2>3. QED
    BY <1>9, <2>1, <2>2 DEF ReturnChoice
<1>10. ASSUME ApplyOnError PROVE SoundInv'
  BY <1>1, <1>2, <1>10, CallSound, ReturnSound DEF ApplyOnError
<1>11. ASSUME ReturnOnError PROVE SoundInv'
  <2>1. Top.msg \in Message
    BY <1>1, <1>11, FrameParts DEF ReturnOnError, Returning
  <2>2. QED
    BY <1>1, <1>2, <1>11, <2>1, CallSound, ReturnSound DEF ReturnOnError
<1>12. ASSUME ApplyOnErrorComplete PROVE SoundInv'
  BY <1>1, <1>2, <1>12, CallSound, ReturnSound DEF ApplyOnErrorComplete
<1>13. ASSUME ReturnOnErrorComplete PROVE SoundInv'
  <2>1. Top.status \in Nat
    BY <1>1, <1>13, FrameParts DEF ReturnOnErrorComplete, Returning
  <2>2. Sound(CompleteWithError(par.msg, Top.status), Disciplined)
    BY <1>1, <1>2, <2>1, StatusType DEF CompleteWithError
  <2>3. QED
    BY <1>1, <1>2, <1>3, <1>13, <2>2, ReturnSound DEF ReturnOnErrorComplete
<1>14. ASSUME Respond PROVE SoundInv'
  <2>1. par.failed => response'.status = ResolveStatus(par)
    BY <1>14, <1>1 DEF Respond, Answered, SetStatus, TypeInv, TypeOK, Message
  <2>2. par.failed /\ Disciplined => ResolveStatus(par) = par.msg.status
    BY <1>1, <1>3 DEF Sound, ResolveStatus, HasError, BadRequest
  <2>3. UNCHANGED par
    BY <1>14 DEF Respond
  <2>4. QED
    BY <1>3, <2>1, <2>2, <2>3 DEF SoundInv, Sound
<1>15. ASSUME Again PROVE SoundInv'
  <2>1. Sound(Parse(NewMessage), Disciplined)
    BY <1>2, NewMessageType
  <2>2. QED
    BY <1>15, <2>1 DEF Again, SoundInv
<1>16. ASSUME UNCHANGED vars PROVE SoundInv'
  BY <1>16 DEF vars, SoundInv
<1>17. QED
  BY <1>4, <1>5, <1>6, <1>7, <1>8, <1>9, <1>10, <1>11, <1>12, <1>13, <1>14, <1>15, <1>16
     DEF Next, Step, Done

(* No expression, however it is combined, makes a parser that is failed    *)
(* and complete: the two flags of basic_parser exclude each other.         *)
THEOREM Soundness == Spec => []SoundInv
<1>1. Init => TypeInv /\ SoundInv
  <2> SUFFICES ASSUME Init PROVE TypeInv /\ SoundInv
    OBVIOUS
  <2>1. TypeInv
    BY InitType
  <2>2. par.msg \in Message /\ par = Parse(par.msg) /\ mode = "apply"
    BY <2>1 DEF Init, TypeInv, TypeOK, Parser, Parse
  <2>3. QED
    BY <2>1, <2>2, ParseSound DEF SoundInv
<1>2. QED
  BY <1>1, SoundStep, TypeStep, ChoosingStep, ReturnedStep, PTL DEF Spec, TypeInv

(* A failed evaluation is answered with an error status when the functions *)
(* of the application give one with every failure.                         *)
THEOREM ErrorStatus == Spec => []FailureIsAnError
<1>1. SoundInv => FailureIsAnError
  BY DEF SoundInv, FailureIsAnError
<1>2. QED
  BY <1>1, Soundness, PTL
-----------------------------------------------------------------------------
(* Once a parser is complete and nothing overrides it, the evaluation does *)
(* nothing but return that parser.                                         *)
CompletionInv ==
  /\ completed # {} /\ ~overridden => mode \in {"return", "done"} /\ par \in completed
  /\ \A p \in completed : p.complete
  /\ mode = "return" /\ par.complete => completed # {}

LEMMA CompletionStep == CompletionInv /\ [Next]_vars => CompletionInv'
<1> SUFFICES ASSUME CompletionInv, [Next]_vars PROVE CompletionInv'
  OBVIOUS
<1> USE DEF CompletionInv
<1>1. ASSUME NEW f, NEW msg, Call(f, msg), overridden' \/ completed = {}
      PROVE  CompletionInv'
  BY <1>1 DEF Call, Parse
<1>2. ASSUME NEW p, Return(p), overridden' \/ completed = {} \/ (p = par /\ overridden' = overridden)
      PROVE  CompletionInv'
  BY <1>2 DEF Return
<1>3. CASE ApplyLeaf
  BY <1>2, <1>3 DEF ApplyLeaf
<1>4. CASE ApplyThen
  BY <1>1, <1>4 DEF ApplyThen, Applying
<1>5. CASE ReturnThen
  BY <1>1, <1>2, <1>5 DEF ReturnThen, FailedOrComplete
<1>6. CASE ApplyChoice
  BY <1>6 DEF ApplyChoice, Applying
<1>7. CASE NextOption
  BY <1>1, <1>2, <1>7 DEF NextOption
<1>8. CASE ReturnChoice
  BY <1>2, <1>8 DEF ReturnChoice, NotFailedOrComplete
<1>9. CASE ApplyOnError
  BY <1>1, <1>2, <1>9 DEF ApplyOnError, Applying
<1>10. CASE ReturnOnError
  <2>1. overridden' = (overridden \/ par.complete)
    BY <1>10 DEF ReturnOnError
  <2>2. completed # {} => overridden \/ par.complete
    OBVIOUS
  <2>3. overridden' \/ completed = {}
    BY <2>1, <2>2, Zenon
  <2>4. CASE Handles(Top, par)
    BY <1>1, <1>10, <2>3, <2>4 DEF ReturnOnError
  <2>5. CASE ~Handles(Top, par)
    BY <1>2, <1>10, <2>3, <2>5 DEF ReturnOnError
  <2>6. QED
    BY <2>4, <2>5
<1>11. CASE ApplyOnErrorComplete
  BY <1>1, <1>2, <1>11 DEF ApplyOnErrorComplete, Applying
<1>12. CASE ReturnOnErrorComplete
  BY <1>2, <1>12 DEF ReturnOnErrorComplete, Completes
<1>13. CASE Respond
  BY <1>13 DEF Respond
<1>14. CASE Again
  BY <1>14 DEF Again
<1>15. CASE UNCHANGED vars
  BY <1>15 DEF vars
<1>16. QED
  BY <1>3, <1>4, <1>5, <1>6, <1>7, <1>8, <1>9, <1>10, <1>11, <1>12, <1>13, <1>14, <1>15
     DEF Next, Step, Done

(* A complete parser passes unchanged through every sequence, choice and   *)
(* on_error_complete around it, in any expression, and is the result.      *)
THEOREM CompletionResult == Spec => []CompletionIsFinal
<1>1. Init => CompletionInv
  BY DEF Init, CompletionInv
<1>2. CompletionInv => CompletionIsFinal
  BY DEF CompletionInv, CompletionIsFinal
<1>3. QED
  BY <1>1, <1>2, CompletionStep, PTL DEF Spec

-----------------------------------------------------------------------------
(* The frame of the outermost on_error_complete stays at the bottom of the *)
(* stack until the last return, which passes through it.                   *)
Guarded(p) == ~p.failed /\ (HasError(p.msg.status) => p.complete)

GuardInv ==
  program.op = "on_error_complete" =>
    \/ /\ mode = "apply" /\ stack = << >>
       /\ expr = program /\ par = Parse(NewMessage)
    \/ /\ mode \in {"apply", "choose", "return"}
       /\ stack # << >> /\ stack[1].op = "on_error_complete"
    \/ mode \in {"return", "done"} /\ stack = << >> /\ Guarded(par)

(* What a push, a pop and a replaced frame leave at the bottom.            *)
LEMMA Bottom ==
  ASSUME NEW s \in Seq(Frame), s # << >>
  PROVE  /\ \A fr : Append(s, fr) # << >> /\ Append(s, fr)[1] = s[1]
         /\ Len(s) > 1 => /\ SubSeq(s, 1, Len(s) - 1) # << >>
                          /\ SubSeq(s, 1, Len(s) - 1)[1] = s[1]
         /\ Len(s) = 1 => SubSeq(s, 1, Len(s) - 1) = << >> /\ s[Len(s)] = s[1]
<1>1. Len(s) \in Nat \ {0} /\ \A i \in 1 .. Len(s) : s[i] \in Frame
  BY EmptySeq
<1>2. \A fr : Append(s, fr) # << >> /\ Append(s, fr)[1] = s[1]
  BY <1>1, AppendProperties
<1>3. \A i \in 1 .. Len(s) - 1 : s[i] \in Frame
  BY <1>1
<1>4. ASSUME Len(s) > 1
      PROVE  SubSeq(s, 1, Len(s) - 1) # << >> /\ SubSeq(s, 1, Len(s) - 1)[1] = s[1]
  <2> DEFINE r == SubSeq(s, 1, Len(s) - 1)
  <2>1. Len(s) - 1 \in Int /\ 1 \in 1 .. Len(s) - 1
    BY <1>1, <1>4
  <2>2. r \in Seq(Frame) /\ Len(r) = Len(s) - 1 /\ r[1] = s[1]
    BY <1>3, <2>1, SubSeqProperties
  <2> HIDE DEF r
  <2>3. r # << >>
    BY <2>1, <2>2
  <2>4. QED
    BY <2>2, <2>3 DEF r
<1>5. ASSUME Len(s) = 1 PROVE SubSeq(s, 1, Len(s) - 1) = << >>
  BY <1>5, SubSeqEmpty
<1>6. QED
  BY <1>2, <1>4, <1>5
(* A step within the guard leaves its frame at the bottom of the stack.    *)
LEMMA InsideGuard ==
  ASSUME TypeInv, SoundInv, [Next]_vars,
         mode \in {"apply", "choose", "return"},
         stack # << >>, stack[1].op = "on_error_complete"
  PROVE  \/ /\ mode' \in {"apply", "choose", "return"}
            /\ stack' # << >> /\ stack'[1].op = "on_error_complete"
         \/ (mode' = "return" /\ stack' = << >> /\ Guarded(par'))
<1> DEFINE Inside == /\ mode' \in {"apply", "choose", "return"}
                     /\ stack' # << >> /\ stack'[1].op = "on_error_complete"
<1>1. stack \in Seq(Frame) /\ Len(stack) \in Nat \ {0} /\ par \in Parser
  BY EmptySeq DEF TypeInv, TypeOK
<1>2. \A fr : stack' = Append(stack, fr) => stack' # << >> /\ stack'[1] = stack[1]
  BY <1>1, Bottom
<1>3. Top.op # "on_error_complete" => Len(stack) > 1
  BY <1>1 DEF Top
<1>4. Len(stack) > 1 => Rest # << >> /\ Rest[1] = stack[1] /\ Rest \in Seq(Frame)
  BY <1>1, Bottom, PopType DEF Rest
<1>5. Len(stack) = 1 => Rest = << >>
  BY <1>1, Bottom DEF Rest
<1>6. ASSUME ApplyLeaf PROVE Inside
  BY <1>6 DEF ApplyLeaf, Return
<1>7. ASSUME ApplyThen PROVE Inside
  BY <1>2, <1>7 DEF ApplyThen, Push, Call
<1>8. ASSUME ReturnThen PROVE Inside
  BY <1>3, <1>4, <1>8 DEF ReturnThen, Returning, Pop, Call, Return
<1>9. ASSUME ApplyChoice PROVE Inside
  BY <1>2, <1>9 DEF ApplyChoice, Push
<1>10. ASSUME NextOption PROVE Inside
  <2>1. Top.op = "choice" /\ mode' \in {"apply", "choose", "return"}
    BY <1>10 DEF NextOption, TypeInv, Choosing, Call, Return
  <2>2. Rest # << >> /\ Rest[1] = stack[1] /\ Rest \in Seq(Frame)
    BY <1>3, <1>4, <2>1
  <2>3. \A fr : Append(Rest, fr) # << >> /\ Append(Rest, fr)[1] = stack[1]
    BY <2>2, Bottom
  <2>4. stack' = Rest \/ \E fr : stack' = Append(Rest, fr)
    BY <1>10 DEF NextOption, Pop
  <2>5. QED
    BY <2>1, <2>2, <2>3, <2>4
<1>11. ASSUME ReturnChoice PROVE Inside
  BY <1>3, <1>4, <1>11 DEF ReturnChoice, Returning, Pop, Return
<1>12. ASSUME ApplyOnError PROVE Inside
  BY <1>2, <1>12 DEF ApplyOnError, Push, Call, Return
<1>13. ASSUME ReturnOnError PROVE Inside
  BY <1>3, <1>4, <1>13 DEF ReturnOnError, Returning, Pop, Call, Return
<1>14. ASSUME ApplyOnErrorComplete PROVE Inside
  BY <1>2, <1>14 DEF ApplyOnErrorComplete, Push, Call, Return
<1>15. ASSUME ReturnOnErrorComplete
       PROVE  Inside \/ (mode' = "return" /\ stack' = << >> /\ Guarded(par'))
  <2>1. mode' = "return" /\ stack' = Rest
    BY <1>15 DEF ReturnOnErrorComplete, Pop, Return
  <2>2. CASE Len(stack) > 1
    BY <1>4, <2>1, <2>2
  <2>3. CASE Len(stack) = 1
    <3>1. ~(par.failed /\ par.complete)
      BY DEF SoundInv, Sound
    <3>2. Completes(par) => Guarded(par')
      BY <1>15 DEF ReturnOnErrorComplete, Return, Guarded, CompleteWithError, Complete
    <3>3. ~Completes(par) => par' = par
      BY <1>15 DEF ReturnOnErrorComplete, Return
    <3>4. ~Completes(par) => Guarded(par)
      BY <1>1, <3>1 DEF Completes, Guarded, Parser
    <3>5. QED
      BY <1>5, <2>1, <2>3, <3>2, <3>3, <3>4
  <2>4. Len(stack) > 1 \/ Len(stack) = 1
    <3>1. \A n \in Nat \ {0} : n > 1 \/ n = 1
      OBVIOUS
    <3>2. QED
      BY <1>1, <3>1
  <2>5. QED
    BY <2>2, <2>3, <2>4
<1>16. CASE UNCHANGED vars
  BY <1>16 DEF vars
<1>17. QED
  BY <1>6, <1>7, <1>8, <1>9, <1>10, <1>11, <1>12, <1>13, <1>14, <1>15, <1>16
     DEF Next, Step, Again, Respond, Done

LEMMA GuardStep == TypeInv /\ SoundInv /\ GuardInv /\ [Next]_vars => GuardInv'
<1> SUFFICES ASSUME TypeInv, SoundInv, GuardInv, [Next]_vars PROVE GuardInv'
  OBVIOUS
<1>1. Again \/ UNCHANGED program
  BY DEF Next, Step, Done, vars, ApplyLeaf, ApplyThen, ReturnThen, ApplyChoice, NextOption,
         ReturnChoice, ApplyOnError, ReturnOnError, ApplyOnErrorComplete,
         ReturnOnErrorComplete, Respond, context
<1>2. ASSUME Again PROVE GuardInv'
  BY <1>2 DEF Again, GuardInv, TypeInv, Returned
<1>3. SUFFICES ASSUME program.op = "on_error_complete", ~Again PROVE GuardInv'
  BY <1>1, <1>2 DEF GuardInv
<1>4. CASE mode = "apply" /\ stack = << >> /\ expr = program /\ par = Parse(NewMessage)
  <2>1. expr \notin Leaf
    BY <1>3, <1>4 DEF Leaf
  <2>2. ApplyOnErrorComplete \/ UNCHANGED vars
    BY <1>3, <1>4, <2>1
       DEF Next, Step, Done, ApplyLeaf, ApplyThen, ReturnThen, Returning, ApplyChoice, NextOption,
           ReturnChoice, ApplyOnError, ReturnOnError, ReturnOnErrorComplete, Respond, Applying
  <2>3. CASE ApplyOnErrorComplete /\ IsNone(expr.expr)
    <3>1. mode' = "return" /\ stack' = << >> /\ par' = Parse(par.msg)
      BY <1>4, <2>3 DEF ApplyOnErrorComplete, Return
    <3>2. Guarded(Parse(NewMessage)) /\ Parse(NewMessage).msg = NewMessage
      BY DEF Guarded, Parse, NewMessage, HasError, BadRequest
    <3>3. QED
      BY <1>4, <3>1, <3>2 DEF GuardInv
  <2>4. CASE ApplyOnErrorComplete /\ ~IsNone(expr.expr)
    <3>1. stack' = << [op |-> "on_error_complete", status |-> expr.status] >> /\ mode' = "apply"
      BY <1>4, <2>4 DEF ApplyOnErrorComplete, Push, Call
    <3>2. QED
      BY <3>1 DEF GuardInv
  <2>5. CASE UNCHANGED vars
    BY <2>5 DEF vars, GuardInv
  <2>6. QED
    BY <2>2, <2>3, <2>4, <2>5
<1>5. CASE mode \in {"apply", "choose", "return"} /\ stack # << >> /\ stack[1].op = "on_error_complete"
  BY <1>5, InsideGuard DEF GuardInv
<1>6. CASE mode \in {"return", "done"} /\ stack = << >> /\ Guarded(par)
  <2>1. UNCHANGED <<par, stack>> /\ mode' \in {"return", "done"}
    BY <1>3, <1>6 DEF Next, Step, Done, vars, ApplyLeaf, ApplyThen, ReturnThen, Returning, ApplyChoice,
                NextOption, ReturnChoice, ApplyOnError, ReturnOnError, ApplyOnErrorComplete,
                ReturnOnErrorComplete, Respond, Applying
  <2>2. QED
    BY <1>6, <2>1 DEF GuardInv
<1>7. QED
  BY <1>3, <1>4, <1>5, <1>6 DEF GuardInv

(* An application inside on_error_complete never answers with a failed     *)
(* parser or an incomplete error, however deep the failure was.            *)
THEOREM GuardHolds == Spec => []GuardedNeverFails
<1>1. Init => GuardInv
  BY DEF Init, GuardInv
<1>2. TypeInv /\ GuardInv => GuardedNeverFails
  BY DEF GuardInv, GuardedNeverFails, Guarded
<1>3. Spec => []TypeInv
  BY InitType, TypeStep, ChoosingStep, ReturnedStep, PTL DEF Spec, TypeInv
<1>4. QED
  BY <1>1, <1>2, <1>3, Soundness, GuardStep, PTL DEF Spec
-----------------------------------------------------------------------------
(* Messages only grow: the order Extends, and the operations that respect  *)
(* it.                                                                     *)
LEMMA ExtendsReflexive ==
  ASSUME NEW m \in Message
  PROVE  Extends(m, m)
BY DEF Extends, Message

LEMMA ExtendsTransitive ==
  ASSUME NEW k \in Message, NEW m \in Message, NEW n \in Message,
         Extends(n, m), Extends(m, k)
  PROVE  Extends(n, k)
<1>1. Len(k.body) \in Nat /\ Len(m.body) \in Nat /\ Len(n.body) \in Nat
  BY DEF Message
<1>2. Len(k.body) <= Len(n.body)
  BY <1>1 DEF Extends
<1>3. \A i \in 1 .. Len(k.body) : i \in 1 .. Len(m.body)
  BY <1>1 DEF Extends
<1>4. \A i \in 1 .. Len(k.body) : n.body[i] = k.body[i]
  BY <1>3 DEF Extends
<1>5. QED
  BY <1>2, <1>4 DEF Extends

LEMMA SetStatusExtends ==
  ASSUME NEW m \in Message, NEW code \in Nat
  PROVE  Extends(SetStatus(m, code), m)
BY DEF SetStatus, Extends, Message

LEMMA SetHeadersExtends ==
  ASSUME NEW m \in Message, NEW dict \in Headers
  PROVE  Extends(SetHeaders(m, dict), m)
BY DEF SetHeaders, Extends, Message, Headers

LEMMA SetHeaderExtends ==
  ASSUME NEW m \in Message, NEW n \in HeaderName, NEW v \in OptionalValue
  PROVE  Extends(SetHeader(m, n, v), m)
BY DEF SetHeader, Extends, Message, Headers

LEMMA OutputExtends ==
  ASSUME NEW m \in Message, NEW content \in Content
  PROVE  Extends(Output(m, content), m)
<1> DEFINE x == SetHeader(m, ContentType, content.type)
<1>1. x \in Message /\ Extends(x, m)
  BY HeaderType, SetHeaderExtends, HeaderAssumption DEF Content
<1>2. Output(m, content) \in Message
  BY OutputType
<1> HIDE DEF x
<1>3. x.body \in Seq(Chunk) /\ Len(x.body) \in Nat
  BY <1>1 DEF Message
<1>4. /\ Output(m, content).body = Append(x.body, content.chunk)
      /\ Output(m, content).header = x.header
  BY <1>1 DEF Output, x, Message
<1>5. /\ Len(Append(x.body, content.chunk)) = Len(x.body) + 1
      /\ \A i \in 1 .. Len(x.body) : Append(x.body, content.chunk)[i] = x.body[i]
  BY <1>3
<1>6. Extends(Output(m, content), x)
  BY <1>3, <1>4, <1>5 DEF Extends
<1>7. QED
  BY <1>1, <1>2, <1>6, ExtendsTransitive

LEMMA OutputStatusExtends ==
  ASSUME NEW m \in Message, NEW code \in Nat, NEW content \in Content
  PROVE  Extends(OutputStatus(m, code, content), m)
BY OutputType, OutputStatusType, OutputExtends, SetStatusExtends, ExtendsTransitive DEF OutputStatus

LEMMA ChallengeExtends ==
  ASSUME NEW m \in Message, NEW v \in OptionalValue
  PROVE  Extends(SetChallenge(m, v), m)
<1>1. /\ SetHeader(m, Authenticate, v) \in Message
      /\ Extends(SetHeader(m, Authenticate, v), m)
  BY HeaderType, SetHeaderExtends, HeaderAssumption
<1>2. QED
  BY <1>1, ChallengeType, SetStatusExtends, ExtendsTransitive DEF SetChallenge, Unauthorized

LEMMA ChallengeOutputExtends ==
  ASSUME NEW m \in Message, NEW v \in OptionalValue, NEW content \in Content
  PROVE  Extends(Output(SetChallenge(m, v), content), m)
BY ChallengeType, ChallengeExtends, OutputType, OutputExtends, ExtendsTransitive

LEMMA AnswerExtends ==
  ASSUME NEW o \in Outcome, NEW m \in Message
  PROVE  Extends(Answer(o, m).msg, m)
<1> USE DEF Answer, Parse, Fail, Complete
<1>1. CASE o \in [op : {"parse", "fail", "complete"}]
  BY <1>1, ExtendsReflexive
<1>2. CASE o \in [op : {"fail_with", "complete_with_error"}, code : Nat]
  BY <1>2, SetStatusExtends DEF FailWith, CompleteWithError
<1>3. CASE o \in [op : {"continue_ok", "output"}, content : Content]
  BY <1>3, OutputStatusExtends, OutputExtends DEF ContinueOk, OK
<1>4. CASE o \in [op : {"complete_with_status"}, code : Nat, content : Content]
  BY <1>4, OutputStatusExtends DEF CompleteWithStatus
<1>5. CASE o \in [op : {"complete_with_challenge"}, challenge : HeaderValue, content : Content]
  BY <1>5, ChallengeOutputExtends DEF CompleteWithChallenge, OptionalValue
<1>6. QED
  BY <1>1, <1>2, <1>3, <1>4, <1>5 DEF Outcome

LEMMA CallOrExtends ==
  ASSUME NEW func \in Func, NEW m \in Message
  PROVE  Extends(CallOr(func, m).msg, m)
<1>1. CASE IsNone(func)
  BY <1>1, ExtendsReflexive DEF CallOr, Parse
<1>2. CASE ~IsNone(func)
  BY <1>2, AnswerExtends DEF CallOr, Func, None, IsNone
<1>3. QED
  BY <1>1, <1>2

LEMMA LeafExtends ==
  ASSUME NEW f \in Leaf, NEW req \in Request, NEW m \in Message
  PROVE  Extends(LeafFilter(f, req, m).msg, m)
<1> USE DEF LeafFilter
<1>1. /\ Extends(Parse(m).msg, m)
      /\ \A code \in Nat : Extends(FailWith(m, code).msg, m)
  BY ExtendsReflexive, SetStatusExtends DEF Parse, FailWith, Fail
<1>2. CASE f \in [op : {"pass"}]
  BY <1>1, <1>2 DEF PassFilter
<1>3. CASE f \in [op : {"output"}, content : Content]
  BY <1>3, OutputExtends DEF OutputFilter, Parse
<1>4. CASE f \in [op : {"rheader"}, dict : Headers]
  BY <1>4, SetHeadersExtends DEF RheaderFilter, Parse
<1>5. CASE f \in [op : {"method"}, methods : SUBSET Method]
  BY <1>1, <1>5 DEF MethodFilter, MethodNotAllowed
<1>6. CASE f \in [op : {"path"}, paths : SUBSET Path, func : Func]
  BY <1>1, <1>6, CallOrExtends DEF PathFilter, NotFound
<1>7. CASE f \in [op : {"params"}, func : Func]
  BY <1>7, CallOrExtends DEF ParamsFilter
<1>8. CASE f \in [op : {"header"}, fields : Seq(Field), func : Func]
  BY <1>1, <1>8, CallOrExtends DEF HeaderFilter
<1>9. CASE f \in [op : {"content"}, type : OptionalValue, func : Func]
  BY <1>1, <1>9, CallOrExtends DEF ContentFilter, UnsupportedMediaType
<1>10. CASE f \in [op : {"authorization"}, challenge : OptionalValue, func : Func]
  <2>1. Extends(Fail(SetChallenge(m, f.challenge)).msg, m)
    BY <1>10, ChallengeExtends DEF Fail
  <2>2. QED
    BY <1>1, <1>10, <2>1, CallOrExtends DEF AuthorizationFilter, Unauthorized
<1>11. CASE f \in [op : {"bearer_auth", "mac_auth"}, func : Func]
  <2>1. /\ \A scheme \in {Bearer, Mac} :
             Extends(CompleteWithChallenge(m, scheme, Explanation).msg, m)
        /\ Extends(CompleteWithStatus(m, BadRequest, Explanation).msg, m)
    BY FieldAssumption, ChallengeOutputExtends, OutputStatusExtends
       DEF CompleteWithChallenge, CompleteWithStatus, Complete, OptionalValue, BadRequest
  <2>2. req.field[Authorization] \in {"absent", "empty", "malformed", "valid"}
    BY FieldAssumption DEF Request, FieldState
  <2>3. Extends(CallOr(f.func, m).msg, m)
    BY <1>11, CallOrExtends
  <2>4. /\ Extends(BearerAuthFilter(f, req, m).msg, m)
        /\ Extends(MacAuthFilter(f, req, m).msg, m)
    BY <2>1, <2>2, <2>3 DEF BearerAuthFilter, MacAuthFilter
  <2>5. QED
    BY <1>11, <2>4
<1>12. CASE f \in [op : {"func"}, answer : Func]
  BY <1>12, CallOrExtends DEF FuncFilter
<1>13. QED
  BY <1>2, <1>3, <1>4, <1>5, <1>6, <1>7, <1>8, <1>9, <1>10, <1>11, <1>12 DEF Leaf
(* The frames that remember a message, the inner ones a later one, all of  *)
(* them one that the message at hand grew from.                            *)
Marks(fr) == fr.op \in {"choice", "on_error"}

Kept(s, msg) ==
  /\ \A i \in 1 .. Len(s) : Marks(s[i]) => Extends(msg, s[i].msg)
  /\ \A i, j \in 1 .. Len(s) :
       i < j /\ Marks(s[i]) /\ Marks(s[j]) => Extends(s[j].msg, s[i].msg)

KeptInv == Kept(stack, par.msg)

LEMMA MarkedMessage ==
  ASSUME NEW s \in Seq(Frame), NEW i \in 1 .. Len(s), Marks(s[i])
  PROVE  s[i].msg \in Message
BY FrameParts DEF Marks

LEMMA KeptGrows ==
  ASSUME NEW s \in Seq(Frame), NEW m \in Message, NEW n \in Message,
         Kept(s, m), Extends(n, m)
  PROVE  Kept(s, n)
BY MarkedMessage, ExtendsTransitive DEF Kept

LEMMA KeptPush ==
  ASSUME NEW s \in Seq(Frame), NEW fr \in Frame, NEW m \in Message,
         Kept(s, m), Marks(fr) => fr.msg = m
  PROVE  Kept(Append(s, fr), m)
<1> DEFINE t == Append(s, fr)
<1>1. Len(s) \in Nat /\ Len(t) = Len(s) + 1 /\ t[Len(s) + 1] = fr
      /\ \A i \in 1 .. Len(s) : t[i] = s[i]
  BY AppendProperties
<1> HIDE DEF t
<1>2. ASSUME NEW i \in 1 .. Len(t), Marks(t[i]) PROVE Extends(m, t[i].msg)
  <2>1. CASE i \in 1 .. Len(s)
    BY <1>1, <1>2, <2>1 DEF Kept
  <2>2. CASE i = Len(s) + 1
    BY <1>1, <1>2, <2>2, ExtendsReflexive
  <2>3. QED
    BY <1>1, <2>1, <2>2
<1>3. ASSUME NEW i \in 1 .. Len(t), NEW j \in 1 .. Len(t), i < j, Marks(t[i]), Marks(t[j])
      PROVE  Extends(t[j].msg, t[i].msg)
  <2>1. CASE j \in 1 .. Len(s)
    BY <1>1, <1>3, <2>1 DEF Kept
  <2>2. CASE j = Len(s) + 1
    BY <1>1, <1>2, <1>3, <2>2
  <2>3. QED
    BY <1>1, <2>1, <2>2
<1>4. QED
  BY <1>2, <1>3 DEF Kept, t

LEMMA PopShape ==
  ASSUME NEW s \in Seq(Frame), s # << >>
  PROVE  LET r == SubSeq(s, 1, Len(s) - 1)
         IN  /\ Len(r) = Len(s) - 1
             /\ \A i \in 1 .. Len(r) : r[i] = s[i] /\ i \in 1 .. Len(s) /\ i < Len(s)
             /\ Len(s) \in 1 .. Len(s)
<1> DEFINE r == SubSeq(s, 1, Len(s) - 1)
<1>1. Len(s) \in Nat \ {0} /\ \A i \in 1 .. Len(s) : s[i] \in Frame
  BY EmptySeq
<1>2. Len(s) - 1 \in Int /\ \A i \in 1 .. Len(s) - 1 : s[i] \in Frame
  BY <1>1
<1>3. /\ Len(r) = IF 1 <= Len(s) - 1 THEN Len(s) - 1 - 1 + 1 ELSE 0
      /\ \A i \in 1 .. Len(s) - 1 - 1 + 1 : r[i] = s[1 + i - 1]
  BY <1>2, SubSeqProperties
<1> HIDE DEF r
<1>4. Len(r) = Len(s) - 1 /\ \A i \in 1 .. Len(r) : r[i] = s[i] /\ i \in 1 .. Len(s)
  <2>1. \A n \in Nat \ {0} : /\ (IF 1 <= n - 1 THEN n - 1 - 1 + 1 ELSE 0) = n - 1
                             /\ n - 1 - 1 + 1 = n - 1
                             /\ \A i \in 1 .. n - 1 : i \in 1 .. n /\ 1 + i - 1 = i
    OBVIOUS
  <2>2. Len(r) = Len(s) - 1
    BY <1>1, <1>3, <2>1
  <2>3. ASSUME NEW i \in 1 .. Len(s) - 1 PROVE r[i] = s[i] /\ i \in 1 .. Len(s)
    BY <1>1, <1>3, <2>1
  <2>4. QED
    BY <2>2, <2>3
<1>5. Len(s) \in 1 .. Len(s) /\ \A i \in 1 .. Len(r) : i < Len(s)
  BY <1>1, <1>4
<1>6. QED
  BY <1>4, <1>5 DEF r

LEMMA KeptPop ==
  ASSUME NEW s \in Seq(Frame), s # << >>, NEW m, Kept(s, m)
  PROVE  /\ Kept(SubSeq(s, 1, Len(s) - 1), m)
         /\ Marks(s[Len(s)]) => Kept(SubSeq(s, 1, Len(s) - 1), s[Len(s)].msg)
<1> DEFINE r == SubSeq(s, 1, Len(s) - 1)
<1>1. \A i \in 1 .. Len(r) : r[i] = s[i] /\ i \in 1 .. Len(s) /\ i < Len(s)
  BY PopShape
<1>2. Len(s) \in 1 .. Len(s)
  BY PopShape
<1> HIDE DEF r
<1>3. Kept(r, m)
  BY <1>1 DEF Kept
<1>4. ASSUME Marks(s[Len(s)]) PROVE Kept(r, s[Len(s)].msg)
  BY <1>1, <1>2, <1>3, <1>4 DEF Kept
<1>5. QED
  BY <1>3, <1>4 DEF r

LEMMA KeptStep == TypeInv /\ KeptInv /\ [Next]_vars => KeptInv'
<1> SUFFICES ASSUME TypeInv, KeptInv, [Next]_vars PROVE KeptInv'
  OBVIOUS
<1>1. /\ stack \in Seq(Frame) /\ par.msg \in Message
      /\ expr \in Filter /\ request \in Request
  BY FilterAssumption DEF TypeInv, TypeOK, Parser
<1>2. stack # << >> => /\ Top \in Frame /\ Rest \in Seq(Frame)
                       /\ Marks(Top) => Top.msg \in Message
                       /\ Kept(Rest, par.msg)
                       /\ Marks(Top) => Kept(Rest, Top.msg) /\ Extends(par.msg, Top.msg)
  <2> SUFFICES ASSUME stack # << >>
               PROVE  /\ Top \in Frame /\ Rest \in Seq(Frame)
                      /\ Marks(Top) => Top.msg \in Message
                      /\ Kept(Rest, par.msg)
                      /\ Marks(Top) => Kept(Rest, Top.msg) /\ Extends(par.msg, Top.msg)
    OBVIOUS
  <2>1. Top \in Frame /\ Rest \in Seq(Frame)
    BY <1>1, PopType DEF Top, Rest
  <2>2. Marks(Top) => Top.msg \in Message
    BY <2>1, FrameParts DEF Marks
  <2>3. Kept(Rest, par.msg) /\ (Marks(Top) => Kept(Rest, Top.msg))
    BY <1>1, KeptPop DEF KeptInv, Top, Rest
  <2>4. Marks(Top) => Extends(par.msg, Top.msg)
    <3>1. Len(stack) \in 1 .. Len(stack)
      BY <1>1, EmptySeq
    <3>2. QED
      BY <3>1 DEF KeptInv, Kept, Top
  <2>5. QED
    BY <2>1, <2>2, <2>3, <2>4
<1>3. ASSUME NEW f, NEW msg, Call(f, msg) PROVE par'.msg = msg
  BY <1>3 DEF Call, Parse
<1>4. ASSUME NEW p, Return(p) PROVE par' = p
  BY <1>4 DEF Return
<1>5. ASSUME UNCHANGED <<stack, par>> PROVE KeptInv'
  BY <1>5 DEF KeptInv
<1>6. ASSUME ApplyLeaf PROVE KeptInv'
  <2> DEFINE p == LeafFilter(expr, request, par.msg)
  <2>1. p \in Parser /\ Extends(p.msg, par.msg)
    BY <1>1, <1>6, LeafSound, LeafExtends DEF ApplyLeaf, Sound
  <2>2. p.msg \in Message /\ par' = p /\ stack' = stack
    BY <1>4, <1>6, <2>1 DEF ApplyLeaf, Parser
  <2> HIDE DEF p
  <2>3. QED
    BY <1>1, <2>1, <2>2, KeptGrows DEF KeptInv
<1>7. ASSUME ApplyThen PROVE KeptInv'
  <2> DEFINE fr == [op |-> "then", second |-> expr.second]
  <2>1. fr \in Frame /\ ~Marks(fr)
    BY <1>1, <1>7, Parts DEF ApplyThen, Applying, Frame, Marks
  <2>2. stack' = Append(stack, fr) /\ par'.msg = par.msg
    BY <1>3, <1>7 DEF ApplyThen, Push
  <2> HIDE DEF fr
  <2>3. QED
    BY <1>1, <2>1, <2>2, KeptPush DEF KeptInv
<1>8. ASSUME ReturnThen PROVE KeptInv'
  <2>1. stack' = Rest /\ par'.msg = par.msg /\ stack # << >>
    BY <1>3, <1>4, <1>8 DEF ReturnThen, Returning, Pop
  <2>2. QED
    BY <1>2, <2>1 DEF KeptInv
<1>9. ASSUME ApplyChoice PROVE KeptInv'
  <2> DEFINE fr == [op |-> "choice", opts |-> expr.opts, msg |-> par.msg]
  <2>1. fr \in Frame /\ fr.msg = par.msg
    BY <1>1, <1>9, Parts DEF ApplyChoice, Applying, Frame
  <2>2. stack' = Append(stack, fr) /\ par' = par
    BY <1>9 DEF ApplyChoice, Push
  <2> HIDE DEF fr
  <2>3. QED
    BY <1>1, <2>1, <2>2, KeptPush DEF KeptInv
<1>10. ASSUME NextOption PROVE KeptInv'
  <2>1. /\ stack # << >> /\ Top.op = "choice" /\ Marks(Top)
        /\ Top \in Frame /\ Rest \in Seq(Frame) /\ Top.msg \in Message
        /\ Kept(Rest, Top.msg) /\ Extends(par.msg, Top.msg)
    BY <1>2, <1>10 DEF NextOption, TypeInv, Choosing, Marks
  <2>2. CASE Top.opts = << >>
    <3>1. stack' = Rest /\ par'.msg = SetStatus(Top.msg, NotFound)
      BY <1>4, <1>10, <2>2 DEF NextOption, Pop, Exhausted, FailWith, Fail
    <3>2. SetStatus(Top.msg, NotFound) \in Message /\ Extends(SetStatus(Top.msg, NotFound), Top.msg)
      BY <2>1, StatusType, SetStatusExtends DEF NotFound
    <3>3. QED
      BY <2>1, <3>1, <3>2, KeptGrows DEF KeptInv
  <2>3. CASE Top.opts # << >>
    <3> DEFINE fr == [Top EXCEPT !.opts = Tail(@)]
    <3>1. Tail(Top.opts) \in Seq(MaybeFilter)
      BY <2>1, <2>3, FrameParts
    <3>2. fr \in Frame /\ fr.msg = Top.msg
      BY <2>1, <3>1 DEF Frame
    <3>3. stack' = Append(Rest, fr) /\ (par' = par \/ par'.msg = Top.msg)
      BY <1>3, <1>10, <2>3 DEF NextOption, OptionMessage
    <3> HIDE DEF fr
    <3>4. Kept(stack', Top.msg) /\ stack' \in Seq(Frame)
      BY <2>1, <3>2, <3>3, KeptPush
    <3>5. QED
      BY <1>1, <2>1, <3>3, <3>4, KeptGrows DEF KeptInv
  <2>4. QED
    BY <2>2, <2>3
<1>11. ASSUME ReturnChoice PROVE KeptInv'
  <2>1. par' = par /\ (stack' = Rest \/ stack' = stack) /\ stack # << >>
    BY <1>4, <1>11 DEF ReturnChoice, Returning, Pop
  <2>2. QED
    BY <1>2, <2>1 DEF KeptInv
<1>12. ASSUME ApplyOnError PROVE KeptInv'
  <2>1. CASE IsNone(expr.expr)
    <3>1. stack' = stack /\ par'.msg = par.msg
      BY <1>4, <1>12, <2>1 DEF ApplyOnError, Parse
    <3>2. QED
      BY <3>1 DEF KeptInv
  <2>2. CASE ~IsNone(expr.expr)
    <3> DEFINE fr == [op |-> "on_error", handler |-> expr.handler, msg |-> par.msg]
    <3>1. fr \in Frame /\ fr.msg = par.msg
      BY <1>1, <1>12, Parts DEF ApplyOnError, Applying, Frame
    <3>2. stack' = Append(stack, fr) /\ par'.msg = par.msg
      BY <1>3, <1>12, <2>2 DEF ApplyOnError, Push
    <3> HIDE DEF fr
    <3>3. QED
      BY <1>1, <3>1, <3>2, KeptPush DEF KeptInv
  <2>3. QED
    BY <2>1, <2>2
<1>13. ASSUME ReturnOnError PROVE KeptInv'
  <2>1. stack # << >> /\ Marks(Top) /\ stack' = Rest
    BY <1>13 DEF ReturnOnError, Returning, Pop, Marks
  <2>2. par'.msg = par.msg \/ par'.msg = Top.msg
    BY <1>3, <1>4, <1>13 DEF ReturnOnError, Parse
  <2>3. QED
    BY <1>2, <2>1, <2>2 DEF KeptInv
<1>14. ASSUME ApplyOnErrorComplete PROVE KeptInv'
  <2>1. CASE IsNone(expr.expr)
    <3>1. stack' = stack /\ par'.msg = par.msg
      BY <1>4, <1>14, <2>1 DEF ApplyOnErrorComplete, Parse
    <3>2. QED
      BY <3>1 DEF KeptInv
  <2>2. CASE ~IsNone(expr.expr)
    <3> DEFINE fr == [op |-> "on_error_complete", status |-> expr.status]
    <3>1. fr \in Frame /\ ~Marks(fr)
      BY <1>1, <1>14, Parts DEF ApplyOnErrorComplete, Applying, Frame, Marks
    <3>2. stack' = Append(stack, fr) /\ par'.msg = par.msg
      BY <1>3, <1>14, <2>2 DEF ApplyOnErrorComplete, Push
    <3> HIDE DEF fr
    <3>3. QED
      BY <1>1, <3>1, <3>2, KeptPush DEF KeptInv
  <2>3. QED
    BY <2>1, <2>2
<1>15. ASSUME ReturnOnErrorComplete PROVE KeptInv'
  <2>1. stack # << >> /\ stack' = Rest /\ Top.status \in Nat
    BY <1>2, <1>15, FrameParts DEF ReturnOnErrorComplete, Returning, Pop
  <2>2. par'.msg = par.msg \/ par'.msg = SetStatus(par.msg, Top.status)
    BY <1>4, <1>15 DEF ReturnOnErrorComplete, CompleteWithError, Complete
  <2>3. par'.msg \in Message /\ Extends(par'.msg, par.msg)
    BY <1>1, <2>1, <2>2, StatusType, SetStatusExtends, ExtendsReflexive
  <2>4. QED
    BY <1>1, <1>2, <2>1, <2>3, KeptGrows DEF KeptInv
<1>16. ASSUME Again PROVE KeptInv'
  BY <1>16 DEF Again, TypeInv, Returned, KeptInv, Kept
<1>17. QED
  BY <1>5, <1>6, <1>7, <1>8, <1>9, <1>10, <1>11, <1>12, <1>13, <1>14, <1>15, <1>16
     DEF Next, Step, Respond, Done, vars

(* No alternative that failed and no error that was handled takes anything *)
(* with it that an earlier filter wrote, in any expression.                *)
THEOREM Preservation == Spec => []NothingIsLost
<1>1. Init => KeptInv
  BY DEF Init, KeptInv, Kept
<1>2. TypeInv /\ KeptInv => NothingIsLost
  BY DEF TypeInv, TypeOK, KeptInv, Kept, Marks, NothingIsLost
<1>3. Spec => []TypeInv
  BY InitType, TypeStep, ChoosingStep, ReturnedStep, PTL DEF Spec, TypeInv
<1>4. QED
  BY <1>1, <1>2, <1>3, KeptStep, PTL DEF Spec
-----------------------------------------------------------------------------
(* Written recurses over the results: its body function exists, and that   *)
(* of one more result continues it.                                        *)
Added(x, p) == IF p.failed THEN x ELSE x \o p.msg.body

Bodies(b, rs) ==
  /\ b[0] = << >>
  /\ \A i \in 1 .. Len(rs) : b[i] = Added(b[i - 1], rs[i])

LEMMA AddedType ==
  ASSUME NEW x \in Seq(Chunk), NEW p \in Parser
  PROVE  Added(x, p) \in Seq(Chunk)
<1>1. p.msg.body \in Seq(Chunk)
  BY DEF Parser, Message
<1>2. QED
  BY <1>1 DEF Added

LEMMA WrittenBodies ==
  ASSUME NEW rs \in Seq(Parser)
  PROVE  \E b : Bodies(b, rs) /\ Written(rs) = b[Len(rs)]
<1> DEFINE l == Len(rs)
           A == Seq(Chunk)
           E(f) == [i \in 0 .. l |-> IF i = 0 THEN << >> ELSE Added(f[i - 1], rs[i])]
           b == CHOOSE f : f = E(f)
<1>1. l \in Nat /\ << >> \in A /\ \A i \in 1 .. l : rs[i] \in Parser
  OBVIOUS
<1>2. Written(rs) = b[l]
  BY DEF Written, Added
<1>3. \A i \in 1 .. l : \A x \in A : Added(x, rs[i]) \in A
  BY <1>1, AddedType
<1> HIDE DEF l
<1>4. b = E(b)
  <2> DEFINE G == [i \in 1 .. l |-> [x \in A |-> Added(x, rs[i])]]
  <2> HIDE DEF A
  <2>1. G \in Steps(l, A) /\ \A i \in 1 .. l : \A x \in A : G[i][x] = Added(x, rs[i])
    BY <1>3 DEF Steps
  <2> HIDE DEF G
  <2>2. PICK f : Iterates(f, l, A, << >>, G)
    BY <1>1, <2>1, Recursion
  <2>3. /\ f \in [0 .. l -> A] /\ f[0] = << >>
        /\ \A i \in 1 .. l : f[i] = G[i][f[i - 1]]
    BY <2>2 DEF Iterates
  <2>4. \A i \in 1 .. l : f[i - 1] \in A
    BY <1>1, <2>3
  <2>5. \A i \in 1 .. l : f[i] = Added(f[i - 1], rs[i])
    BY <2>1, <2>3, <2>4
  <2>6. f = E(f)
    BY <2>3, <2>5
  <2> HIDE DEF E
  <2>7. QED
    BY <2>6
<1> HIDE DEF b
<1>5. b[0] = << >> /\ \A i \in 1 .. l : b[i] = Added(b[i - 1], rs[i])
  BY <1>1, <1>4
<1>6. QED
  BY <1>2, <1>5 DEF Bodies, l

LEMMA WrittenAppend ==
  ASSUME NEW rs \in Seq(Parser), NEW p \in Parser
  PROVE  Written(Append(rs, p)) = Added(Written(rs), p)
<1> DEFINE l == Len(rs)
           t == Append(rs, p)
<1>1. /\ t \in Seq(Parser) /\ l \in Nat /\ Len(t) = l + 1 /\ t[l + 1] = p
      /\ \A i \in 1 .. l : t[i] = rs[i]
  BY AppendProperties
<1> HIDE DEF l, t
<1>2. PICK b : Bodies(b, rs) /\ Written(rs) = b[l]
  BY WrittenBodies DEF l
<1>3. PICK c : Bodies(c, t) /\ Written(t) = c[l + 1]
  BY <1>1, WrittenBodies
<1>4. /\ b[0] = c[0]
      /\ \A i \in 1 .. l : b[i] = Added(b[i - 1], rs[i]) /\ c[i] = Added(c[i - 1], rs[i])
      /\ c[l + 1] = Added(c[l], p)
  <2>1. \A i \in 1 .. l : i \in 1 .. Len(t) /\ t[i] = rs[i]
    BY <1>1
  <2>2. l + 1 \in 1 .. Len(t) /\ (l + 1) - 1 = l
    BY <1>1
  <2>3. QED
    BY <1>1, <1>2, <1>3, <2>1, <2>2 DEF Bodies, l
<1> DEFINE S == {k \in Nat : k <= l => b[k] = c[k]}
<1>5. 0 \in S
  BY <1>4
<1>6. ASSUME NEW k \in S PROVE k + 1 \in S
  <2> SUFFICES ASSUME k + 1 <= l PROVE b[k + 1] = c[k + 1]
    OBVIOUS
  <2>1. k + 1 \in 1 .. l /\ (k + 1) - 1 = k /\ b[k] = c[k]
    BY <1>1
  <2>2. QED
    BY <1>4, <2>1
<1>7. l \in S
  <2> HIDE DEF S
  <2>1. S \in SUBSET Nat
    BY DEF S
  <2>2. QED
    BY <1>1, <1>5, <1>6, <2>1, NatSetInduction
<1>8. b[l] = c[l]
  BY <1>1, <1>7
<1>9. QED
  BY <1>2, <1>3, <1>4, <1>8 DEF t

LEMMA NothingWritten == Written(<< >>) = << >>
<1>1. << >> \in Seq(Parser) /\ Len(<< >>) = 0
  OBVIOUS
<1>2. QED
  BY <1>1, WrittenBodies DEF Bodies

(* The results that have set a header, with one more: the last is the new  *)
(* one if it sets the header, and else the one it was.                     *)
LastSet(rs, n, value) ==
  IF Setters(rs, n) = {} THEN value = NoValue
  ELSE \E i \in Setters(rs, n) :
         /\ \A j \in Setters(rs, n) : j <= i
         /\ value = rs[i].msg.header[n]

LEMMA LastAppend ==
  ASSUME NEW rs \in Seq(Parser), NEW p \in Parser, NEW n, NEW old, LastSet(rs, n, old)
  PROVE  LastSet(Append(rs, p), n,
              IF ~p.failed /\ p.msg.header[n] # NoValue THEN p.msg.header[n] ELSE old)
<1> DEFINE l == Len(rs)
           t == Append(rs, p)
           sets == ~p.failed /\ p.msg.header[n] # NoValue
<1>1. /\ l \in Nat /\ DOMAIN rs = 1 .. l /\ DOMAIN t = 1 .. l + 1 /\ t[l + 1] = p
      /\ \A i \in 1 .. l : t[i] = rs[i]
  BY AppendProperties
<1> HIDE DEF l, t
<1>2. CASE sets
  <2>1. l + 1 \in Setters(t, n)
    BY <1>1, <1>2 DEF Setters
  <2>2. \A j \in Setters(t, n) : j <= l + 1
    BY <1>1 DEF Setters
  <2>3. LastSet(t, n, p.msg.header[n])
    BY <1>1, <2>1, <2>2 DEF LastSet
  <2>4. QED
    BY <1>2, <2>3 DEF t
<1>3. CASE ~sets
  <2>1. Setters(t, n) = Setters(rs, n) /\ \A i \in Setters(rs, n) : t[i] = rs[i]
    BY <1>1, <1>3 DEF Setters
  <2>2. LastSet(t, n, old)
    BY <2>1 DEF LastSet
  <2>3. QED
    BY <1>3, <2>2 DEF t
<1>4. QED
  BY <1>2, <1>3

(* What one evaluation adds                                                *)
LEMMA AnsweredParts ==
  ASSUME NEW resp \in Message, NEW p \in Parser
  PROVE  /\ Answered(resp, p).status = ResolveStatus(p)
         /\ Answered(resp, p).body = Added(resp.body, p)
         /\ \A n \in HeaderName :
              Answered(resp, p).header[n] =
                IF ~p.failed /\ p.msg.header[n] # NoValue THEN p.msg.header[n]
                ELSE resp.header[n]
<1>1. p.msg \in Message
  BY DEF Parser
<1>2. CASE p.failed
  BY <1>2 DEF Answered, SetStatus, Added, Message
<1>3. CASE ~p.failed
  BY <1>1, <1>3 DEF Answered, SetStatus, SetHeaders, Added, Message
<1>4. QED
  BY <1>2, <1>3

(* The property is about a response: before the first, it is the one of    *)
(* an unused context.                                                      *)
AccumulationInv ==
  /\ results # << >> => response.status = ResolveStatus(results[Len(results)])
  /\ response.body = Written(results)
  /\ \A n \in HeaderName : LastSet(results, n, response.header[n])

LEMMA AccumulationStep == TypeInv /\ AccumulationInv /\ [Next]_vars => AccumulationInv'
<1> SUFFICES ASSUME TypeInv, AccumulationInv, [Next]_vars PROVE AccumulationInv'
  OBVIOUS
<1>1. ASSUME UNCHANGED <<response, results>> PROVE AccumulationInv'
  BY <1>1 DEF AccumulationInv, LastSet
<1>2. ASSUME Respond PROVE AccumulationInv'
  <2>1. /\ response' = Answered(response, par) /\ results' = Append(results, par)
        /\ response \in Message /\ par \in Parser /\ results \in Seq(Parser)
    BY <1>2 DEF Respond, TypeInv, TypeOK
  <2>2. results'[Len(results')] = par
    <3>1. Len(results) \in Nat /\ Len(results') = Len(results) + 1
      BY <2>1, AppendProperties
    <3>2. QED
      BY <2>1, <3>1, AppendProperties
  <2>3. response'.body = Written(results')
    BY <2>1, AnsweredParts, WrittenAppend DEF AccumulationInv
  <2>4. ASSUME NEW n \in HeaderName PROVE LastSet(results', n, response'.header[n])
    BY <2>1, AnsweredParts, LastAppend DEF AccumulationInv
  <2>5. QED
    BY <2>1, <2>2, <2>3, <2>4, AnsweredParts DEF AccumulationInv
<1>3. QED
  BY <1>1, <1>2
     DEF Next, Step, Again, Done, vars, context, ApplyLeaf, ApplyThen, ReturnThen, ApplyChoice,
         NextOption, ReturnChoice, ApplyOnError, ReturnOnError, ApplyOnErrorComplete,
         ReturnOnErrorComplete

(* However many evaluations a context goes through, and whichever of them  *)
(* fail, its response has the last status, every body and the last values. *)
THEOREM Accumulation == Spec => []ResponseAccumulates
<1>1. Init => AccumulationInv
  <2> SUFFICES ASSUME Init PROVE AccumulationInv
    OBVIOUS
  <2>1. results = << >> /\ response = NoResponse
    BY DEF Init
  <2>2. \A n : Setters(<< >>, n) = {}
    BY DEF Setters
  <2>3. \A n \in HeaderName : response.header[n] = NoValue
    BY <2>1 DEF NoResponse, NewMessage
  <2>4. QED
    BY <2>1, <2>2, <2>3, NothingWritten DEF AccumulationInv, LastSet, NoResponse
<1>2. AccumulationInv => ResponseAccumulates
  BY DEF AccumulationInv, LastSet, ResponseAccumulates
<1>3. Spec => []TypeInv
  BY InitType, TypeStep, ChoosingStep, ReturnedStep, PTL DEF Spec, TypeInv
<1>4. QED
  BY <1>1, <1>2, <1>3, AccumulationStep, PTL DEF Spec
=============================================================================
