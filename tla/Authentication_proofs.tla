----------------------- MODULE Authentication_proofs -----------------------
(***************************************************************************)
(* Authentication in any expressions and for any requests: every response  *)
(* that asks for it carries a challenge, if only the scheme filters ask    *)
(* for it, and nothing they protect is written without a valid field.      *)
(***************************************************************************)
EXTENDS Protection, Evaluation_proofs

(* A message that asks for authentication says which, and a parser that    *)
(* failed, whose headers the response does not get, does not ask for it.   *)
Asked(msg) == msg.status = Unauthorized => msg.header[Authenticate] # NoValue

Asks(p) == Asked(p.msg) /\ (p.failed => p.msg.status # Unauthorized)

-----------------------------------------------------------------------------
(* What the operations of a message do to it.                              *)
LEMMA StatusAsked ==
  ASSUME NEW msg \in Message, NEW code \in Nat, code # Unauthorized
  PROVE  /\ SetStatus(msg, code).status # Unauthorized
         /\ Asked(SetStatus(msg, code))
BY StatusType DEF Asked

(* An operation that only grows a message keeps its challenge.             *)
LEMMA GrownAsked ==
  ASSUME NEW m \in Message, NEW n \in Message, Asked(m), Extends(n, m), n.status = m.status
  PROVE  Asked(n)
BY HeaderAssumption DEF Asked, Extends

LEMMA OutputAsked ==
  ASSUME NEW msg \in Message, NEW content \in Content
  PROVE  /\ Output(msg, content).status = msg.status
         /\ Asked(msg) => Asked(Output(msg, content))
<1>1. Output(msg, content).status = msg.status
  BY DEF Output, SetHeader, Message
<1>2. QED
  BY <1>1, OutputType, OutputExtends, GrownAsked

LEMMA OutputStatusAsked ==
  ASSUME NEW msg \in Message, NEW code \in Nat, NEW content \in Content, code # Unauthorized
  PROVE  Asked(OutputStatus(msg, code, content))
BY OutputType, StatusAsked DEF OutputStatus

LEMMA ChallengeAsked ==
  ASSUME NEW msg \in Message, NEW v \in HeaderValue, NEW content \in Content
  PROVE  Asked(Output(SetChallenge(msg, v), content))
<1>1. v \in OptionalValue /\ v # NoValue
  BY HeaderAssumption DEF OptionalValue
<1>2. SetChallenge(msg, v) \in Message
  BY <1>1, ChallengeType
<1>3. SetChallenge(msg, v).header[Authenticate] = v
  BY <1>1, HeaderAssumption DEF SetChallenge, SetStatus, SetHeader, Message, Headers
<1>4. QED
  BY <1>1, <1>2, <1>3, OutputAsked DEF Asked

(* What the functions of parser.hpp and of the application return.         *)
LEMMA ParserAsks ==
  ASSUME NEW msg \in Message
  PROVE  /\ Asked(msg) => Asks(Parse(msg)) /\ Asks(Complete(msg))
         /\ \A code \in Nat \ {Unauthorized} :
              Asks(FailWith(msg, code)) /\ Asks(CompleteWithError(msg, code))
BY StatusAsked DEF Asks, Parse, Complete, Fail, FailWith, CompleteWithError

LEMMA AnswerAsks ==
  ASSUME NEW o \in Outcome, NEW msg \in Message, Asked(msg), NeverAsks(o)
  PROVE  Asks(Answer(o, msg))
<1> USE DEF Answer, NeverAsks
<1>1. CASE o \in [op : {"parse", "fail", "complete"}]
  BY <1>1, ParserAsks
<1>2. CASE o \in [op : {"fail_with", "complete_with_error"}, code : Nat]
  BY <1>2, ParserAsks
<1>3. CASE o \in [op : {"continue_ok", "output"}, content : Content]
  BY <1>3, OutputAsked, OutputStatusAsked DEF ContinueOk, Parse, Asks, OK, Unauthorized
<1>4. CASE o \in [op : {"complete_with_status"}, code : Nat, content : Content]
  BY <1>4, OutputStatusAsked DEF CompleteWithStatus, Complete, Asks
<1>5. CASE o \in [op : {"complete_with_challenge"}, challenge : HeaderValue, content : Content]
  BY <1>5, ChallengeAsked DEF CompleteWithChallenge, Complete, Asks
<1>6. QED
  BY <1>1, <1>2, <1>3, <1>4, <1>5 DEF Outcome

LEMMA CallOrAsks ==
  ASSUME NEW func \in Func, NEW msg \in Message, Asked(msg), NeverAsks(func)
  PROVE  Asks(CallOr(func, msg))
<1>1. CASE IsNone(func)
  BY <1>1, ParserAsks DEF CallOr
<1>2. CASE ~IsNone(func)
  BY <1>2, AnswerAsks DEF CallOr, Func, None, IsNone
<1>3. QED
  BY <1>1, <1>2

(* A leaf of an expression in which only the scheme filters ask            *)
LEMMA LeafAsks ==
  ASSUME OnlySchemesAsk, NEW f \in Leaf, f \in Filter, NEW req \in Request,
         NEW msg \in Message, Asked(msg)
  PROVE  Asks(LeafFilter(f, req, msg))
<1> USE DEF LeafFilter
<1> DEFINE codes == {NotFound, MethodNotAllowed, UnsupportedMediaType}
<1>1. Asks(Parse(msg)) /\ \A code \in codes : Asks(FailWith(msg, code))
  <2>1. codes \subseteq Nat \ {Unauthorized}
    BY DEF NotFound, MethodNotAllowed, UnsupportedMediaType, Unauthorized
  <2>2. QED
    BY <2>1, ParserAsks
<1>2. f.op \in {"path", "params", "header", "content", "bearer_auth", "mac_auth"} =>
        \A func \in Func : func = f.func => Asks(CallOr(func, msg))
  BY CallOrAsks DEF OnlySchemesAsk
<1>3. CASE f \in [op : {"pass"}]
  BY <1>1, <1>3 DEF PassFilter
<1>4. CASE f \in [op : {"output"}, content : Content]
  BY <1>4, OutputAsked, OutputType, ParserAsks DEF OutputFilter
<1>5. CASE f \in [op : {"rheader"}, dict : Headers]
  <2>1. /\ SetHeaders(msg, f.dict) \in Message /\ Extends(SetHeaders(msg, f.dict), msg)
        /\ SetHeaders(msg, f.dict).status = msg.status
    BY <1>5, HeadersType, SetHeadersExtends DEF SetHeaders, Message
  <2>2. QED
    BY <1>5, <2>1, GrownAsked, ParserAsks DEF RheaderFilter
<1>6. CASE f \in [op : {"method"}, methods : SUBSET Method]
  BY <1>1, <1>6 DEF MethodFilter
<1>7. CASE f \in [op : {"path"}, paths : SUBSET Path, func : Func]
  BY <1>1, <1>2, <1>7 DEF PathFilter
<1>8. CASE f \in [op : {"params"}, func : Func]
  BY <1>2, <1>8 DEF ParamsFilter
<1>9. CASE f \in [op : {"header"}, fields : Seq(Field), func : Func]
  BY <1>1, <1>2, <1>9 DEF HeaderFilter
<1>10. CASE f \in [op : {"content"}, type : OptionalValue, func : Func]
  BY <1>1, <1>2, <1>10 DEF ContentFilter
<1>11. CASE f \in [op : {"authorization"}, challenge : OptionalValue, func : Func]
  BY <1>11 DEF OnlySchemesAsk
<1>12. CASE f \in [op : {"bearer_auth", "mac_auth"}, func : Func]
  <2>1. /\ \A scheme \in {Bearer, Mac} : Asks(CompleteWithChallenge(msg, scheme, Explanation))
        /\ Asks(CompleteWithStatus(msg, BadRequest, Explanation))
    BY FieldAssumption, ChallengeAsked, OutputStatusAsked
       DEF CompleteWithChallenge, CompleteWithStatus, Complete, Asks, BadRequest, Unauthorized
  <2>2. req.field[Authorization] \in {"absent", "empty", "malformed", "valid"}
    BY FieldAssumption DEF Request, FieldState
  <2>3. Asks(CallOr(f.func, msg))
    BY <1>2, <1>12
  <2>4. Asks(BearerAuthFilter(f, req, msg)) /\ Asks(MacAuthFilter(f, req, msg))
    BY <2>1, <2>2, <2>3 DEF BearerAuthFilter, MacAuthFilter
  <2>5. QED
    BY <1>12, <2>4
<1>13. CASE f \in [op : {"func"}, answer : Func]
  <2>1. NeverAsks(f.answer)
    BY <1>13 DEF OnlySchemesAsk
  <2>2. QED
    BY <1>13, <2>1, CallOrAsks DEF FuncFilter
<1>14. QED
  BY <1>3, <1>4, <1>5, <1>6, <1>7, <1>8, <1>9, <1>10, <1>11, <1>12, <1>13 DEF Leaf

-----------------------------------------------------------------------------
(* The property is not inductive: it needs the parser in flight and the    *)
(* messages the frames remember, which a choice and an on_error give to    *)
(* the next option and to the parser that replaces an error.  The status   *)
(* of a guard is that of a filter of the application, too.                 *)
Remembers(fr) ==
  /\ Marks(fr) => Asked(fr.msg)
  /\ fr.op = "on_error_complete" => fr.status # Unauthorized

AskInv ==
  /\ Asks(par)
  /\ \A i \in 1 .. Len(stack) : Remembers(stack[i])
  /\ mode = "done" /\ response.status = Unauthorized => response.header[Authenticate] # NoValue

LEMMA PushRemembers ==
  ASSUME NEW s \in Seq(Frame), NEW fr, Remembers(fr), \A i \in 1 .. Len(s) : Remembers(s[i])
  PROVE  \A i \in 1 .. Len(Append(s, fr)) : Remembers(Append(s, fr)[i])
<1>1. /\ Len(s) \in Nat /\ Len(Append(s, fr)) = Len(s) + 1
      /\ \A i \in 1 .. Len(s) + 1 :
           Append(s, fr)[i] = IF i = Len(s) + 1 THEN fr ELSE s[i]
  BY AppendProperties
<1>2. QED
  BY <1>1

LEMMA PopRemembers ==
  ASSUME NEW s \in Seq(Frame), s # << >>, \A i \in 1 .. Len(s) : Remembers(s[i])
  PROVE  /\ Remembers(s[Len(s)])
         /\ LET r == SubSeq(s, 1, Len(s) - 1)
            IN \A i \in 1 .. Len(r) : Remembers(r[i])
BY PopShape

LEMMA CallAsks ==
  ASSUME NEW f, NEW msg \in Message, Asked(msg), Call(f, msg)
  PROVE  Asks(par') /\ mode' # "done"
BY ParserAsks DEF Call

LEMMA ReturnAsks ==
  ASSUME NEW p, Asks(p), Return(p)
  PROVE  Asks(par') /\ mode' # "done"
BY DEF Return

LEMMA AskStep == OnlySchemesAsk /\ TypeInv /\ AskInv /\ [Next]_vars => AskInv'
<1> SUFFICES ASSUME OnlySchemesAsk, TypeInv, AskInv, [Next]_vars PROVE AskInv'
  OBVIOUS
<1> DEFINE Kind(s) == \A i \in 1 .. Len(s) : Remembers(s[i])
<1>1. /\ stack \in Seq(Frame) /\ par \in Parser /\ par.msg \in Message
      /\ expr \in Filter /\ request \in Request
  BY FilterAssumption DEF TypeInv, TypeOK, Parser
<1>2. Asks(par) /\ Asked(par.msg) /\ Kind(stack)
  BY DEF AskInv, Asks
<1>3. stack # << >> => /\ Top \in Frame /\ Rest \in Seq(Frame)
                       /\ Remembers(Top) /\ Kind(Rest)
  BY <1>1, <1>2, PopType, PopRemembers DEF Top, Rest
<1>4. ASSUME NEW fr, Remembers(fr), Push(fr) PROVE Kind(stack')
  BY <1>1, <1>2, <1>4, PushRemembers DEF Push
<1>5. Asks(Parse(par.msg)) /\ Asks(Complete(par.msg))
  BY <1>1, <1>2, ParserAsks
<1> HIDE DEF Kind
<1>6. ASSUME Asks(par'), mode' # "done", Kind(stack') PROVE AskInv'
  BY <1>6 DEF AskInv, Kind
<1>7. ASSUME ApplyLeaf PROVE AskInv'
  <2>1. Asks(LeafFilter(expr, request, par.msg))
    BY <1>1, <1>2, <1>7, LeafAsks DEF ApplyLeaf
  <2>2. QED
    BY <1>2, <1>6, <1>7, <2>1, ReturnAsks DEF ApplyLeaf
<1>8. ASSUME ApplyThen PROVE AskInv'
  <2>1. Remembers([op |-> "then", second |-> expr.second])
    BY DEF Remembers, Marks
  <2>2. QED
    BY <1>1, <1>2, <1>4, <1>6, <1>8, <2>1, CallAsks DEF ApplyThen
<1>9. ASSUME ReturnThen PROVE AskInv'
  <2>1. Kind(stack')
    BY <1>3, <1>9 DEF ReturnThen, Returning, Pop
  <2>2. QED
    BY <1>1, <1>2, <1>6, <1>9, <2>1, CallAsks, ReturnAsks DEF ReturnThen
<1>10. ASSUME ApplyChoice PROVE AskInv'
  <2>1. Remembers([op |-> "choice", opts |-> expr.opts, msg |-> par.msg])
    BY <1>2 DEF Remembers
  <2>2. QED
    BY <1>2, <1>4, <1>6, <1>10, <2>1 DEF ApplyChoice
<1>11. ASSUME NextOption PROVE AskInv'
  <2>1. /\ mode = "choose" /\ stack # << >> /\ Top.op = "choice"
        /\ Top \in Frame /\ Rest \in Seq(Frame) /\ Kind(Rest)
        /\ Top.msg \in Message /\ Asked(Top.msg)
    BY <1>3, <1>11, FrameParts DEF NextOption, TypeInv, Choosing, Remembers, Marks
  <2>2. CASE Top.opts = << >>
    <3>1. NotFound \in Nat \ {Unauthorized}
      BY DEF NotFound, Unauthorized
    <3>2. Asks(Exhausted(Top.msg))
      BY <2>1, <3>1, ParserAsks DEF Exhausted
    <3>3. QED
      BY <1>6, <1>11, <2>1, <2>2, <3>2, ReturnAsks DEF NextOption, Pop
  <2>3. CASE Top.opts # << >>
    <3> DEFINE fr == [Top EXCEPT !.opts = Tail(@)]
    <3>1. Remembers(fr)
      BY <2>1 DEF Remembers, Frame
    <3>2. stack' = Append(Rest, fr)
      BY <1>11, <2>3 DEF NextOption
    <3> HIDE DEF fr
    <3>3. Kind(stack')
      BY <2>1, <3>1, <3>2, PushRemembers DEF Kind
    <3>4. Asks(par') /\ mode' # "done"
      BY <1>2, <1>11, <2>1, <2>3, CallAsks DEF NextOption, OptionMessage
    <3>5. QED
      BY <1>6, <3>3, <3>4
  <2>4. QED
    BY <2>2, <2>3
<1>12. ASSUME ReturnChoice PROVE AskInv'
  <2>1. Kind(stack')
    BY <1>2, <1>3, <1>12 DEF ReturnChoice, Returning, Pop
  <2>2. QED
    BY <1>2, <1>6, <1>12, <2>1, ReturnAsks DEF ReturnChoice
<1>13. ASSUME ApplyOnError PROVE AskInv'
  <2>1. Remembers([op |-> "on_error", handler |-> expr.handler, msg |-> par.msg])
    BY <1>2 DEF Remembers
  <2>2. QED
    BY <1>1, <1>2, <1>4, <1>5, <1>6, <1>13, <2>1, CallAsks, ReturnAsks DEF ApplyOnError
<1>14. ASSUME ReturnOnError PROVE AskInv'
  <2>1. Kind(stack') /\ Top.msg \in Message /\ Asked(Top.msg)
    BY <1>3, <1>14, FrameParts DEF ReturnOnError, Returning, Pop, Remembers, Marks
  <2>2. Asks(Parse(Top.msg))
    BY <2>1, ParserAsks
  <2>3. QED
    BY <1>1, <1>2, <1>6, <1>14, <2>1, <2>2, CallAsks, ReturnAsks DEF ReturnOnError
<1>15. ASSUME ApplyOnErrorComplete PROVE AskInv'
  <2>1. Remembers([op |-> "on_error_complete", status |-> expr.status])
    BY <1>1, <1>15 DEF Remembers, Marks, OnlySchemesAsk, ApplyOnErrorComplete, Applying
  <2>2. QED
    BY <1>1, <1>2, <1>4, <1>5, <1>6, <1>15, <2>1, CallAsks, ReturnAsks
       DEF ApplyOnErrorComplete
<1>16. ASSUME ReturnOnErrorComplete PROVE AskInv'
  <2>1. Kind(stack') /\ Top.status \in Nat \ {Unauthorized}
    BY <1>3, <1>16, FrameParts DEF ReturnOnErrorComplete, Returning, Pop, Remembers
  <2>2. Asks(CompleteWithError(par.msg, Top.status))
    BY <1>1, <2>1, ParserAsks
  <2>3. QED
    BY <1>2, <1>5, <1>6, <1>16, <2>1, <2>2, ReturnAsks DEF ReturnOnErrorComplete
<1>17. ASSUME Respond PROVE AskInv'
  <2>1. /\ UNCHANGED <<par, stack>> /\ response' = Answered(response, par)
        /\ response \in Message /\ par.msg.header \in Headers
    BY <1>1, <1>17 DEF Respond, TypeInv, TypeOK, Message
  <2>2. response'.status = ResolveStatus(par)
    BY <2>1 DEF Answered, SetStatus, SetHeaders, Message
  <2>3. response'.status = Unauthorized => par.msg.status = Unauthorized /\ ~par.failed
    BY <1>2, <2>2 DEF ResolveStatus, Asks, InternalServerError, OK, Unauthorized
  <2>4. ~par.failed /\ par.msg.header[Authenticate] # NoValue
          => response'.header[Authenticate] # NoValue
    BY <2>1, HeaderAssumption DEF Answered, SetStatus, SetHeaders, Message, Headers
  <2>5. QED
    BY <1>2, <2>1, <2>3, <2>4 DEF AskInv, Asked
<1>18. ASSUME Again PROVE AskInv'
  <2>1. Asked(NewMessage) /\ NewMessage \in Message
    BY NewMessageType DEF Asked, NewMessage, Unauthorized
  <2>2. QED
    BY <1>2, <1>6, <1>18, <2>1, ParserAsks DEF Again
<1>19. ASSUME UNCHANGED vars PROVE AskInv'
  BY <1>19 DEF vars, AskInv
<1>20. QED
  BY <1>7, <1>8, <1>9, <1>10, <1>11, <1>12, <1>13, <1>14, <1>15, <1>16, <1>17, <1>18, <1>19
     DEF Next, Step, Done

(* However the filters are combined, and however often a context is used,  *)
(* a response with the status 401 carries a challenge.                     *)
THEOREM Challenges == Spec => []UnauthorizedHasChallenge
<1>1. CASE OnlySchemesAsk
  <2>1. Init => AskInv
    <3>1. Asked(NewMessage) /\ NewMessage \in Message
      BY NewMessageType DEF Asked, NewMessage, Unauthorized
    <3>2. QED
      BY <3>1, ParserAsks DEF Init, AskInv
  <2>2. TypeInv /\ AskInv /\ [Next]_vars => AskInv'
    BY <1>1, AskStep
  <2>3. AskInv => UnauthorizedHasChallenge
    BY DEF AskInv, UnauthorizedHasChallenge
  <2>4. Spec => []TypeInv
    BY InitType, TypeStep, ChoosingStep, ReturnedStep, PTL DEF Spec, TypeInv
  <2>5. QED
    BY <2>1, <2>2, <2>3, <2>4, PTL DEF Spec
<1>2. CASE ~OnlySchemesAsk
  <2>1. UnauthorizedHasChallenge
    BY <1>2 DEF UnauthorizedHasChallenge
  <2>2. QED
    BY <2>1, PTL
<1>3. QED
  BY <1>1, <1>2

-----------------------------------------------------------------------------
(* What the operations of a message and the functions do to a clean one.   *)
LEMMA SameBody ==
  ASSUME NEW m, NEW n, n.body = m.body, Clean(m)
  PROVE  Clean(n)
BY DEF Clean

LEMMA StatusClean ==
  ASSUME NEW msg \in Message, Clean(msg), NEW code
  PROVE  Clean(SetStatus(msg, code))
BY DEF SetStatus, Message, Clean

LEMMA HeadersClean ==
  ASSUME NEW msg \in Message, Clean(msg), NEW dict
  PROVE  Clean(SetHeaders(msg, dict))
BY DEF SetHeaders, Message, Clean

LEMMA HeaderClean ==
  ASSUME NEW msg \in Message, Clean(msg), NEW n, NEW v
  PROVE  Clean(SetHeader(msg, n, v))
BY DEF SetHeader, Message, Clean

LEMMA OutputClean ==
  ASSUME NEW msg \in Message, Clean(msg), NEW content \in Content, content.chunk \notin Secret
  PROVE  Clean(Output(msg, content))
<1> DEFINE x == SetHeader(msg, ContentType, content.type)
<1>1. x \in Message /\ Clean(x) /\ content.chunk \in Chunk
  BY HeaderType, HeaderClean, HeaderAssumption DEF Content
<1> HIDE DEF x
<1>2. x.body \in Seq(Chunk)
  BY <1>1 DEF Message
<1>3. /\ Len(x.body) \in Nat /\ DOMAIN x.body = 1 .. Len(x.body)
      /\ DOMAIN Append(x.body, content.chunk) = 1 .. Len(x.body) + 1
      /\ \A i \in 1 .. Len(x.body) + 1 :
           Append(x.body, content.chunk)[i] = IF i = Len(x.body) + 1 THEN content.chunk ELSE x.body[i]
  BY <1>1, <1>2, AppendProperties, LenProperties
<1>4. \A i \in DOMAIN Append(x.body, content.chunk) : Append(x.body, content.chunk)[i] \notin Secret
  BY <1>1, <1>3 DEF Clean
<1>5. Output(msg, content).body = Append(x.body, content.chunk)
  BY <1>1 DEF Output, x, Message
<1>6. QED
  BY <1>4, <1>5 DEF Clean

LEMMA OutputStatusClean ==
  ASSUME NEW msg \in Message, Clean(msg), NEW code, NEW content \in Content,
         content.chunk \notin Secret
  PROVE  Clean(OutputStatus(msg, code, content))
BY OutputType, OutputClean, StatusClean DEF OutputStatus

LEMMA ChallengeClean ==
  ASSUME NEW msg \in Message, Clean(msg), NEW v \in OptionalValue
  PROVE  Clean(SetChallenge(msg, v))
BY HeaderType, HeaderClean, StatusClean, HeaderAssumption DEF SetChallenge

LEMMA ChallengeOutputClean ==
  ASSUME NEW msg \in Message, Clean(msg), NEW v \in HeaderValue, NEW content \in Content,
         content.chunk \notin Secret
  PROVE  Clean(Output(SetChallenge(msg, v), content))
BY ChallengeType, ChallengeClean, OutputClean DEF OptionalValue

LEMMA AnswerClean ==
  ASSUME NEW o \in Outcome, NEW msg \in Message, Clean(msg), Public(o)
  PROVE  Clean(Answer(o, msg).msg)
<1> USE DEF Answer, Public, Writing, Parse, Fail, Complete
<1>1. CASE o \in [op : {"parse", "fail", "complete"}]
  BY <1>1
<1>2. CASE o \in [op : {"fail_with", "complete_with_error"}, code : Nat]
  BY <1>2, StatusClean DEF FailWith, CompleteWithError
<1>3. CASE o \in [op : {"continue_ok", "output"}, content : Content]
  BY <1>3, OutputClean, OutputStatusClean DEF ContinueOk
<1>4. CASE o \in [op : {"complete_with_status"}, code : Nat, content : Content]
  BY <1>4, OutputStatusClean DEF CompleteWithStatus
<1>5. CASE o \in [op : {"complete_with_challenge"}, challenge : HeaderValue, content : Content]
  BY <1>5, ChallengeOutputClean DEF CompleteWithChallenge
<1>6. QED
  BY <1>1, <1>2, <1>3, <1>4, <1>5 DEF Outcome

LEMMA CallOrClean ==
  ASSUME NEW func \in Func, NEW msg \in Message, Clean(msg), Public(func)
  PROVE  Clean(CallOr(func, msg).msg)
<1>1. CASE IsNone(func)
  BY <1>1 DEF CallOr, Parse
<1>2. CASE ~IsNone(func)
  BY <1>2, AnswerClean DEF CallOr, Func, None, IsNone
<1>3. QED
  BY <1>1, <1>2

(* Without a valid field, a scheme filter ends the parsing before it has   *)
(* called its function.                                                    *)
LEMMA SchemeEnds ==
  ASSUME NEW f, NEW req \in Request, NEW msg \in Message, Clean(msg),
         req.field[Authorization] # "valid"
  PROVE  /\ Clean(BearerAuthFilter(f, req, msg).msg)
         /\ Clean(MacAuthFilter(f, req, msg).msg)
         /\ FailedOrComplete(BearerAuthFilter(f, req, msg))
         /\ FailedOrComplete(MacAuthFilter(f, req, msg))
<1>1. req.field[Authorization] \in {"absent", "empty", "malformed"}
  BY FieldAssumption DEF Request, FieldState
<1>2. ASSUME NEW scheme \in {Bearer, Mac}
      PROVE  /\ Clean(CompleteWithChallenge(msg, scheme, Explanation).msg)
             /\ FailedOrComplete(CompleteWithChallenge(msg, scheme, Explanation))
  BY ChallengeOutputClean, FieldAssumption, ProtectionAssumption
     DEF CompleteWithChallenge, Complete, FailedOrComplete
<1>3. /\ Clean(CompleteWithStatus(msg, BadRequest, Explanation).msg)
      /\ FailedOrComplete(CompleteWithStatus(msg, BadRequest, Explanation))
  BY OutputStatusClean, FieldAssumption, ProtectionAssumption
     DEF CompleteWithStatus, Complete, FailedOrComplete
<1>4. QED
  BY <1>1, <1>2, <1>3 DEF BearerAuthFilter, MacAuthFilter

LEMMA LeafClean ==
  ASSUME NEW f \in Leaf, SafeLeaf(f), NEW req \in Request, NEW msg \in Message, Clean(msg),
         req.field[Authorization] # "valid"
  PROVE  Clean(LeafFilter(f, req, msg).msg)
<1> USE DEF LeafFilter, SafeLeaf
<1>1. /\ Clean(Parse(msg).msg)
      /\ \A code : Clean(FailWith(msg, code).msg)
  BY StatusClean DEF Parse, FailWith, Fail
<1>2. CASE f \in [op : {"pass"}]
  BY <1>1, <1>2 DEF PassFilter
<1>3. CASE f \in [op : {"output"}, content : Content]
  BY <1>3, OutputClean DEF OutputFilter, Parse, Public, Writing
<1>4. CASE f \in [op : {"rheader"}, dict : Headers]
  BY <1>4, HeadersClean DEF RheaderFilter, Parse
<1>5. CASE f \in [op : {"method"}, methods : SUBSET Method]
  BY <1>1, <1>5 DEF MethodFilter
<1>6. CASE f \in [op : {"path"}, paths : SUBSET Path, func : Func]
  BY <1>1, <1>6, CallOrClean DEF PathFilter
<1>7. CASE f \in [op : {"params"}, func : Func]
  BY <1>7, CallOrClean DEF ParamsFilter
<1>8. CASE f \in [op : {"header"}, fields : Seq(Field), func : Func]
  BY <1>1, <1>8, CallOrClean DEF HeaderFilter
<1>9. CASE f \in [op : {"content"}, type : OptionalValue, func : Func]
  BY <1>1, <1>9, CallOrClean DEF ContentFilter
<1>10. CASE f \in [op : {"authorization"}, challenge : OptionalValue, func : Func]
  <2>1. Clean(Fail(SetChallenge(msg, f.challenge)).msg)
    BY <1>10, ChallengeClean DEF Fail
  <2>2. QED
    BY <1>1, <1>10, <2>1, CallOrClean DEF AuthorizationFilter
<1>11. CASE f \in [op : {"bearer_auth", "mac_auth"}, func : Func]
  BY <1>11, SchemeEnds
<1>12. CASE f \in [op : {"func"}, answer : Func]
  BY <1>12, CallOrClean DEF FuncFilter
<1>13. QED
  BY <1>2, <1>3, <1>4, <1>5, <1>6, <1>7, <1>8, <1>9, <1>10, <1>11, <1>12 DEF Leaf

LEMMA LeafGate ==
  ASSUME NEW f \in Leaf, f \in Gate, NEW req \in Request, NEW msg \in Message, Clean(msg),
         req.field[Authorization] # "valid"
  PROVE  FailedOrComplete(LeafFilter(f, req, msg))
<1>1. f.op \in Schemes
  BY ProtectionAssumption DEF GateParts
<1>2. QED
  BY <1>1, SchemeEnds DEF LeafFilter, Schemes

-----------------------------------------------------------------------------
(* The property is not inductive: a filter that is not safe may be called  *)
(* once a gate has been passed, so what matters is where the evaluation    *)
(* must have stopped.  D holds the calls, counted from the evaluator's,    *)
(* that have to end in a failed or a complete parser, and the frame of     *)
(* each call keeps the promise made to the one outside it.                 *)
FrameSafe(fr, due, next) ==
  /\ fr.op = "then" => /\ fr.second \in Safe \/ next
                       /\ due => next \/ fr.second \in Gate
  /\ fr.op = "choice" => /\ Clean(fr.msg)
                         /\ due <=> next
                         /\ \A i \in DOMAIN fr.opts : fr.opts[i] \in Safe \cup {None}
                         /\ due => \A i \in DOMAIN fr.opts : fr.opts[i] \in Gate \cup {None}
  /\ fr.op = "on_error" => ~due /\ Clean(fr.msg) /\ fr.handler \in Safe \cup {None}
  /\ fr.op = "on_error_complete" => (due <=> next)

StackSafe(s, D) ==
  /\ 1 \notin D
  /\ \A i \in 1 .. Len(s) : FrameSafe(s[i], i \in D, i + 1 \in D)

Ends(s, due) ==
  \E D \in SUBSET Nat : StackSafe(s, D) /\ (due <=> Len(s) + 1 \in D)

Current(due) ==
  /\ mode = "apply" => expr \in Safe /\ (due => expr \in Gate)
  /\ mode = "return" => (due => FailedOrComplete(par))

GateInv ==
  request.field[Authorization] # "valid" =>
    /\ Clean(par.msg) /\ Clean(response)
    /\ \E due \in BOOLEAN : Ends(stack, due) /\ Current(due)

LEMMA EndsEmpty == Ends(<< >>, FALSE)
<1>1. Len(<< >>) = 0 /\ StackSafe(<< >>, {})
  BY DEF StackSafe
<1>2. QED
  BY <1>1 DEF Ends

LEMMA EndsPush ==
  ASSUME NEW s \in Seq(Frame), NEW due \in BOOLEAN, Ends(s, due),
         NEW fr \in Frame, NEW next \in BOOLEAN, FrameSafe(fr, due, next)
  PROVE  Ends(Append(s, fr), next)
<1> DEFINE t == Append(s, fr)
<1>1. PICK D \in SUBSET Nat : StackSafe(s, D) /\ (due <=> Len(s) + 1 \in D)
  BY DEF Ends
<1>2. Len(s) \in Nat /\ Len(t) = Len(s) + 1 /\ t[Len(s) + 1] = fr
      /\ \A i \in 1 .. Len(s) : t[i] = s[i]
  BY AppendProperties
<1> DEFINE E == {i \in Nat : (i <= Len(s) + 1 /\ i \in D) \/ (i = Len(s) + 2 /\ next)}
<1>3. /\ 1 \notin E
      /\ \A i \in 1 .. Len(s) + 1 : i \in E <=> i \in D
      /\ Len(s) + 2 \in E <=> next
  BY <1>1, <1>2 DEF StackSafe
<1> HIDE DEF t, E
<1>4. ASSUME NEW i \in 1 .. Len(t) PROVE FrameSafe(t[i], i \in E, i + 1 \in E)
  <2>1. CASE i \in 1 .. Len(s)
    <3>1. (i \in E <=> i \in D) /\ (i + 1 \in E <=> i + 1 \in D)
      BY <1>2, <1>3, <2>1
    <3>2. FrameSafe(s[i], i \in D, i + 1 \in D)
      BY <1>1, <2>1 DEF StackSafe
    <3>3. QED
      BY <1>2, <2>1, <3>1, <3>2 DEF FrameSafe
  <2>2. CASE i = Len(s) + 1
    <3>1. (i \in E <=> due) /\ (i + 1 \in E <=> next)
      BY <1>1, <1>2, <1>3, <2>2
    <3>2. QED
      BY <1>2, <2>2, <3>1 DEF FrameSafe
  <2>3. QED
    BY <1>2, <2>1, <2>2
<1>5. Len(t) + 1 = Len(s) + 2 /\ E \in SUBSET Nat
  BY <1>2 DEF E
<1>6. QED
  BY <1>3, <1>4, <1>5 DEF Ends, StackSafe, t

LEMMA EndsPop ==
  ASSUME NEW s \in Seq(Frame), s # << >>, NEW next \in BOOLEAN, Ends(s, next)
  PROVE  \E due \in BOOLEAN : /\ FrameSafe(s[Len(s)], due, next)
                              /\ Ends(SubSeq(s, 1, Len(s) - 1), due)
<1> DEFINE r == SubSeq(s, 1, Len(s) - 1)
           n == Len(s)
<1>1. PICK D \in SUBSET Nat : StackSafe(s, D) /\ (next <=> n + 1 \in D)
  BY DEF Ends
<1>2. n \in Nat /\ Len(r) = n - 1 /\ n \in 1 .. n
      /\ \A i \in 1 .. Len(r) : r[i] = s[i] /\ i \in 1 .. n
  BY PopShape
<1> HIDE DEF r, n
<1>3. FrameSafe(s[n], n \in D, n + 1 \in D)
  BY <1>1, <1>2 DEF StackSafe, n
<1>4. StackSafe(r, D)
  BY <1>1, <1>2 DEF StackSafe, n
<1>5. Len(r) + 1 = n
  BY <1>2
<1>6. CASE n \in D
  <2>1. Ends(r, TRUE) /\ FrameSafe(s[n], TRUE, next)
    BY <1>1, <1>3, <1>4, <1>5, <1>6 DEF Ends, FrameSafe
  <2>2. QED
    BY <2>1 DEF r, n
<1>7. CASE n \notin D
  <2>1. Ends(r, FALSE) /\ FrameSafe(s[n], FALSE, next)
    BY <1>1, <1>3, <1>4, <1>5, <1>7 DEF Ends, FrameSafe
  <2>2. QED
    BY <2>1 DEF r, n
<1>8. QED
  BY <1>6, <1>7

LEMMA CallGate ==
  ASSUME NEW f \in Safe, NEW msg, Clean(msg), Call(f, msg), Clean(response)',
         NEW due \in BOOLEAN, due => f \in Gate, Ends(stack', due)
  PROVE  GateInv'
BY DEF Call, Parse, GateInv, Current

LEMMA ReturnGate ==
  ASSUME NEW p, Clean(p.msg), Return(p), Clean(response)',
         NEW due \in BOOLEAN, due => FailedOrComplete(p), Ends(stack', due)
  PROVE  GateInv'
BY DEF Return, GateInv, Current

(* The response is what it was, with a clean body appended or none.        *)
LEMMA ConcatClean ==
  ASSUME NEW s \in Seq(Chunk), NEW t \in Seq(Chunk),
         \A i \in DOMAIN s : s[i] \notin Secret, \A i \in DOMAIN t : t[i] \notin Secret
  PROVE  \A i \in DOMAIN (s \o t) : (s \o t)[i] \notin Secret
<1> DEFINE b == s \o t
<1>1. /\ Len(s) \in Nat /\ Len(t) \in Nat /\ Len(b) = Len(s) + Len(t)
      /\ DOMAIN b = 1 .. Len(b) /\ DOMAIN s = 1 .. Len(s) /\ DOMAIN t = 1 .. Len(t)
      /\ \A i \in 1 .. Len(s) + Len(t) : b[i] = IF i <= Len(s) THEN s[i] ELSE t[i - Len(s)]
  BY ConcatProperties, LenProperties
<1> HIDE DEF b
<1>2. ASSUME NEW i \in DOMAIN b PROVE b[i] \notin Secret
  <2>1. i \in 1 .. Len(s) + Len(t)
    BY <1>1
  <2>2. i \in DOMAIN s \/ (i > Len(s) /\ i - Len(s) \in DOMAIN t)
    BY <1>1, <2>1
  <2>3. QED
    BY <1>1, <2>1, <2>2
<1>3. QED
  BY <1>2 DEF b

LEMMA AnsweredClean ==
  ASSUME NEW resp \in Message, NEW p \in Parser, Clean(resp), Clean(p.msg)
  PROVE  Clean(Answered(resp, p))
<1> DEFINE r == SetStatus(resp, ResolveStatus(p))
           h == SetHeaders(r, p.msg.header)
           b == h.body \o p.msg.body
<1>1. p.msg \in Message /\ p.msg.header \in Headers /\ p.msg.body \in Seq(Chunk)
  BY DEF Parser, Message
<1>2. ResolveStatus(p) \in Nat
  BY <1>1 DEF ResolveStatus, Message, InternalServerError, OK
<1>3. r \in Message /\ Clean(r)
  BY <1>2, StatusType, StatusClean
<1>4. h \in Message /\ Clean(h)
  BY <1>1, <1>3, HeadersType, HeadersClean
<1> HIDE DEF r, h
<1>5. h.body \in Seq(Chunk)
  BY <1>4 DEF Message
<1>6. \A i \in DOMAIN b : b[i] \notin Secret
  BY <1>1, <1>4, <1>5, ConcatClean DEF Clean
<1> HIDE DEF b
<1>7. Clean([h EXCEPT !.body = b])
  BY <1>4, <1>6 DEF Clean, Message
<1>8. QED
  BY <1>3, <1>7 DEF Answered, r, h, b

LEMMA SafeIsFilter ==
  ASSUME NEW f \in Safe \cup Gate
  PROVE  f \in Filter /\ ~IsNone(f)
BY ProtectionAssumption, FilterAssumption DEF Leaf, Compound, None, IsNone

LEMMA GateStep == TypeInv /\ Protected /\ GateInv /\ [Next]_vars => GateInv'
<1> SUFFICES ASSUME TypeInv, Protected, GateInv, [Next]_vars PROVE GateInv'
  OBVIOUS
<1>1. request' = request
  BY DEF Next, Step, Again, Done, vars, context, ApplyLeaf, ApplyThen, ReturnThen, ApplyChoice,
         NextOption, ReturnChoice, ApplyOnError, ReturnOnError, ApplyOnErrorComplete,
         ReturnOnErrorComplete, Respond
<1>2. CASE request.field[Authorization] = "valid"
  BY <1>1, <1>2 DEF GateInv
<1> SUFFICES ASSUME request.field[Authorization] # "valid" PROVE GateInv'
  BY <1>2
<1>3. /\ stack \in Seq(Frame) /\ par.msg \in Message /\ par \in Parser
      /\ expr \in Filter /\ request \in Request /\ response \in Message
  BY FilterAssumption DEF TypeInv, TypeOK, Parser
<1>4. Clean(par.msg) /\ Clean(response)
  BY DEF GateInv
<1>5. PICK due \in BOOLEAN : Ends(stack, due) /\ Current(due)
  BY DEF GateInv
<1>6. stack # << >> => /\ Top \in Frame /\ Rest \in Seq(Frame)
                       /\ \E d \in BOOLEAN : FrameSafe(Top, d, due) /\ Ends(Rest, d)
  BY <1>3, <1>5, PopType, EndsPop DEF Top, Rest
<1>7. \A f \in Safe : SafeParts(f)
  BY ProtectionAssumption
<1>8. \A f \in Gate : GateParts(f) /\ ~IsNone(f)
  BY ProtectionAssumption, SafeIsFilter
<1>9. \A f \in Safe \cup {None} : ~IsNone(f) => f \in Safe
  BY DEF None, IsNone
<1>10. \A f \in Gate \cup {None} : ~IsNone(f) => f \in Gate
  BY DEF None, IsNone
<1>11. mode = "apply" => expr \in Safe /\ SafeParts(expr)
                         /\ (due => expr \in Gate /\ GateParts(expr))
  BY <1>5, <1>7, <1>8 DEF Current
<1>12. ASSUME ApplyLeaf PROVE GateInv'
  <2>1. expr \in Leaf /\ SafeLeaf(expr) /\ (due => expr \in Gate)
    BY <1>11, <1>12 DEF ApplyLeaf, SafeParts
  <2>2. /\ Clean(LeafFilter(expr, request, par.msg).msg)
        /\ due => FailedOrComplete(LeafFilter(expr, request, par.msg))
    BY <1>3, <1>4, <2>1, LeafClean, LeafGate
  <2>3. QED
    BY <1>4, <1>5, <1>12, <2>2, ReturnGate DEF ApplyLeaf
<1>13. ASSUME ApplyThen PROVE GateInv'
  <2> DEFINE fr == [op |-> "then", second |-> expr.second]
  <2>0. PICK next \in BOOLEAN : next <=> expr.first \in Gate
    OBVIOUS
  <2>1. /\ mode = "apply" /\ expr.op = "then" /\ stack' = Append(stack, fr)
        /\ Call(expr.first, par.msg) /\ response' = response
    BY <1>13 DEF ApplyThen, Applying, Push
  <2>2. fr \in Frame
    BY <1>3, <2>1, Parts DEF Frame
  <2>3. expr.first \in Safe /\ FrameSafe(fr, due, next)
    BY <1>11, <2>0, <2>1 DEF SafeParts, GateParts, FrameSafe
  <2>4. Ends(stack', next)
    BY <1>3, <1>5, <2>1, <2>2, <2>3, EndsPush
  <2>5. QED
    BY <1>4, <2>0, <2>1, <2>3, <2>4, CallGate
<1>14. ASSUME ReturnThen PROVE GateInv'
  <2>1. /\ mode = "return" /\ stack # << >> /\ Top.op = "then" /\ stack' = Rest
        /\ response' = response /\ (due => FailedOrComplete(par))
    BY <1>5, <1>14 DEF ReturnThen, Returning, Pop, Current
  <2>2. PICK d \in BOOLEAN : FrameSafe(Top, d, due) /\ Ends(Rest, d)
    BY <1>6, <2>1
  <2>3. CASE FailedOrComplete(par)
    BY <1>4, <1>14, <2>1, <2>2, <2>3, ReturnGate DEF ReturnThen
  <2>4. CASE ~FailedOrComplete(par)
    <3>1. Top.second \in Safe /\ (d => Top.second \in Gate)
      BY <2>1, <2>2, <2>4 DEF FrameSafe
    <3>2. QED
      BY <1>4, <1>14, <2>1, <2>2, <2>4, <3>1, CallGate DEF ReturnThen
  <2>5. QED
    BY <2>3, <2>4
<1>15. ASSUME ApplyChoice PROVE GateInv'
  <2> DEFINE fr == [op |-> "choice", opts |-> expr.opts, msg |-> par.msg]
  <2>1. /\ mode = "apply" /\ expr.op = "choice" /\ stack' = Append(stack, fr)
        /\ mode' = "choose" /\ par' = par /\ response' = response
    BY <1>15 DEF ApplyChoice, Applying, Push
  <2>2. fr \in Frame
    BY <1>3, <2>1, Parts DEF Frame
  <2>3. FrameSafe(fr, due, due)
    BY <1>4, <1>11, <2>1 DEF SafeParts, GateParts, FrameSafe
  <2>4. Ends(stack', due)
    BY <1>3, <1>5, <2>1, <2>2, <2>3, EndsPush
  <2>5. QED
    BY <1>4, <2>1, <2>4 DEF GateInv, Current
<1>16. ASSUME NextOption PROVE GateInv'
  <2>1. /\ mode = "choose" /\ stack # << >> /\ Top.op = "choice" /\ response' = response
        /\ Top \in Frame /\ Top.msg \in Message /\ Top.opts \in Seq(MaybeFilter)
        /\ Rest \in Seq(Frame)
    BY <1>6, <1>16, FrameParts DEF NextOption, TypeInv, Choosing
  <2>2. PICK d \in BOOLEAN : FrameSafe(Top, d, due) /\ Ends(Rest, d)
    BY <1>6, <2>1
  <2>3. Clean(Top.msg)
    BY <2>1, <2>2 DEF FrameSafe
  <2>4. CASE Top.opts = << >>
    <3>1. /\ Clean(Exhausted(Top.msg).msg) /\ FailedOrComplete(Exhausted(Top.msg))
          /\ Return(Exhausted(Top.msg)) /\ stack' = Rest
      BY <1>16, <2>1, <2>3, <2>4, StatusClean
         DEF NextOption, Pop, Exhausted, FailWith, Fail, FailedOrComplete
    <3>2. QED
      BY <1>4, <2>1, <2>2, <3>1, ReturnGate
  <2>5. CASE Top.opts # << >>
    <3> DEFINE fr == [Top EXCEPT !.opts = Tail(@)]
    <3>1. /\ stack' = Append(Rest, fr)
          /\ IF IsNone(Head(Top.opts)) THEN UNCHANGED <<mode, expr, par, completed>>
                                       ELSE Call(Head(Top.opts), Top.msg)
      BY <1>16, <2>5 DEF NextOption, OptionMessage
    <3>2. /\ Tail(Top.opts) \in Seq(MaybeFilter)
          /\ Head(Top.opts) = Top.opts[1] /\ 1 \in DOMAIN Top.opts
          /\ \A i \in DOMAIN Tail(Top.opts) : \E j \in DOMAIN Top.opts : Tail(Top.opts)[i] = Top.opts[j]
      <4>1. Top.opts \in Seq(MaybeFilter) /\ Top.opts # << >>
        BY <2>1, <2>5
      <4> DEFINE o == Top.opts
      <4> HIDE DEF o
      <4>2. ASSUME o \in Seq(MaybeFilter), o # << >>
            PROVE  /\ Tail(o) \in Seq(MaybeFilter) /\ Head(o) = o[1] /\ 1 \in DOMAIN o
                   /\ \A i \in DOMAIN Tail(o) : i + 1 \in DOMAIN o /\ Tail(o)[i] = o[i + 1]
        BY <4>2, HeadTailProperties
      <4>3. QED
        BY <4>1, <4>2 DEF o
    <3>3. /\ fr \in Frame /\ fr.op = "choice" /\ fr.msg = Top.msg /\ fr.opts = Tail(Top.opts)
      BY <2>1, <3>2 DEF Frame
    <3> HIDE DEF fr
    <3>4. FrameSafe(fr, d, d) /\ (d <=> due)
      BY <2>1, <2>2, <3>2, <3>3 DEF FrameSafe
    <3>5. Ends(stack', due)
      BY <2>1, <2>2, <3>1, <3>3, <3>4, EndsPush
    <3>6. CASE IsNone(Head(Top.opts))
      BY <1>4, <2>1, <3>1, <3>5, <3>6 DEF GateInv, Current
    <3>7. CASE ~IsNone(Head(Top.opts))
      <4>1. Head(Top.opts) \in Safe /\ (due => Head(Top.opts) \in Gate)
        BY <1>9, <1>10, <2>1, <2>2, <3>2, <3>7 DEF FrameSafe
      <4>2. QED
        BY <1>4, <2>1, <2>3, <3>1, <3>5, <3>7, <4>1, CallGate
    <3>8. QED
      BY <3>6, <3>7
  <2>6. QED
    BY <2>4, <2>5
<1>17. ASSUME ReturnChoice PROVE GateInv'
  <2>1. /\ mode = "return" /\ stack # << >> /\ Top.op = "choice" /\ response' = response
        /\ due => FailedOrComplete(par)
    BY <1>5, <1>17 DEF ReturnChoice, Returning, Current
  <2>2. CASE NotFailedOrComplete(par)
    <3>1. PICK d \in BOOLEAN : FrameSafe(Top, d, due) /\ Ends(Rest, d)
      BY <1>6, <2>1
    <3>2. Return(par) /\ stack' = Rest /\ (d <=> due)
      BY <1>17, <2>1, <2>2, <3>1 DEF ReturnChoice, Pop, FrameSafe
    <3>3. QED
      BY <1>4, <2>1, <3>1, <3>2, ReturnGate
  <2>3. CASE ~NotFailedOrComplete(par)
    BY <1>4, <1>5, <1>17, <2>1, <2>3 DEF ReturnChoice, GateInv, Current
  <2>4. QED
    BY <2>2, <2>3
<1>18. ASSUME ApplyOnError PROVE GateInv'
  <2>1. /\ mode = "apply" /\ expr.op = "on_error" /\ response' = response /\ ~due
        /\ {expr.expr, expr.handler} \subseteq Safe \cup {None}
    BY <1>11, <1>18 DEF ApplyOnError, Applying, SafeParts, GateParts
  <2>2. CASE IsNone(expr.expr)
    <3>1. Return(Parse(par.msg)) /\ stack' = stack
      BY <1>18, <2>2 DEF ApplyOnError
    <3>2. QED
      BY <1>4, <1>5, <2>1, <3>1, ReturnGate DEF Parse
  <2>3. CASE ~IsNone(expr.expr)
    <3> DEFINE fr == [op |-> "on_error", handler |-> expr.handler, msg |-> par.msg]
    <3>1. fr \in Frame /\ FrameSafe(fr, due, FALSE)
      BY <1>3, <1>4, <2>1, Parts DEF Frame, FrameSafe
    <3>2. stack' = Append(stack, fr) /\ Call(expr.expr, par.msg)
      BY <1>18, <2>3 DEF ApplyOnError, Push
    <3>3. Ends(stack', FALSE)
      BY <1>3, <1>5, <3>1, <3>2, EndsPush
    <3>4. QED
      BY <1>4, <1>9, <2>1, <2>3, <3>2, <3>3, CallGate
  <2>4. QED
    BY <2>2, <2>3
<1>19. ASSUME ReturnOnError PROVE GateInv'
  <2>1. /\ stack # << >> /\ Top.op = "on_error" /\ stack' = Rest /\ response' = response
    BY <1>19 DEF ReturnOnError, Returning, Pop
  <2>2. PICK d \in BOOLEAN : FrameSafe(Top, d, due) /\ Ends(Rest, d)
    BY <1>6, <2>1
  <2>3. ~d /\ Clean(Top.msg) /\ Top.handler \in Safe \cup {None}
    BY <2>1, <2>2 DEF FrameSafe
  <2>4. CASE Handles(Top, par)
    <3>1. Call(Top.handler, par.msg) /\ Top.handler \in Safe
      BY <1>9, <1>19, <2>3, <2>4 DEF ReturnOnError, Handles
    <3>2. QED
      BY <1>4, <2>1, <2>2, <2>3, <3>1, CallGate
  <2>5. CASE ~Handles(Top, par)
    <3>1. Return(Parse(Top.msg))
      BY <1>19, <2>5 DEF ReturnOnError
    <3>2. QED
      BY <1>4, <2>1, <2>2, <2>3, <3>1, ReturnGate DEF Parse
  <2>6. QED
    BY <2>4, <2>5
<1>20. ASSUME ApplyOnErrorComplete PROVE GateInv'
  <2>1. /\ mode = "apply" /\ expr.op = "on_error_complete" /\ response' = response
        /\ expr.expr \in Safe \cup {None} /\ (due => expr.expr \in Gate)
    BY <1>11, <1>20 DEF ApplyOnErrorComplete, Applying, SafeParts, GateParts
  <2>2. CASE IsNone(expr.expr)
    <3>1. Return(Parse(par.msg)) /\ stack' = stack /\ ~due
      BY <1>8, <1>20, <2>1, <2>2 DEF ApplyOnErrorComplete
    <3>2. QED
      BY <1>4, <1>5, <2>1, <3>1, ReturnGate DEF Parse
  <2>3. CASE ~IsNone(expr.expr)
    <3> DEFINE fr == [op |-> "on_error_complete", status |-> expr.status]
    <3>1. fr \in Frame /\ FrameSafe(fr, due, due)
      BY <1>3, <2>1, Parts DEF Frame, FrameSafe
    <3>2. stack' = Append(stack, fr) /\ Call(expr.expr, par.msg)
      BY <1>20, <2>3 DEF ApplyOnErrorComplete, Push
    <3>3. Ends(stack', due)
      BY <1>3, <1>5, <3>1, <3>2, EndsPush
    <3>4. QED
      BY <1>4, <1>9, <2>1, <2>3, <3>2, <3>3, CallGate
  <2>4. QED
    BY <2>2, <2>3
<1>21. ASSUME ReturnOnErrorComplete PROVE GateInv'
  <2>1. /\ mode = "return" /\ stack # << >> /\ Top.op = "on_error_complete"
        /\ stack' = Rest /\ response' = response /\ (due => FailedOrComplete(par))
    BY <1>5, <1>21 DEF ReturnOnErrorComplete, Returning, Pop, Current
  <2>2. PICK d \in BOOLEAN : FrameSafe(Top, d, due) /\ Ends(Rest, d)
    BY <1>6, <2>1
  <2>3. d <=> due
    BY <2>1, <2>2 DEF FrameSafe
  <2>4. \A p : p = par \/ p = CompleteWithError(par.msg, Top.status) \/ p = Complete(par.msg)
                 => Clean(p.msg) /\ (due => FailedOrComplete(p))
    BY <1>3, <1>4, <2>1, StatusClean DEF CompleteWithError, Complete, FailedOrComplete
  <2>5. \E p : /\ p = par \/ p = CompleteWithError(par.msg, Top.status) \/ p = Complete(par.msg)
               /\ Return(p)
    BY <1>21 DEF ReturnOnErrorComplete
  <2>6. QED
    BY <1>4, <2>1, <2>2, <2>3, <2>4, <2>5, ReturnGate
<1>22. ASSUME Respond PROVE GateInv'
  <2>1. /\ response' = Answered(response, par) /\ par' = par /\ stack' = stack
        /\ mode' = "done"
    BY <1>22 DEF Respond
  <2>2. Clean(response')
    BY <1>3, <1>4, <2>1, AnsweredClean
  <2>3. QED
    BY <1>4, <1>5, <2>1, <2>2 DEF GateInv, Current
<1>23. ASSUME Again PROVE GateInv'
  <2>1. /\ expr' \in Safe /\ mode' = "apply" /\ par' = Parse(NewMessage)
        /\ response' = response /\ stack' = << >>
    BY <1>23 DEF Again, Protected, TypeInv, Returned
  <2>2. Clean(NewMessage)
    BY DEF Clean, NewMessage
  <2>3. QED
    BY <1>4, <2>1, <2>2, EndsEmpty DEF GateInv, Current, Parse
<1>24. ASSUME UNCHANGED vars PROVE GateInv'
  BY <1>4, <1>5, <1>24 DEF vars, GateInv, Current
<1>25. QED
  BY <1>12, <1>13, <1>14, <1>15, <1>16, <1>17, <1>18, <1>19, <1>20, <1>21, <1>22, <1>23, <1>24
     DEF Next, Step, Done

(* Nothing secret is in a response without a valid Authorization field,    *)
(* for any safe expressions and however often they are evaluated.          *)
THEOREM Protects == Spec => []AuthenticatedOnly
<1>1. CASE Protected
  <2>1. Init => GateInv
    <3> SUFFICES ASSUME Init PROVE GateInv
      OBVIOUS
    <3>1. Clean(NewMessage) /\ Clean(NoResponse)
      BY DEF Clean, NewMessage, NoResponse
    <3>2. expr \in Safe /\ par.msg = NewMessage /\ mode = "apply"
      BY <1>1 DEF Init, Protected, Parse
    <3>3. QED
      BY <3>1, <3>2, EndsEmpty DEF Init, GateInv, Current
  <2>2. TypeInv /\ GateInv /\ [Next]_vars => GateInv'
    BY <1>1, GateStep
  <2>3. GateInv => AuthenticatedOnly
    BY DEF GateInv, AuthenticatedOnly
  <2>4. Spec => []TypeInv
    BY InitType, TypeStep, ChoosingStep, ReturnedStep, PTL DEF Spec, TypeInv
  <2>5. QED
    BY <2>1, <2>2, <2>3, <2>4, PTL DEF Spec
<1>2. CASE ~Protected
  <2>1. AuthenticatedOnly
    BY <1>2 DEF AuthenticatedOnly
  <2>2. QED
    BY <2>1, PTL
<1>3. QED
  BY <1>1, <1>2
=============================================================================
