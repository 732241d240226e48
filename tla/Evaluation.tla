----------------------------- MODULE Evaluation -----------------------------
(***************************************************************************)
(* The evaluation of a filter expression, call by call.  A combinator that *)
(* calls another filter leaves a frame on the call stack; the frame says   *)
(* what it does with the parser the filter returns.                        *)
(***************************************************************************)
EXTENDS Filters

CONSTANTS Filter,    (* the filter expressions, with all their parts        *)
          Program,   (* those the application evaluates                     *)
          Requests,  (* the requests it evaluates them for                  *)
          Later,     (* the expressions evaluated after another one         *)
          MaxRounds  (* bound: the evaluations on one context               *)

(* f >> g, and f << g, which applies g first *)
Then(f, g)   == [op |-> "then", first |-> f, second |-> g]
After(f, g)  == Then(g, f)

MaybeFilter == Filter \cup {None}

(* The filters made of other filters; an element of a choice, and what the *)
(* error filters hold, may be an empty function.                           *)
Compound ==
  [op : {"then"}, first : Filter, second : Filter]
    \cup [op : {"choice"}, opts : Seq(MaybeFilter)]
    \cup [op : {"on_error"}, expr : MaybeFilter, handler : MaybeFilter]
    \cup [op : {"on_error_complete"}, expr : MaybeFilter, status : Nat]

ASSUME FilterAssumption ==
  /\ Filter \subseteq Leaf \cup Compound
  /\ Program \subseteq Filter
  /\ Later \subseteq Filter
  /\ MaxRounds \in Nat
  /\ Requests \subseteq Request

NoResponse == [status |-> 0, header |-> NewMessage.header, body |-> << >>]

VARIABLES request,   (* context_->request()                                 *)
          program,   (* the expression the evaluator was called with        *)
          mode,      (* "apply" expr to par.msg, "choose" an option, a      *)
                     (* filter's "return" of par, or "done"                 *)
          expr,      (* the filter being applied                            *)
          par,       (* the parser returned last                            *)
          stack,     (* the frames of the calls, the innermost last         *)
          response,  (* context_->response()                                *)
          completed, (* history: the first complete parser, in a set        *)
          overridden,(* history: did an on_error drop a complete parser?    *)
          results    (* history: the parsers returned on this context       *)

vars == <<request, program, mode, expr, par, stack, response, completed,
          overridden, results>>

context == <<request, program, results>>

Frame ==
  [op : {"then"}, second : Filter]
    \cup [op : {"choice"}, opts : Seq(MaybeFilter), msg : Message]
    \cup [op : {"on_error"}, handler : MaybeFilter, msg : Message]
    \cup [op : {"on_error_complete"}, status : Nat]

Top  == stack[Len(stack)]
Rest == SubSeq(stack, 1, Len(stack) - 1)
Push(frame) == stack' = Append(stack, frame)
Pop == stack' = Rest

Init ==
  /\ request \in Requests
  /\ program \in Program
  /\ mode = "apply"
  /\ expr = program
  /\ par = Parse(NewMessage)
  /\ stack = << >>
  /\ response = NoResponse
  /\ completed = {}
  /\ overridden = FALSE
  /\ results = << >>

-----------------------------------------------------------------------------
Applying(op) == mode = "apply" /\ expr.op = op

(* Call f on a message; the parser of the call is not known yet. *)
Call(f, msg) ==
  /\ mode' = "apply"
  /\ expr' = f
  /\ par' = Parse(msg)
  /\ UNCHANGED completed

(* Return a parser to the filter or the evaluator that called. *)
Return(p) ==
  /\ mode' = "return"
  /\ par' = p
  /\ completed' = IF p.complete /\ completed = {} THEN {p} ELSE completed
  /\ UNCHANGED expr

ApplyLeaf ==
  /\ mode = "apply"
  /\ expr \in Leaf
  /\ Return(LeafFilter(expr, request, par.msg))
  /\ UNCHANGED <<context, stack, response, overridden>>

(* f >> g: apply f, and g to its message unless f failed or completed. *)
ApplyThen ==
  /\ Applying("then")
  /\ Push([op |-> "then", second |-> expr.second])
  /\ Call(expr.first, par.msg)
  /\ UNCHANGED <<context, response, overridden>>

Returning(op) ==
  /\ mode = "return"
  /\ stack # << >>
  /\ Top.op = op

ReturnThen ==
  /\ Returning("then")
  /\ IF FailedOrComplete(par) THEN Return(par) ELSE Call(Top.second, par.msg)
  /\ Pop
  /\ UNCHANGED <<context, response, overridden>>

-----------------------------------------------------------------------------
(* choice: every option is tried on the message choice was applied to.     *)
ApplyChoice ==
  /\ Applying("choice")
  /\ Push([op |-> "choice", opts |-> expr.opts, msg |-> par.msg])
  /\ mode' = "choose"
  /\ UNCHANGED <<context, expr, par, response, completed, overridden>>

ExhaustedWithoutStatus(msg) == Fail(msg)

(* set_error *)
Exhausted(msg) == FailWith(msg, NotFound)

(* An option applied to what the option before it made of the message *)
OptionMessageShared(frame) == par.msg

OptionMessage(frame) == frame.msg

(* One round of the loop over the options, or its end *)
NextOption ==
  /\ mode = "choose"
  /\ IF Top.opts = << >>
     THEN Return(Exhausted(Top.msg)) /\ Pop
     ELSE /\ stack' = Append(Rest, [Top EXCEPT !.opts = Tail(@)])
          /\ IF IsNone(Head(Top.opts))
             THEN UNCHANGED <<mode, expr, par, completed>>
             ELSE Call(Head(Top.opts), OptionMessage(Top))
  /\ UNCHANGED <<context, response, overridden>>

ReturnChoice ==
  /\ Returning("choice")
  /\ IF NotFailedOrComplete(par)
     THEN Return(par) /\ Pop
     ELSE mode' = "choose" /\ UNCHANGED <<expr, par, stack, completed>>
  /\ UNCHANGED <<context, response, overridden>>

-----------------------------------------------------------------------------
(* on_error: the handler gets the message of a failure or of an error      *)
(* status; without one, the parser of the original message is returned,    *)
(* and what the expression returned is dropped.                            *)
ApplyOnError ==
  /\ Applying("on_error")
  /\ IF IsNone(expr.expr)
     THEN Return(Parse(par.msg)) /\ UNCHANGED stack
     ELSE /\ Push([op |-> "on_error", handler |-> expr.handler, msg |-> par.msg])
          /\ Call(expr.expr, par.msg)
  /\ UNCHANGED <<context, response, overridden>>

(* The handler is not tested for being empty. *)
HandlesAlways(frame, p) == p.failed \/ HasError(p.msg.status)

Handles(frame, p) ==
  ~IsNone(frame.handler) /\ (p.failed \/ HasError(p.msg.status))

ReturnOnError ==
  /\ Returning("on_error")
  /\ IF Handles(Top, par) THEN Call(Top.handler, par.msg) ELSE Return(Parse(Top.msg))
  /\ Pop
  /\ overridden' = (overridden \/ par.complete)
  /\ UNCHANGED <<context, response>>

(* on_error_complete: a failure or an error status is made complete, with  *)
(* the status of the filter if it has one.                                 *)
ApplyOnErrorComplete ==
  /\ Applying("on_error_complete")
  /\ IF IsNone(expr.expr)
     THEN Return(Parse(par.msg)) /\ UNCHANGED stack
     ELSE /\ Push([op |-> "on_error_complete", status |-> expr.status])
          /\ Call(expr.expr, par.msg)
  /\ UNCHANGED <<context, response, overridden>>

(* Only the status is tested: a failure without one slips through. *)
CompletesStatusOnly(p) == ~p.complete /\ HasError(p.msg.status)

Completes(p) == ~p.complete /\ (p.failed \/ HasError(p.msg.status))

ReturnOnErrorComplete ==
  /\ Returning("on_error_complete")
  /\ Return(IF ~Completes(par) THEN par
            ELSE IF Top.status # 0 THEN CompleteWithError(par.msg, Top.status)
            ELSE Complete(par.msg))
  /\ Pop
  /\ UNCHANGED <<context, response, overridden>>

-----------------------------------------------------------------------------
ResolveStatus(p) ==
  IF p.msg.status # 0 THEN p.msg.status
  ELSE IF p.failed THEN InternalServerError ELSE OK

(* A response that does not keep the body of the one before *)
AnsweredAfresh(resp, p) ==
  LET r == SetStatus(resp, ResolveStatus(p))
  IN IF p.failed THEN r ELSE [SetHeaders(r, p.msg.header) EXCEPT !.body = p.msg.body]

(* make_error_response is given the status and nothing else of the message *)
Answered(resp, p) ==
  LET r == SetStatus(resp, ResolveStatus(p))
  IN IF p.failed THEN r
     ELSE [SetHeaders(r, p.msg.header) EXCEPT !.body = @ \o p.msg.body]

(* The evaluator writes the response once the expression has returned. *)
Respond ==
  /\ mode = "return"
  /\ stack = << >>
  /\ response' = Answered(response, par)
  /\ mode' = "done"
  /\ results' = Append(results, par)
  /\ UNCHANGED <<request, program, expr, par, stack, completed, overridden>>

Step ==
  \/ ApplyLeaf
  \/ ApplyThen \/ ReturnThen
  \/ ApplyChoice \/ NextOption \/ ReturnChoice
  \/ ApplyOnError \/ ReturnOnError
  \/ ApplyOnErrorComplete \/ ReturnOnErrorComplete
  \/ Respond

(* The evaluator is called again, with another expression: the message is  *)
(* a new one, the context and its response are the same.                   *)
Again ==
  /\ mode = "done"
  /\ Len(results) < MaxRounds
  /\ program' \in Later
  /\ expr' = program'
  /\ mode' = "apply"
  /\ par' = Parse(NewMessage)
  /\ completed' = {}
  /\ overridden' = FALSE
  /\ UNCHANGED <<request, stack, response, results>>

Done == mode = "done" /\ UNCHANGED vars

Next == Step \/ Again \/ Done

Spec == Init /\ [][Next]_vars

(* The evaluator runs to its end in the thread that called it, as long as  *)
(* the functions of the application return; it need not be called again.   *)
FairSpec == Spec /\ WF_vars(Step)

-----------------------------------------------------------------------------
(* The state of an evaluation that is running or has ended. *)
TypeOK ==
  /\ request \in Requests
  /\ program \in Program \cup Later
  /\ mode \in {"apply", "choose", "return", "done"}
  /\ expr \in Filter
  /\ par \in Parser
  /\ stack \in Seq(Frame)
  /\ response \in Message
  /\ completed \in SUBSET Parser
  /\ overridden \in BOOLEAN
  /\ results \in Seq(Parser)

(* A message only ever grows: what a filter wrote stays in the body, and a *)
(* header that was set stays set.                                          *)
Extends(new, old) ==
  /\ Len(old.body) <= Len(new.body)
  /\ \A i \in 1 .. Len(old.body) : new.body[i] = old.body[i]
  /\ \A n \in HeaderName : old.header[n] # NoValue => new.header[n] # NoValue

(* What was written before a choice or an on_error was entered is in the   *)
(* message of every filter it calls, and will be there whichever option is *)
(* taken or whatever error is handled.                                     *)
NothingIsLost ==
  \A i \in DOMAIN stack :
    stack[i].op \in {"choice", "on_error"} => Extends(par.msg, stack[i].msg)

(* Unless an on_error overrides it, the first parser that is complete is   *)
(* the result of the evaluation, from however deep it returns.             *)
CompletionIsFinal ==
  mode = "done" /\ completed # {} /\ ~overridden => par \in completed

(* The body that the evaluations of a context write: those that did not    *)
(* fail, one after the other.                                              *)
Written(rs) ==
  LET body[i \in 0 .. Len(rs)] ==
        IF i = 0 THEN << >>
        ELSE IF rs[i].failed THEN body[i - 1]
        ELSE body[i - 1] \o rs[i].msg.body
  IN  body[Len(rs)]

(* The evaluations that have set a header of the response                  *)
Setters(rs, n) ==
  {i \in DOMAIN rs : ~rs[i].failed /\ rs[i].msg.header[n] # NoValue}

(* Every evaluation adds to the response: the status is that of the last   *)
(* one, the body is what those that did not fail wrote, in order, and a    *)
(* header has the value the last of them gave it (evaluator.hpp:56-71).    *)
ResponseAccumulates ==
  results # << >> =>
    /\ response.status = ResolveStatus(results[Len(results)])
    /\ response.body = Written(results)
    /\ \A n \in HeaderName :
         IF Setters(results, n) = {} THEN response.header[n] = NoValue
         ELSE \E i \in Setters(results, n) :
                /\ \A j \in Setters(results, n) : j <= i
                /\ response.header[n] = results[i].msg.header[n]

(* "Returns a non-failed complete parser and ends any further parsing":    *)
(* the result is the first parser that is complete.                        *)
CompletionEndsParsing ==
  mode = "done" /\ completed # {} => par \in completed

(* An application guarded by on_error_complete never answers with a failed *)
(* parser, nor leaves an error status that a later filter could overwrite. *)
GuardedNeverFails ==
  mode = "done" /\ program.op = "on_error_complete" =>
    ~par.failed /\ (HasError(par.msg.status) => par.complete)

(* The functions of the application give a status with every failure. *)
FailsWithError(o) ==
  o.op # "fail" /\ (o.op = "fail_with" => HasError(o.code))

Disciplined ==
  \A f \in Filter :
    /\ f.op = "func" => FailsWithError(f.answer)
    /\ f.op \in {"path", "params", "header", "content", "authorization",
                 "bearer_auth", "mac_auth"}
         => FailsWithError(f.func)

(* A failure is answered with an error status, even when an earlier filter *)
(* had set a status of success.                                            *)
FailureIsAnError ==
  Disciplined /\ mode = "done" /\ par.failed => HasError(response.status)

(* Only the scheme filters ask for authentication: the functions and the   *)
(* guards give another status, and no function fails without one.          *)
NeverAsks(o) ==
  /\ o.op # "fail"
  /\ o.op \in {"fail_with", "complete_with_error", "complete_with_status"}
       => o.code # Unauthorized

OnlySchemesAsk ==
  \A f \in Filter :
    /\ f.op # "authorization"
    /\ f.op = "func" => NeverAsks(f.answer)
    /\ f.op \in {"path", "params", "header", "content", "bearer_auth", "mac_auth"}
         => NeverAsks(f.func)
    /\ f.op = "on_error_complete" => f.status # Unauthorized

(* A response that asks for authentication says which: with the scheme     *)
(* filters, every 401 carries a challenge, also past choices and guards.   *)
UnauthorizedHasChallenge ==
  OnlySchemesAsk /\ mode = "done" /\ response.status = Unauthorized =>
    response.header[Authenticate] # NoValue

(* "Otherwise returns the specified Authentication challenge": a challenge *)
(* that a filter set reaches the client.                                   *)
ChallengeDelivered ==
  mode = "done" /\ par.msg.header[Authenticate] # NoValue =>
    response.header[Authenticate] # NoValue

(* "A filter that checks the specified header fields": one that is missing *)
(* makes the filter fail.                                                  *)
HeaderFieldsChecked ==
  mode = "done" /\ program.op = "header" /\ IsNone(program.func)
    /\ LastFieldMissing(program, request) => par.failed
=============================================================================
