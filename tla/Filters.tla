------------------------------ MODULE Filters ------------------------------
(***************************************************************************)
(* The filters that decide without calling another filter.  A filter is a  *)
(* record of its constructor's arguments, and its operator() a function of *)
(* the request and the message.  The request is a record of its method and *)
(* of the header fields it carries.                                        *)
(***************************************************************************)
EXTENDS HtMessage

CONSTANTS Method,         (* the HTTP methods                               *)
          Path,           (* the request paths                              *)
          Field,          (* the request header fields                      *)
          Authorization,  (* the field "Authorization"                      *)
          Explanation,    (* the body of an authentication error            *)
          Bearer, Mac     (* the challenges of the two schemes              *)

ASSUME FieldAssumption ==
  /\ Authorization \in Field
  /\ Explanation \in Content
  /\ {Bearer, Mac} \subseteq HeaderValue

(* What the parser of a field's grammar makes of its value *)
FieldState == {"absent", "empty", "malformed", "valid"}

Request == [method : Method, path : Path, type : OptionalValue,
            field : [Field -> FieldState]]

(* A function the application writes: it ends in one of the functions of   *)
(* parser.hpp, with arguments of its own.                                  *)
Outcome ==
  [op : {"parse", "fail", "complete"}]
    \cup [op : {"fail_with", "complete_with_error"}, code : Nat]
    \cup [op : {"continue_ok", "output"}, content : Content]
    \cup [op : {"complete_with_status"}, code : Nat, content : Content]
    \cup [op : {"complete_with_challenge"}, challenge : HeaderValue,
          content : Content]

Answer(o, msg) ==
  CASE o.op = "parse"       -> Parse(msg)
    [] o.op = "fail"        -> Fail(msg)
    [] o.op = "complete"    -> Complete(msg)
    [] o.op = "fail_with"   -> FailWith(msg, o.code)
    [] o.op = "complete_with_error"     -> CompleteWithError(msg, o.code)
    [] o.op = "continue_ok"             -> ContinueOk(msg, o.content)
    [] o.op = "output"                  -> Parse(Output(msg, o.content))
    [] o.op = "complete_with_status"    -> CompleteWithStatus(msg, o.code, o.content)
    [] o.op = "complete_with_challenge" ->
         CompleteWithChallenge(msg, o.challenge, o.content)

(* An empty boost::function, and what is done about it: a filter calls the *)
(* function it was given on the message, or else passes the message on.    *)
None == [op |-> "none"]
IsNone(f) == f.op = "none"
Func == Outcome \cup {None}

CallOr(func, msg) == IF IsNone(func) THEN Parse(msg) ELSE Answer(func, msg)

(* The filters that hold no other filter, by their constructors' arguments *)
Leaf ==
  [op : {"pass"}]
    \cup [op : {"output"}, content : Content]
    \cup [op : {"rheader"}, dict : Headers]
    \cup [op : {"method"}, methods : SUBSET Method]
    \cup [op : {"path"}, paths : SUBSET Path, func : Func]
    \cup [op : {"params"}, func : Func]
    \cup [op : {"header"}, fields : Seq(Field), func : Func]
    \cup [op : {"content"}, type : OptionalValue, func : Func]
    \cup [op : {"authorization"}, challenge : OptionalValue, func : Func]
    \cup [op : {"bearer_auth", "mac_auth"}, func : Func]
    \cup [op : {"func"}, answer : Func]

-----------------------------------------------------------------------------
PassFilter(f, req, msg) == Parse(msg)

OutputFilter(f, req, msg) == Parse(Output(msg, f.content))

(* rheader and no_cache *)
RheaderFilter(f, req, msg) == Parse(SetHeaders(msg, f.dict))

MethodFilter(f, req, msg) ==
  IF req.method \in f.methods THEN Parse(msg) ELSE FailWith(msg, MethodNotAllowed)

(* The regular expression is the set of paths it matches. *)
PathFilter(f, req, msg) ==
  IF req.path \in f.paths THEN CallOr(f.func, msg) ELSE FailWith(msg, NotFound)

(* The parameters are optional: the function decides about a missing one. *)
ParamsFilter(f, req, msg) == CallOr(f.func, msg)

(* Does the header filter see its last field missing? *)
LastFieldMissing(f, req) ==
  f.fields # << >> /\ req.field[f.fields[Len(f.fields)]] = "absent"

(* With a function the filter passes the optional fields on to it; without *)
(* one it builds a failed parser for a missing last field and drops it.    *)
HeaderFilter(f, req, msg) ==
  IF f.fields = << >> THEN Parse(msg) ELSE CallOr(f.func, msg)

ContentFilter(f, req, msg) ==
  IF f.type # NoValue /\ f.type # req.type
  THEN FailWith(msg, UnsupportedMediaType)
  ELSE CallOr(f.func, msg)

AuthorizationFilter(f, req, msg) ==
  IF req.field[Authorization] # "absent" THEN CallOr(f.func, msg)
  ELSE IF f.challenge # NoValue THEN Fail(SetChallenge(msg, f.challenge))
  ELSE FailWith(msg, Unauthorized)

(* What the grammar of the scheme makes of the field is part of the        *)
(* request here; module AuthHeader has the grammars.                       *)
BearerAuthFilter(f, req, msg) ==
  CASE req.field[Authorization] \in {"absent", "empty"} ->
         CompleteWithChallenge(msg, Bearer, Explanation)
    [] req.field[Authorization] = "malformed" ->
         CompleteWithStatus(msg, BadRequest, Explanation)
    [] req.field[Authorization] = "valid" -> CallOr(f.func, msg)

MacAuthFilter(f, req, msg) ==
  CASE req.field[Authorization] \in {"absent", "empty"} ->
         CompleteWithChallenge(msg, Mac, Explanation)
    [] req.field[Authorization] = "malformed" ->
         CompleteWithStatus(msg, BadRequest, Explanation)
    [] req.field[Authorization] = "valid" -> CallOr(f.func, msg)

(* A function of the application, or none, wrapped in basic_expr *)
FuncFilter(f, req, msg) == CallOr(f.answer, msg)

LeafFilter(f, req, msg) ==
  CASE f.op = "pass"          -> PassFilter(f, req, msg)
    [] f.op = "output"        -> OutputFilter(f, req, msg)
    [] f.op = "rheader"       -> RheaderFilter(f, req, msg)
    [] f.op = "method"        -> MethodFilter(f, req, msg)
    [] f.op = "path"          -> PathFilter(f, req, msg)
    [] f.op = "params"        -> ParamsFilter(f, req, msg)
    [] f.op = "header"        -> HeaderFilter(f, req, msg)
    [] f.op = "content"       -> ContentFilter(f, req, msg)
    [] f.op = "authorization" -> AuthorizationFilter(f, req, msg)
    [] f.op = "bearer_auth"   -> BearerAuthFilter(f, req, msg)
    [] f.op = "mac_auth"      -> MacAuthFilter(f, req, msg)
    [] f.op = "func"          -> FuncFilter(f, req, msg)
=============================================================================
