----------------------------- MODULE HtMessage -----------------------------
(***************************************************************************)
(* The message a filter is applied to and the parser it returns.  Both are *)
(* values: every operation of basic_message and every function of          *)
(* parser.hpp returns a modified copy.  A message holds the response being *)
(* built: a status code (0 when no status was set), the response headers   *)
(* and the chunks of the body.  Phrases are left out.                      *)
(***************************************************************************)
EXTENDS Naturals, Sequences

CONSTANTS HeaderName,    (* the non-empty names of response headers         *)
          HeaderValue,   (* their values                                    *)
          NoValue,       (* the header is not set; an empty content type    *)
          Chunk,         (* what a filter appends to the body at once       *)
          ContentType,   (* the header "Content-Type"                       *)
          Authenticate   (* the header "WWW-Authenticate"                   *)

ASSUME HeaderAssumption ==
  /\ {ContentType, Authenticate} \subseteq HeaderName
  /\ ContentType # Authenticate
  /\ NoValue \notin HeaderValue

OK == 200
BadRequest == 400
Unauthorized == 401
NotFound == 404
MethodNotAllowed == 405
UnsupportedMediaType == 415
InternalServerError == 500

OptionalValue == HeaderValue \cup {NoValue}
Headers == [HeaderName -> OptionalValue]
Message == [status : Nat, header : Headers, body : Seq(Chunk)]
Parser  == [msg : Message, failed : BOOLEAN, complete : BOOLEAN]

(* What an output operation is given: a content type, maybe empty, and a   *)
(* chunk of content.                                                       *)
Content == [type : OptionalValue, chunk : Chunk]

-----------------------------------------------------------------------------
(* status::has_error *)
HasError(code) == code >= BadRequest

(* The message an evaluation starts from *)
NewMessage == [status |-> 0,
               header |-> [n \in HeaderName |-> NoValue],
               body   |-> << >>]

SetStatus(msg, code) == [msg EXCEPT !.status = code]

(* An assignment of the dictionary in place of the insertions *)
ReplaceHeaders(msg, dict) == [msg EXCEPT !.header = dict]

(* set_response_headers: inserts or updates what the dictionary holds. *)
SetHeaders(msg, dict) ==
  [msg EXCEPT !.header =
     [n \in HeaderName |-> IF dict[n] # NoValue THEN dict[n] ELSE @[n]]]

(* set_response_header; an empty content type leaves the header alone *)
SetHeader(msg, name, value) ==
  IF value = NoValue THEN msg ELSE [msg EXCEPT !.header[name] = value]

(* append_content, and so output *)
Output(msg, content) ==
  [SetHeader(msg, ContentType, content.type) EXCEPT
     !.body = Append(@, content.chunk)]

OutputStatus(msg, code, content) == SetStatus(Output(msg, content), code)

SetChallenge(msg, challenge) ==
  SetStatus(SetHeader(msg, Authenticate, challenge), Unauthorized)

-----------------------------------------------------------------------------
Parse(msg)    == [msg |-> msg, failed |-> FALSE, complete |-> FALSE]
Fail(msg)     == [msg |-> msg, failed |-> TRUE,  complete |-> FALSE]
Complete(msg) == [msg |-> msg, failed |-> FALSE, complete |-> TRUE]

FailWith(msg, code)          == Fail(SetStatus(msg, code))
CompleteWithError(msg, code) == Complete(SetStatus(msg, code))
ContinueOk(msg, content)     == Parse(OutputStatus(msg, OK, content))

CompleteWithStatus(msg, code, content) ==
  Complete(OutputStatus(msg, code, content))

(* A challenge that is returned as a failure *)
FailWithChallenge(msg, challenge, content) ==
  Fail(Output(SetChallenge(msg, challenge), content))

(* A challenge after which the filters go on *)
ContinueWithChallenge(msg, challenge, content) ==
  Parse(Output(SetChallenge(msg, challenge), content))

CompleteWithChallenge(msg, challenge, content) ==
  Complete(Output(SetChallenge(msg, challenge), content))

(* A complete parser that does not stop the filters after it *)
FailedOnly(p)          == p.failed

FailedOrComplete(p)    == p.failed \/ p.complete
NotFailedOrComplete(p) == ~p.failed \/ p.complete
=============================================================================
