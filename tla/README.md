# A verification of statsc and htparse

The repository holds two C++ libraries. `statsc` is a client of the statsd
aggregator that the threads of an application share. `htparse` is a library of
HTTP request filters: small functions from a message to a parser that are
combined into expressions and evaluated for a request. This directory models
both in TLA+, checks the models with TLC on small instances and proves the
main invariants with TLAPS for every value of the constants.

## 1. The system and its parts

| Part | Source | State | Operations | Interacts with |
|---|---|---|---|---|
| statsd client | `statsc/statsd_client.{hpp,cpp}` | `enabled_`, `host_`, `port_`, `prefix_`, `rgen_` (unprotected); `remote_endpoint_`, `socket_` (under `mutex_`) | `configure`, `enabled`, `send`, `send_batch`, destructor | the resolver and a UDP socket of Boost.Asio; calls of several threads |
| statsd metric | `statsc/statsd_metric.{hpp,cpp}` | tag, name, value, rate, start time | construction, `write` | written by the client |
| message | `htparse/message.hpp`, `status.hpp` | the response being built: status, headers, body; a reference to the request | the `set_...`, `append_...` and `output_...` functions; each returns a copy | built by the filters, read by the evaluator |
| parser | `htparse/parser.hpp` | a message, `failed`, `complete` | `parse`, `fail`, `complete`, `complete_with_...`, `continue_ok` | returned by every filter |
| filter expressions | `filter.hpp`, `filters/choice.hpp`, `filters/on_error.hpp` | the filters they hold, each a `boost::function` that may be empty | `>=`, `>>`, `<<`, `choice`, `on_error`, `on_error_complete` | call other filters |
| leaf filters | the other files of `filters/` | their arguments | one `operator()` each | read the request, call functions of the application |
| evaluator | `evaluator.hpp` | the context, which outlives an evaluation | `operator()`, `evaluate` | writes the response of a backend |
| authentication grammars | `auth/bearer.hpp`, `auth/mac.hpp` | none | the two `header_parser::parse`; the normalized request string | used by two filters; the client computes the same string |
| helpers | `helpers.hpp` | none | `host_name_and_port` | used by the requests and by `mac_auth` |
| backends | `backends/testing`, `backends/cppcms` | request, response, context | accessors | read by filters, written by the evaluator |

What is hard in them, and what makes them correct:

* **Client.** Several threads call `send` at once while the application calls
  `configure`. The mutex is taken late, after the flag was tested and the text
  of the message was built, and is held across a blocking resolution and four
  error paths. Correct means: the endpoint and the socket are only touched
  under the mutex and are ready whenever `send_to` is reached, whatever failed
  before; the mutex is released on every path; a message never mixes two
  configurations when the application keeps them apart; a disabled client is
  silent; the caller is told the truth about what left the machine.
* **Metric.** The sampling decision at rates 0 and 1, and metrics left out of a
  batch, decide where newlines go.
* **Expressions.** They are sequential, but their correctness is about long
  chains of calls: a filter fails after it wrote to the message, an alternative
  starts again from an earlier message, a complete parser has to pass every
  frame between the filter that made it and the evaluator, an error has to be
  caught in two different forms (a failed parser, an error status). Any
  `boost::function` may be empty.
* **Evaluator.** It answers a failed parser and any other parser in different
  ways, and what a filter wrote for the client can be lost there. A context can
  be evaluated again, with the response of the time before still in it.
* **Leaf filters.** Authentication: nothing behind the filter may run without a
  valid field, whatever the expression around it.
* **Authentication.** A client, perhaps a proxy, and the server read the same
  request in different forms: URI variables taken apart by a front server, a
  Host header with or without a port, a replaced method. Both ends have to come
  to the same normalized string, or no message authentication code ever agrees.
  The grammars are lenient (white space is skipped, what follows the match is
  ignored, the first of two equal attributes counts), and the credentials have to
  survive that.
* **Helpers.** `host_name_and_port` runs a reverse iterator and a position side
  by side; the two have to stay in step at both ends of the text.

`PROJECT.json` lists these hazards line by line, with the properties about each.

## 2. The modules

| Module | Models | Uses |
|---|---|---|
| `StatsdMetric` | a metric, `should_send`, the line `write` makes | |
| `StatsdClient` | the client, one action per step of a thread | `StatsdMetric`, refines `MetricSink` |
| `MetricSink` | what a caller of `send` is promised | |
| `MCStatsdClient` | instances for TLC | `StatsdClient` |
| `StatsdClient_proofs` | types, locking and life time of the client | `StatsdClient` |
| `StatsdMessage_proofs` | messages, configurations and the refinement of the sink | `StatsdClient_proofs` |
| `HtMessage` | messages, statuses, parsers and the functions that return them | |
| `Filters` | the leaf filters | `HtMessage` |
| `Evaluation` | combinators and evaluator, call by call with an explicit stack | `Filters` |
| `Denotation` | the meaning of an expression, from the meanings of its parts | `Filters` |
| `EvaluationAbs` | an evaluator that answers with the meaning in one step | `Denotation` |
| `Refinement` | how `Evaluation` implements `EvaluationAbs` | `Evaluation`, `Denotation` |
| `Protection` | which expressions hide something behind authentication | `Evaluation` |
| `MCEvaluation`, `MCRefinement`, `MCProtection` | instances for TLC | `Evaluation`, `Refinement`, `Protection` |
| `Evaluation_proofs` | theorems of evaluations | `Evaluation`, `NaturalLemmas` |
| `Refinement_proofs` | the refinement of `EvaluationAbs` | `Refinement`, `Evaluation_proofs` |
| `Authentication_proofs` | the challenge of every 401, and what needs a valid field | `Protection`, `Evaluation_proofs` |
| `FilterAlgebra` | combinators as functions of filters, and the laws they obey | `HtMessage` |
| `HostHeader` | `host_name_and_port`, one action per iteration, and what it is to compute | |
| `AuthHeader` | the grammars of bearer tokens and MAC attributes, the header record | |
| `AuthExchange` | a client, a proxy and the server's authentication filters | `HostHeader`, `AuthHeader` |
| `MCAuthExchange` | instances for TLC | `AuthExchange` |
| `AuthExchange_proofs` | theorems of the exchange | `AuthExchange`, `NaturalLemmas` |
| `NaturalLemmas` | minima and maxima, induction and recursion over the naturals | |

### The client

Variables correspond to members by name (`sock` is `socket_`, `endpoint` is
`remote_endpoint_`, `mutex` is the thread in the scope of the `lock_guard`);
`metrics`, `next`, `buf`, `query`, `status` and `conf` are the arguments and
locals of the calls in progress, one per thread. `pc` says where a thread is:

    check -> sample* -> lock -> resolve [-> query] -> open [-> bind] -> sendto -> unlock

for a send, `set_host -> set_port -> set_prefix -> set_enabled` for `configure`
and `destroy` for the destructor. A step reads or writes the shared members at
most once, except under the mutex, so that every interleaving of the accesses
that the source leaves unprotected is a behaviour of the model. A string that
is copied while another thread assigns it is the old one, the new one or
`Torn`. `send(metric)` and `send_batch` take the same path: one metric is a
batch of one. `configure(host)` is the call with the default port and the empty
prefix. The resolver answers with the address it was asked for or fails; open
and bind succeed or fail, and the `close` after a failed `bind` may throw
(`status` is then `"threw"`); `send_to` fails or sends a part or all of the
message. `datagram`, `sawEnabled`, `configured` and `calls` are history: no
guard of a step of the code reads them (`calls` bounds the behaviour).

The caller's contract: two calls of `configure` do not overlap, and the
destructor is called when every other thread is outside the client or already
past the mutex. `Quiescent` says whether the application also keeps `configure`
apart from the sends.

### The filters

A filter is a record: `op` names its class, the other fields are the arguments
of its constructor. A function of the application is an `Outcome`, the function
of `parser.hpp` it ends in, or `None` when the `boost::function` is empty. The
regular expression of `path` is the set of paths it matches, a request header
field is absent, empty, malformed or valid for the grammar that reads it, and
phrases are left out. A header dictionary is a function with `NoValue` for a
name that is not there. Contents and values are members of small sets; lengths
are not modelled.

`Evaluation` is the machine these calls make. `mode` is `"apply"` (call `expr`
on `par.msg`), `"return"` (give `par` to the caller), `"choose"` (the loop of
`choice` is about to look at an option) and `"done"`. The combinators that call
another filter push a frame that says what they do with its result. `After` is
`<<`. `Respond` is the part of `basic_evaluator::operator()` after the filter
has returned. `completed` and `overridden` are history: the first complete
parser, and whether an `on_error` dropped one. `Again` calls the evaluator once
more on the same context, with an expression of `Later`; `results` remembers
the parsers returned so far. The response is not reset between them, in the
code as in the model.

`EvaluationAbs` answers in one step with the meaning of the expression.
`Denotation` gives that meaning from the meanings of the parts, which are a
constant operator, `Meaning`. The instance for TLC ties the knot (`Meaning` is
`ExprMeaning` itself, by recursion over the expression); the theorem takes any
`Meaning` that satisfies these equations (`Compositional`). `FilterAlgebra` takes
filters as arbitrary functions `[Message -> Parser]`, without their syntax.

`Protection` classifies the expressions of an application that hides some
chunks (`Secret`) behind authentication. A *gate* returns a failed or complete
parser unless the field is valid: the two scheme filters, a sequence with a gate
in it, a choice of gates, a gate inside `on_error_complete`, but no `on_error`,
which turns a complete parser into one that goes on. A *safe* expression writes
no secret without a valid field: its own outputs are public, or stand in the
function of a scheme filter, or behind a gate. `Gate` and `Safe` are constants
closed under the conditions `GateParts` and `SafeParts`, as they need no
recursion then.

### The exchange

`AuthExchange` follows one request: `phase` goes

    compose -> wire [-> wire, through a proxy] -> own [-> original] -> done

`Send` is the client with the front server that takes the URI apart, `Forward`
is the proxy. Neither is in the repository: the client signs what the comment
on `normalize()` lists (`Signed`), the proxy adds the fields whose use the
comment of `mac_auth` describes, and the front server sets the variables that
`request.hpp` reads back (`REQUEST_URI` or not, a script name or not). They are
marked external in the map. Everything after `wire` is the server's code:

* `Challenge`, `Refuse` and `PassToken` are the outcomes of `bearer_auth`, the
  first two also of `mac_auth`.
* `ReadOwnHost` starts the scan of the Host header that arrived, for `PassOwn`,
  or for the default port `ReadOriginalHost` takes from it for `X-Auth-Host`.
  `ScanHost` is an iteration of the loop in `host_name_and_port`.
* `PassWithoutHost`, `PassOwn` and `PassOriginal` call the function of the
  application with the header and the request to normalize. `Original` is the
  empty string for an `X-Auth-...` field that did not come.

A Host header is a sequence of letters, digits and colons, and is read
character by character. A URI is a sequence of path and query parts and
question marks. The value of an attribute is an abstract value: `WordPart` is
the part of it that matches without quotes, `TooLong` the values that do not fit
between them, `Number` what `lexical_cast` makes of it (0 when it throws). A
bearer token is a sequence of characters and spaces. The normalized string is
the tuple of its elements; the numbers in it are not formatted.

`Filters` keeps the verdict of the grammars (absent, empty, malformed, valid) as
a part of the request, since the expressions around a filter cannot tell more.

## 3. What is checked

| Run | Properties | Distinct states |
|---|---|---|
| `quiescent` | `ConfigurationIsAtomic`, `SilentWhenDisabled`, `BatchFraming`, `BatchComplete` | 3.15 million |
| `racing` | `TypeOK`, `LockDiscipline`, `SocketReady`, `DestroyedIsClosed` | 0.88 million |
| `live` | `EveryCallReturns`, `ImplementsSink` | 124 000 |
| `all_expressions` | `NothingIsLost`, `CompletionIsFinal`, `GuardedNeverFails`, `ComputesMeaning`, `EveryEvaluationEnds` | 97 000 |
| `strict` | `TypeOK`, `FailureIsAnError`, `ResponseAccumulates` | 20 000 |
| `auth` | `UnauthorizedHasChallenge`, `AuthenticatedOnly` | 2.2 million |
| `exchange` | `TypeOK`, `HostIsCut`, `CredentialsDelivered`, `TokenDelivered`, `SameValue` | 91 000 |
| `stale`, `header`, `challenge`, `completion`, `proxy_port` | one each, violated | |

* `quiescent`: with `configure` kept apart from the sends (and only then), the
  resolved endpoint is one that was configured as a whole and a batch carries
  one prefix. A client disabled during a whole call sends nothing for it, though
  the datagram may leave after the client was disabled. The same run has the
  batches: a message keeps the order of the batch, has every metric of rate 1 and
  none that is empty or of rate 0, and separates lines by one newline. A newline
  comes first exactly when the first metric was left out: the separator follows
  the position in the batch and not what was written. The property states what
  the code does; nothing in the repository promises otherwise.
* `racing`: with everything at any time, torn strings included, the mutex still
  protects what it is meant to protect. The endpoint may mix two configurations
  here; `ConfigurationIsAtomic` is deliberately not among the properties.
* `live`: the client refines `MetricSink`: one call, at most one datagram, and
  `sent` exactly when all of it left. Every call returns.
* `all_expressions`: the stack machine computes the meaning of every expression
  and answers with it, once more on a used context (`ComputesMeaning`), and comes
  to its end (`EveryEvaluationEnds`: no expression runs into a call of an empty
  function, which has no step in the model and throws in the code); failed
  alternatives lose nothing of what preceded them; a complete parser is the result unless an `on_error` drops it; an
  application inside `on_error_complete` neither fails nor leaves an error status
  in an incomplete parser.
* `strict`: in an application whose functions set an error status whenever they
  fail, a failed evaluation is never answered with a success, although
  `resolve_status` keeps a status that an earlier filter left. Without that
  discipline it is: `continue_ok` followed by a bare `fail` is answered with 200.
  The run also evaluates up to three expressions on one context, and
  `ResponseAccumulates` says what the response is then: the status of the last
  one, the bodies of all that did not fail one after the other, and for each
  header the value of the last of them that set it. A failure after a success is
  therefore answered with an error status and the body of the success.
* `auth`: every kind of leaf before, after and around `bearer_auth` and
  `mac_auth`, for every request of the instance. A 401 carries its challenge,
  and a safe expression writes a secret only for a valid field. Of the 1 312
  expressions of the instance 47 are unsafe and are not evaluated: a bare
  secret, and one behind an `on_error` around the scheme filter, which lets a
  request without the field through. (The condition `OnlySchemesAsk` of the first
  one holds in this instance: no other filter or function gives a 401 itself. It also excludes functions that fail
  without a status: one that handles the error of a challenge in an `on_error`
  would fail with the 401 it was given, and lose the header.)
* `exchange`: the loop cuts every Host header where its last colon is
  (`HostIsCut`). The attributes of a well-formed MAC header reach the
  application whatever their order (`CredentialsDelivered`), and so does a bearer
  token of a length the parser takes (`TokenDelivered`). Client and server
  normalize the same request, directly, without `REQUEST_URI` and through a
  proxy that adds all three fields (`SameValue`). The property leaves out, by
  name, what the code loses: without `REQUEST_URI` the script name, and a question
  mark with no query behind it (`KeepsUri`); behind a proxy the default port
  (`KeepsPort`, see `proxy_port`). Host headers that no client sends and proxies
  that add some of the fields are in the run for the other properties.

### Where the code and its documentation disagree

* `stale`: a client that is configured again keeps sending to the first address
  it resolved; only an unspecified address (0.0.0.0) is resolved again.
* `header`: `header` without a function builds a failed parser for a missing
  field and drops it, so the request passes. (With a function the missing field
  is handed to it as an empty optional.)
* `challenge`: `authorization` puts its challenge in the headers of a failed
  parser, which the evaluator answers with its status only. `bearer_auth` and
  `mac_auth` complete instead of failing, and their challenge arrives.
* `completion`: `on_error` returns `parse(msg)` whenever it has nothing to
  handle, so a complete parser of its expression is dropped and the filters
  after it run.
* `proxy_port`: behind a proxy, an `X-Auth-Host` without a port is given the port
  of the forwarded request, and not the default of the scheme that the client
  signed.

### Bounds

* Client: two threads, three calls, two hosts of which one
  resolves to an unspecified address where that matters, one port (or none), two
  prefixes. Two threads meet at every pair of labels; three calls are a
  configuration, a send that leaves the client in any of its states (no socket, a
  closed one after a failed bind, a bound one; endpoint specified or not) and
  the call that meets them. The mutex makes a third thread add only waiting; the
  theorems hold for any number. Threads are symmetric and no liveness is
  checked under symmetry. `MaxCalls` is the bound on calls, in the guard of
  `NewCall`; the application then stops, so deadlock is not checked (`live` shows
  that no call hangs).
* Metrics: rates in steps of one half, so that there is a rate that is sampled
  sometimes; batches of none to three metrics, in which the first, a middle and
  the last one are always, sometimes or never sent.
* Expressions: six leaves, one for each thing a parser can be (continues
  unchanged, written to, failed with and without a status, complete, depends
  on the request), all their combinations and those combined with a leaf once
  more, empty functions included: 6 371 expressions, two requests, one more
  expression after each. Depth two puts every combinator under every other; the theorems are for any depth.
  `strict` has 555 expressions, `auth` evaluates 1 265 for all 192 requests of its
  instance. `MaxRounds` bounds the evaluations on one context by three: a
  success, a failure and what follows them in any order; the six expressions of
  `Session` write each part of a response, alone and before a failure.
* Exchange: every Host header of up to four characters (`MaxHost`) over a letter,
  two digits and the colon, so that colons come first, last, twice and not at
  all, with ports of up to two digits behind a name. `MaxToken` is two where the
  code has 1024; tokens of up to four characters and spaces are tried. The four
  required attributes come in all orders, and each of five is replaced by each of
  eight others (empty, zero, too long, cut without quotes, unknown) or followed
  by one. Five URIs have a script name, a query, an empty query or none of them.

### Fairness

* Client: weak fairness of `Step(t)` for every thread inside the client: the
  threads run, and the resolver and the socket calls return. Calls begin without
  fairness. `boost::mutex` promises no order; weak fairness is enough for `Lock`
  here because the calls of a behaviour are bounded, so that the mutex is at
  last free for good. For an unbounded stream of callers nothing in the code
  excludes starvation, and no property says it does.
* Evaluation: weak fairness of `Step`: one thread runs the evaluation to its end,
  provided the functions of the application return. `Again` is not fair: no
  application has to use a context twice.

## 4. What is proved

All of these hold for any sets of threads, strings, batches, filters and
requests; their assumptions are the named `ASSUME`s of the modules, which say
that special values differ from ordinary ones and that expressions are closed
under taking parts. Every invariant that a run checks is a theorem here, and the
safety part of both refinements is.

`NaturalLemmas`
: What the other proofs share. The least element of a set of naturals exists
  because strict inclusion of finite sets is well-founded (a theorem of the
  library, and an operator-free one); the greatest of a bounded set and
  induction follow. `Recursion` says that `f[0] = a`, `f[i] = G[i][f[i - 1]]` has
  a solution: with it a recursively defined function can be unfolded, and what
  it computes for every input is shown by `NatSetInduction`.

`StatsdClient_proofs`
: `Typing` is `TypeOK`, inductive by itself. The others come from `SafetyInv`, the
  conjunction of four parts proved together by one step per action:
  `LockDiscipline` (inductive); `SocketInv`, which adds to `SocketReady` that the
  socket is open while a thread is at `bind`; `SilentInv`, which adds to
  `SilentWhenDisabled` that a thread past the check has seen the flag set, since
  the flag may have changed by the time the datagram leaves; `DestroyInv`, which
  remembers the contract of the destructor while it waits for the mutex and that no
  thread is critical afterwards. `MutualExclusion`, `ReadySocket`, `Silence` and
  `Destruction` follow.

`StatsdMessage_proofs`
: `Framing` (`BatchFraming`) needs to know how far the loop is: `FramingInv` says
  that an empty message behind the first metric means the metric was left out,
  and that one that begins with a newline was left out earlier. `Completeness`
  (`BatchComplete`) is about a message that is still growing: `CompleteInv` says
  for every prefix of the loop that each line has its own metric among those seen
  so far, in their order, and that none that is always sampled is missing; the
  round that writes a line extends the sources by the metric at hand, the round
  that leaves one out keeps them. `Atomicity`
  (`ConfigurationIsAtomic`, for a `Quiescent` application) comes from `Apart` (while
  one thread is at an assignment of `configure` no other is in a send),
  `Assigned` and `AddressInv` (which members have the new value at which label,
  and that what a resolver query copies is a configured address) and
  `PrefixInv` (the prefix does not change while a message is being written).
  `SinkImplemented` is the safety half of `ImplementsSink` for any number of
  threads: the initial states are those of `MetricSink` and every step is one of
  its steps or a stutter. `SinkInv` relates label, datagram and result: nothing
  has left before `send_to`, and after it the result says what did.

`Evaluation_proofs`
: `Typing` needs `Choosing`, that in mode `"choose"` the innermost frame is the
  one of a choice, and `Returned`, that the stack is empty when an evaluation is
  done, so that the next one starts like the first. `ErrorStatus` follows from
  `SoundInv`: the parser in flight is never failed and complete, and has an error status when it failed in a disciplined
  application; here choice's own 404 and the statuses of the leaves are what
  makes it inductive. `CompletionResult` follows from `CompletionInv`: after the
  first complete parser, and without an override, the evaluation only returns
  that parser. `GuardHolds` follows from `GuardInv`: the frame of the outer
  `on_error_complete` is at the bottom of the stack until the last return.
  `Preservation` is strengthened to `KeptInv`: each saved message extends the
  messages saved below it, without which the step back to an earlier message
  could lose what an outer frame is owed.
  `Accumulation` (`ResponseAccumulates`) holds from the unused context on
  (`AccumulationInv`); the work is in `WrittenAppend`, that the recursion over one
  more result continues the one before, and `LastAppend`, that a header's last
  setter is the new result or still the old one.

`Refinement_proofs`
: `Implementation` is that `Evaluation` refines `EvaluationAbs`, for any
  expressions, of any depth, under the hypothesis `Compositional`: that `Meaning`
  satisfies the equations of `Denotation`. (For expressions that are finite trees
  there is exactly one such operator, the recursive one; the run uses it.)
  While an expression is evaluated, `MeaningInv` says that what the filter at
  hand will return leads through the frames to the meaning of the whole:
  `Resume` is what a frame makes of a parser, and `Leads` chains the frames from
  the innermost to the evaluator's call. Calls and returns keep that chain, one lemma
  for each combinator (`NextAlternative` for the rounds of a choice), and change
  nothing the abstract evaluation sees; `Respond` is its one step.

`Authentication_proofs`
: `Challenges` (`UnauthorizedHasChallenge`) comes from `AskInv`: the message in
  flight has a challenge if it has the status 401, a failed one never has that
  status, since the evaluator drops the headers of a failure, and the same holds
  for the messages that the frames of `choice` and `on_error` will go back to.
  That a challenge once set is not lost again is the order `Extends` of
  `Preservation`.
  `Protects` (`AuthenticatedOnly`) is not inductive as it stands: behind a gate
  an unsafe filter may be called, so what matters is that the evaluation stops
  before. `GateInv` says, for a request without a valid field, that the message
  and the response are clean and that there is a set of calls that are due to
  end in a failed or complete parser, each frame passing what it was promised
  to the call outside it (`FrameSafe`).

`AuthExchange_proofs`
: `HostCut` follows from `ScanInv`: behind the iterator there is no colon, and
  the position is where the iterator is. It is about any alphabet and length; of
  `Atoi` it uses only that the loop and the definition apply it to the same text.
  `CredentialDelivery` shows that of a well-formed header everything
  matches and each attribute is found at its only place. `TokenDelivery`
  (`TokenDelivered`) follows the token parser character by character: behind the
  space that it skips, it has taken as many as it has seen, for any alphabet and
  any limit (`TokenTaken`). `SameValueSigned` adds `WireInv`, what the front server
  and the proxy made of the client's request, and `AnswerInv`, what the function is
  called with, put together from the URI variables and the two scans. `Typing`
  (`TypeOK`) needs that every port is a number: those `atoi` reads of any text
  (`AtoiIsNumber`, an induction over its digits), the front server's, and the
  default port while the scan runs (`PortInv`).

`FilterAlgebra`
: `ComposeAssociative`, `PassBefore` and `PassAfter` (the expressions under `>>`
  are a monoid with `pass`), `GuardIdempotent`, `GuardCompletes` and
  `ChoiceFlattens`: rewritings that the users of the library rely on when they
  write `a >> b >> c` or name a part of an expression.

Only model-checked, since the prover has neither liveness under fairness nor
`ENABLED`: `EveryCallReturns`, `EveryEvaluationEnds`, and the liveness half of
`ImplementsSink`. That there is a compositional `Meaning` for the expressions of
an application is not proved either (it is a recursion over expressions);
TLC computes it for those of the run.

## 5. What is not modelled

* `filters/option.hpp`: it calls `complete_or_failed`, which `basic_parser` does
  not have; the template cannot be instantiated.
* In the grammars: white space between the tokens of a MAC header, and the
  characters of values. `Filters` and `AuthExchange` are not composed: the
  expressions see the grammar's verdict, the exchange has no expressions, and its
  filters always have a function to call (`Filters` also has those without).
* In a Host header: blanks and signs (`atoi` would skip them), numbers that
  overflow an `int`, and IPv6 literals, whose colons the code does not
  distinguish.
* The normalized string as text: its elements are a tuple, so a newline inside an
  element and the locale's digit grouping of `ts` and `port` are outside the model.
* Of the cppcms backend, what forwards to the external library: `get_param`, the
  context and the response. Its address and URI are in `AuthExchange`. Of the
  testing backend, everything but the response: the request is an input. Its
  members that are not initialised by default (the port) are not read by the
  modelled filters.
* `result::reset`, which nothing calls.
* The elapsed time of timers, number formatting, copies of metrics, the
  distribution of the random draws and the race on `rgen_`: a draw is any value.
* `path` with four functions: its constructor assigns the fourth one to the
  third and cannot be instantiated, so that the copy constructor's missing
  member has no effect.
* Tests, build files, status phrases, the precompiled headers.

## 6. Plan

Done: the client with its sink, the expressions with their meaning, the leaf
filters, evaluations on a used context, the authentication grammars, the Host
header, the exchange of client, proxy and server, the algebra, and the proofs
above. Next, in this order:

1. More laws of `FilterAlgebra`, about `on_error` and nested choices, with the
   conditions under which they fail.
2. `AuthExchange` composed with `Evaluation`: the filters of the exchange in
   place of the verdict, for expressions that contain both schemes.
3. Metric timing: the elapsed time a timer is written with, and copies of a
   running timer in a batch.
4. The normalized string with its newlines: under which conditions two different
   requests have different strings.
