---------------------------- MODULE StatsdClient ----------------------------
(***************************************************************************)
(* The statsd client shared by the threads of an application.  mutex_      *)
(* guards the endpoint and the socket only: enabled_, host_, port_ and     *)
(* prefix_ are written by configure() and by enabled() without it and are  *)
(* read by every send, so each of those accesses is a step of its own.     *)
(***************************************************************************)
EXTENDS StatsdMetric, Sequences

CONSTANTS Thread,          (* the threads that use the client               *)
          NoThread,        (* no owner of the mutex                         *)
          Host, Port,      (* the non-empty host and port strings           *)
          Prefix,          (* the non-empty prefixes                        *)
          Empty,           (* the empty string                              *)
          Torn,            (* a string read while it was being assigned     *)
          UnspecifiedHost, (* hosts that resolve to the address 0.0.0.0     *)
          NoEndpoint,      (* the default-constructed udp::endpoint         *)
          NoDatagram,      (* nothing was put on the network                *)
          Newline,         (* the separator of a batch                      *)
          Batch,           (* the sequences of metrics the threads send     *)
          Quiescent,       (* does the application keep configure() apart   *)
                           (* from the sends?                               *)
          MaxCalls         (* bound on the calls of a behaviour             *)

ASSUME ThreadAssumption == NoThread \notin Thread
ASSUME BatchAssumption == Batch \subseteq Seq(Metric)
ASSUME EmptyAssumption ==
  /\ Empty \notin Host \cup Port \cup Prefix
  /\ Torn \notin Host \cup Port \cup Prefix \cup {Empty}
ASSUME UnspecifiedAssumption == UnspecifiedHost \subseteq Host
ASSUME QuiescentAssumption == Quiescent \in BOOLEAN
ASSUME MaxCallsAssumption == MaxCalls \in Nat

HostString   == Host \cup {Empty}
PortString   == Port \cup {Empty}
PrefixString == Prefix \cup {Empty}
Endpoint     == [host : HostString \cup {Torn}, port : PortString \cup {Torn}]
Written      == [prefix : PrefixString \cup {Torn}, name : Name,
                 kind : Tag, rate : 0..One]

ASSUME NoEndpointAssumption == NoEndpoint \notin Endpoint
ASSUME NewlineAssumption == Newline \notin Written

Status == {"none", "sent", "omitted", "failed", "threw"}

Datagram == [to : Endpoint \cup {NoEndpoint}, whole : BOOLEAN]

ASSUME NoDatagramAssumption == NoDatagram \notin Datagram

VARIABLES enabled,  (* enabled_                                             *)
          host, port, prefix,
          endpoint, (* remote_endpoint_                                     *)
          sock,     (* socket_: "closed", "open" and not bound, or "bound"  *)
          mutex,    (* the thread in the lock_guard's scope                 *)
          alive     (* "live", then "dying" in the destructor, then "dead"  *)

VARIABLES pc,       (* where each thread is                                 *)
          metrics,  (* the argument of the thread's send                    *)
          next,     (* the index of the next metric to sample               *)
          buf,      (* the thread's stringstream: lines and newlines        *)
          query,    (* host_ as copied into the resolver's query            *)
          status,   (* what the thread's last send returned                 *)
          conf      (* the arguments of the configure() that is running     *)

VARIABLES datagram,   (* what the thread's last send put on the network     *)
          sawEnabled, (* was the client enabled at a moment of that send?   *)
          configured, (* the addresses set by one constructor or configure  *)
          calls       (* the number of calls so far                         *)

settings == <<enabled, host, port, prefix>>
channel  == <<endpoint, sock>>
message  == <<metrics, next, buf, query>>
history  == <<datagram, sawEnabled, configured, calls>>
vars == <<settings, channel, mutex, alive, pc, message, status, conf, history>>

Address(h, p) == [host |-> h, port |-> p]

(* remote_endpoint_.address().is_unspecified() is false *)
Specified(e) == e # NoEndpoint /\ e.host \notin UnspecifiedHost

Critical == {"resolve", "query", "open", "bind", "sendto", "unlock"}
Sending  == {"check", "sample", "lock"} \cup Critical
Configuring == {"set_host", "set_port", "set_prefix", "set_enabled"}

InCall(t) == pc[t] # "idle"
Goto(t, label) == pc' = [pc EXCEPT ![t] = label]

ZeroBased == 0      (* an iterator started one short of the first metric *)

First == 1          (* std::begin(mts) *)

-----------------------------------------------------------------------------
(* A string that a reader copies while configure() assigns it at the given *)
(* label is the old one, the new one, or a mixture of both.                *)
Read(label, current, assigned) ==
  IF \E u \in Thread : pc[u] = label THEN {current, assigned, Torn}
                                     ELSE {current}

Init ==
  /\ \/ /\ host = Empty /\ port = Empty /\ prefix = Empty
        /\ enabled = FALSE
     \/ /\ host \in HostString /\ port \in PortString /\ prefix \in PrefixString
        /\ enabled = (host # Empty /\ port # Empty)
  /\ endpoint = NoEndpoint
  /\ sock = "closed"
  /\ mutex = NoThread
  /\ alive = "live"
  /\ pc = [t \in Thread |-> "idle"]
  /\ metrics = [t \in Thread |-> << >>]
  /\ next = [t \in Thread |-> First]
  /\ buf = [t \in Thread |-> << >>]
  /\ query = [t \in Thread |-> Empty]
  /\ status = [t \in Thread |-> "none"]
  /\ conf = [host |-> host, port |-> port, prefix |-> prefix]
  /\ datagram = [t \in Thread |-> NoDatagram]
  /\ sawEnabled = [t \in Thread |-> FALSE]
  /\ configured = {Address(host, port)}
  /\ calls = 0

-----------------------------------------------------------------------------
(* The caller's side: every call is made on a live client by an idle       *)
(* thread, and a quiescent application separates configuring and sending.  *)
NewCall(t) ==
  /\ pc[t] = "idle"
  /\ alive = "live"
  /\ calls < MaxCalls
  /\ calls' = calls + 1

NobodyIn(labels) == \A u \in Thread : pc[u] \notin labels

(* send(metric) is the batch of one metric: the same checks, the same      *)
(* line and the same send_message, which omits an empty message.           *)
BeginSend(t, ms) ==
  /\ NewCall(t)
  /\ Quiescent => NobodyIn(Configuring)
  /\ Goto(t, "check")
  /\ metrics' = [metrics EXCEPT ![t] = ms]
  /\ next' = [next EXCEPT ![t] = First]
  /\ buf' = [buf EXCEPT ![t] = << >>]
  /\ query' = [query EXCEPT ![t] = Empty]
  /\ status' = [status EXCEPT ![t] = "none"]
  /\ datagram' = [datagram EXCEPT ![t] = NoDatagram]
  /\ sawEnabled' = [sawEnabled EXCEPT ![t] = enabled]
  /\ UNCHANGED <<settings, channel, mutex, alive, conf, configured>>

(* Return from send before the mutex is taken. *)
Omit(t) ==
  /\ Goto(t, "idle")
  /\ status' = [status EXCEPT ![t] = "omitted"]

(* A send that does not look at enabled_ *)
CheckNothing(t) ==
  /\ pc[t] = "check"
  /\ Goto(t, "sample")
  /\ UNCHANGED <<settings, channel, mutex, alive, message, status, conf, history>>

CheckEnabled(t) ==
  /\ pc[t] = "check"
  /\ IF enabled THEN Goto(t, "sample") /\ UNCHANGED status ELSE Omit(t)
  /\ UNCHANGED <<settings, channel, mutex, alive, message, conf, history>>

SeparatorForgotten(i) == << >>

Separator(i) == IF i = First THEN << >> ELSE <<Newline>>

(* One round of the loop of send_batch: should_send, then write. *)
WriteMetric(t) ==
  LET i == next[t]
      m == metrics[t][i]
  IN /\ pc[t] = "sample"
     /\ i <= Len(metrics[t])
     /\ \/ /\ TRUE \in ShouldSend(m)
           /\ \E p \in Read("set_prefix", prefix, conf.prefix) :
                buf' = [buf EXCEPT ![t] = @ \o Separator(i) \o <<Line(p, m)>>]
        \/ FALSE \in ShouldSend(m) /\ UNCHANGED buf
     /\ next' = [next EXCEPT ![t] = i + 1]
     /\ UNCHANGED <<settings, channel, mutex, alive, pc, metrics, query,
                    status, conf, history>>

SendMessage(t) ==
  /\ pc[t] = "sample"
  /\ next[t] > Len(metrics[t])
  /\ IF buf[t] = << >> THEN Omit(t) ELSE Goto(t, "lock") /\ UNCHANGED status
  /\ UNCHANGED <<settings, channel, mutex, alive, message, conf, history>>

Lock(t) ==
  /\ pc[t] = "lock"
  /\ mutex = NoThread
  /\ mutex' = t
  /\ Goto(t, "resolve")
  /\ UNCHANGED <<settings, channel, alive, message, status, conf, history>>

(* A result returned past a missing unlock *)
LeaveLocked(t, result) ==
  /\ Goto(t, "idle")
  /\ status' = [status EXCEPT ![t] = result]

(* Leave the scope of the lock_guard with a result; Unlock releases it. *)
Leave(t, result) ==
  /\ Goto(t, "unlock")
  /\ status' = [status EXCEPT ![t] = result]

(* resolve_remote_endpoint keeps an endpoint that is already specified;    *)
(* otherwise the query copies host_ and then port_.                        *)
Resolve(t) ==
  /\ pc[t] = "resolve"
  /\ IF Specified(endpoint)
     THEN Goto(t, "open") /\ UNCHANGED query
     ELSE /\ Goto(t, "query")
          /\ \E h \in Read("set_host", host, conf.host) :
               query' = [query EXCEPT ![t] = h]
  /\ UNCHANGED <<settings, channel, mutex, alive, metrics, next, buf, status,
                 conf, history>>

(* The resolver's answers: the address, or an error.  A query without a    *)
(* host and without a service has no answer.                               *)
Answers(h, p) == IF h = Empty /\ p = Empty THEN {} ELSE {Address(h, p)}

Query(t) ==
  /\ pc[t] = "query"
  /\ \/ /\ \E p \in Read("set_port", port, conf.port) :
             endpoint' \in Answers(query[t], p)
        /\ Goto(t, "open")
        /\ UNCHANGED status
     \/ Leave(t, "failed") /\ UNCHANGED endpoint
  /\ UNCHANGED <<settings, sock, mutex, alive, message, conf, history>>

OpenSocket(t) ==
  /\ pc[t] = "open"
  /\ \/ sock # "closed" /\ Goto(t, "sendto") /\ UNCHANGED <<sock, status>>
     \/ /\ sock = "closed"
        /\ \/ sock' = "open" /\ Goto(t, "bind") /\ UNCHANGED status
           \/ Leave(t, "failed") /\ UNCHANGED sock
  /\ UNCHANGED <<settings, endpoint, mutex, alive, message, conf, history>>

SocketKept == UNCHANGED sock

CloseSocket == sock' = "closed"

(* After a failed bind the socket is closed by the overload of close that  *)
(* throws on an error: the descriptor is gone either way.                  *)
Bind(t) ==
  /\ pc[t] = "bind"
  /\ \/ sock' = "bound" /\ Goto(t, "sendto") /\ UNCHANGED status
     \/ CloseSocket /\ \E result \in {"failed", "threw"} : Leave(t, result)
  /\ UNCHANGED <<settings, endpoint, mutex, alive, message, conf, history>>

(* A short datagram reported as sent *)
ResultIgnoringLength(whole) == "sent"

SendResult(whole) == IF whole THEN "sent" ELSE "failed"

(* send_to fails, sends a part of the message, or all of it. *)
SendTo(t) ==
  /\ pc[t] = "sendto"
  /\ \/ Leave(t, "failed") /\ UNCHANGED datagram
     \/ \E whole \in BOOLEAN :
          /\ datagram' = [datagram EXCEPT ![t] =
                            [to |-> endpoint, whole |-> whole]]
          /\ Leave(t, SendResult(whole))
  /\ UNCHANGED <<settings, channel, mutex, alive, message, conf, sawEnabled,
                 configured, calls>>

Unlock(t) ==
  /\ pc[t] = "unlock"
  /\ mutex' = NoThread
  /\ Goto(t, "idle")
  /\ UNCHANGED <<settings, channel, alive, message, status, conf, history>>

-----------------------------------------------------------------------------
(* configure(host, port, prefix): four assignments without the mutex.  Two *)
(* configure() never overlap.  configure(host) is the call with the        *)
(* default port and the empty prefix.                                      *)
BeginConfigure(t, h, p, x) ==
  /\ NewCall(t)
  /\ NobodyIn(Configuring)
  /\ Quiescent => NobodyIn(Sending)
  /\ Goto(t, "set_host")
  /\ conf' = [host |-> h, port |-> p, prefix |-> x]
  /\ UNCHANGED <<settings, channel, mutex, alive, message, status, datagram,
                 sawEnabled, configured>>

SetHost(t) ==
  /\ pc[t] = "set_host"
  /\ host' = conf.host
  /\ Goto(t, "set_port")
  /\ UNCHANGED <<enabled, port, prefix, channel, mutex, alive, message, status,
                 conf, history>>

(* An assignment that keeps the old port when the new one is empty *)
SetPortUnlessEmpty(t) ==
  /\ pc[t] = "set_port"
  /\ port' = IF conf.port = Empty THEN port ELSE conf.port
  /\ Goto(t, "set_prefix")
  /\ UNCHANGED <<enabled, host, prefix, channel, mutex, alive, message, status,
                 conf, history>>

SetPort(t) ==
  /\ pc[t] = "set_port"
  /\ port' = conf.port
  /\ Goto(t, "set_prefix")
  /\ UNCHANGED <<enabled, host, prefix, channel, mutex, alive, message, status,
                 conf, history>>

SetPrefix(t) ==
  /\ pc[t] = "set_prefix"
  /\ prefix' = conf.prefix
  /\ Goto(t, "set_enabled")
  /\ UNCHANGED <<enabled, host, port, channel, mutex, alive, message, status,
                 conf, history>>

(* A send that is running sees the flag of this moment. *)
AssignEnabled(value) ==
  /\ enabled' = value
  /\ sawEnabled' = [u \in Thread |-> sawEnabled[u] \/ (value /\ InCall(u))]

SetEnabled(t) ==
  /\ pc[t] = "set_enabled"
  /\ AssignEnabled(conf.host # Empty /\ conf.port # Empty)
  /\ configured' = configured \cup {Address(conf.host, conf.port)}
  /\ Goto(t, "idle")
  /\ UNCHANGED <<host, port, prefix, channel, mutex, alive, message, status,
                 conf, datagram, calls>>

(* enabled() = value, through the reference the accessor returns *)
Enable(t, value) ==
  /\ NewCall(t)
  /\ AssignEnabled(value)
  /\ UNCHANGED <<host, port, prefix, channel, mutex, alive, pc, message,
                 status, conf, datagram, configured>>

-----------------------------------------------------------------------------
(* The destructor takes the mutex: a send that already holds it finishes   *)
(* first.  No caller may be on the way to the mutex, and no call begins.   *)
BeginDestroy(t) ==
  /\ NewCall(t)
  /\ \A u \in Thread : pc[u] \in {"idle"} \cup Critical
  /\ alive' = "dying"
  /\ Goto(t, "destroy")
  /\ UNCHANGED <<settings, channel, mutex, message, status, conf, datagram,
                 sawEnabled, configured>>

(* A destructor that does not wait for the mutex *)
DestroyUnlocked(t) ==
  /\ pc[t] = "destroy"
  /\ CloseSocket
  /\ alive' = "dead"
  /\ Goto(t, "idle")
  /\ UNCHANGED <<settings, endpoint, mutex, message, status, conf, history>>

Destroy(t) ==
  /\ pc[t] = "destroy"
  /\ mutex = NoThread
  /\ CloseSocket
  /\ alive' = "dead"
  /\ Goto(t, "idle")
  /\ UNCHANGED <<settings, endpoint, mutex, message, status, conf, history>>

-----------------------------------------------------------------------------
Begin(t) ==
  \/ \E ms \in Batch : BeginSend(t, ms)
  \/ \E h \in HostString, p \in PortString, x \in PrefixString :
       BeginConfigure(t, h, p, x)
  \/ \E value \in BOOLEAN : Enable(t, value)
  \/ BeginDestroy(t)

Step(t) ==
  \/ CheckEnabled(t) \/ WriteMetric(t) \/ SendMessage(t)
  \/ Lock(t) \/ Resolve(t) \/ Query(t) \/ OpenSocket(t) \/ Bind(t)
  \/ SendTo(t) \/ Unlock(t)
  \/ SetHost(t) \/ SetPort(t) \/ SetPrefix(t) \/ SetEnabled(t)
  \/ Destroy(t)

Next == \E t \in Thread : Begin(t) \/ Step(t)

Spec == Init /\ [][Next]_vars

(* A thread inside the client keeps running; whether it calls again is the *)
(* application's choice.  The resolver and the socket calls return.        *)
Fairness == \A t \in Thread : WF_vars(Step(t))

FairSpec == Spec /\ Fairness

-----------------------------------------------------------------------------
(* Every variable keeps the values the code can give it. *)
TypeOK ==
  /\ enabled \in BOOLEAN
  /\ host \in HostString /\ port \in PortString /\ prefix \in PrefixString
  /\ endpoint \in Endpoint \cup {NoEndpoint}
  /\ sock \in {"closed", "open", "bound"}
  /\ mutex \in Thread \cup {NoThread}
  /\ alive \in {"live", "dying", "dead"}
  /\ pc \in [Thread -> {"idle", "destroy"} \cup Sending \cup Configuring]
  /\ metrics \in [Thread -> Seq(Metric)]
  /\ next \in [Thread -> Nat \ {0}]
  /\ buf \in [Thread -> Seq(Written \cup {Newline})]
  /\ query \in [Thread -> HostString \cup {Torn}]
  /\ status \in [Thread -> Status]
  /\ conf \in [host : HostString, port : PortString, prefix : PrefixString]
  /\ datagram \in [Thread -> Datagram \cup {NoDatagram}]
  /\ sawEnabled \in [Thread -> BOOLEAN]
  /\ configured \subseteq [host : HostString, port : PortString]
  /\ calls \in 0..MaxCalls

(* The thread inside connect and send_to is the one that holds the mutex,  *)
(* and the mutex is never left locked by a thread that returned.           *)
LockDiscipline == \A t \in Thread : pc[t] \in Critical <=> mutex = t

(* send_to is only reached with a resolved endpoint and a bound socket,    *)
(* and no error path leaves a socket that is open but not bound behind for *)
(* the next caller, who would take it for ready.                           *)
SocketReady ==
  /\ \A t \in Thread : pc[t] \in {"open", "bind", "sendto"} => endpoint # NoEndpoint
  /\ \A t \in Thread : pc[t] = "sendto" => sock = "bound"
  /\ sock = "open" => \E t \in Thread : pc[t] = "bind"

(* The destructor closes the socket for good: no sender that was let in    *)
(* before it opens another.                                                *)
DestroyedIsClosed ==
  alive = "dead" => sock = "closed" /\ mutex = NoThread /\ NobodyIn(Sending)

(* When configure() is kept apart from the sends, its four assignments act *)
(* as one: an endpoint is never made of two configurations, and a message  *)
(* never has lines with two prefixes.                                      *)
ConfigurationIsAtomic ==
  /\ endpoint # NoEndpoint => endpoint \in configured
  /\ \A t \in Thread : \A i, j \in DOMAIN buf[t] :
       Newline \notin {buf[t][i], buf[t][j]} => buf[t][i].prefix = buf[t][j].prefix

(* A batch is one message whose lines are separated by single newlines,    *)
(* with none at the end; it starts with the first metric, or else with a   *)
(* newline that tells that the first metric was left out.                  *)
BatchFraming ==
  \A t \in Thread :
    LET b == buf[t]
        first == metrics[t][1]
    IN b # << >> =>
         /\ \A i \in 1 .. Len(b) - 1 : b[i] = Newline <=> b[i + 1] # Newline
         /\ b[Len(b)] # Newline
         /\ b[1] = Newline => FALSE \in ShouldSend(first)
         /\ b[1] # Newline => TRUE \in ShouldSend(first) /\ b[1].name = first.name

(* A message holds, in the order of the batch, the lines of every metric   *)
(* that is always sampled, of none that is empty or has rate 0, and of     *)
(* none twice: each line is the one of a metric that the loop has seen.    *)
BatchComplete ==
  \A t \in Thread :
    LET lines  == {k \in DOMAIN buf[t] : buf[t][k] # Newline}
        maybe  == {i \in 1 .. next[t] - 1 :
                     metrics[t][i].tag # "empty" /\ metrics[t][i].rate > 0}
        always == {i \in maybe : metrics[t][i].rate = One}
    IN \E source \in [lines -> maybe] :
         /\ \A k \in lines :
              buf[t][k] = Line(buf[t][k].prefix, metrics[t][source[k]])
         /\ \A j, k \in lines : j < k => source[j] < source[k]
         /\ \A i \in always : \E k \in lines : source[k] = i

(* A disabled client is silent: a datagram belongs to a send during which  *)
(* the client was enabled, however late it leaves.                         *)
SilentWhenDisabled ==
  \A t \in Thread : datagram[t] # NoDatagram => sawEnabled[t]

(* configure() "Configures the aggregator service address": a send that    *)
(* follows goes to the configured address.                                 *)
ReconfiguredAddressUsed ==
  \A t \in Thread : pc[t] = "sendto" => endpoint = Address(host, port)

(* Every send returns, with the mutex released, whatever the resolver and  *)
(* the socket answer; so do configure and the destructor.                  *)
EveryCallReturns == \A t \in Thread : InCall(t) ~> ~InCall(t)

(* A send is a call on the sink; configure() and the destructor are not.   *)
Amount(d) ==
  IF d = NoDatagram THEN "nothing" ELSE IF d.whole THEN "whole" ELSE "part"

Sink == INSTANCE MetricSink WITH
  Caller <- Thread,
  busy   <- [t \in Thread |-> pc[t] \in Sending],
  out    <- [t \in Thread |-> Amount(datagram[t])],
  result <- [t \in Thread |-> IF pc[t] \in Sending THEN "none" ELSE status[t]]

(* Every send puts at most one datagram on the network, tells the truth    *)
(* about it, and returns.                                                  *)
ImplementsSink == Sink!Spec
=============================================================================
