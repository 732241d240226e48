------------------------ MODULE StatsdClient_proofs ------------------------
(***************************************************************************)
(* Theorems of StatsdClient, for any threads, strings and batches.         *)
(***************************************************************************)
EXTENDS StatsdClient, TLAPS

(* What may follow a prefix in a message: a line the metric can be written *)
(* as, with the separator before it.                                       *)
LEMMA WrittenType ==
  ASSUME NEW p \in PrefixString \cup {Torn}, NEW m \in Metric
  PROVE  Line(p, m) \in Written
  BY OneAssumption DEF Line, Metric, Written

(* A separator and a line extend a message to a message. *)
LEMMA MessageType ==
  ASSUME NEW b \in Seq(Written \cup {Newline}), NEW i \in Nat, NEW l \in Written
  PROVE  b \o Separator(i) \o <<l>> \in Seq(Written \cup {Newline})
<1> DEFINE Item == Written \cup {Newline}
<1>1. Newline \in Item /\ l \in Item
  OBVIOUS
<1> HIDE DEF Item
<1>2. Separator(i) \in Seq(Item) /\ <<l>> \in Seq(Item)
  BY <1>1 DEF Separator
<1>3. b \in Seq(Item)
  BY DEF Item
<1>4. b \o Separator(i) \in Seq(Item)
  BY <1>2, <1>3
<1>5. b \o Separator(i) \o <<l>> \in Seq(Item)
  BY <1>2, <1>4
<1>6. QED
  BY <1>5 DEF Item

(* A string read while it may be being assigned. *)
LEMMA ReadType ==
  ASSUME NEW label, NEW S, NEW current \in S, NEW assigned \in S
  PROVE  Read(label, current, assigned) \subseteq S \cup {Torn}
  BY DEF Read

(* The state variables keep the types the code gives them, whatever the    *)
(* threads, the resolver and the socket do.                                *)
THEOREM Typing == Spec => []TypeOK
<1>1. Init => TypeOK
  <2> SUFFICES ASSUME Init PROVE TypeOK
    OBVIOUS
  <2>1. host \in HostString /\ port \in PortString /\ prefix \in PrefixString /\ enabled \in BOOLEAN
    BY DEF Init, HostString, PortString, PrefixString
  <2>2. metrics \in [Thread -> Seq(Metric)] /\ buf \in [Thread -> Seq(Written \cup {Newline})]
    BY DEF Init
  <2>3. configured \subseteq [host : HostString, port : PortString]
    BY <2>1 DEF Init, Address
  <2>4. QED
    BY <2>1, <2>2, <2>3, MaxCallsAssumption DEF Init, TypeOK, HostString, Status, First
<1>2. TypeOK /\ [Next]_vars => TypeOK'
  <2> SUFFICES ASSUME TypeOK, [Next]_vars PROVE TypeOK'
    OBVIOUS
  <2> USE DEF TypeOK, settings, channel, message, history
  <2>1. ASSUME NEW t \in Thread, NEW ms \in Batch, BeginSend(t, ms) PROVE TypeOK'
    BY <2>1, BatchAssumption, MaxCallsAssumption DEF BeginSend, NewCall, Goto, Sending, First, Status, HostString
  <2>2. ASSUME NEW t \in Thread,
               NEW h \in HostString, NEW p \in PortString, NEW x \in PrefixString,
               BeginConfigure(t, h, p, x)
        PROVE TypeOK'
    BY <2>2, MaxCallsAssumption DEF BeginConfigure, NewCall, Goto, Configuring
  <2>3. ASSUME NEW t \in Thread, NEW value \in BOOLEAN, Enable(t, value) PROVE TypeOK'
    BY <2>3, MaxCallsAssumption DEF Enable, NewCall, AssignEnabled, InCall
  <2>4. ASSUME NEW t \in Thread, BeginDestroy(t) PROVE TypeOK'
    BY <2>4, MaxCallsAssumption DEF BeginDestroy, NewCall, Goto
  <2>5. ASSUME NEW t \in Thread, CheckEnabled(t) PROVE TypeOK'
    BY <2>5 DEF CheckEnabled, Goto, Omit, Sending, Status
  <2>6. ASSUME NEW t \in Thread, WriteMetric(t) PROVE TypeOK'
    <3>1. next[t] + 1 \in Nat \ {0}
      OBVIOUS
    <3>2. next' \in [Thread -> Nat \ {0}]
      BY <3>1, <2>6 DEF WriteMetric
    <3>3. metrics[t][next[t]] \in Metric
      BY <2>6 DEF WriteMetric
    <3>4. ASSUME NEW p \in Read("set_prefix", prefix, conf.prefix)
          PROVE  Line(p, metrics[t][next[t]]) \in Written
      BY <3>3, <3>4, WrittenType, ReadType
    <3>5. ASSUME NEW p \in Read("set_prefix", prefix, conf.prefix)
          PROVE  buf[t] \o Separator(next[t]) \o <<Line(p, metrics[t][next[t]])>>
                   \in Seq(Written \cup {Newline})
      BY <3>4, MessageType
    <3>6. buf' \in [Thread -> Seq(Written \cup {Newline})]
      BY <3>5, <2>6 DEF WriteMetric
    <3>7. QED
      BY <3>2, <3>6, <2>6 DEF WriteMetric
  <2>7. ASSUME NEW t \in Thread, SendMessage(t) PROVE TypeOK'
    BY <2>7 DEF SendMessage, Goto, Omit, Sending, Status
  <2>8. ASSUME NEW t \in Thread, Lock(t) PROVE TypeOK'
    BY <2>8 DEF Lock, Goto, Sending, Critical
  <2>9. ASSUME NEW t \in Thread, Resolve(t) PROVE TypeOK'
    <3>1. Read("set_host", host, conf.host) \subseteq HostString \cup {Torn}
      BY ReadType
    <3>2. query' \in [Thread -> HostString \cup {Torn}]
      BY <3>1, <2>9 DEF Resolve
    <3>3. pc' \in [Thread -> {"idle", "destroy"} \cup Sending \cup Configuring]
      BY <2>9 DEF Resolve, Goto, Sending, Critical
    <3>4. QED
      BY <3>2, <3>3, <2>9 DEF Resolve
  <2>10. ASSUME NEW t \in Thread, Query(t) PROVE TypeOK'
    <3>1. Read("set_port", port, conf.port) \subseteq PortString \cup {Torn}
      BY ReadType
    <3>2. endpoint' \in Endpoint \cup {NoEndpoint}
      BY <3>1, <2>10 DEF Query, Answers, Address, Endpoint
    <3>3. /\ pc' \in [Thread -> {"idle", "destroy"} \cup Sending \cup Configuring]
          /\ status' \in [Thread -> Status]
      BY <2>10 DEF Query, Goto, Leave, Sending, Critical, Status
    <3>4. QED
      BY <3>2, <3>3, <2>10 DEF Query
  <2>11. ASSUME NEW t \in Thread, OpenSocket(t) PROVE TypeOK'
    BY <2>11 DEF OpenSocket, Goto, Leave, Sending, Critical, Status
  <2>12. ASSUME NEW t \in Thread, Bind(t) PROVE TypeOK'
    BY <2>12 DEF Bind, CloseSocket, Goto, Leave, Sending, Critical, Status
  <2>13. ASSUME NEW t \in Thread, SendTo(t) PROVE TypeOK'
    <3>1. \A whole \in BOOLEAN : [to |-> endpoint, whole |-> whole] \in Datagram
      BY DEF Datagram
    <3>2. datagram' \in [Thread -> Datagram \cup {NoDatagram}]
      BY <3>1, <2>13 DEF SendTo
    <3>3. /\ pc' \in [Thread -> {"idle", "destroy"} \cup Sending \cup Configuring]
          /\ status' \in [Thread -> Status]
      BY <2>13 DEF SendTo, SendResult, Goto, Leave, Sending, Critical, Status
    <3>4. QED
      BY <3>2, <3>3, <2>13 DEF SendTo
  <2>14. ASSUME NEW t \in Thread, Unlock(t) PROVE TypeOK'
    BY <2>14 DEF Unlock, Goto
  <2>15. ASSUME NEW t \in Thread, SetHost(t) PROVE TypeOK'
    BY <2>15 DEF SetHost, Goto, Configuring
  <2>16. ASSUME NEW t \in Thread, SetPort(t) PROVE TypeOK'
    BY <2>16 DEF SetPort, Goto, Configuring
  <2>17. ASSUME NEW t \in Thread, SetPrefix(t) PROVE TypeOK'
    BY <2>17 DEF SetPrefix, Goto, Configuring
  <2>18. ASSUME NEW t \in Thread, SetEnabled(t) PROVE TypeOK'
    BY <2>18 DEF SetEnabled, AssignEnabled, Address, Goto, InCall
  <2>19. ASSUME NEW t \in Thread, Destroy(t) PROVE TypeOK'
    BY <2>19 DEF Destroy, CloseSocket, Goto
  <2>20. CASE UNCHANGED vars
    BY <2>20 DEF vars
  <2>21. QED
    BY <2>1, <2>2, <2>3, <2>4, <2>5, <2>6, <2>7, <2>8, <2>9, <2>10, <2>11, <2>12, <2>13,
       <2>14, <2>15, <2>16, <2>17, <2>18, <2>19, <2>20 DEF Next, Begin, Step
<1>3. QED
  BY <1>1, <1>2, PTL DEF Spec

-----------------------------------------------------------------------------
(* SocketReady and SilentWhenDisabled follow from what the threads at the  *)
(* other labels have established, and DestroyedIsClosed from the contract  *)
(* of the destructor, which has to be remembered while it waits.           *)
SocketInv ==
  /\ SocketReady
  /\ \A t \in Thread : pc[t] = "bind" => sock = "open"

SilentInv ==
  \A t \in Thread :
    /\ pc[t] = "check" /\ enabled => sawEnabled[t]
    /\ pc[t] \in Sending \ {"check"} => sawEnabled[t]
    /\ datagram[t] # NoDatagram => sawEnabled[t]

DestroyInv ==
  /\ \A t \in Thread : pc[t] = "destroy" => alive # "live"
  /\ alive # "live" => \A t \in Thread : pc[t] \in {"idle", "destroy"} \cup Critical
  /\ alive = "dead" => sock = "closed" /\ \A t \in Thread : pc[t] \notin Critical

SafetyInv == LockDiscipline /\ SocketInv /\ SilentInv /\ DestroyInv

(* The mutex, the socket, the flag and the destructor: the four parts of   *)
(* the invariant support each other and are preserved together.            *)
LEMMA SafetyStep == TypeOK /\ SafetyInv /\ [Next]_vars => SafetyInv'
<1> SUFFICES ASSUME TypeOK, SafetyInv, [Next]_vars PROVE SafetyInv'
  OBVIOUS
<1> USE ThreadAssumption, NoEndpointAssumption
        DEF TypeOK, SafetyInv, LockDiscipline, SocketInv, SocketReady, SilentInv, DestroyInv,
            settings, channel, message, history, Sending, Critical, Configuring
<1>1. ASSUME NEW t \in Thread, NEW ms \in Batch, BeginSend(t, ms) PROVE SafetyInv'
  BY <1>1 DEF BeginSend, NewCall, Goto
<1>2. ASSUME NEW t \in Thread,
               NEW h \in HostString, NEW p \in PortString, NEW x \in PrefixString, BeginConfigure(t, h, p, x) PROVE SafetyInv'
  BY <1>2 DEF BeginConfigure, NewCall, Goto
<1>3. ASSUME NEW t \in Thread, NEW value \in BOOLEAN, Enable(t, value) PROVE SafetyInv'
  BY <1>3 DEF Enable, NewCall, AssignEnabled, InCall
<1>4. ASSUME NEW t \in Thread, BeginDestroy(t) PROVE SafetyInv'
  BY <1>4 DEF BeginDestroy, NewCall, Goto
<1>5. ASSUME NEW t \in Thread, CheckEnabled(t) PROVE SafetyInv'
  BY <1>5 DEF CheckEnabled, Goto, Omit
<1>6. ASSUME NEW t \in Thread, WriteMetric(t) PROVE SafetyInv'
  BY <1>6 DEF WriteMetric
<1>7. ASSUME NEW t \in Thread, SendMessage(t) PROVE SafetyInv'
  BY <1>7 DEF SendMessage, Goto, Omit
<1>8. ASSUME NEW t \in Thread, Lock(t) PROVE SafetyInv'
  BY <1>8 DEF Lock, Goto
<1>9. ASSUME NEW t \in Thread, Resolve(t) PROVE SafetyInv'
  <2>1. /\ pc[t] = "resolve" /\ pc'[t] \in {"open", "query"}
        /\ pc'[t] = "open" => endpoint # NoEndpoint
        /\ \A u \in Thread \ {t} : pc'[u] = pc[u]
        /\ UNCHANGED <<enabled, endpoint, sock, mutex, alive, datagram, sawEnabled>>
    BY <1>9 DEF Resolve, Goto, Specified
  <2>2. QED
    BY <2>1
<1>10. ASSUME NEW t \in Thread, Query(t) PROVE SafetyInv'
  <2>1. Read("set_port", port, conf.port) \subseteq PortString \cup {Torn}
    BY ReadType
  <2>2. endpoint' \in Endpoint \/ (endpoint' = endpoint /\ pc'[t] = "unlock")
    BY <2>1, <1>10 DEF Query, Leave, Goto, Answers, Address, Endpoint
  <2>3. endpoint' # NoEndpoint \/ (endpoint' = endpoint /\ pc'[t] = "unlock")
    BY <2>2
  <2>4. /\ pc[t] = "query" /\ pc'[t] \in {"open", "unlock"}
        /\ \A u \in Thread \ {t} : pc'[u] = pc[u]
        /\ UNCHANGED <<enabled, sock, mutex, alive, datagram, sawEnabled>>
    BY <1>10 DEF Query, Goto, Leave
  <2>5. \A u \in Thread \ {t} : pc[u] \notin Critical
    BY <2>4
  <2>6. QED
    BY <2>3, <2>4, <2>5
<1>11. ASSUME NEW t \in Thread, OpenSocket(t) PROVE SafetyInv'
  <2>1. \A u \in Thread \ {t} : pc[u] \notin Critical
    BY <1>11 DEF OpenSocket
  <2>2. sock # "closed" => sock = "bound"
    BY <2>1, <1>11 DEF OpenSocket
  <2>3. /\ pc[t] = "open"
        /\ \/ pc'[t] = "sendto" /\ sock = "bound" /\ sock' = "bound"
           \/ pc'[t] = "bind" /\ sock' = "open"
           \/ pc'[t] = "unlock" /\ sock' = "closed"
        /\ \A u \in Thread \ {t} : pc'[u] = pc[u]
        /\ UNCHANGED <<enabled, endpoint, mutex, alive, datagram, sawEnabled>>
    BY <2>2, <1>11 DEF OpenSocket, Goto, Leave
  <2>4. QED
    BY <2>1, <2>3
<1>12. ASSUME NEW t \in Thread, Bind(t) PROVE SafetyInv'
  BY <1>12 DEF Bind, CloseSocket, Goto, Leave
<1>13. ASSUME NEW t \in Thread, SendTo(t) PROVE SafetyInv'
  BY <1>13 DEF SendTo, SendResult, Goto, Leave
<1>14. ASSUME NEW t \in Thread, Unlock(t) PROVE SafetyInv'
  BY <1>14 DEF Unlock, Goto
<1>15. ASSUME NEW t \in Thread, SetHost(t) PROVE SafetyInv'
  BY <1>15 DEF SetHost, Goto
<1>16. ASSUME NEW t \in Thread, SetPort(t) PROVE SafetyInv'
  BY <1>16 DEF SetPort, Goto
<1>17. ASSUME NEW t \in Thread, SetPrefix(t) PROVE SafetyInv'
  BY <1>17 DEF SetPrefix, Goto
<1>18. ASSUME NEW t \in Thread, SetEnabled(t) PROVE SafetyInv'
  BY <1>18 DEF SetEnabled, AssignEnabled, Goto, InCall
<1>19. ASSUME NEW t \in Thread, Destroy(t) PROVE SafetyInv'
  BY <1>19 DEF Destroy, CloseSocket, Goto
<1>20. CASE UNCHANGED vars
  BY <1>20 DEF vars
<1>21. QED
  BY <1>1, <1>2, <1>3, <1>4, <1>5, <1>6, <1>7, <1>8, <1>9, <1>10, <1>11, <1>12, <1>13, <1>14, <1>15, <1>16, <1>17, <1>18, <1>19, <1>20 DEF Next, Begin, Step

THEOREM Safety == Spec => []SafetyInv
<1>1. Init => SafetyInv
  BY ThreadAssumption DEF Init, SafetyInv, LockDiscipline, SocketInv, SocketReady, SilentInv,
     DestroyInv, Sending, Critical
<1>2. QED
  BY <1>1, SafetyStep, Typing, PTL DEF Spec

(* One thread at a time resolves, opens, binds and sends: the lock_guard   *)
(* of send_message protects the endpoint and the socket in every schedule. *)
THEOREM MutualExclusion == Spec => []LockDiscipline
<1>1. SafetyInv => LockDiscipline
  BY DEF SafetyInv
<1>2. QED
  BY <1>1, Safety, PTL

(* A datagram is only ever sent with a resolved endpoint and a socket that *)
(* is bound, whatever failed before.                                       *)
THEOREM ReadySocket == Spec => []SocketReady
<1>1. SafetyInv => SocketReady
  BY DEF SafetyInv, SocketInv
<1>2. QED
  BY <1>1, Safety, PTL

(* A disabled client sends nothing on behalf of the calls that begin after *)
(* it was disabled, although enabled_ is read without the mutex.           *)
THEOREM Silence == Spec => []SilentWhenDisabled
<1>1. SafetyInv => SilentWhenDisabled
  BY DEF SafetyInv, SilentInv, SilentWhenDisabled
<1>2. QED
  BY <1>1, Safety, PTL

(* The destructor leaves a closed socket, a free mutex and no sender, when *)
(* the only senders left at its call were already past the mutex.          *)
THEOREM Destruction == Spec => []DestroyedIsClosed
<1>1. TypeOK /\ SafetyInv => DestroyedIsClosed
  BY DEF TypeOK, SafetyInv, LockDiscipline, DestroyInv, DestroyedIsClosed, NobodyIn, Sending
<1>2. QED
  BY <1>1, Typing, Safety, PTL
=============================================================================
