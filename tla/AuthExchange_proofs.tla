------------------------ MODULE AuthExchange_proofs ------------------------
(***************************************************************************)
(* Theorems of AuthExchange, for any alphabet, clients and proxies.        *)
(***************************************************************************)
EXTENDS AuthExchange, SequenceTheorems, NaturalLemmas

(* The last colon is the one the loop meets first.                         *)
LEMMA MaxColon ==
  ASSUME NEW s \in Text, NEW n \in 1 .. Len(s), s[n] = Colon,
         \A i \in n + 1 .. Len(s) : s[i] # Colon
  PROVE  Max(Colons(s)) = n
<1>1. Len(s) \in Nat /\ DOMAIN s = 1 .. Len(s)
  BY DEF Text
<1>2. Colons(s) \in SUBSET Nat /\ n \in Colons(s) /\ \A y \in Colons(s) : n >= y
  BY <1>1 DEF Colons
<1>3. QED
  BY <1>2, GreatestIsMax

LEMMA CutAtColon ==
  ASSUME NEW s \in Text, NEW n \in 1 .. Len(s), s[n] = Colon, NEW port,
         \A i \in n + 1 .. Len(s) : s[i] # Colon
  PROVE  Cut(s, n) = HostNameAndPort(s, port)
<1>1. Max(Colons(s)) = n
  BY MaxColon
<1>2. s # << >> /\ Colons(s) # {}
  BY DEF Colons, Text
<1>3. QED
  BY <1>1, <1>2 DEF Cut, HostNameAndPort

LEMMA WithoutColon ==
  ASSUME NEW s \in Text, NEW port, s # << >>, \A i \in 1 .. Len(s) : s[i] # Colon
  PROVE  HostNameAndPort(s, port) = [name |-> s, port |-> port]
<1>1. Colons(s) = {}
  BY DEF Colons, Text
<1>2. QED
  BY <1>1 DEF HostNameAndPort

-----------------------------------------------------------------------------
(* The request that arrives is the one of the client, or one that a proxy  *)
(* made of it.                                                             *)
FromClient(mount, keepsUri) ==
  Arriving(client.method, client.uri, client.host, client.auth,
           PublicAddress(client.host), mount, keepsUri)

FromProxy(i) ==
  [Arriving(i.method, i.uri, i.host, client.auth, i.server, << >>, TRUE) EXCEPT
     !.xmethod = IF "method" \in i.fields THEN client.method ELSE NoField,
     !.xhost   = IF "host" \in i.fields THEN client.host ELSE NoField,
     !.xurl    = IF "url" \in i.fields THEN client.uri ELSE NoField]

Arrived ==
  \/ /\ proxied = {}
     /\ \E mount \in Mounts, keepsUri \in BOOLEAN : wire = FromClient(mount, keepsUri)
  \/ \E i \in Internals : proxied = {i.fields} /\ wire = FromProxy(i)

WireInv ==
  /\ client \in ClientRequest
  /\ phase \in {"compose", "wire", "own", "original", "done"}
  /\ phase = "compose" => proxied = {}
  /\ phase # "compose" => Arrived

LEMMA ArrivedFields ==
  ASSUME WireInv, phase # "compose"
  PROVE  /\ wire.host \in Text
         /\ wire.xhost \in Text \cup {NoField}
         /\ wire.auth = client.auth
<1>1. ASSUME NEW mount, NEW keepsUri, wire = FromClient(mount, keepsUri)
      PROVE  /\ wire.host = client.host /\ wire.xhost = NoField
             /\ wire.auth = client.auth
  BY <1>1 DEF FromClient, Arriving
<1>2. ASSUME NEW i \in Internals, wire = FromProxy(i)
      PROVE  /\ wire.host = i.host /\ wire.xhost \in {client.host, NoField}
             /\ wire.auth = client.auth
  BY <1>2 DEF FromProxy, Arriving
<1>3. client.host \in Text /\ \A i \in Internals : i.host \in Text
  BY ExchangeAssumption DEF WireInv, ClientRequest, Internal
<1>4. QED
  BY <1>1, <1>2, <1>3 DEF WireInv, Arrived

LEMMA WireStep == WireInv /\ [Next]_vars => WireInv'
<1> SUFFICES ASSUME WireInv, [Next]_vars PROVE WireInv'
  OBVIOUS
<1> USE DEF WireInv
<1>1. CASE Send
  <2>1. UNCHANGED <<client, proxied>> /\ phase' = "wire" /\ phase = "compose"
    BY <1>1 DEF Send
  <2>2. \E keepsUri \in BOOLEAN, mount \in Mounts : wire' = FromClient(mount, keepsUri)
    BY <1>1 DEF Send, FromClient
  <2>3. Arrived'
    BY <2>1, <2>2 DEF Arrived, FromClient
  <2>4. QED
    BY <2>1, <2>3
<1>2. CASE Forward
  <2>1. UNCHANGED <<client, phase>> /\ phase = "wire"
    BY <1>2 DEF Forward
  <2>2. wire.auth = client.auth
    BY <2>1, ArrivedFields
  <2>3. PICK i \in Internals : proxied' = {i.fields} /\ wire' = FromProxy(i)
    BY <1>2, <2>2 DEF Forward, FromProxy
  <2>4. Arrived'
    BY <2>1, <2>3 DEF Arrived, FromProxy
  <2>5. QED
    BY <2>1, <2>4
<1>3. ASSUME UNCHANGED <<client, wire, proxied>>, phase # "compose" => phase' # "compose",
             phase' \in {"compose", "wire", "own", "original", "done"},
             phase = "compose" => phase' = "compose"
      PROVE  WireInv'
  BY <1>3 DEF Arrived, FromClient, FromProxy
<1>4. QED
  BY <1>1, <1>2, <1>3
     DEF Next, Challenge, Refuse, PassToken, ReadOwnHost, PassWithoutHost, PassOwn,
         ReadOriginalHost, PassOriginal, ScanHost, Done, vars, MacReady, Reply, PassHeader

-----------------------------------------------------------------------------
(* While a Host header is scanned, none of the characters the iterator has *)
(* passed is a colon, and the position is the one of the iterator.         *)
Scanned ==
  /\ text \in Text
  /\ at \in 0 .. Len(text) /\ pos = at
  /\ found = {} => \A i \in at + 1 .. Len(text) : text[i] # Colon
  /\ found = {} /\ phase \in {"own", "original"} => text # << >>
  /\ HostIsCut

(* Which header that is, and why it is read                                *)
Reading ==
  /\ phase \in {"own", "original"} => filter = "mac_auth" /\ AcceptsMac(wire.auth)
  /\ phase = "own" => /\ text = wire.host /\ default = wire.server.port
                      /\ wire.xmethod = NoField \/ wire.xhost # NoField
  /\ phase = "original" => /\ text = wire.xhost
                           /\ wire.xmethod # NoField /\ wire.xhost # NoField

ScanInv == Scanned /\ Reading

LEMMA BeginScanned ==
  ASSUME NEW s \in Text, NEW port, BeginScan(s, port)
  PROVE  Scanned'
<1>1. Len(s) \in Nat /\ (Len(s) < 1 <=> s = << >>)
  BY EmptySeq DEF Text
<1>2. text' = s /\ default' = port /\ at' = Len(s) /\ pos' = Len(s)
  BY DEF BeginScan
<1>3. CASE s = << >>
  <2>1. found' = {[name |-> << >>, port |-> 0]}
    BY <1>1, <1>3 DEF BeginScan
  <2>2. HostNameAndPort(s, port) = [name |-> << >>, port |-> 0]
    BY <1>3 DEF HostNameAndPort
  <2>3. found' # {} => found' = {HostNameAndPort(text', default')}
    BY <1>2, <2>1, <2>2
  <2>4. QED
    BY <1>1, <1>2, <1>3, <2>1, <2>3 DEF Scanned, HostIsCut
<1>4. CASE s # << >>
  <2>1. found' = {}
    BY <1>1, <1>4 DEF BeginScan
  <2>2. QED
    BY <1>1, <1>2, <1>4, <2>1 DEF Scanned, HostIsCut
<1>5. QED
  BY <1>3, <1>4

(* A step of the loop *)
LEMMA LoopScanned ==
  ASSUME Scanned, phase \in {"own", "original"}, UNCHANGED phase, Scan
  PROVE  Scanned'
<1> USE DEF Scanned
<1>1. text \in Text /\ Len(text) \in Nat /\ at \in 0 .. Len(text) /\ pos = at
  BY DEF Text
<1>2. found = {} /\ text # << >> /\ \A i \in at + 1 .. Len(text) : text[i] # Colon
  BY DEF Scan, PassCharacter, MeetColon, MeetEnd, Scanning
<1>3. CASE PassCharacter
  <2>1. /\ UNCHANGED <<text, default, found>> /\ at' = at - 1 /\ pos' = pos - 1
        /\ at > 0 /\ text[at] # Colon
    BY <1>3 DEF PassCharacter
  <2>2. at' \in 0 .. Len(text) /\ pos' = at' /\ \A i \in at' + 1 .. Len(text) : text[i] # Colon
    BY <1>1, <1>2, <2>1
  <2>3. QED
    BY <1>1, <1>2, <2>1, <2>2 DEF HostIsCut
<1>4. CASE MeetColon
  <2>1. /\ UNCHANGED <<text, default, at, pos>> /\ found' = {Cut(text, pos)}
        /\ at > 0 /\ text[at] = Colon
    BY <1>4 DEF MeetColon
  <2>2. Cut(text, pos) = HostNameAndPort(text, default)
    BY <1>1, <1>2, <2>1, CutAtColon
  <2>3. QED
    BY <1>1, <2>1, <2>2 DEF HostIsCut
<1>5. CASE MeetEnd
  <2>1. /\ UNCHANGED <<text, default, at, pos>> /\ at = 0
        /\ found' = {[name |-> text, port |-> default]}
    BY <1>5 DEF MeetEnd
  <2>2. HostNameAndPort(text, default) = [name |-> text, port |-> default]
    BY <1>1, <1>2, <2>1, WithoutColon
  <2>3. QED
    BY <1>1, <2>1, <2>2 DEF HostIsCut
<1>6. QED
  BY <1>3, <1>4, <1>5 DEF Scan

LEMMA ScanStep == WireInv /\ ScanInv /\ [Next]_vars => ScanInv'
<1> SUFFICES ASSUME WireInv, ScanInv, [Next]_vars PROVE ScanInv'
  OBVIOUS
<1> USE DEF ScanInv
<1>1. CASE ReadOwnHost
  <2>1. wire.host \in Text /\ BeginScan(wire.host, wire.server.port)
    BY <1>1, ArrivedFields DEF ReadOwnHost, MacReady
  <2>2. Scanned'
    BY <2>1, BeginScanned
  <2>3. Reading'
    BY <1>1, <2>1 DEF Reading, ReadOwnHost, MacReady, BeginScan
  <2>4. QED
    BY <2>2, <2>3
<1>2. CASE ReadOriginalHost
  <2>1. /\ phase = "own" /\ phase' = "original" /\ wire.xmethod # NoField
        /\ UNCHANGED <<filter, wire>>
        /\ \E port : BeginScan(wire.xhost, port)
    BY <1>2 DEF ReadOriginalHost, OriginalHost
  <2>2. wire.xhost # NoField /\ wire.xhost \in Text
    BY <2>1, ArrivedFields DEF Reading
  <2>3. Scanned'
    BY <2>1, <2>2, BeginScanned
  <2>4. Reading'
    BY <2>1, <2>2 DEF Reading, BeginScan
  <2>5. QED
    BY <2>3, <2>4
<1>3. CASE ScanHost
  <2>1. phase \in {"own", "original"} /\ UNCHANGED <<filter, wire, phase>> /\ Scan
    BY <1>3 DEF ScanHost
  <2>2. Scanned'
    BY <2>1, LoopScanned
  <2>3. UNCHANGED <<text, default>>
    BY <2>1 DEF Scan, PassCharacter, MeetColon, MeetEnd
  <2>4. QED
    BY <2>1, <2>2, <2>3 DEF Reading
<1>4. ASSUME UNCHANGED scan, phase' \in {"wire", "done"} PROVE ScanInv'
  BY <1>4 DEF scan, Scanned, Reading, HostIsCut
<1>5. ASSUME UNCHANGED vars PROVE ScanInv'
  BY <1>5 DEF vars, scan, Scanned, Reading, HostIsCut
<1>6. QED
  BY <1>1, <1>2, <1>3, <1>4, <1>5
     DEF Next, Send, Forward, Challenge, Refuse, PassToken, PassWithoutHost, PassOwn,
         PassOriginal, Done, Reply, PassHeader

LEMMA InitInv == Init => WireInv /\ ScanInv
<1> SUFFICES ASSUME Init PROVE WireInv /\ ScanInv
  OBVIOUS
<1>1. WireInv
  BY ExchangeAssumption DEF Init, WireInv
<1>2. << >> \in Text /\ Len(<< >>) = 0
  BY DEF Text
<1>3. Scanned
  BY <1>2 DEF Init, ScanInit, Scanned, HostIsCut
<1>4. Reading
  BY DEF Init, Reading
<1>5. QED
  BY <1>1, <1>3, <1>4 DEF ScanInv

(* The loop of host_name_and_port finds the name and the port on the two   *)
(* sides of the last colon of any text, whatever its length.               *)
THEOREM HostCut == Spec => []HostIsCut
<1>1. ScanInv => HostIsCut
  BY DEF ScanInv, Scanned
<1>2. QED
  BY <1>1, InitInv, WireStep, ScanStep, PTL DEF Spec
-----------------------------------------------------------------------------
(* The answers: each of them to the requests it is for, and what the       *)
(* function is called with                                                 *)
HeaderOf(method, address, uri) ==
  [op |-> "header", header |-> MacHeader(wire.auth),
   norm |-> NormRequest(MacHeader(wire.auth), method, address, uri)]

HeaderAnswer ==
  \/ /\ wire.xmethod = NoField
     /\ answer = HeaderOf(wire.method,
                          OwnAddress(wire, HostNameAndPort(wire.host, wire.server.port)),
                          UriOf(wire))
  \/ /\ wire.xmethod # NoField /\ wire.xhost # NoField
     /\ \E port : answer = HeaderOf(wire.xmethod, HostNameAndPort(wire.xhost, port),
                                    Original(wire.xurl))
  \/ /\ wire.xmethod # NoField /\ wire.xhost = NoField
     /\ \E address : answer = HeaderOf(wire.xmethod, address, Original(wire.xurl))

Answers ==
  \/ IsMissing(wire.auth) /\ answer = [op |-> "challenge"]
  \/ ~IsMissing(wire.auth) /\ ~Accepts(wire.auth) /\ answer = [op |-> "bad_request"]
  \/ /\ filter = "bearer_auth"
     /\ answer = [op |-> "token", token |-> BearerToken(wire.auth.chars)]
  \/ filter = "mac_auth" /\ AcceptsMac(wire.auth) /\ HeaderAnswer

AnswerInv ==
  /\ phase # "done" => answer = NoAnswer
  /\ phase = "done" => Answers

LEMMA AnswerStep == WireInv /\ ScanInv /\ AnswerInv /\ [Next]_vars => AnswerInv'
<1> SUFFICES ASSUME WireInv, ScanInv, AnswerInv, [Next]_vars PROVE AnswerInv'
  OBVIOUS
<1> USE DEF AnswerInv
<1>1. \A hnp \in found : hnp = HostNameAndPort(text, default)
  BY DEF ScanInv, Scanned, HostIsCut
<1>2. ASSUME phase' = "done", UNCHANGED <<filter, wire>>, Answers' PROVE AnswerInv'
  BY <1>2
<1>3. CASE Challenge
  BY <1>3 DEF Challenge, Reply, Answers
<1>4. CASE Refuse
  BY <1>4 DEF Refuse, Reply, Answers, Accepts
<1>5. CASE PassToken
  BY <1>5 DEF PassToken, Reply, Answers
<1>6. CASE PassWithoutHost
  <2>1. /\ phase' = "done" /\ UNCHANGED <<filter, wire>>
        /\ filter = "mac_auth" /\ AcceptsMac(wire.auth)
        /\ wire.xmethod # NoField /\ wire.xhost = NoField
        /\ \E address : answer' = HeaderOf(wire.xmethod, address, Original(wire.xurl))
    BY <1>6 DEF PassWithoutHost, MacReady, PassHeader, Reply, HeaderOf
  <2>2. QED
    BY <2>1 DEF Answers, HeaderAnswer, HeaderOf
<1>7. CASE PassOwn
  <2>1. /\ phase' = "done" /\ UNCHANGED <<filter, wire>> /\ phase = "own"
        /\ wire.xmethod = NoField
        /\ \E hnp \in found : answer' = HeaderOf(wire.method, OwnAddress(wire, hnp), UriOf(wire))
    BY <1>7 DEF PassOwn, PassHeader, Reply, HeaderOf
  <2>2. /\ filter = "mac_auth" /\ AcceptsMac(wire.auth)
        /\ text = wire.host /\ default = wire.server.port
    BY <2>1 DEF ScanInv, Reading
  <2>3. answer' = HeaderOf(wire.method,
                           OwnAddress(wire, HostNameAndPort(wire.host, wire.server.port)),
                           UriOf(wire))
    BY <1>1, <2>1, <2>2
  <2>4. QED
    BY <2>1, <2>2, <2>3 DEF Answers, HeaderAnswer, HeaderOf
<1>8. CASE PassOriginal
  <2>1. /\ phase' = "done" /\ UNCHANGED <<filter, wire>> /\ phase = "original"
        /\ \E hnp \in found : answer' = HeaderOf(wire.xmethod, hnp, Original(wire.xurl))
    BY <1>8 DEF PassOriginal, PassHeader, Reply, HeaderOf
  <2>2. /\ filter = "mac_auth" /\ AcceptsMac(wire.auth)
        /\ text = wire.xhost /\ wire.xmethod # NoField /\ wire.xhost # NoField
    BY <2>1 DEF ScanInv, Reading
  <2>3. answer' = HeaderOf(wire.xmethod, HostNameAndPort(wire.xhost, default), Original(wire.xurl))
    BY <1>1, <2>1, <2>2
  <2>4. QED
    BY <2>1, <2>2, <2>3 DEF Answers, HeaderAnswer, HeaderOf
<1>9. ASSUME UNCHANGED answer, phase # "done", phase' # "done" PROVE AnswerInv'
  BY <1>9
<1>10. ASSUME UNCHANGED vars PROVE AnswerInv'
  BY <1>10 DEF vars, Answers, HeaderAnswer, HeaderOf, Accepts
<1>11. QED
  BY <1>3, <1>4, <1>5, <1>6, <1>7, <1>8, <1>9, <1>10
     DEF Next, Send, Forward, ReadOwnHost, ReadOriginalHost, ScanHost, MacReady, Done

Inv == WireInv /\ ScanInv /\ AnswerInv

LEMMA Invariance == Spec => []Inv
<1>1. Init => Inv
  BY InitInv DEF Init, Inv, AnswerInv
<1>2. Inv /\ [Next]_vars => Inv'
  BY WireStep, ScanStep, AnswerStep DEF Inv
<1>3. QED
  BY <1>1, <1>2, PTL DEF Spec

-----------------------------------------------------------------------------
(* Of a well-formed header the grammar matches every attribute, and each   *)
(* key is found with the value the client gave it.                         *)
LEMMA PairsOfWellFormed ==
  ASSUME NEW s \in Seq(Attribute),
         \A j \in DOMAIN s : IsPair(s[j]) /\ IsWhole(s[j])
  PROVE  Pairs(s) = s
<1>1. Len(s) \in Nat /\ DOMAIN s = 1 .. Len(s)
  OBVIOUS
<1> DEFINE M == {n \in 0 .. Len(s) :
                   \A i \in 1 .. n : IsPair(s[i]) /\ (i < n => IsWhole(s[i]))}
<1>2. M \in SUBSET Nat /\ Len(s) \in M /\ \A n \in M : Len(s) >= n
  BY <1>1
<1>3. Max(M) = Len(s)
  <2> HIDE DEF M
  <2>1. QED
    BY <1>2, GreatestIsMax
<1>4. Matched(s) = Len(s)
  BY <1>3 DEF Matched
<1>5. QED
  BY <1>4, SubSeqFull DEF Pairs

LEMMA FoundIsSent ==
  ASSUME NEW auth, auth.attributes \in Seq(Attribute), WellFormedMac(auth), NEW key
  PROVE  Find(auth.attributes, key) = Sent(auth, key)
<1> DEFINE s  == auth.attributes
           at_key == {j \in DOMAIN s : s[j].key = key}
<1>1. Len(s) \in Nat /\ DOMAIN s = 1 .. Len(s)
  OBVIOUS
<1>2. CASE at_key = {}
  BY <1>2 DEF Find, Sent
<1>3. CASE at_key # {}
  <2>1. PICK j \in at_key : TRUE
    BY <1>3
  <2>2. at_key = {j} /\ j \in Nat
    BY <1>1, <2>1 DEF WellFormedMac
  <2>3. Min(at_key) = j /\ (CHOOSE k \in at_key : TRUE) = j
    BY <2>2 DEF Min
  <2>4. ValueOf(s[j]) = s[j].value
    BY <2>1 DEF WellFormedMac, IsWhole, ValueOf
  <2>5. QED
    BY <1>3, <2>3, <2>4 DEF Find, Sent
<1>4. QED
  BY <1>2, <1>3

LEMMA HeaderIsSent ==
  ASSUME NEW auth, auth.attributes \in Seq(Attribute), WellFormedMac(auth)
  PROVE  /\ MacHeader(auth) = Credentials(auth)
         /\ Len(Pairs(auth.attributes)) >= 2
<1> DEFINE s == auth.attributes
<1>1. Pairs(s) = s
  BY PairsOfWellFormed DEF WellFormedMac
<1>2. \A key : Find(s, key) = Sent(auth, key)
  BY FoundIsSent
<1>3. MacHeader(auth) = Credentials(auth)
  BY <1>1, <1>2 DEF MacHeader, FromDict, Credentials
<1>4. Len(s) >= 2
  <2>1. PICK j \in DOMAIN s, k \in DOMAIN s : s[j].key = "id" /\ s[k].key = "ts"
    BY DEF WellFormedMac, Required
  <2>2. j # k /\ DOMAIN s = 1 .. Len(s) /\ Len(s) \in Nat
    BY <2>1
  <2>3. QED
    BY <2>2
<1>5. QED
  BY <1>1, <1>3, <1>4

LEMMA MacAttributes ==
  ASSUME NEW auth \in Authorization, auth.scheme = "MAC"
  PROVE  auth.attributes \in Seq(Attribute) /\ ~IsMissing(auth)
BY DEF Authorization, Absent, Empty, IsMissing

(* Every well-formed MAC header reaches the function with the attributes   *)
(* the client sent, in any order, unless one of the required ones is       *)
(* empty or no number: then it is refused.                                 *)
THEOREM CredentialDelivery == Spec => []CredentialsDelivered
<1>1. Inv => CredentialsDelivered
  <2> SUFFICES ASSUME Inv, phase = "done", filter = "mac_auth",
                      client.auth.scheme = "MAC", WellFormedMac(client.auth)
               PROVE  IF IsComplete(Credentials(client.auth))
                      THEN answer.op = "header" /\ answer.header = Credentials(client.auth)
                      ELSE answer.op = "bad_request"
    BY DEF CredentialsDelivered
  <2>1. wire.auth = client.auth
    BY ArrivedFields DEF Inv
  <2>2. client.auth \in Authorization
    BY DEF Inv, WireInv, ClientRequest
  <2>3. client.auth.attributes \in Seq(Attribute) /\ ~IsMissing(client.auth)
    BY <2>2, MacAttributes
  <2>4. /\ MacHeader(client.auth) = Credentials(client.auth)
        /\ Len(Pairs(client.auth.attributes)) >= 2
    BY <2>3, HeaderIsSent
  <2>5. AcceptsMac(client.auth) <=> IsComplete(Credentials(client.auth))
    BY <2>4 DEF AcceptsMac
  <2>6. HeaderAnswer => answer.op = "header" /\ answer.header = MacHeader(wire.auth)
    BY DEF HeaderAnswer, HeaderOf
  <2>7. QED
    BY <2>1, <2>3, <2>4, <2>5, <2>6 DEF Inv, AnswerInv, Answers, Accepts
<1>2. QED
  BY <1>1, Invariance, PTL
-----------------------------------------------------------------------------
(* What the server reads of a Host header is what it says to a client.     *)
LEMMA NameAlone ==
  ASSUME NEW s \in Text, IsName(s), NEW port
  PROVE  /\ HostNameAndPort(s, port) = [name |-> s, port |-> port]
         /\ PublicAddress(s) = [name |-> s, port |-> SchemePort]
<1>1. s # << >> /\ \A i \in 1 .. Len(s) : s[i] # Colon
  BY CharAssumption DEF IsName, Text
<1>2. QED
  BY <1>1, WithoutColon DEF PublicAddress

LEMMA NameAndPort ==
  ASSUME NEW s \in Text, NamesPort(s), NEW port
  PROVE  /\ HostNameAndPort(s, port) = PublicAddress(s)
         /\ PublicAddress(s).name # << >>
<1>1. Len(s) \in Nat /\ DOMAIN s = 1 .. Len(s) /\ s \in Seq(Char)
  BY DEF Text
<1>2. PICK i \in Colons(s) : PortAfter(s, i)
  BY DEF NamesPort
<1>3. i \in 1 .. Len(s) /\ s[i] = Colon
  BY <1>1, <1>2 DEF Colons
<1>4. \A k \in i + 1 .. Len(s) : s[k] # Colon
  BY <1>2, CharAssumption DEF PortAfter
<1>5. \A k \in 1 .. i - 1 : s[k] # Colon
  <2> DEFINE n == SubSeq(s, 1, i - 1)
  <2>1. \A k \in 1 .. i - 1 : s[k] \in Char
    BY <1>1, <1>3
  <2>2. Len(n) = i - 1 /\ n \in Seq(Char) /\ \A k \in 1 .. i - 1 : n[k] = s[k]
    BY <1>3, <2>1, SubSeqProperties
  <2>3. \A k \in 1 .. i - 1 : n[k] \in Letter
    BY <1>2, <2>2 DEF PortAfter, IsName
  <2>4. QED
    BY <2>2, <2>3, CharAssumption
<1>6. Colons(s) = {i}
  BY <1>1, <1>3, <1>4, <1>5 DEF Colons
<1>7. (CHOOSE k \in Colons(s) : PortAfter(s, k)) = i
  BY <1>2, <1>6
<1>8. ~IsName(s)
  BY <1>1, <1>3, CharAssumption DEF IsName
<1>9. PublicAddress(s) = [name |-> SubSeq(s, 1, i - 1), port |-> Atoi(SubSeq(s, i + 1, Len(s)))]
  BY <1>7, <1>8 DEF PublicAddress
<1>10. HostNameAndPort(s, port) = Cut(s, i)
  BY <1>3, <1>4, CutAtColon
<1>11. PublicAddress(s) = Cut(s, i)
  BY <1>9 DEF Cut
<1>12. SubSeq(s, 1, i - 1) # << >>
  BY <1>2 DEF PortAfter, IsName
<1>13. QED
  BY <1>9, <1>10, <1>11, <1>12

(* A URI is its path and, after the question mark, its query string.       *)
LEMMA UriRebuilt ==
  ASSUME NEW uri \in Uri, PathEnd(uri) # Len(uri)
  PROVE  LET e == PathEnd(uri)
             q == SubSeq(uri, e + 1, Len(uri))
         IN SubSeq(uri, 1, e - 1) \o (IF q = << >> THEN << >> ELSE <<Mark>> \o q) = uri
<1> DEFINE e == PathEnd(uri)
           q == SubSeq(uri, e + 1, Len(uri))
           S == {Len(uri) + 1} \cup {i \in DOMAIN uri : uri[i] = Mark}
<1>1. Len(uri) \in Nat /\ DOMAIN uri = 1 .. Len(uri) /\ uri \in Seq(Segment \cup {Mark})
  BY DEF Uri
<1>2. S \in SUBSET Nat /\ S # {}
  BY <1>1
<1>3. e \in S
  BY <1>2, LeastExists DEF PathEnd
<1> HIDE DEF e
<1>4. CASE e = Len(uri) + 1
  <2>1. q = << >>
    BY <1>1, <1>4, SubSeqEmpty
  <2>2. SubSeq(uri, 1, e - 1) = uri
    BY <1>1, <1>4, SubSeqFull
  <2>3. uri \o << >> = uri
    BY <1>1, ConcatEmptySeq
  <2>4. QED
    BY <2>1, <2>2, <2>3 DEF e
<1>5. CASE e \in 1 .. Len(uri) /\ uri[e] = Mark
  <2>1. e < Len(uri)
    BY <1>1, <1>5 DEF e
  <2>2. \A i \in e + 1 .. Len(uri) : uri[i] \in Segment \cup {Mark}
    BY <1>1, <1>5
  <2>3. q # << >>
    <3>1. e + 1 \in Int /\ Len(uri) \in Int /\ e + 1 <= Len(uri)
      BY <1>1, <1>5, <2>1
    <3>2. Len(q) = Len(uri) - (e + 1) + 1
      BY <2>2, <3>1, SubSeqProperties
    <3>3. Len(q) # 0 /\ Len(<< >>) = 0
      BY <3>1, <3>2
    <3>4. QED
      BY <3>3
  <2>4. SubSeq(uri, e, Len(uri)) = <<Mark>> \o q
    BY <1>1, <1>5, <2>1, SubSeqRecursiveFirst
  <2>5. SubSeq(uri, 1, e - 1) \o SubSeq(uri, e, Len(uri)) = uri
    <3>1. /\ 1 \in 1 .. Len(uri) + 1 /\ e - 1 \in 1 - 1 .. Len(uri)
          /\ Len(uri) \in e - 1 .. Len(uri) /\ (e - 1) + 1 = e
      BY <1>1, <1>5
    <3>2. SubSeq(uri, 1, e - 1) \o SubSeq(uri, (e - 1) + 1, Len(uri)) = SubSeq(uri, 1, Len(uri))
      BY <1>1, <3>1, ConcatAdjacentSubSeq
    <3>3. QED
      BY <1>1, <3>1, <3>2, SubSeqFull
  <2>6. QED
    BY <2>3, <2>4, <2>5 DEF e
<1>6. QED
  BY <1>1, <1>3, <1>4, <1>5

(* The URI of a request that came directly                                 *)
LEMMA UriOfDirect ==
  ASSUME WireInv, NEW mount, NEW keepsUri, wire = FromClient(mount, keepsUri),
         \/ wire.request_uri # << >>
         \/ wire.script_name = << >> /\ PathEnd(client.uri) # Len(client.uri)
  PROVE  UriOf(wire) = client.uri
<1>1. client.uri \in Uri
  BY DEF WireInv, ClientRequest
<1> DEFINE uri == client.uri
           e == PathEnd(uri)
<1>2. /\ wire.request_uri = IF keepsUri THEN uri ELSE << >>
      /\ wire.script_name = mount
      /\ wire.path_info = SubSeq(uri, Len(mount) + 1, e - 1)
      /\ wire.query_string = SubSeq(uri, e + 1, Len(uri))
  BY DEF FromClient, Arriving
<1> HIDE DEF uri, e
<1>3. CASE wire.request_uri # << >>
  BY <1>2, <1>3 DEF UriOf, uri
<1>4. CASE wire.request_uri = << >>
  <2>1. mount = << >> /\ e # Len(uri)
    BY <1>2, <1>4 DEF uri, e
  <2>2. wire.path_info = SubSeq(uri, 1, e - 1)
    <3>1. Len(mount) + 1 = 1
      BY <2>1
    <3>2. QED
      BY <1>2, <3>1
  <2>3. LET q == SubSeq(uri, e + 1, Len(uri))
        IN SubSeq(uri, 1, e - 1) \o (IF q = << >> THEN << >> ELSE <<Mark>> \o q) = uri
    BY <1>1, <2>1, UriRebuilt DEF e, uri
  <2>4. QED
    BY <1>2, <1>4, <2>2, <2>3 DEF UriOf, uri
<1>5. QED
  BY <1>3, <1>4
-----------------------------------------------------------------------------
(* What the server passes on of a request that came directly, and of one   *)
(* whose proxy added the original method, Host header and URL.             *)
LEMMA DirectHost ==
  ASSUME WireInv, NEW mount, NEW keepsUri, wire = FromClient(mount, keepsUri),
         NamesPort(client.host) \/ IsName(client.host)
  PROVE  OwnAddress(wire, HostNameAndPort(wire.host, wire.server.port))
           = PublicAddress(client.host)
<1>1. client.host \in Text
  BY DEF WireInv, ClientRequest
<1>2. wire.host = client.host /\ wire.server = PublicAddress(client.host)
  BY DEF FromClient, Arriving
<1>3. CASE NamesPort(client.host)
  BY <1>1, <1>2, <1>3, NameAndPort DEF OwnAddress
<1>4. CASE IsName(client.host)
  BY <1>1, <1>2, <1>4, NameAlone DEF OwnAddress
<1>5. QED
  BY <1>3, <1>4

LEMMA DirectNorm ==
  ASSUME WireInv, HeaderAnswer, proxied = {}, phase # "compose", KeepsUri,
         NamesPort(client.host) \/ IsName(client.host)
  PROVE  answer.norm = NormRequest(MacHeader(client.auth), client.method,
                                   PublicAddress(client.host), client.uri)
<1>1. PICK mount, keepsUri : wire = FromClient(mount, keepsUri)
  BY DEF WireInv, Arrived
<1>2. wire.xmethod = NoField /\ wire.method = client.method /\ wire.auth = client.auth
  BY <1>1 DEF FromClient, Arriving
<1>3. UriOf(wire) = client.uri
  <2>1. ~ThroughProxy
    BY DEF ThroughProxy
  <2>2. \/ wire.request_uri # << >>
        \/ wire.script_name = << >> /\ PathEnd(client.uri) # Len(client.uri)
    BY <2>1 DEF KeepsUri
  <2>3. QED
    BY <1>1, <2>2, UriOfDirect
<1>4. OwnAddress(wire, HostNameAndPort(wire.host, wire.server.port)) = PublicAddress(client.host)
  BY <1>1, DirectHost
<1>5. QED
  BY <1>2, <1>3, <1>4 DEF HeaderAnswer, HeaderOf

LEMMA ProxiedNorm ==
  ASSUME WireInv, HeaderAnswer, ThroughProxy, phase # "compose", NamesPort(client.host)
  PROVE  answer.norm = NormRequest(MacHeader(client.auth), client.method,
                                   PublicAddress(client.host), client.uri)
<1>1. PICK i \in Internals : i.fields = {"method", "host", "url"} /\ wire = FromProxy(i)
  BY DEF WireInv, Arrived, ThroughProxy
<1>2. /\ client.method # NoField /\ client.host # NoField /\ client.uri # NoField
      /\ client.host \in Text
  BY ExchangeAssumption DEF WireInv, ClientRequest
<1>3. /\ wire.xmethod = client.method /\ wire.xhost = client.host
      /\ wire.xurl = client.uri /\ wire.auth = client.auth
  BY <1>1 DEF FromProxy, Arriving
<1>4. \A port : HostNameAndPort(client.host, port) = PublicAddress(client.host)
  BY <1>2, NameAndPort
<1>5. QED
  BY <1>2, <1>3, <1>4 DEF HeaderAnswer, HeaderOf, Original

(* The client and the server calculate the MAC over the same value, for    *)
(* every method, URI and Host header, whatever a proxy made of them.       *)
THEOREM SameValueSigned == Spec => []SameValue
<1>1. Inv => SameValue
  <2> SUFFICES ASSUME Inv, answer.op = "header", WellFormedMac(client.auth),
                      Direct \/ ThroughProxy, KeepsUri, KeepsPort
               PROVE  Normalize(answer.norm) = Signed
    BY DEF SameValue
  <2>1. phase = "done" /\ HeaderAnswer /\ AcceptsMac(wire.auth)
    BY DEF Inv, AnswerInv, Answers, NoAnswer
  <2>2. client.auth \in Authorization /\ wire.auth = client.auth
    BY <2>1, ArrivedFields DEF Inv, WireInv, ClientRequest
  <2>3. MacHeader(client.auth) = Credentials(client.auth)
    BY <2>1, <2>2, MacAttributes, HeaderIsSent DEF AcceptsMac
  <2>4. answer.norm = NormRequest(MacHeader(client.auth), client.method,
                                  PublicAddress(client.host), client.uri)
    <3>1. CASE Direct
      BY <2>1, <3>1, DirectNorm DEF Inv, Direct, KeepsPort
    <3>2. CASE ThroughProxy
      <4>1. ~Direct
        BY <3>2 DEF Direct, ThroughProxy
      <4>2. QED
        BY <2>1, <3>2, <4>1, ProxiedNorm DEF Inv, KeepsPort
    <3>3. QED
      BY <3>1, <3>2
  <2>5. QED
    BY <2>3, <2>4 DEF Normalize, NormRequest, Signed
<1>2. QED
  BY <1>1, Invariance, PTL
-----------------------------------------------------------------------------
(* atoi of any text is a number: the recursion over the digits has a       *)
(* solution, and every solution stays among the numbers.                   *)
LEMMA DigitsLead ==
  ASSUME NEW s \in Text
  PROVE  LeadingDigits(s) \in Seq(Digit)
<1> DEFINE M == {n \in 0 .. Len(s) : \A i \in 1 .. n : s[i] \in Digit}
<1>1. Len(s) \in Nat
  BY DEF Text
<1>2. M \in SUBSET (0 .. Len(s)) /\ 0 \in M
  BY <1>1
<1>3. Max(M) \in M
  <2> HIDE DEF M
  <2>1. QED
    BY <1>1, <1>2, GreatestExists
<1>4. Max(M) \in Int /\ \A i \in 1 .. Max(M) : s[i] \in Digit
  BY <1>3
<1> HIDE DEF M
<1>5. SubSeq(s, 1, Max(M)) \in Seq(Digit)
  BY <1>4, SubSeqProperties
<1>6. QED
  BY <1>5 DEF LeadingDigits, M

LEMMA AtoiIsNumber ==
  ASSUME NEW s \in Text
  PROVE  Atoi(s) \in Nat
<1> DEFINE d == LeadingDigits(s)
           l == Len(d)
           E(f) == [i \in 0 .. l |-> IF i = 0 THEN 0 ELSE 10 * f[i - 1] + d[i]]
           n == CHOOSE f : f = E(f)
<1>1. l \in Nat /\ 0 \in Nat /\ \A i \in 1 .. l : d[i] \in Nat
  <2>1. d \in Seq(0 .. 9)
    BY DigitsLead DEF Digit
  <2> HIDE DEF d
  <2>2. QED
    BY <2>1
<1>2. Atoi(s) = n[l]
  BY DEF Atoi
<1> HIDE DEF l, d
<1>3. n = E(n)
  <2> DEFINE G == [i \in 1 .. l |-> [x \in Nat |-> 10 * x + d[i]]]
  <2>1. /\ G \in [1 .. l -> [Nat -> Nat]]
        /\ \A i \in 1 .. l : \A x \in Nat : G[i][x] = 10 * x + d[i]
    BY <1>1
  <2> HIDE DEF G
  <2>2. PICK f : Iterates(f, l, Nat, 0, G)
    BY <1>1, <2>1, Recursion DEF Steps
  <2>3. /\ f \in [0 .. l -> Nat] /\ f[0] = 0
        /\ \A i \in 1 .. l : f[i] = G[i][f[i - 1]]
    BY <2>2 DEF Iterates
  <2>4. \A i \in 1 .. l : f[i - 1] \in Nat
    BY <1>1, <2>3
  <2>5. \A i \in 1 .. l : f[i] = 10 * f[i - 1] + d[i]
    BY <2>1, <2>3, <2>4
  <2>6. f = E(f)
    BY <2>3, <2>5
  <2> HIDE DEF E
  <2>7. QED
    BY <2>6
<1> HIDE DEF n
<1> DEFINE S == {k \in Nat : k <= l => n[k] \in Nat}
<1>4. 0 \in S
  BY <1>1, <1>3
<1>5. ASSUME NEW k \in S PROVE k + 1 \in S
  BY <1>1, <1>3
<1>6. l \in S
  <2> HIDE DEF S
  <2>1. S \in SUBSET Nat
    BY DEF S
  <2>2. QED
    BY <1>1, <1>4, <1>5, <2>1, NatSetInduction
<1>7. QED
  BY <1>1, <1>2, <1>6

(* Every address is read of a text.                                        *)
LEMMA PartsOfText ==
  ASSUME NEW s \in Text, NEW i \in 1 .. Len(s)
  PROVE  SubSeq(s, 1, i - 1) \in Text /\ SubSeq(s, i + 1, Len(s)) \in Text
<1>1. Len(s) \in Nat /\ \A k \in 1 .. Len(s) : s[k] \in Char
  BY DEF Text
<1>2. \A k \in 1 .. i - 1 : s[k] \in Char
  BY <1>1
<1>3. \A k \in i + 1 .. Len(s) : s[k] \in Char
  BY <1>1
<1>4. QED
  BY <1>1, <1>2, <1>3, SubSeqProperties DEF Text

LEMMA AddressTypes ==
  ASSUME NEW s \in Text
  PROVE  /\ \A port \in Nat : HostNameAndPort(s, port) \in Address
         /\ PublicAddress(s) \in Address
<1> DEFINE At(i) == [name |-> SubSeq(s, 1, i - 1), port |-> Atoi(SubSeq(s, i + 1, Len(s)))]
<1>1. Len(s) \in Nat /\ DOMAIN s = 1 .. Len(s) /\ << >> \in Text
  BY DEF Text
<1>2. \A i \in Colons(s) : At(i) \in Address
  <2>1. \A i \in Colons(s) : i \in 1 .. Len(s)
    BY <1>1 DEF Colons
  <2>2. QED
    BY <2>1, PartsOfText, AtoiIsNumber DEF Address
<1>3. Colons(s) # {} => Max(Colons(s)) \in Colons(s)
  <2>1. Colons(s) \in SUBSET (0 .. Len(s))
    BY <1>1 DEF Colons
  <2>2. QED
    BY <1>1, <2>1, GreatestExists
<1> HIDE DEF At
<1>4. \A port \in Nat : HostNameAndPort(s, port) \in Address
  <2> SUFFICES ASSUME NEW port \in Nat PROVE HostNameAndPort(s, port) \in Address
    OBVIOUS
  <2>1. /\ [name |-> << >>, port |-> 0] \in Address
        /\ [name |-> s, port |-> port] \in Address
    BY <1>1 DEF Address
  <2>2. HostNameAndPort(s, port) = IF s = << >> THEN [name |-> << >>, port |-> 0]
                                   ELSE IF Colons(s) = {} THEN [name |-> s, port |-> port]
                                   ELSE At(Max(Colons(s)))
    BY DEF HostNameAndPort, At
  <2>3. QED
    BY <1>2, <1>3, <2>1, <2>2
<1>5. PublicAddress(s) \in Address
  <2>1. /\ [name |-> << >>, port |-> SchemePort] \in Address
        /\ [name |-> s, port |-> SchemePort] \in Address
    BY <1>1, ExchangeAssumption DEF Address
  <2>2. NamesPort(s) => (CHOOSE i \in Colons(s) : PortAfter(s, i)) \in Colons(s)
    BY DEF NamesPort
  <2>3. PublicAddress(s) = IF IsName(s) THEN [name |-> s, port |-> SchemePort]
                           ELSE IF NamesPort(s)
                           THEN At(CHOOSE i \in Colons(s) : PortAfter(s, i))
                           ELSE [name |-> << >>, port |-> SchemePort]
    BY DEF PublicAddress, At
  <2>4. QED
    BY <1>2, <2>1, <2>2, <2>3
<1>6. QED
  BY <1>4, <1>5

(* The default port comes from the server or from an address that was      *)
(* found, and what is found has a name and a number.                       *)
PortInv ==
  /\ filter \in {"bearer_auth", "mac_auth"}
  /\ phase = "compose" => wire.server = NoField
  /\ default \in Nat

LEMMA ServerType ==
  ASSUME WireInv, phase # "compose" PROVE wire.server \in Address
<1>1. ASSUME NEW mount, NEW keepsUri, wire = FromClient(mount, keepsUri)
      PROVE  wire.server \in Address
  <2>1. client.host \in Text /\ wire.server = PublicAddress(client.host)
    BY <1>1 DEF WireInv, ClientRequest, FromClient, Arriving
  <2>2. QED
    BY <2>1, AddressTypes
<1>2. ASSUME NEW i \in Internals, wire = FromProxy(i) PROVE wire.server \in Address
  <2>1. wire.server = i.server /\ i.server \in Address
    BY <1>2, ExchangeAssumption DEF FromProxy, Arriving, Internal
  <2>2. QED
    BY <2>1
<1>3. QED
  BY <1>1, <1>2 DEF WireInv, Arrived

LEMMA FoundType ==
  ASSUME Scanned, PortInv PROVE found \in SUBSET Address
<1>1. HostNameAndPort(text, default) \in Address
  BY AddressTypes DEF Scanned, PortInv
<1>2. QED
  BY <1>1 DEF Scanned, HostIsCut

LEMMA PortStep == Inv /\ PortInv /\ [Next]_vars => PortInv'
<1> SUFFICES ASSUME Inv, PortInv, [Next]_vars PROVE PortInv'
  OBVIOUS
<1>1. CASE ReadOwnHost
  <2>1. wire.server \in Address
    BY <1>1, ServerType DEF Inv, ReadOwnHost, MacReady
  <2>2. QED
    BY <1>1, <2>1 DEF PortInv, ReadOwnHost, BeginScan, Address
<1>2. CASE ReadOriginalHost
  <2>1. wire.server \in Address /\ found \in SUBSET Address
    BY <1>2, ServerType, FoundType DEF Inv, ScanInv, ReadOriginalHost
  <2>2. \A hnp \in found : OwnAddress(wire, hnp) \in Address
    BY <2>1 DEF OwnAddress
  <2>3. PICK hnp \in found : default' = OwnAddress(wire, hnp).port
    BY <1>2 DEF ReadOriginalHost, BeginScan
  <2>4. default' \in Nat
    BY <2>2, <2>3 DEF Address
  <2>5. QED
    BY <1>2, <2>4 DEF PortInv, ReadOriginalHost
<1>3. ASSUME UNCHANGED <<filter, default>>, phase' # "compose" PROVE PortInv'
  BY <1>3 DEF PortInv
<1>4. CASE ScanHost
  <2>1. UNCHANGED <<filter, phase, default>> /\ phase # "compose"
    BY <1>4 DEF ScanHost, Scan, PassCharacter, MeetColon, MeetEnd
  <2>2. QED
    BY <1>3, <2>1
<1>5. CASE UNCHANGED vars
  BY <1>5 DEF vars, scan, PortInv
<1>6. QED
  BY <1>1, <1>2, <1>3, <1>4, <1>5
     DEF Next, Send, Forward, Challenge, Refuse, PassToken, PassWithoutHost, PassOwn,
         PassOriginal, MacReady, Done, Reply, PassHeader, scan

(* Type correctness: ports are numbers, names are texts, and an exchange   *)
(* is done exactly when it has an answer.                                  *)
THEOREM Typing == Spec => []TypeOK
<1>1. Init => PortInv
  BY DEF Init, ScanInit, PortInv
<1>2. Inv /\ PortInv => TypeOK
  <2> SUFFICES ASSUME Inv, PortInv PROVE TypeOK
    OBVIOUS
  <2>1. wire.server \in Address \cup {NoField}
    BY ServerType DEF Inv, PortInv
  <2>2. found \in SUBSET Address
    BY FoundType DEF Inv, ScanInv
  <2>3. proxied \in SUBSET SUBSET {"method", "host", "url"}
    <3>1. \A i \in Internals : i.fields \in SUBSET {"method", "host", "url"}
      BY ExchangeAssumption DEF Internal
    <3>2. QED
      BY <3>1 DEF Inv, WireInv, Arrived
  <2>4. phase = "done" => answer # NoAnswer
    BY DEF Inv, AnswerInv, Answers, HeaderAnswer, HeaderOf, NoAnswer
  <2>5. QED
    BY <2>1, <2>2, <2>3, <2>4 DEF Inv, WireInv, ScanInv, Scanned, AnswerInv, PortInv, TypeOK
<1>3. QED
  BY <1>1, <1>2, Invariance, PortStep, PTL DEF Spec

-----------------------------------------------------------------------------
(* Of a space and a token the parser keeps the token.                      *)
LEMMA TokenTaken ==
  ASSUME NEW s \in Seq(TokenChar \cup {Space}), Len(s) \in 2 .. MaxToken + 1,
         \A j \in DOMAIN s : (s[j] = Space) = (j = 1)
  PROVE  BearerToken(s) = Tail(s) /\ Tail(s) # << >>
<1> DEFINE l == Len(s)
           A == Seq(TokenChar)
           Longer(x, i) ==
             IF s[i] \in TokenChar /\ Len(x) < MaxToken THEN Append(x, s[i]) ELSE x
           E(f) == [i \in 0 .. l |-> IF i = 0 THEN << >> ELSE Longer(f[i - 1], i)]
           t == CHOOSE f : f = E(f)
<1>1. /\ l \in Nat /\ l >= 2 /\ l <= MaxToken + 1 /\ MaxToken \in Nat
      /\ << >> \in A /\ s[1] \notin TokenChar
      /\ \A i \in 2 .. l : s[i] \in TokenChar
  BY GrammarAssumption
<1>2. BearerToken(s) = t[l]
  BY DEF BearerToken
<1>3. Tail(s) \in A /\ Len(Tail(s)) = l - 1 /\ \A j \in 1 .. l - 1 : Tail(s)[j] = s[j + 1]
  <2>1. /\ Tail(s) \in Seq(TokenChar \cup {Space}) /\ Len(Tail(s)) = l - 1
        /\ \A j \in 1 .. l - 1 : Tail(s)[j] = s[j + 1]
    BY <1>1
  <2>2. s # << >> /\ Tail(s) = SubSeq(s, 2, Len(s))
    BY <1>1, TailIsSubSeq
  <2>3. SubSeq(s, 2, Len(s)) \in Seq(TokenChar)
    BY <1>1, SubSeqProperties
  <2>4. QED
    BY <2>1, <2>2, <2>3
<1> HIDE DEF l
<1>4. t = E(t)
  <2> DEFINE G == [i \in 1 .. l |-> [x \in A |-> Longer(x, i)]]
  <2>1. \A i \in 1 .. l : \A x \in A : Longer(x, i) \in A
    OBVIOUS
  <2> HIDE DEF Longer, A
  <2>2. G \in Steps(l, A)
    BY <2>1 DEF Steps
  <2>3. \A i \in 1 .. l : \A x \in A : G[i][x] = Longer(x, i)
    OBVIOUS
  <2> HIDE DEF G
  <2>4. PICK f : Iterates(f, l, A, << >>, G)
    BY <1>1, <2>2, Recursion DEF A
  <2>5. /\ f \in [0 .. l -> A] /\ f[0] = << >>
        /\ \A i \in 1 .. l : f[i] = G[i][f[i - 1]]
    BY <2>4 DEF Iterates
  <2>6. \A i \in 1 .. l : f[i - 1] \in A
    BY <1>1, <2>5
  <2>7. \A i \in 1 .. l : f[i] = Longer(f[i - 1], i)
    BY <2>3, <2>5, <2>6
  <2>8. f = E(f)
    BY <2>5, <2>7
  <2> HIDE DEF E
  <2>9. QED
    BY <2>8
<1> HIDE DEF t
<1> DEFINE Taken(k) == /\ t[k] \in A /\ Len(t[k]) = k - 1
                       /\ \A j \in 1 .. k - 1 : t[k][j] = s[j + 1]
           S == {k \in Nat : k + 1 <= l => Taken(k + 1)}
<1>5. 0 \in S
  <2>1. t[0] = << >> /\ t[1] = Longer(t[0], 1)
    <3> HIDE DEF Longer
    <3>1. QED
      BY <1>1, <1>4
  <2>2. t[1] = << >>
    BY <1>1, <2>1
  <2>3. Taken(1)
    BY <1>1, <2>2
  <2> HIDE DEF Taken
  <2>4. QED
    BY <2>3
<1>6. ASSUME NEW k \in S PROVE k + 1 \in S
  <2> SUFFICES ASSUME k + 2 <= l PROVE Taken(k + 2)
    OBVIOUS
  <2>1. Taken(k + 1) /\ k \in Nat
    BY <1>1
  <2>2. s[k + 2] \in TokenChar /\ Len(t[k + 1]) < MaxToken
    BY <1>1, <2>1
  <2>3. t[k + 2] = Longer(t[k + 1], k + 2)
    <3> HIDE DEF Longer
    <3>1. QED
      BY <1>1, <1>4
  <2>4. /\ t[k + 2] \in A /\ Len(t[k + 2]) = k + 1
        /\ \A j \in 1 .. k : t[k + 2][j] = t[k + 1][j]
        /\ t[k + 2][k + 1] = s[k + 2]
    BY <2>1, <2>2, <2>3
  <2>5. QED
    BY <2>1, <2>4
<1>7. S = Nat
  <2> HIDE DEF S
  <2>1. S \in SUBSET Nat
    BY DEF S
  <2>2. QED
    BY <1>5, <1>6, <2>1, NatSetInduction
<1>8. Taken(l)
  <2> HIDE DEF Taken
  <2>1. l - 1 \in Nat /\ (l - 1) + 1 = l
    BY <1>1
  <2>2. QED
    BY <1>7, <2>1
<1>9. t[l] = Tail(s)
  BY <1>1, <1>3, <1>8, SeqEqual
<1>10. QED
  BY <1>1, <1>2, <1>3, <1>9

(* Every token of a length the parser takes, of any characters, is the one *)
(* the function is called with.                                            *)
THEOREM TokenDelivery == Spec => []TokenDelivered
<1>1. Inv => TokenDelivered
  <2> SUFFICES ASSUME Inv, phase = "done", filter = "bearer_auth",
                      client.auth.scheme = "Bearer", WellFormedBearer(client.auth)
               PROVE  answer.op = "token" /\ answer.token = Tail(client.auth.chars)
    BY DEF TokenDelivered
  <2>1. wire.auth = client.auth
    BY ArrivedFields DEF Inv
  <2>2. client.auth \in Authorization
    BY DEF Inv, WireInv, ClientRequest
  <2>3. client.auth.chars \in Seq(TokenChar \cup {Space}) /\ ~IsMissing(client.auth)
    BY <2>2 DEF Authorization, Absent, Empty, IsMissing
  <2>4. /\ BearerToken(client.auth.chars) = Tail(client.auth.chars)
        /\ BearerToken(client.auth.chars) # << >>
    BY <2>3, TokenTaken DEF WellFormedBearer
  <2>5. Accepts(wire.auth) /\ ~IsMissing(wire.auth)
    BY <2>1, <2>3, <2>4 DEF Accepts, AcceptsBearer
  <2>6. answer = [op |-> "token", token |-> BearerToken(wire.auth.chars)]
    BY <2>5 DEF Inv, AnswerInv, Answers
  <2>7. QED
    BY <2>1, <2>4, <2>6
<1>2. QED
  BY <1>1, Invariance, PTL
=============================================================================
