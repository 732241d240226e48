---------------------------- MODULE AuthExchange ----------------------------
(***************************************************************************)
(* A client that authenticates a request, a proxy the request may pass,    *)
(* and the server that takes from it what the client signed.  The client   *)
(* and the proxy are not part of the repository: the client signs what the *)
(* comments on normalize() say, the proxy does what those in mac_auth say. *)
(***************************************************************************)
EXTENDS HostHeader, AuthHeader

CONSTANTS Method,         (* the HTTP methods                               *)
          UpperCase,      (* the upper case of a method, as a function      *)
          Segment,        (* the parts of a URI but the question mark       *)
          Mark,           (* the question mark                              *)
          SchemePort,     (* the default port of the scheme                 *)
          NoField,        (* a header field that is absent, or an empty     *)
                          (* X-Auth-Method                                  *)
          Mounts,         (* the script names of applications               *)
          ClientRequests, (* what clients send                              *)
          Internals       (* what proxies make of it                        *)

Uri == Seq(Segment \cup {Mark})

(* What a client composes, before it signs it *)
ClientRequest ==
  [method : Method, uri : Uri, host : Text, auth : Authorization]

(* Where a proxy sends a request: the X-Auth fields it adds, the rest of   *)
(* the forwarded request, and the address of the server                    *)
Internal ==
  [fields : SUBSET {"method", "host", "url"},
   method : Method, uri : Uri, host : Text, server : Address]

ASSUME ExchangeAssumption ==
  /\ UpperCase \in [Method -> Method]
  /\ Mark \notin Segment
  /\ Mounts \subseteq Seq(Segment)
  /\ SchemePort \in Nat \ {0}
  /\ NoField \notin Text \cup Uri \cup Method
  /\ ClientRequests \subseteq ClientRequest
  /\ Internals \subseteq Internal

VARIABLES filter,  (* the filter of the server: "bearer_auth" or "mac_auth" *)
          client,  (* the request of the client                             *)
          wire,    (* the request as it arrives at the server               *)
          proxied, (* the fields a proxy added, in a set; empty without one *)
          phase,   (* "compose", "wire", a scan of "own" or "original", or  *)
                   (* "done"                                                *)
          answer   (* a reply, or what the function was called with         *)

vars == <<filter, client, wire, proxied, phase, answer, scan>>

NoAnswer == [op |-> "none"]

Init ==
  /\ filter \in {"bearer_auth", "mac_auth"}
  /\ client \in ClientRequests
  /\ wire = [server |-> NoField]
  /\ proxied = {}
  /\ phase = "compose"
  /\ answer = NoAnswer
  /\ ScanInit

-----------------------------------------------------------------------------
(* What a Host header says to a client: a name, and a port unless it is    *)
(* the default one of the scheme.                                          *)
IsName(s) == s # << >> /\ \A i \in DOMAIN s : s[i] \in Letter

PortAfter(s, i) ==
  /\ i < Len(s) /\ IsName(SubSeq(s, 1, i - 1))
  /\ \A j \in i + 1 .. Len(s) : s[j] \in Digit

NamesPort(s) == \E i \in Colons(s) : PortAfter(s, i)

PublicAddress(s) ==
  IF IsName(s) THEN [name |-> s, port |-> SchemePort]
  ELSE IF NamesPort(s)
  THEN LET i == CHOOSE i \in Colons(s) : PortAfter(s, i)
       IN [name |-> SubSeq(s, 1, i - 1), port |-> Atoi(SubSeq(s, i + 1, Len(s)))]
  ELSE [name |-> << >>, port |-> SchemePort]

(* The variables a front server makes of a URI: the script name, the path  *)
(* within the application, the query string, and often the URI itself.     *)
PathEnd(uri) == Min({Len(uri) + 1} \cup {i \in DOMAIN uri : uri[i] = Mark})

Arriving(method, uri, host, auth, server, mount, keepsUri) ==
  [method |-> method, host |-> host, auth |-> auth, server |-> server,
   request_uri  |-> IF keepsUri THEN uri ELSE << >>,
   script_name  |-> mount,
   path_info    |-> SubSeq(uri, Len(mount) + 1, PathEnd(uri) - 1),
   query_string |-> SubSeq(uri, PathEnd(uri) + 1, Len(uri)),
   xmethod |-> NoField, xhost |-> NoField, xurl |-> NoField]

Send ==
  /\ phase = "compose"
  /\ \E keepsUri \in BOOLEAN, mount \in Mounts :
       /\ IsPrefix(mount, client.uri)
       /\ wire' = Arriving(client.method, client.uri, client.host, client.auth,
                           PublicAddress(client.host), mount, keepsUri)
  /\ phase' = "wire"
  /\ UNCHANGED <<filter, client, proxied, answer, scan>>

(* The proxy keeps the Authorization header and adds the original method,  *)
(* Host header and URL.                                                    *)
Forward ==
  /\ phase = "wire"
  /\ proxied = {}
  /\ \E i \in Internals :
       /\ wire' = [Arriving(i.method, i.uri, i.host, wire.auth, i.server, << >>, TRUE) EXCEPT
                     !.xmethod = IF "method" \in i.fields THEN client.method ELSE NoField,
                     !.xhost   = IF "host" \in i.fields THEN client.host ELSE NoField,
                     !.xurl    = IF "url" \in i.fields THEN client.uri ELSE NoField]
       /\ proxied' = {i.fields}
  /\ UNCHANGED <<filter, client, phase, answer, scan>>

-----------------------------------------------------------------------------
(* uri() of the request *)
UriOf(req) ==
  IF req.request_uri # << >> THEN req.request_uri
  ELSE req.path_info \o (IF req.query_string = << >> THEN << >>
                         ELSE <<Mark>> \o req.query_string)

(* host_name_and_port() of the request, once its Host header is scanned *)
OwnAddress(req, hnp) == IF hnp.name = << >> THEN req.server ELSE hnp

NormRequest(header, method, address, uri) ==
  [ts |-> header.ts, nonce |-> header.nonce, method |-> method, uri |-> uri,
   host |-> address.name, port |-> address.port, ext |-> header.ext]

(* The elements of the normalized string, each of them on a line *)
Normalize(r) ==
  <<r.ts, r.nonce, UpperCase[r.method], r.uri, ToLower(r.host), r.port, r.ext>>

-----------------------------------------------------------------------------
Reply(a) == phase' = "done" /\ answer' = a

Accepts(auth) == IF filter = "mac_auth" THEN AcceptsMac(auth) ELSE AcceptsBearer(auth)

Challenge ==
  /\ phase = "wire"
  /\ IsMissing(wire.auth)
  /\ Reply([op |-> "challenge"])
  /\ UNCHANGED <<filter, client, wire, proxied, scan>>

Refuse ==
  /\ phase = "wire"
  /\ ~IsMissing(wire.auth) /\ ~Accepts(wire.auth)
  /\ Reply([op |-> "bad_request"])
  /\ UNCHANGED <<filter, client, wire, proxied, scan>>

PassToken ==
  /\ phase = "wire"
  /\ filter = "bearer_auth" /\ AcceptsBearer(wire.auth)
  /\ Reply([op |-> "token", token |-> BearerToken(wire.auth.chars)])
  /\ UNCHANGED <<filter, client, wire, proxied, scan>>

PassHeader(method, address, uri) ==
  Reply([op   |-> "header",
         header |-> MacHeader(wire.auth),
         norm |-> NormRequest(MacHeader(wire.auth), method, address, uri)])

MacReady == phase = "wire" /\ filter = "mac_auth" /\ AcceptsMac(wire.auth)

(* The port of the request, the default for X-Auth-Host, is the one of its *)
(* own Host header, so that header is scanned in either case.              *)
ReadOwnHost ==
  /\ MacReady
  /\ wire.xmethod = NoField \/ wire.xhost # NoField
  /\ phase' = "own"
  /\ BeginScan(wire.host, wire.server.port)
  /\ UNCHANGED <<filter, client, wire, proxied, answer>>

Original(field) == IF field = NoField THEN << >> ELSE field

(* Without X-Auth-Host there is no host to read. *)
PassWithoutHost ==
  /\ MacReady
  /\ wire.xmethod # NoField /\ wire.xhost = NoField
  /\ PassHeader(wire.xmethod, [name |-> << >>, port |-> 0], Original(wire.xurl))
  /\ UNCHANGED <<filter, client, wire, proxied, scan>>

PassOwn ==
  /\ phase = "own"
  /\ wire.xmethod = NoField
  /\ \E hnp \in found : PassHeader(wire.method, OwnAddress(wire, hnp), UriOf(wire))
  /\ UNCHANGED <<filter, client, wire, proxied, scan>>

(* The Host header of the request that arrived *)
ForwardedHost(req) == req.host

(* X-Auth-Host *)
OriginalHost(req) == req.xhost

ReadOriginalHost ==
  /\ phase = "own"
  /\ wire.xmethod # NoField
  /\ \E hnp \in found : BeginScan(OriginalHost(wire), OwnAddress(wire, hnp).port)
  /\ phase' = "original"
  /\ UNCHANGED <<filter, client, wire, proxied, answer>>

PassOriginal ==
  /\ phase = "original"
  /\ \E hnp \in found : PassHeader(wire.xmethod, hnp, Original(wire.xurl))
  /\ UNCHANGED <<filter, client, wire, proxied, scan>>

ScanHost ==
  /\ phase \in {"own", "original"}
  /\ Scan
  /\ UNCHANGED <<filter, client, wire, proxied, phase, answer>>

Done == phase = "done" /\ UNCHANGED vars

Next ==
  \/ Send \/ Forward
  \/ Challenge \/ Refuse \/ PassToken
  \/ ReadOwnHost \/ PassWithoutHost \/ PassOwn
  \/ ReadOriginalHost \/ PassOriginal
  \/ ScanHost
  \/ Done

Spec == Init /\ [][Next]_vars

-----------------------------------------------------------------------------
(* The state of an exchange. *)
TypeOK ==
  /\ filter \in {"bearer_auth", "mac_auth"}
  /\ client \in ClientRequest
  /\ phase \in {"compose", "wire", "own", "original", "done"}
  /\ proxied \in SUBSET SUBSET {"method", "host", "url"}
  /\ wire.server \in Address \cup {NoField}
  /\ text \in Text /\ default \in Nat
  /\ at \in 0 .. Len(text) /\ pos = at
  /\ found \in SUBSET Address
  /\ (phase = "done") = (answer # NoAnswer)

(* A header whose attributes are whole, quoted where they have to be, and  *)
(* each of them there once                                                 *)
WellFormedMac(auth) ==
  LET attributes == auth.attributes
  IN /\ \A j \in DOMAIN attributes : IsPair(attributes[j]) /\ IsWhole(attributes[j])
     /\ \A j, k \in DOMAIN attributes : attributes[j].key = attributes[k].key => j = k
     /\ \A key \in Required : \E j \in DOMAIN attributes : attributes[j].key = key

WellFormedBearer(auth) ==
  /\ Len(auth.chars) \in 2 .. MaxToken + 1
  /\ \A j \in DOMAIN auth.chars : (auth.chars[j] = Space) = (j = 1)

(* What the client put into the header *)
Sent(auth, key) ==
  LET sent == {j \in DOMAIN auth.attributes : auth.attributes[j].key = key}
  IN IF sent = {} THEN NoChars ELSE auth.attributes[CHOOSE j \in sent : TRUE].value

Credentials(auth) ==
  [id |-> Sent(auth, "id"), ts |-> Number[Sent(auth, "ts")],
   nonce |-> Sent(auth, "nonce"), ext |-> Sent(auth, "ext"), mac |-> Sent(auth, "mac")]

(* The attributes a client sends are those the function is called with, in *)
(* any order, with or without the optional and unknown ones; values that   *)
(* are missing are refused (mac.hpp:51-150).                               *)
CredentialsDelivered ==
  phase = "done" /\ filter = "mac_auth" /\ client.auth.scheme = "MAC"
    /\ WellFormedMac(client.auth) =>
      IF IsComplete(Credentials(client.auth))
      THEN answer.op = "header" /\ answer.header = Credentials(client.auth)
      ELSE answer.op = "bad_request"

(* The token a client sends after a space, of any length the parser takes, *)
(* is the one the function is called with (bearer.hpp:47-56).              *)
TokenDelivered ==
  phase = "done" /\ filter = "bearer_auth" /\ client.auth.scheme = "Bearer"
    /\ WellFormedBearer(client.auth) =>
      answer.op = "token" /\ answer.token = Tail(client.auth.chars)

(* The elements the client signs, by the comment on normalize()            *)
Signed ==
  <<Credentials(client.auth).ts, Credentials(client.auth).nonce,
    UpperCase[client.method], client.uri,
    ToLower(PublicAddress(client.host).name), PublicAddress(client.host).port,
    Credentials(client.auth).ext>>

Direct == proxied = {}
ThroughProxy == proxied = {{"method", "host", "url"}}

(* Is the URI known to a request that arrives without REQUEST_URI?         *)
KeepsUri ==
  \/ ThroughProxy
  \/ wire.request_uri # << >>
  \/ wire.script_name = << >> /\ PathEnd(client.uri) # Len(client.uri)

KeepsPort == NamesPort(client.host) \/ (Direct /\ IsName(client.host))

(* "The client and server can both calculate the request MAC over the      *)
(* exact same value" (mac.hpp:196-200), also when a proxy replaced the     *)
(* method, the URI and the Host header: of every port the Host header      *)
(* names, and of the default port for a request that came directly.        *)
SameValue ==
  answer.op = "header" /\ WellFormedMac(client.auth)
    /\ (Direct \/ ThroughProxy) /\ KeepsUri /\ KeepsPort
    => Normalize(answer.norm) = Signed

(* "If the header field does not include a port, the default value for the *)
(* scheme MUST be used" (mac.hpp:330-333): for X-Auth-Host, too.           *)
DefaultPort ==
  answer.op = "header" /\ IsName(client.host) /\ (Direct \/ ThroughProxy)
    => answer.norm.port = SchemePort
=============================================================================
