--------------------------- MODULE MCAuthExchange ---------------------------
(***************************************************************************)
(* Instances of AuthExchange for TLC: every Host header up to MaxHost      *)
(* characters, and a few of everything else a client may vary.             *)
(***************************************************************************)
EXTENDS AuthExchange

CONSTANTS a, A, b, get, Get, post, app, path, query, t, u,
          MaxHost  (* bound: the length of a Host header *)

MCLowerCase == [l \in {a, A, b} |-> IF l = A THEN a ELSE l]
MCUpperCase == [m \in {get, Get, post} |-> IF m = get THEN Get ELSE m]

(* Values: "k+v" has a plus sign and cannot go without quotes; "long" does *)
(* not fit between quotes, and is cut without them.                        *)
MCValue    == {"", "7", "0", "k", "v", "k+v", "long"}
MCTooLong  == {"long"}
MCWordPart == [v \in MCValue |-> CASE v = "k+v" -> "k" [] v = "long" -> "v" [] OTHER -> v]
MCNumber   == [v \in MCValue |-> IF v = "7" THEN 7 ELSE 0]
MCKey      == {"id", "ts", "nonce", "mac", "ext", "other"}

Quoted(k, v)   == [key |-> k, value |-> v, quoted |-> TRUE]
Unquoted(k, v) == [key |-> k, value |-> v, quoted |-> FALSE]
Mac(s)         == [scheme |-> "MAC", attributes |-> s]
Bearer(s)      == [scheme |-> "Bearer", chars |-> s]

Four == {Quoted("id", "k"), Unquoted("ts", "7"), Quoted("nonce", "v"), Quoted("mac", "k+v")}
Five == Four \cup {Quoted("ext", "k+v")}
Six  == <<Unquoted("other", "k"), Quoted("ext", ""), Quoted("id", "k+v"),
          Unquoted("nonce", "v"), Unquoted("ts", "7"), Quoted("mac", "v")>>

(* The attributes in every order, one of them replaced or said again.      *)
Orders  == SetToSeqs(Four)
Plain   == CHOOSE s \in SetToSeqs(Five) : s[5].key = "ext" /\ s[1].key = "id"
Others  == {Quoted("id", ""), Unquoted("ts", "0"), Quoted("nonce", "long"),
            Unquoted("nonce", "long"), Unquoted("mac", "k+v"), Unquoted("mac", ""),
            Unquoted("ext", "k"), Quoted("other", "v")}
Broken  == {[Plain EXCEPT ![n] = o] : n \in 1 .. 5, o \in Others}
            \cup {Append(Plain, o) : o \in Others}
            \cup {SubSeq(Plain, 1, n) : n \in 0 .. 4}

Auths == {Absent, Empty} \cup {Mac(s) : s \in Orders \cup Broken \cup {Plain, Six}}
           \cup {Bearer(s) : s \in BoundedSeq({t, u, Space}, MaxToken + 2)}

Asks(m, uri, host, auth) == [method |-> m, uri |-> uri, host |-> host, auth |-> auth]

Hosts == {<<a, A>>, <<A, Colon, 8>>, <<a, Colon, 8, 0>>}
Uris  == {<<path>>, <<app, path>>, <<path, Mark>>, <<app, path, Mark, query>>, <<path, Mark, query>>}

MCClientRequests ==
  {Asks(Get, <<path>>, h, Mac(Plain)) : h \in BoundedSeq({A, Colon, 8, 0}, MaxHost)}
    \cup {Asks(get, <<path>>, <<A, Colon, 8>>, auth) : auth \in Auths}
    \cup {Asks(m, uri, h, Mac(Plain)) : m \in {get, post}, uri \in Uris, h \in Hosts}

MCMounts == {<< >>, <<app>>}

(* Clients and proxies that do without a port and with a Host header *)
ProxyClientRequests == {Asks(get, <<path>>, h, Mac(Plain)) : h \in {<<a>>, <<A, b>>}}

Backend(port) == [name |-> <<b>>, port |-> port]

MCInternals ==
  [fields : SUBSET {"method", "host", "url"}, method : {get}, uri : {<<app>>},
   host : {<< >>, <<b>>, <<b, Colon, 8>>}, server : {Backend(88)}]

ProxyInternals == {n \in MCInternals : n.host # << >>}
=============================================================================
