----------------------------- MODULE AuthHeader -----------------------------
(***************************************************************************)
(* The grammars of the Authorization header, and the header record of MAC  *)
(* authentication.  White space is skipped everywhere but in quotes, and   *)
(* what follows the longest match is ignored: phrase_parse says whether a  *)
(* match was found, and nobody asks where it ended.                        *)
(***************************************************************************)
EXTENDS Integers, SequencesExt

CONSTANTS TokenChar,  (* the characters of a bearer token                   *)
          Space,
          MaxToken,   (* how many of them the parser takes                  *)
          Key,        (* the names of attributes                            *)
          Value,      (* the values of attributes                           *)
          NoChars,    (* the value without characters                       *)
          TooLong,    (* the values longer than a quoted one may be         *)
          WordPart,   (* the letters, digits and underscores a value starts *)
                      (* with, as a function                                *)
          Number      (* what lexical_cast makes of a value, 0 if it throws *)

Required == {"id", "ts", "nonce", "mac"}

ASSUME GrammarAssumption ==
  /\ Space \notin TokenChar
  /\ MaxToken \in Nat \ {0}
  /\ Required \cup {"ext"} \subseteq Key
  /\ NoChars \in Value \ TooLong
  /\ TooLong \subseteq Value
  /\ WordPart \in [Value -> Value]
  /\ WordPart[NoChars] = NoChars
  /\ Number \in [Value -> Int]
  /\ Number[NoChars] = 0

(* key="value" or key=value *)
Attribute == [key : Key, value : Value, quoted : BOOLEAN]

(* What is sent: nothing, an empty text, or a scheme and what follows it *)
Absent == [scheme |-> "absent"]
Empty  == [scheme |-> "empty"]

Authorization ==
  {Absent, Empty}
    \cup [scheme : {"Bearer"}, chars : Seq(TokenChar \cup {Space})]
    \cup [scheme : {"MAC"}, attributes : Seq(Attribute)]

IsMissing(auth) == auth \in {Absent, Empty}

-----------------------------------------------------------------------------
(* A match of the characters as they are, up to a space *)
UnskippedToken(chars) ==
  LET n == Max({k \in 0 .. Len(chars) : \A i \in 1 .. k : chars[i] \in TokenChar})
  IN SubSeq(chars, 1, Min({MaxToken, n}))

(* The parser takes one character after the other, skips white space, and  *)
(* stops at the limit without an error.                                    *)
BearerToken(chars) ==
  LET token[i \in 0 .. Len(chars)] ==
        IF i = 0 THEN << >>
        ELSE IF chars[i] \in TokenChar /\ Len(token[i - 1]) < MaxToken
        THEN Append(token[i - 1], chars[i])
        ELSE token[i - 1]
  IN token[Len(chars)]

AcceptsBearer(auth) == auth.scheme = "Bearer" /\ BearerToken(auth.chars) # << >>

-----------------------------------------------------------------------------
(* An unquoted value ends before the first character that is not allowed,  *)
(* and so does the match, which only a comma continues.                    *)
ValueOf(a) == IF a.quoted THEN a.value ELSE WordPart[a.value]

IsPair(a) == IF a.quoted THEN a.value \notin TooLong ELSE WordPart[a.value] # NoChars

IsWhole(a) == a.quoted \/ WordPart[a.value] = a.value

Matched(attributes) ==
  Max({n \in 0 .. Len(attributes) :
         \A i \in 1 .. n : /\ IsPair(attributes[i])
                           /\ i < n => IsWhole(attributes[i])})

(* The pairs but the last, as if the separator ended one *)
SeparatedPairs(attributes) ==
  SubSeq(attributes, 1, Max({0, Matched(attributes) - 1}))

Pairs(attributes) == SubSeq(attributes, 1, Matched(attributes))

(* The map is filled by insertions: of two equal keys the first one stays. *)
Find(pairs, key) ==
  LET at == {i \in DOMAIN pairs : pairs[i].key = key}
  IN IF at = {} THEN NoChars ELSE ValueOf(pairs[Min(at)])

FromDict(pairs) ==
  [id |-> Find(pairs, "id"), ts |-> Number[Find(pairs, "ts")],
   nonce |-> Find(pairs, "nonce"), ext |-> Find(pairs, "ext"),
   mac |-> Find(pairs, "mac")]

IsComplete(header) ==
  /\ header.id # NoChars
  /\ header.ts >= 1
  /\ header.nonce # NoChars
  /\ header.mac # NoChars

MacHeader(auth) == FromDict(Pairs(auth.attributes))

AcceptsMac(auth) ==
  /\ auth.scheme = "MAC"
  /\ Len(Pairs(auth.attributes)) >= 2
  /\ IsComplete(MacHeader(auth))
=============================================================================
