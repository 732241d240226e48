----------------------------- MODULE HostHeader -----------------------------
(***************************************************************************)
(* host_name_and_port: the loop that looks for the last colon of a Host    *)
(* header, from the end of the text, and what the loop is to compute.  A   *)
(* text is a sequence of characters; blanks and signs, which atoi would    *)
(* skip, do not occur in a Host header, and no port is as long as to       *)
(* overflow an int.                                                        *)
(***************************************************************************)
EXTENDS Integers, SequencesExt

CONSTANTS Letter,     (* the characters of a name                           *)
          LowerCase,  (* the lower case of a letter, as a function          *)
          Colon

Digit == 0 .. 9
Char  == Letter \cup Digit \cup {Colon}
Text  == Seq(Char)

ASSUME CharAssumption ==
  /\ Letter \cap Digit = {}
  /\ Colon \notin Letter \cup Digit
  /\ LowerCase \in [Letter -> Letter]

Address == [name : Text, port : Nat]

VARIABLES text,     (* host_header                                          *)
          default,  (* default_port                                         *)
          at,       (* the characters the reverse iterator has not passed   *)
          pos,      (* the position counted along with it                   *)
          found     (* the result, in a set; empty while the loop runs      *)

scan == <<text, default, at, pos, found>>

-----------------------------------------------------------------------------
(* atoi reads the leading digits, and 0 when there are none. *)
LeadingDigits(s) ==
  SubSeq(s, 1, Max({n \in 0 .. Len(s) : \A i \in 1 .. n : s[i] \in Digit}))

Atoi(s) ==
  LET digits == LeadingDigits(s)
      n[i \in 0 .. Len(digits)] == IF i = 0 THEN 0 ELSE 10 * n[i - 1] + digits[i]
  IN n[Len(digits)]

ToLower(s) == [i \in DOMAIN s |-> IF s[i] \in Letter THEN LowerCase[s[i]] ELSE s[i]]

(* The text before and after the last colon, if there is one. *)
Colons(s) == {i \in DOMAIN s : s[i] = Colon}

HostNameAndPort(s, port) ==
  IF s = << >> THEN [name |-> << >>, port |-> 0]
  ELSE IF Colons(s) = {} THEN [name |-> s, port |-> port]
  ELSE LET last == Max(Colons(s))
       IN [name |-> SubSeq(s, 1, last - 1), port |-> Atoi(SubSeq(s, last + 1, Len(s)))]

-----------------------------------------------------------------------------
ScanInit ==
  /\ text = << >>
  /\ default = 0
  /\ at = 0
  /\ pos = 0
  /\ found = {}

BeginScan(s, port) ==
  /\ text' = s
  /\ default' = port
  /\ at' = Len(s)
  /\ pos' = Len(s)
  /\ found' = IF Len(s) < 1 THEN {[name |-> << >>, port |-> 0]} ELSE {}

(* The position is the one of the character before the iterator. *)
CutBefore(s, p) ==
  [name |-> SubSeq(s, 1, p - 2), port |-> Atoi(SubSeq(s, p, Len(s)))]

(* substr(0, pos - 1), and atoi of what c_str() + pos points to *)
Cut(s, p) ==
  [name |-> SubSeq(s, 1, p - 1), port |-> Atoi(SubSeq(s, p + 1, Len(s)))]

Scanning == found = {}

(* The iterator moves and the position does not. *)
PassWithoutCounting ==
  /\ Scanning
  /\ at > 0 /\ text[at] # Colon
  /\ at' = at - 1
  /\ UNCHANGED <<text, default, pos, found>>

PassCharacter ==
  /\ Scanning
  /\ at > 0 /\ text[at] # Colon
  /\ at' = at - 1
  /\ pos' = pos - 1
  /\ UNCHANGED <<text, default, found>>

MeetColon ==
  /\ Scanning
  /\ at > 0 /\ text[at] = Colon
  /\ found' = {Cut(text, pos)}
  /\ UNCHANGED <<text, default, at, pos>>

MeetEnd ==
  /\ Scanning
  /\ at = 0
  /\ found' = {[name |-> text, port |-> default]}
  /\ UNCHANGED <<text, default, at, pos>>

Scan == PassCharacter \/ MeetColon \/ MeetEnd

-----------------------------------------------------------------------------
(* However many colons, letters and digits a Host header has, and where,   *)
(* the loop ends with the name and the port on the two sides of the last   *)
(* colon, or with the whole text and the default port (helpers.hpp:27-43). *)
HostIsCut == found # {} => found = {HostNameAndPort(text, default)}
=============================================================================
