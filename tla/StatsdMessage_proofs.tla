------------------------ MODULE StatsdMessage_proofs ------------------------
(***************************************************************************)
(* Theorems about what leaves a StatsdClient: the shape of the messages,   *)
(* the configuration they belong to and what the callers are told.         *)
(***************************************************************************)
EXTENDS StatsdClient_proofs

(* A newline and a line behind a message: what is where.                   *)
LEMMA LineAppended ==
  ASSUME NEW Item, NEW b \in Seq(Item), Newline \in Item, NEW l \in Item
  PROVE  LET c == b \o <<Newline>> \o <<l>>
         IN /\ Len(c) = Len(b) + 2
            /\ \A k \in 1 .. Len(b) : c[k] = b[k]
            /\ c[Len(b) + 1] = Newline
            /\ c[Len(b) + 2] = l
<1> DEFINE d == b \o <<Newline>>
<1>1. <<Newline>> \in Seq(Item) /\ Len(<<Newline>>) = 1 /\ <<Newline>>[1] = Newline
  OBVIOUS
<1>2. <<l>> \in Seq(Item) /\ Len(<<l>>) = 1 /\ <<l>>[1] = l
  OBVIOUS
<1>3. /\ d \in Seq(Item) /\ Len(d) = Len(b) + 1
      /\ \A k \in 1 .. Len(b) : d[k] = b[k]
      /\ d[Len(b) + 1] = Newline
  BY <1>1
<1> HIDE DEF d
<1>4. /\ Len(d \o <<l>>) = Len(d) + 1
      /\ \A k \in 1 .. Len(d) : (d \o <<l>>)[k] = d[k]
      /\ (d \o <<l>>)[Len(d) + 1] = l
  BY <1>2, <1>3
<1>5. QED
  BY <1>3, <1>4 DEF d

-----------------------------------------------------------------------------
(* The framing of a message depends on what the loop has done so far: an   *)
(* empty message behind the first metric means that it was left out.  A    *)
(* metric may be left out, or may be sent.                                 *)
Skips(m) == FALSE \in ShouldSend(m)
Sends(m) == TRUE \in ShouldSend(m)

Started(n, b, first) ==
  /\ n = First => b = << >>
  /\ n # First /\ b = << >> => Skips(first)

Framed(b, first) ==
  b # << >> =>
    /\ \A i \in 1 .. Len(b) - 1 : b[i] = Newline <=> b[i + 1] # Newline
    /\ b[Len(b)] # Newline
    /\ b[1] = Newline => Skips(first)
    /\ b[1] # Newline => Sends(first) /\ b[1].name = first.name

FramingOf(t) ==
  /\ Started(next[t], buf[t], metrics[t][1])
  /\ Framed(buf[t], metrics[t][1])

FramingInv == \A t \in Thread : FramingOf(t)

(* One round of the loop keeps the framing: a line behind a message.       *)
LEMMA LineFramed ==
  ASSUME NEW Item, NEW b \in Seq(Item), Newline \in Item,
         NEW l \in Item, l # Newline, NEW m, Sends(m), l.name = m.name,
         NEW n \in Nat \ {0}, NEW first, n = First => first = m,
         Started(n, b, first), Framed(b, first)
  PROVE  LET c == b \o Separator(n) \o <<l>>
         IN c # << >> /\ Framed(c, first)
<1> DEFINE c == b \o Separator(n) \o <<l>>
<1>1. CASE n = First
  <2>1. c = <<l>>
    BY <1>1 DEF Started, Separator
  <2>2. c # << >> /\ Len(c) = 1 /\ c[1] = l /\ first = m
    BY <2>1, <1>1
  <2> HIDE DEF c
  <2>3. Framed(c, first)
    BY <2>2 DEF Framed
  <2>4. QED
    BY <2>2, <2>3 DEF c
<1>2. CASE n # First
  <2>1. c = b \o <<Newline>> \o <<l>>
    BY <1>2 DEF Separator
  <2>2. /\ Len(c) = Len(b) + 2
        /\ \A k \in 1 .. Len(b) : c[k] = b[k]
        /\ c[Len(b) + 1] = Newline
        /\ c[Len(b) + 2] = l
    BY <2>1, LineAppended
  <2> HIDE DEF c
  <2>3. Len(b) \in Nat /\ c # << >>
    BY <2>2
  <2>4. ASSUME NEW k \in 1 .. Len(c) - 1 PROVE c[k] = Newline <=> c[k + 1] # Newline
    <3>1. CASE k \in 1 .. Len(b) - 1
      <4>1. b[k] = Newline <=> b[k + 1] # Newline
        BY <3>1 DEF Framed
      <4>2. c[k] = b[k] /\ c[k + 1] = b[k + 1]
        BY <2>2, <2>3, <3>1
      <4>3. QED
        BY <4>1, <4>2
    <3>2. CASE k = Len(b)
      <4>1. b[k] # Newline
        BY <3>2 DEF Framed
      <4>2. QED
        BY <4>1, <2>2, <2>3, <3>2
    <3>3. CASE k = Len(b) + 1
      BY <3>3, <2>2
    <3>4. QED
      BY <3>1, <3>2, <3>3, <2>2, <2>3
  <2>5. c[1] = IF b = << >> THEN Newline ELSE b[1]
    BY <2>2, <2>3
  <2>6. /\ c[1] = Newline => Skips(first)
        /\ c[1] # Newline => Sends(first) /\ c[1].name = first.name
    BY <2>5, <1>2 DEF Started, Framed
  <2>7. c[Len(c)] # Newline
    BY <2>2
  <2>8. Framed(c, first)
    BY <2>4, <2>6, <2>7 DEF Framed
  <2>9. QED
    BY <2>3, <2>8 DEF c
<1>3. QED
  BY <1>1, <1>2

LEMMA FramingRound ==
  ASSUME TypeOK, NEW t \in Thread, FramingOf(t), WriteMetric(t)
  PROVE  FramingOf(t)'
<1> DEFINE n == next[t]
           m == metrics[t][n]
           b == buf[t]
           first == metrics[t][1]
<1>1. /\ n \in Nat \ {0} /\ m \in Metric
      /\ b \in Seq(Written \cup {Newline})
      /\ Started(n, b, first) /\ Framed(b, first)
      /\ next'[t] # First /\ metrics' = metrics /\ DOMAIN buf = Thread
      /\ n = First => first = m
  BY DEF WriteMetric, TypeOK, FramingOf, First
<1>2. CASE Skips(m) /\ UNCHANGED buf
  <2>1. b = << >> => Skips(first)
    BY <1>1, <1>2 DEF Started
  <2>2. Started(next'[t], b, first)
    BY <1>1, <2>1 DEF Started
  <2>3. QED
    BY <1>1, <1>2, <2>2 DEF FramingOf
<1>3. ASSUME Sends(m), NEW p \in Read("set_prefix", prefix, conf.prefix),
             buf'[t] = b \o Separator(n) \o <<Line(p, m)>>
      PROVE  FramingOf(t)'
  <2>1. Line(p, m) \in Written /\ Line(p, m).name = m.name
    <3>1. Read("set_prefix", prefix, conf.prefix) \subseteq PrefixString \cup {Torn}
      BY ReadType DEF TypeOK
    <3>2. QED
      BY <3>1, <1>1, WrittenType DEF Line
  <2>2. /\ Line(p, m) \in Written \cup {Newline} /\ Line(p, m) # Newline
        /\ Newline \in Written \cup {Newline}
    BY <2>1, NewlineAssumption
  <2> HIDE DEF n, m, b, first
  <2>3. buf'[t] # << >> /\ Framed(buf'[t], first)
    BY <2>1, <2>2, <1>1, <1>3, LineFramed
  <2>4. Started(next'[t], buf'[t], first)
    BY <2>3, <1>1 DEF Started
  <2>5. QED
    BY <2>3, <2>4, <1>1 DEF FramingOf, first
<1>4. QED
  <2>1. \/ Skips(m) /\ UNCHANGED buf
        \/ /\ Sends(m)
           /\ \E p \in Read("set_prefix", prefix, conf.prefix) :
                buf' = [buf EXCEPT ![t] = @ \o Separator(n) \o <<Line(p, m)>>]
    BY DEF WriteMetric, Skips, Sends
  <2>2. QED
    BY <2>1, <1>1, <1>2, <1>3

LEMMA FramingStep == TypeOK /\ FramingInv /\ [Next]_vars => FramingInv'
<1> SUFFICES ASSUME TypeOK, FramingInv, [Next]_vars PROVE FramingInv'
  OBVIOUS
<1>1. ASSUME NEW u \in Thread,
             buf'[u] = buf[u] /\ next'[u] = next[u] /\ metrics'[u] = metrics[u]
      PROVE  FramingOf(u)'
  BY <1>1 DEF FramingInv, FramingOf
<1>2. ASSUME UNCHANGED <<metrics, next, buf>> PROVE FramingInv'
  BY <1>1, <1>2 DEF FramingInv
<1>3. ASSUME NEW t \in Thread, NEW ms \in Batch, BeginSend(t, ms) PROVE FramingInv'
  <2>1. ASSUME NEW u \in Thread \ {t} PROVE FramingOf(u)'
    BY <1>1, <1>3 DEF BeginSend, TypeOK
  <2>2. buf'[t] = << >> /\ next'[t] = First
    BY <1>3 DEF BeginSend, TypeOK
  <2>3. FramingOf(t)'
    BY <2>2 DEF FramingOf, Started, Framed
  <2>4. QED
    BY <2>1, <2>3 DEF FramingInv
<1>4. ASSUME NEW t \in Thread, WriteMetric(t) PROVE FramingInv'
  <2>1. ASSUME NEW u \in Thread \ {t} PROVE FramingOf(u)'
    BY <1>1, <1>4 DEF WriteMetric, TypeOK
  <2>2. FramingOf(t)'
    BY <1>4, FramingRound DEF FramingInv
  <2>3. QED
    BY <2>1, <2>2 DEF FramingInv
<1>5. QED
  BY <1>2, <1>3, <1>4
     DEF Next, Begin, Step, vars, message, BeginConfigure, Enable, BeginDestroy,
         CheckEnabled, SendMessage, Lock, Resolve, Query, OpenSocket, Bind, SendTo,
         Unlock, SetHost, SetPort, SetPrefix, SetEnabled, Destroy

(* Every message of every batch has single newlines between its lines and  *)
(* starts with the first metric or says that it was left out.              *)
THEOREM Framing == Spec => []BatchFraming
<1>1. Init => FramingInv
  BY DEF Init, FramingInv, FramingOf, Started, Framed
<1>2. FramingInv => BatchFraming
  BY DEF FramingInv, FramingOf, Framed, Skips, Sends, BatchFraming
<1>3. QED
  BY <1>1, <1>2, FramingStep, Typing, PTL DEF Spec

-----------------------------------------------------------------------------
(* The metrics a message holds, of those the loop has seen: each line has  *)
(* a source, and the sources come in the order of the batch.               *)
LinesIn(b) == {k \in DOMAIN b : b[k] # Newline}

Maybe(ms, n) == {i \in 1 .. n - 1 : ms[i].tag # "empty" /\ ms[i].rate > 0}

Explains(source, b, ms, n) ==
  /\ source \in [LinesIn(b) -> Maybe(ms, n)]
  /\ \A k \in LinesIn(b) : b[k] = Line(b[k].prefix, ms[source[k]])
  /\ \A j, k \in LinesIn(b) : j < k => source[j] < source[k]
  /\ \A i \in Maybe(ms, n) : ms[i].rate = One => \E k \in LinesIn(b) : source[k] = i

Explained(b, ms, n) == \E source : Explains(source, b, ms, n)

LEMMA ExplainedIsComplete ==
  (\A t \in Thread : Explained(buf[t], metrics[t], next[t])) => BatchComplete
<1> SUFFICES ASSUME NEW t \in Thread, Explained(buf[t], metrics[t], next[t])
             PROVE  \E source \in [LinesIn(buf[t]) -> Maybe(metrics[t], next[t])] :
                      /\ \A k \in LinesIn(buf[t]) :
                           buf[t][k] = Line(buf[t][k].prefix, metrics[t][source[k]])
                      /\ \A j, k \in LinesIn(buf[t]) : j < k => source[j] < source[k]
                      /\ \A i \in {i \in Maybe(metrics[t], next[t]) : metrics[t][i].rate = One} :
                           \E k \in LinesIn(buf[t]) : source[k] = i
  BY DEF BatchComplete, LinesIn, Maybe
<1>1. PICK source : Explains(source, buf[t], metrics[t], next[t])
  BY DEF Explained
<1>2. QED
  BY <1>1 DEF Explains

(* What the sampling says of a metric                                      *)
LEMMA Sampling ==
  ASSUME NEW m \in Metric
  PROVE  /\ Sends(m) => m.tag # "empty" /\ m.rate > 0
         /\ Skips(m) => m.tag = "empty" \/ m.rate # One
<1>1. CASE m.tag = "empty"
  BY <1>1 DEF Sends, ShouldSend
<1>2. CASE m.tag # "empty" /\ m.rate < One
  <2>1. Sends(m) => TRUE \in {m.rate > draw : draw \in 0 .. (One - 1)}
    BY <1>2 DEF Sends, ShouldSend
  <2>2. Sends(m) => \E draw \in 0 .. (One - 1) : m.rate > draw
    BY <2>1, Zenon
  <2>3. m.rate \in Int /\ One \in Nat
    BY OneAssumption DEF Metric
  <2>4. QED
    BY <1>2, <2>2, <2>3
<1>3. CASE m.tag # "empty" /\ ~(m.rate < One)
  <2>1. m.rate \in Int /\ One \in Nat \ {0}
    BY OneAssumption DEF Metric
  <2>2. ~Skips(m)
    BY <1>3 DEF Skips, ShouldSend
  <2>3. QED
    BY <1>3, <2>1, <2>2
<1>4. QED
  BY <1>1, <1>2, <1>3

(* A metric that is left out was not to be sent always.                    *)
LEMMA MetricSkipped ==
  ASSUME NEW ms \in Seq(Metric), NEW n \in 1 .. Len(ms), Skips(ms[n]),
         NEW b, Explained(b, ms, n)
  PROVE  Explained(b, ms, n + 1)
<1>1. ms[n] \in Metric /\ n \in Nat
  OBVIOUS
<1>2. Maybe(ms, n) \subseteq Maybe(ms, n + 1) /\ Maybe(ms, n + 1) \subseteq Maybe(ms, n) \cup {n}
  BY <1>1 DEF Maybe
<1>3. n \in Maybe(ms, n + 1) => ms[n].rate # One
  BY <1>1, Sampling DEF Maybe
<1>4. PICK source : Explains(source, b, ms, n)
  BY DEF Explained
<1>5. source \in [LinesIn(b) -> Maybe(ms, n + 1)]
  BY <1>2, <1>4 DEF Explains
<1>6. Explains(source, b, ms, n + 1)
  BY <1>2, <1>3, <1>4, <1>5 DEF Explains
<1>7. QED
  BY <1>6 DEF Explained

(* The lines of a message with another one behind it                       *)
WithLine(b, n, l) == b \o Separator(n) \o <<l>>

LEMMA LinesAppended ==
  ASSUME NEW Item, NEW b \in Seq(Item), Newline \in Item, NEW l \in Item, l # Newline,
         NEW n
  PROVE  LET c == WithLine(b, n, l)
         IN /\ LinesIn(c) = LinesIn(b) \cup {Len(c)}
            /\ c[Len(c)] = l
            /\ \A k \in LinesIn(b) : c[k] = b[k] /\ k < Len(c)
            /\ LinesIn(c) \subseteq Nat /\ Len(c) \in Nat
<1> DEFINE c == WithLine(b, n, l)
<1>1. Len(b) \in Nat /\ DOMAIN b = 1 .. Len(b)
  OBVIOUS
<1>2. CASE n = First
  <2>1. c = b \o <<l>>
    BY <1>2 DEF Separator, WithLine
  <2>2. /\ DOMAIN c = 1 .. Len(b) + 1 /\ Len(c) = Len(b) + 1
        /\ \A k \in 1 .. Len(b) : c[k] = b[k]
        /\ c[Len(b) + 1] = l
    BY <2>1
  <2> HIDE DEF c
  <2>3. QED
    BY <1>1, <2>2 DEF LinesIn, c
<1>3. CASE n # First
  <2>1. c = b \o <<Newline>> \o <<l>>
    BY <1>3 DEF Separator, WithLine
  <2>2. /\ Len(c) = Len(b) + 2
        /\ \A k \in 1 .. Len(b) : c[k] = b[k]
        /\ c[Len(b) + 1] = Newline
        /\ c[Len(b) + 2] = l
    BY <2>1, LineAppended
  <2>3. DOMAIN c = 1 .. Len(c)
    BY <2>1
  <2> HIDE DEF c
  <2>4. QED
    BY <1>1, <2>2, <2>3 DEF LinesIn, c
<1>4. QED
  BY <1>2, <1>3

(* The line of a metric that is sent has that metric for its source.       *)
LEMMA MetricSent ==
  ASSUME NEW ms \in Seq(Metric), NEW n \in 1 .. Len(ms), Sends(ms[n]),
         NEW Item, NEW b \in Seq(Item), Newline \in Item, Explained(b, ms, n),
         NEW l \in Item, l # Newline
  PROVE  l = Line(l.prefix, ms[n]) => Explained(WithLine(b, n, l), ms, n + 1)
<1> DEFINE c == WithLine(b, n, l)
           L == LinesIn(b)
<1>1. /\ LinesIn(c) = L \cup {Len(c)} /\ c[Len(c)] = l
      /\ \A k \in L : c[k] = b[k] /\ k < Len(c)
      /\ LinesIn(c) \subseteq Nat /\ Len(c) \in Nat
  BY LinesAppended DEF L
<1> HIDE DEF c, L
<1> SUFFICES ASSUME l = Line(l.prefix, ms[n]) PROVE Explained(c, ms, n + 1)
  BY DEF c
<1>2. ms[n] \in Metric /\ n \in Nat
  OBVIOUS
<1>3. Maybe(ms, n + 1) = Maybe(ms, n) \cup {n} /\ \A i \in Maybe(ms, n) : i \in Nat /\ i < n
  BY <1>2, Sampling DEF Maybe
<1>4. PICK source : Explains(source, b, ms, n)
  BY DEF Explained
<1> DEFINE s == [k \in LinesIn(c) |-> IF k = Len(c) THEN n ELSE source[k]]
<1>5. /\ source \in [L -> Maybe(ms, n)]
      /\ \A k \in L : b[k] = Line(b[k].prefix, ms[source[k]])
      /\ \A j, k \in L : j < k => source[j] < source[k]
      /\ \A i \in Maybe(ms, n) : ms[i].rate = One => \E k \in L : source[k] = i
  BY <1>4 DEF Explains, L
<1>6. /\ s \in [LinesIn(c) -> Maybe(ms, n + 1)] /\ s[Len(c)] = n
      /\ \A k \in L : s[k] = source[k] /\ k # Len(c) /\ k \in LinesIn(c)
  BY <1>1, <1>3, <1>5
<1> HIDE DEF s
<1>7. \A k \in LinesIn(c) : c[k] = Line(c[k].prefix, ms[s[k]])
  BY <1>1, <1>5, <1>6
<1>8. \A j, k \in LinesIn(c) : j < k => s[j] < s[k]
  <2>1. \A j, k \in LinesIn(c) : j < k => j \in L
    BY <1>1
  <2>2. ASSUME NEW j \in L, NEW k \in LinesIn(c), j < k PROVE s[j] < s[k]
    <3>1. CASE k \in L
      BY <2>2, <3>1, <1>5, <1>6
    <3>2. CASE k = Len(c)
      <4>1. s[j] \in Maybe(ms, n)
        BY <1>5, <1>6
      <4>2. QED
        BY <4>1, <3>2, <1>3, <1>6
    <3>3. QED
      BY <3>1, <3>2, <1>1
  <2>3. QED
    BY <2>1, <2>2
<1>9. \A i \in Maybe(ms, n + 1) : ms[i].rate = One => \E k \in LinesIn(c) : s[k] = i
  BY <1>1, <1>3, <1>5, <1>6
<1>10. Explains(s, c, ms, n + 1)
  BY <1>6, <1>7, <1>8, <1>9 DEF Explains
<1>11. QED
  BY <1>10 DEF Explained

LEMMA CompleteRound ==
  ASSUME TypeOK, NEW t \in Thread, Explained(buf[t], metrics[t], next[t]), WriteMetric(t)
  PROVE  Explained(buf[t], metrics[t], next[t])'
<1> DEFINE n == next[t]
           ms == metrics[t]
           m == ms[n]
           b == buf[t]
<1>1. /\ ms \in Seq(Metric) /\ n \in 1 .. Len(ms) /\ m \in Metric
      /\ b \in Seq(Written \cup {Newline})
      /\ next'[t] = n + 1 /\ metrics'[t] = ms /\ DOMAIN buf = Thread
      /\ Explained(b, ms, n)
  BY DEF WriteMetric, TypeOK
<1>2. CASE Skips(m) /\ UNCHANGED buf
  <2>1. Explained(b, ms, n + 1) /\ buf'[t] = b
    BY <1>1, <1>2, MetricSkipped
  <2>2. QED
    BY <1>1, <2>1
<1>3. ASSUME Sends(m), NEW p \in Read("set_prefix", prefix, conf.prefix),
             buf'[t] = b \o Separator(n) \o <<Line(p, m)>>
      PROVE  Explained(buf[t], metrics[t], next[t])'
  <2>1. Line(p, m) \in Written /\ Line(p, m) = Line(Line(p, m).prefix, m)
    <3>1. Read("set_prefix", prefix, conf.prefix) \subseteq PrefixString \cup {Torn}
      BY ReadType DEF TypeOK
    <3>2. Line(p, m).prefix = p
      BY DEF Line
    <3>3. QED
      BY <3>1, <3>2, <1>1, WrittenType
  <2>2. /\ Line(p, m) \in Written \cup {Newline} /\ Line(p, m) # Newline
        /\ Newline \in Written \cup {Newline}
    BY <2>1, NewlineAssumption
  <2> HIDE DEF n, m, b, ms
  <2>3. Explained(WithLine(b, n, Line(p, m)), ms, n + 1)
    BY <1>1, <1>3, <2>1, <2>2, MetricSent DEF m
  <2>4. QED
    BY <2>3, <1>1, <1>3 DEF WithLine
<1>4. QED
  <2>1. \/ Skips(m) /\ UNCHANGED buf
        \/ /\ Sends(m)
           /\ \E p \in Read("set_prefix", prefix, conf.prefix) :
                buf' = [buf EXCEPT ![t] = @ \o Separator(n) \o <<Line(p, m)>>]
    BY DEF WriteMetric, Skips, Sends
  <2>2. QED
    BY <2>1, <1>1, <1>2, <1>3

CompleteInv == \A t \in Thread : Explained(buf[t], metrics[t], next[t])

LEMMA NothingExplained ==
  ASSUME NEW ms PROVE Explained(<< >>, ms, First)
<1>1. LinesIn(<< >>) = {} /\ Maybe(ms, First) = {}
  BY DEF LinesIn, Maybe, First
<1>2. Explains([k \in {} |-> k], << >>, ms, First)
  BY <1>1 DEF Explains
<1>3. QED
  BY <1>2 DEF Explained

LEMMA CompleteStep == TypeOK /\ CompleteInv /\ [Next]_vars => CompleteInv'
<1> SUFFICES ASSUME TypeOK, CompleteInv, [Next]_vars PROVE CompleteInv'
  OBVIOUS
<1>1. ASSUME NEW u \in Thread,
             buf'[u] = buf[u] /\ next'[u] = next[u] /\ metrics'[u] = metrics[u]
      PROVE  Explained(buf[u], metrics[u], next[u])'
  BY <1>1 DEF CompleteInv
<1>2. ASSUME UNCHANGED <<metrics, next, buf>> PROVE CompleteInv'
  BY <1>1, <1>2 DEF CompleteInv
<1>3. ASSUME NEW t \in Thread, NEW ms \in Batch, BeginSend(t, ms) PROVE CompleteInv'
  <2>1. ASSUME NEW u \in Thread \ {t} PROVE Explained(buf[u], metrics[u], next[u])'
    BY <1>1, <1>3 DEF BeginSend, TypeOK
  <2>2. buf'[t] = << >> /\ next'[t] = First
    BY <1>3 DEF BeginSend, TypeOK
  <2>3. Explained(buf[t], metrics[t], next[t])'
    BY <2>2, NothingExplained
  <2>4. QED
    BY <2>1, <2>3 DEF CompleteInv
<1>4. ASSUME NEW t \in Thread, WriteMetric(t) PROVE CompleteInv'
  <2>1. ASSUME NEW u \in Thread \ {t} PROVE Explained(buf[u], metrics[u], next[u])'
    BY <1>1, <1>4 DEF WriteMetric, TypeOK
  <2>2. Explained(buf[t], metrics[t], next[t])'
    BY <1>4, CompleteRound DEF CompleteInv
  <2>3. QED
    BY <2>1, <2>2 DEF CompleteInv
<1>5. QED
  BY <1>2, <1>3, <1>4
     DEF Next, Begin, Step, vars, message, BeginConfigure, Enable, BeginDestroy,
         CheckEnabled, SendMessage, Lock, Resolve, Query, OpenSocket, Bind, SendTo,
         Unlock, SetHost, SetPort, SetPrefix, SetEnabled, Destroy

(* Every message of every batch has the lines of the metrics that are to   *)
(* be sent always, none of those that are never sent, and keeps the order  *)
(* of the batch, however the draws fall and the threads interleave.        *)
THEOREM Completeness == Spec => []BatchComplete
<1>1. Init => CompleteInv
  BY NothingExplained DEF Init, CompleteInv
<1>2. CompleteInv => BatchComplete
  BY ExplainedIsComplete DEF CompleteInv
<1>3. QED
  BY <1>1, <1>2, CompleteStep, Typing, PTL DEF Spec

-----------------------------------------------------------------------------
(* A quiescent application: what the four assignments of configure() have  *)
(* done so far at each label, while no send is running.                    *)
Apart ==
  /\ \A t, u \in Thread : pc[t] \in Sending => pc[u] \notin Configuring
  /\ \A t, u \in Thread : pc[t] \in Configuring /\ pc[u] \in Configuring => t = u

Assigned ==
  \A t \in Thread :
    /\ pc[t] \in {"set_port", "set_prefix", "set_enabled"} => host = conf.host
    /\ pc[t] \in {"set_prefix", "set_enabled"} => port = conf.port

AddressInv ==
  /\ NobodyIn(Configuring) => Address(host, port) \in configured
  /\ \A t \in Thread : pc[t] = "query" => query[t] = host
  /\ endpoint # NoEndpoint => endpoint \in configured

HasPrefix(b, x) == \A i \in DOMAIN b : b[i] # Newline => b[i].prefix = x

OnePrefix(b) ==
  \A i, j \in DOMAIN b : Newline \notin {b[i], b[j]} => b[i].prefix = b[j].prefix

PrefixInv ==
  \A t \in Thread :
    /\ OnePrefix(buf[t])
    /\ pc[t] \in {"check", "sample"} => HasPrefix(buf[t], prefix)

(* A string is read as it is while nobody assigns it.                      *)
LEMMA ReadQuietly ==
  ASSUME NEW label \in Configuring, NobodyIn(Configuring), NEW current, NEW assigned
  PROVE  Read(label, current, assigned) = {current}
  BY DEF Read, NobodyIn

(* The steps of a quiescent application keep sends and configure() apart,  *)
(* and with them the address in one piece.                                 *)
LEMMA AddressStep ==
  ASSUME Quiescent, TypeOK, Apart, Assigned, AddressInv, [Next]_vars
  PROVE  Apart' /\ Assigned' /\ AddressInv'
<1> USE DEF TypeOK, Apart, Assigned, AddressInv, NobodyIn, Address,
            settings, channel, message, history, Sending, Critical, Configuring
<1> DEFINE Kept == Apart' /\ Assigned' /\ AddressInv'
<1>1. ASSUME NEW t \in Thread, NEW ms \in Batch, BeginSend(t, ms) PROVE Kept
  BY <1>1 DEF BeginSend, NewCall, Goto
<1>2. ASSUME NEW t \in Thread,
             NEW h \in HostString, NEW p \in PortString, NEW x \in PrefixString,
             BeginConfigure(t, h, p, x)
      PROVE Kept
  BY <1>2 DEF BeginConfigure, NewCall, Goto
<1>3. ASSUME NEW t \in Thread, NEW value \in BOOLEAN, Enable(t, value) PROVE Kept
  BY <1>3 DEF Enable, AssignEnabled
<1>4. ASSUME NEW t \in Thread, BeginDestroy(t) PROVE Kept
  BY <1>4 DEF BeginDestroy, NewCall, Goto
<1>5. ASSUME NEW t \in Thread, CheckEnabled(t) PROVE Kept
  BY <1>5 DEF CheckEnabled, Goto, Omit
<1>6. ASSUME NEW t \in Thread, WriteMetric(t) PROVE Kept
  BY <1>6 DEF WriteMetric
<1>7. ASSUME NEW t \in Thread, SendMessage(t) PROVE Kept
  BY <1>7 DEF SendMessage, Goto, Omit
<1>8. ASSUME NEW t \in Thread, Lock(t) PROVE Kept
  BY <1>8 DEF Lock, Goto
<1>9. ASSUME NEW t \in Thread, Resolve(t) PROVE Kept
  <2>1. NobodyIn(Configuring)
    BY <1>9 DEF Resolve
  <2>2. Read("set_host", host, conf.host) = {host}
    BY <2>1, ReadQuietly
  <2>3. \/ pc' = [pc EXCEPT ![t] = "open"] /\ query' = query
        \/ pc' = [pc EXCEPT ![t] = "query"] /\ query' = [query EXCEPT ![t] = host]
    BY <2>2, <1>9 DEF Resolve, Goto
  <2>4. pc[t] = "resolve" /\ UNCHANGED <<settings, channel, conf, history>>
    BY <1>9 DEF Resolve
  <2>5. \A u \in Thread : pc'[u] = pc[u] \/ (u = t /\ pc'[u] \in {"open", "query"})
    BY <2>3
  <2>6. Apart' /\ Assigned'
    BY <2>4, <2>5
  <2>7. \A u \in Thread : pc'[u] = "query" => query'[u] = host
    BY <2>3
  <2>8. QED
    BY <2>1, <2>4, <2>6, <2>7
<1>10. ASSUME NEW t \in Thread, Query(t) PROVE Kept
  <2>1. NobodyIn(Configuring)
    BY <1>10 DEF Query
  <2>2. Read("set_port", port, conf.port) = {port}
    BY <2>1, ReadQuietly
  <2>3. endpoint' = Address(host, port) \/ endpoint' = endpoint
    BY <2>2, <1>10 DEF Query, Answers
  <2>4. endpoint' # NoEndpoint => endpoint' \in configured
    BY <2>1, <2>3
  <2>5. QED
    BY <2>4, <1>10 DEF Query, Goto, Leave
<1>11. ASSUME NEW t \in Thread, OpenSocket(t) PROVE Kept
  BY <1>11 DEF OpenSocket, Goto, Leave
<1>12. ASSUME NEW t \in Thread, Bind(t) PROVE Kept
  BY <1>12 DEF Bind, Goto, Leave
<1>13. ASSUME NEW t \in Thread, SendTo(t) PROVE Kept
  BY <1>13 DEF SendTo, Goto, Leave
<1>14. ASSUME NEW t \in Thread, Unlock(t) PROVE Kept
  BY <1>14 DEF Unlock, Goto
<1>15. ASSUME NEW t \in Thread, SetHost(t) PROVE Kept
  BY <1>15 DEF SetHost, Goto
<1>16. ASSUME NEW t \in Thread, SetPort(t) PROVE Kept
  BY <1>16 DEF SetPort, Goto
<1>17. ASSUME NEW t \in Thread, SetPrefix(t) PROVE Kept
  BY <1>17 DEF SetPrefix, Goto
<1>18. ASSUME NEW t \in Thread, SetEnabled(t) PROVE Kept
  BY <1>18 DEF SetEnabled, AssignEnabled, Goto
<1>19. ASSUME NEW t \in Thread, Destroy(t) PROVE Kept
  BY <1>19 DEF Destroy, Goto
<1>20. CASE UNCHANGED vars
  BY <1>20 DEF vars
<1>21. QED
  BY <1>1, <1>2, <1>3, <1>4, <1>5, <1>6, <1>7, <1>8, <1>9, <1>10, <1>11, <1>12, <1>13,
     <1>14, <1>15, <1>16, <1>17, <1>18, <1>19, <1>20 DEF Next, Begin, Step

(* A line behind a message whose lines have its prefix.                    *)
LEMMA PrefixAppended ==
  ASSUME NEW Item, NEW b \in Seq(Item), Newline \in Item, NEW l \in Item,
         NEW n, NEW x, HasPrefix(b, x), l.prefix = x
  PROVE  LET c == b \o Separator(n) \o <<l>> IN HasPrefix(c, x) /\ OnePrefix(c)
<1> DEFINE c == b \o Separator(n) \o <<l>>
<1>1. CASE n = First
  <2>1. c = b \o <<l>>
    BY <1>1 DEF Separator
  <2>2. /\ DOMAIN c = 1 .. Len(b) + 1
        /\ \A k \in 1 .. Len(b) : c[k] = b[k]
        /\ c[Len(b) + 1] = l
    BY <2>1
  <2> HIDE DEF c
  <2>3. Len(b) \in Nat /\ DOMAIN b = 1 .. Len(b)
    OBVIOUS
  <2>4. HasPrefix(c, x)
    BY <2>2, <2>3 DEF HasPrefix
  <2>5. QED
    BY <2>4 DEF c, HasPrefix, OnePrefix
<1>2. CASE n # First
  <2>1. c = b \o <<Newline>> \o <<l>>
    BY <1>2 DEF Separator
  <2>2. /\ Len(c) = Len(b) + 2
        /\ \A k \in 1 .. Len(b) : c[k] = b[k]
        /\ c[Len(b) + 1] = Newline
        /\ c[Len(b) + 2] = l
    BY <2>1, LineAppended
  <2>3. DOMAIN c = 1 .. Len(b) + 2
    BY <2>1, <2>2
  <2> HIDE DEF c
  <2>4. Len(b) \in Nat /\ DOMAIN b = 1 .. Len(b)
    OBVIOUS
  <2>5. HasPrefix(c, x)
    BY <2>2, <2>3, <2>4 DEF HasPrefix
  <2>6. QED
    BY <2>5 DEF c, HasPrefix, OnePrefix
<1>3. QED
  BY <1>1, <1>2

(* A message is written with the prefix of the moment it was begun.        *)
LEMMA PrefixStep ==
  ASSUME TypeOK, Apart, PrefixInv, Quiescent, [Next]_vars
  PROVE  PrefixInv'
<1> DEFINE Kept(u) == /\ OnePrefix(buf[u])
                      /\ pc[u] \in {"check", "sample"} => HasPrefix(buf[u], prefix)
<1>1. ASSUME NEW u \in Thread, buf'[u] = buf[u],
             pc'[u] \in {"check", "sample"} => pc[u] \in {"check", "sample"} /\ prefix' = prefix
      PROVE  Kept(u)'
  BY <1>1 DEF PrefixInv
<1> HIDE DEF Kept
<1>2. ASSUME buf' = buf, prefix' = prefix,
             \A u \in Thread : pc'[u] \in {"check", "sample"} => pc[u] \in {"check", "sample"}
      PROVE  PrefixInv'
  BY <1>1, <1>2 DEF PrefixInv, Kept
<1>3. ASSUME NEW t \in Thread, NEW ms \in Batch, BeginSend(t, ms) PROVE PrefixInv'
  <2>1. ASSUME NEW u \in Thread \ {t} PROVE Kept(u)'
    BY <1>1, <1>3 DEF BeginSend, Goto, TypeOK, settings
  <2>2. buf'[t] = << >>
    BY <1>3 DEF BeginSend, TypeOK
  <2>3. Kept(t)'
    BY <2>2 DEF Kept, OnePrefix, HasPrefix
  <2>4. QED
    BY <2>1, <2>3 DEF PrefixInv, Kept
<1>4. ASSUME NEW t \in Thread, WriteMetric(t) PROVE PrefixInv'
  <2>1. CASE UNCHANGED buf
    BY <1>2, <1>4, <2>1 DEF WriteMetric, settings
  <2>2. CASE \E p \in Read("set_prefix", prefix, conf.prefix) :
               buf' = [buf EXCEPT ![t] =
                         @ \o Separator(next[t]) \o <<Line(p, metrics[t][next[t]])>>]
    <3> DEFINE l == Line(prefix, metrics[t][next[t]])
    <3>1. NobodyIn(Configuring)
      BY <1>4 DEF WriteMetric, Apart, NobodyIn, Sending
    <3>2. Read("set_prefix", prefix, conf.prefix) = {prefix}
      BY <3>1, ReadQuietly DEF Configuring
    <3>3. /\ buf'[t] = buf[t] \o Separator(next[t]) \o <<l>>
          /\ \A u \in Thread \ {t} : buf'[u] = buf[u]
      BY <2>2, <3>2 DEF TypeOK
    <3>4. metrics[t][next[t]] \in Metric
      BY <1>4 DEF WriteMetric, TypeOK
    <3>5. l \in Written /\ l.prefix = prefix
      BY <3>4, WrittenType DEF Line, TypeOK
    <3>6. buf[t] \in Seq(Written \cup {Newline}) /\ HasPrefix(buf[t], prefix)
      BY <1>4 DEF TypeOK, PrefixInv, WriteMetric
    <3> HIDE DEF l
    <3>7. HasPrefix(buf'[t], prefix) /\ OnePrefix(buf'[t])
      <4>1. Newline \in Written \cup {Newline} /\ l \in Written \cup {Newline}
        BY <3>5
      <4>2. QED
        BY <4>1, <3>3, <3>5, <3>6, PrefixAppended
    <3>8. prefix' = prefix /\ pc' = pc
      BY <1>4 DEF WriteMetric, settings
    <3>9. ASSUME NEW u \in Thread \ {t} PROVE Kept(u)'
      BY <1>1, <3>3, <3>8
    <3>10. Kept(t)'
      BY <3>7, <3>8 DEF Kept
    <3>11. QED
      BY <3>9, <3>10 DEF PrefixInv, Kept
  <2>3. QED
    BY <1>4, <2>1, <2>2 DEF WriteMetric
<1>5. ASSUME NEW t \in Thread, SetPrefix(t) PROVE PrefixInv'
  <2>1. \A u \in Thread : pc'[u] \notin {"check", "sample"}
    BY <1>5 DEF SetPrefix, Goto, Apart, Sending, Configuring, TypeOK
  <2>2. buf' = buf
    BY <1>5 DEF SetPrefix, message
  <2>3. QED
    BY <1>1, <2>1, <2>2 DEF PrefixInv, Kept
<1> USE DEF TypeOK, settings, message
<1>6. ASSUME NEW t \in Thread,
             NEW h \in HostString, NEW p \in PortString, NEW x \in PrefixString,
             BeginConfigure(t, h, p, x)
      PROVE PrefixInv'
  BY <1>2, <1>6 DEF BeginConfigure, Goto
<1>7. ASSUME NEW t \in Thread, NEW value \in BOOLEAN, Enable(t, value) PROVE PrefixInv'
  BY <1>2, <1>7 DEF Enable
<1>8. ASSUME NEW t \in Thread, BeginDestroy(t) PROVE PrefixInv'
  BY <1>2, <1>8 DEF BeginDestroy, Goto
<1>9. ASSUME NEW t \in Thread, CheckEnabled(t) \/ SendMessage(t) PROVE PrefixInv'
  BY <1>2, <1>9 DEF CheckEnabled, SendMessage, Goto, Omit
<1>10. ASSUME NEW t \in Thread, Lock(t) \/ Resolve(t) \/ Query(t) \/ Unlock(t) PROVE PrefixInv'
  BY <1>2, <1>10 DEF Lock, Resolve, Query, Unlock, Goto, Leave
<1>11. ASSUME NEW t \in Thread, OpenSocket(t) \/ Bind(t) \/ SendTo(t) PROVE PrefixInv'
  BY <1>2, <1>11 DEF OpenSocket, Bind, SendTo, Goto, Leave
<1>12. ASSUME NEW t \in Thread, SetHost(t) \/ SetPort(t) \/ SetEnabled(t) \/ Destroy(t)
       PROVE PrefixInv'
  BY <1>2, <1>12 DEF SetHost, SetPort, SetEnabled, Destroy, Goto
<1>13. CASE UNCHANGED vars
  BY <1>2, <1>13 DEF vars
<1>14. QED
  BY <1>3, <1>4, <1>5, <1>6, <1>7, <1>8, <1>9, <1>10, <1>11, <1>12, <1>13 DEF Next, Begin, Step

(* In an application that keeps configure() apart from the sends, its four *)
(* unlocked assignments act as one for everything that leaves the client.  *)
THEOREM Atomicity ==
  ASSUME Quiescent PROVE Spec => []ConfigurationIsAtomic
<1> DEFINE Inv == Apart /\ Assigned /\ AddressInv /\ PrefixInv
<1>1. Init => Inv
  <2> SUFFICES ASSUME Init PROVE Inv
    OBVIOUS
  <2>1. Apart /\ Assigned /\ AddressInv
    BY DEF Init, Apart, Assigned, AddressInv, Sending, Critical, Configuring, Address
  <2>2. PrefixInv
    BY DEF Init, PrefixInv, OnePrefix, HasPrefix
  <2>3. QED
    BY <2>1, <2>2
<1>2. TypeOK /\ Inv /\ [Next]_vars => Inv'
  BY AddressStep, PrefixStep
<1>3. Inv => ConfigurationIsAtomic
  BY DEF AddressInv, PrefixInv, OnePrefix, ConfigurationIsAtomic
<1> HIDE DEF Inv
<1>4. Spec => []Inv
  BY <1>1, <1>2, Typing, PTL DEF Spec
<1>5. QED
  BY <1>3, <1>4, PTL

-----------------------------------------------------------------------------
(* What a send has done when it gets to a label: nothing has left before   *)
(* send_to, and a result waits for the mutex to be released.               *)
SinkInv ==
  \A t \in Thread :
    /\ pc[t] \in Sending \ {"unlock"} => datagram[t] = NoDatagram
    /\ pc[t] = "unlock" => status[t] \in Sink!Truthful(Amount(datagram[t]))

(* The state of the sink, thread by thread                                 *)
Busy(t)   == pc[t] \in Sending
Out(t)    == Amount(datagram[t])
Result(t) == IF pc[t] \in Sending THEN "none" ELSE status[t]

SinkUnchanged(t) == Busy(t)' = Busy(t) /\ Out(t)' = Out(t) /\ Result(t)' = Result(t)

(* A step of the sink is one of a single thread.                           *)
LEMMA SinkStutters ==
  ASSUME \A u \in Thread : SinkUnchanged(u)
  PROVE  UNCHANGED Sink!vars
<1>1. /\ [t \in Thread |-> pc[t] \in Sending]' = [t \in Thread |-> pc[t] \in Sending]
      /\ [t \in Thread |-> Amount(datagram[t])]' = [t \in Thread |-> Amount(datagram[t])]
      /\ [t \in Thread |-> IF pc[t] \in Sending THEN "none" ELSE status[t]]' =
           [t \in Thread |-> IF pc[t] \in Sending THEN "none" ELSE status[t]]
  BY DEF SinkUnchanged, Busy, Out, Result
<1>2. QED
  BY <1>1 DEF Sink!vars

LEMMA SinkMoves ==
  ASSUME NEW t \in Thread, \A u \in Thread \ {t} : SinkUnchanged(u),
         \/ /\ ~Busy(t) /\ Busy(t)' /\ Out(t)' = "nothing" /\ Result(t)' = "none"
         \/ /\ Busy(t) /\ Busy(t)' /\ Out(t) = "nothing" /\ Out(t)' \in {"part", "whole"}
            /\ Result(t)' = Result(t)
         \/ /\ Busy(t) /\ ~Busy(t)' /\ Out(t)' = Out(t)
            /\ Result(t)' \in Sink!Truthful(Out(t))
  PROVE  Sink!Next
<1> DEFINE busy   == [u \in Thread |-> pc[u] \in Sending]
           out    == [u \in Thread |-> Amount(datagram[u])]
           result == [u \in Thread |-> IF pc[u] \in Sending THEN "none" ELSE status[u]]
<1>1. /\ busy' = [busy EXCEPT ![t] = Busy(t)']
      /\ out' = [out EXCEPT ![t] = Out(t)']
      /\ result' = [result EXCEPT ![t] = Result(t)']
      /\ busy[t] = Busy(t) /\ out[t] = Out(t) /\ result[t] = Result(t)
  <2>1. busy' = [busy EXCEPT ![t] = Busy(t)']
    BY Zenon DEF SinkUnchanged, Busy
  <2>2. out' = [out EXCEPT ![t] = Out(t)']
    BY DEF SinkUnchanged, Out
  <2>3. result' = [result EXCEPT ![t] = Result(t)']
    BY DEF SinkUnchanged, Result
  <2>4. busy[t] = Busy(t) /\ out[t] = Out(t) /\ result[t] = Result(t)
    BY DEF Busy, Out, Result
  <2>5. QED
    BY <2>1, <2>2, <2>3, <2>4
<1>2. CASE ~Busy(t) /\ Busy(t)' /\ Out(t)' = "nothing" /\ Result(t)' = "none"
  <2>1. Sink!Call(t)
    BY <1>1, <1>2 DEF Sink!Call
  <2>2. QED
    BY <2>1 DEF Sink!Next
<1>3. CASE /\ Busy(t) /\ Busy(t)' /\ Out(t) = "nothing" /\ Out(t)' \in {"part", "whole"}
           /\ Result(t)' = Result(t)
  <2>1. Sink!Transmit(t)
    BY <1>1, <1>3 DEF Sink!Transmit
  <2>2. QED
    BY <2>1 DEF Sink!Next
<1>4. CASE /\ Busy(t) /\ ~Busy(t)' /\ Out(t)' = Out(t)
           /\ Result(t)' \in Sink!Truthful(Out(t))
  <2>1. busy[t] /\ busy' = [busy EXCEPT ![t] = FALSE]
    <3>1. Busy(t)' = FALSE
      BY <1>4 DEF Busy
    <3>2. busy[t]
      BY <1>1, <1>4
    <3> HIDE DEF busy
    <3>3. QED
      BY <1>1, <3>1, <3>2
  <2>2. out' = out
    BY <1>1, <1>4
  <2>3. \E r \in Sink!Truthful(out[t]) : result' = [result EXCEPT ![t] = r]
    BY <1>1, <1>4
  <2>4. Sink!Return(t)
    BY <2>1, <2>2, <2>3 DEF Sink!Return
  <2>5. QED
    BY <2>4 DEF Sink!Next
<1>5. QED
  BY <1>2, <1>3, <1>4

(* A thread that stays in or out of a send, with what it has sent, and     *)
(* what it has returned if it is out, moves nothing on the sink.           *)
LEMMA SinkSame ==
  ASSUME NEW u \in Thread, pc'[u] \in Sending <=> pc[u] \in Sending,
         datagram'[u] = datagram[u], pc[u] \in Sending \/ status'[u] = status[u]
  PROVE  SinkUnchanged(u)
<1>1. Busy(u)' = Busy(u)
  BY DEF Busy
<1>2. Out(u)' = Out(u)
  BY DEF Out, Amount
<1>3. Result(u)' = Result(u)
  <2>1. CASE pc[u] \in Sending
    BY <2>1 DEF Result
  <2>2. CASE pc[u] \notin Sending
    BY <2>2 DEF Result
  <2>3. QED
    BY <2>1, <2>2
<1>4. QED
  BY <1>1, <1>2, <1>3 DEF SinkUnchanged

LEMMA NothingOut == Amount(NoDatagram) = "nothing"
BY DEF Amount

LEMMA SinkTruth ==
  /\ \A r \in {"omitted", "failed", "threw"} : r \in Sink!Truthful("nothing")
  /\ "failed" \in Sink!Truthful("part") /\ "sent" \in Sink!Truthful("whole")
BY DEF Sink!Truthful

(* A thread that leaves a send before it has the mutex returns on the sink.*)
LEMMA SinkOmits ==
  ASSUME TypeOK, SinkInv, NEW t \in Thread, pc[t] \in Sending \ {"unlock"}, Omit(t),
         UNCHANGED datagram
  PROVE  SinkInv' /\ Sink!Next
<1>1. /\ pc'[t] = "idle" /\ status'[t] = "omitted" /\ datagram[t] = NoDatagram
      /\ \A u \in Thread \ {t} : pc'[u] = pc[u] /\ status'[u] = status[u]
  BY DEF Omit, Goto, TypeOK, SinkInv
<1>2. \A u \in Thread \ {t} : SinkUnchanged(u)
  BY <1>1, SinkSame
<1>3. Busy(t) /\ ~Busy(t)' /\ Out(t)' = Out(t) /\ Result(t)' \in Sink!Truthful(Out(t))
  <2>1. pc'[t] \notin Sending
    BY <1>1 DEF Sending, Critical
  <2>2. Out(t) = "nothing" /\ Out(t)' = Out(t)
    BY <1>1, NothingOut DEF Out
  <2>3. Result(t)' = "omitted"
    BY <1>1, <2>1 DEF Result
  <2>4. QED
    BY <2>1, <2>2, <2>3, SinkTruth DEF Busy
<1>4. Sink!Next
  BY <1>2, <1>3, SinkMoves
<1>5. SinkInv'
  BY <1>1 DEF SinkInv, Sending, Critical
<1>6. QED
  BY <1>4, <1>5

LEMMA SinkStep ==
  ASSUME TypeOK, SinkInv, [Next]_vars
  PROVE  SinkInv' /\ [Sink!Next]_(Sink!vars)
<1> DEFINE Refined == SinkInv' /\ [Sink!Next]_(Sink!vars)
<1>1. ASSUME UNCHANGED datagram,
             \A u \in Thread : pc'[u] \in Sending <=> pc[u] \in Sending,
             \A u \in Thread : pc[u] \in Sending \/ status'[u] = status[u]
      PROVE  UNCHANGED Sink!vars
  BY <1>1, SinkSame, SinkStutters
<1>2. ASSUME NEW t \in Thread, NEW label, Goto(t, label), UNCHANGED <<datagram, status>>,
             \/ pc[t] \notin Sending /\ label \notin Sending
             \/ {pc[t], label} \subseteq Sending \ {"unlock"}
      PROVE  Refined
  <2>1. pc'[t] = label /\ \A u \in Thread \ {t} : pc'[u] = pc[u]
    BY <1>2 DEF Goto, TypeOK
  <2>2. UNCHANGED Sink!vars
    BY <1>1, <1>2, <2>1
  <2>3. SinkInv'
    BY <1>2, <2>1 DEF SinkInv, Sending, Critical
  <2>4. QED
    BY <2>2, <2>3
<1>0. ASSUME UNCHANGED <<pc, datagram, status>> PROVE Refined
  <2>1. UNCHANGED Sink!vars
    BY <1>0, <1>1
  <2>2. SinkInv'
    BY <1>0 DEF SinkInv
  <2>3. QED
    BY <2>1, <2>2
<1>3. ASSUME NEW t \in Thread, pc[t] \in Sending \ {"unlock"}, UNCHANGED datagram,
             \E r \in {"failed", "threw"} : Leave(t, r)
      PROVE  Refined
  <2>1. /\ pc'[t] = "unlock" /\ status'[t] \in {"failed", "threw"} /\ datagram[t] = NoDatagram
        /\ \A u \in Thread \ {t} : pc'[u] = pc[u] /\ status'[u] = status[u]
    BY <1>3 DEF Leave, Goto, TypeOK, SinkInv
  <2>2. UNCHANGED Sink!vars
    BY <1>1, <1>3, <2>1 DEF Sending, Critical
  <2>3. SinkInv'
    BY <1>3, <2>1, NothingOut, SinkTruth DEF SinkInv, Sending, Critical
  <2>4. QED
    BY <2>2, <2>3
<1>4. ASSUME NEW t \in Thread, NEW ms \in Batch, BeginSend(t, ms) PROVE Refined
  <2>1. /\ pc[t] = "idle" /\ pc'[t] = "check" /\ status'[t] = "none" /\ datagram'[t] = NoDatagram
        /\ \A u \in Thread \ {t} :
             pc'[u] = pc[u] /\ status'[u] = status[u] /\ datagram'[u] = datagram[u]
    BY <1>4 DEF BeginSend, NewCall, Goto, TypeOK
  <2>2. \A u \in Thread \ {t} : SinkUnchanged(u)
    BY <2>1, SinkSame
  <2>3. ~Busy(t) /\ Busy(t)' /\ Out(t)' = "nothing" /\ Result(t)' = "none"
    <3>1. pc[t] \notin Sending /\ pc'[t] \in Sending
      BY <2>1 DEF Sending, Critical
    <3>2. QED
      BY <3>1, <2>1, NothingOut DEF Busy, Out, Result
  <2>4. Sink!Next
    BY <2>2, <2>3, SinkMoves
  <2>5. SinkInv'
    BY <2>1 DEF SinkInv, Sending, Critical
  <2>6. QED
    BY <2>4, <2>5
<1>5. ASSUME NEW t \in Thread, SendTo(t) PROVE Refined
  <2>1. pc[t] = "sendto" /\ datagram[t] = NoDatagram
    BY <1>5 DEF SendTo, SinkInv, Sending, Critical
  <2>2. CASE Leave(t, "failed") /\ UNCHANGED datagram
    BY <1>3, <2>1, <2>2 DEF Sending, Critical
  <2>3. ASSUME NEW whole \in BOOLEAN, Leave(t, SendResult(whole)),
               datagram' = [datagram EXCEPT ![t] = [to |-> endpoint, whole |-> whole]]
        PROVE  Refined
    <3>1. /\ pc'[t] = "unlock" /\ status'[t] = SendResult(whole)
          /\ datagram'[t] = [to |-> endpoint, whole |-> whole]
          /\ \A u \in Thread \ {t} :
               pc'[u] = pc[u] /\ status'[u] = status[u] /\ datagram'[u] = datagram[u]
      BY <2>3 DEF Leave, Goto, TypeOK
    <3>2. [to |-> endpoint, whole |-> whole] # NoDatagram
      BY NoDatagramAssumption DEF TypeOK, Datagram
    <3>3. Amount(datagram'[t]) = IF whole THEN "whole" ELSE "part"
      BY <3>1, <3>2 DEF Amount
    <3>4. \A u \in Thread \ {t} : SinkUnchanged(u)
      BY <3>1, SinkSame
    <3>5. /\ Busy(t) /\ Busy(t)' /\ Out(t) = "nothing" /\ Out(t)' \in {"part", "whole"}
          /\ Result(t)' = Result(t)
      <4>1. pc[t] \in Sending /\ pc'[t] \in Sending
        BY <2>1, <3>1 DEF Sending, Critical
      <4>2. QED
        BY <4>1, <2>1, <3>3, NothingOut DEF Busy, Out, Result
    <3>6. Sink!Next
      BY <3>4, <3>5, SinkMoves
    <3>7. status'[t] \in Sink!Truthful(Amount(datagram'[t]))
      BY <3>1, <3>3, SinkTruth DEF SendResult
    <3>8. SinkInv'
      BY <3>1, <3>7 DEF SinkInv, Sending, Critical
    <3>9. QED
      BY <3>6, <3>8
  <2>4. QED
    BY <1>5, <2>2, <2>3 DEF SendTo
<1>6. ASSUME NEW t \in Thread, Unlock(t) PROVE Refined
  <2>1. /\ pc[t] = "unlock" /\ pc'[t] = "idle" /\ UNCHANGED <<status, datagram>>
        /\ \A u \in Thread \ {t} : pc'[u] = pc[u]
    BY <1>6 DEF Unlock, Goto, TypeOK, history
  <2>2. \A u \in Thread \ {t} : SinkUnchanged(u)
    BY <2>1, SinkSame
  <2>3. Busy(t) /\ ~Busy(t)' /\ Out(t)' = Out(t) /\ Result(t)' \in Sink!Truthful(Out(t))
    <3>1. pc[t] \in Sending /\ pc'[t] \notin Sending
      BY <2>1 DEF Sending, Critical
    <3>2. Result(t)' = status[t] /\ Out(t)' = Out(t)
      BY <3>1, <2>1 DEF Result, Out
    <3>3. QED
      BY <3>1, <3>2, <2>1 DEF Busy, Out, SinkInv
  <2>4. Sink!Next
    BY <2>2, <2>3, SinkMoves
  <2>5. SinkInv'
    BY <2>1 DEF SinkInv, Sending, Critical
  <2>6. QED
    BY <2>4, <2>5
<1> USE DEF history, Sending, Critical, Configuring
<1>7. ASSUME NEW t \in Thread, CheckEnabled(t) \/ SendMessage(t) PROVE Refined
  <2>1. UNCHANGED datagram /\ pc[t] \in {"check", "sample"}
    BY <1>7 DEF CheckEnabled, SendMessage
  <2>2. CASE Omit(t)
    BY <2>1, <2>2, SinkOmits
  <2>3. CASE UNCHANGED status /\ \E label \in {"sample", "lock"} : Goto(t, label)
    BY <1>2, <2>1, <2>3
  <2>4. QED
    BY <1>7, <2>2, <2>3 DEF CheckEnabled, SendMessage
<1>8. ASSUME NEW t \in Thread, Resolve(t) \/ Lock(t) PROVE Refined
  <2>1. /\ UNCHANGED <<datagram, status>> /\ pc[t] \in {"lock", "resolve"}
        /\ \E label \in {"resolve", "open", "query"} : Goto(t, label)
    BY <1>8 DEF Resolve, Lock
  <2>2. QED
    BY <1>2, <2>1
<1>9. ASSUME NEW t \in Thread, Query(t) \/ OpenSocket(t) \/ Bind(t) PROVE Refined
  <2>1. UNCHANGED datagram /\ pc[t] \in {"query", "open", "bind"}
    BY <1>9 DEF Query, OpenSocket, Bind
  <2>2. CASE \E r \in {"failed", "threw"} : Leave(t, r)
    BY <1>3, <2>1, <2>2
  <2>3. CASE UNCHANGED status /\ \E label \in {"open", "sendto", "bind"} : Goto(t, label)
    BY <1>2, <2>1, <2>3
  <2>4. QED
    BY <1>9, <2>2, <2>3 DEF Query, OpenSocket, Bind
<1>10. ASSUME NEW t \in Thread,
              NEW h \in HostString, NEW p \in PortString, NEW x \in PrefixString,
              BeginConfigure(t, h, p, x)
       PROVE  Refined
  <2>1. UNCHANGED <<datagram, status>> /\ pc[t] = "idle" /\ Goto(t, "set_host")
    BY <1>10 DEF BeginConfigure, NewCall
  <2>2. QED
    BY <1>2, <2>1
<1>11. ASSUME NEW t \in Thread,
              SetHost(t) \/ SetPort(t) \/ SetPrefix(t) \/ SetEnabled(t) \/ Destroy(t)
       PROVE  Refined
  <2>1. /\ UNCHANGED <<datagram, status>> /\ pc[t] \in Configuring \cup {"destroy"}
        /\ \E label \in Configuring \cup {"idle"} : Goto(t, label)
    BY <1>11 DEF SetHost, SetPort, SetPrefix, SetEnabled, Destroy
  <2>2. QED
    BY <1>2, <2>1
<1>12. ASSUME NEW t \in Thread, NEW value \in BOOLEAN, Enable(t, value) PROVE Refined
  BY <1>0, <1>12 DEF Enable
<1>13. ASSUME NEW t \in Thread, WriteMetric(t) PROVE Refined
  BY <1>0, <1>13 DEF WriteMetric
<1>14. CASE UNCHANGED vars
  BY <1>0, <1>14 DEF vars
<1>15. ASSUME NEW t \in Thread, BeginDestroy(t) PROVE Refined
  <2>1. UNCHANGED <<datagram, status>> /\ pc[t] = "idle" /\ Goto(t, "destroy")
    BY <1>15 DEF BeginDestroy, NewCall
  <2>2. QED
    BY <1>2, <2>1
<1>16. QED
  BY <1>4, <1>5, <1>6, <1>7, <1>8, <1>9, <1>10, <1>11, <1>12, <1>13, <1>14, <1>15
     DEF Next, Begin, Step

(* Every behaviour of the client is one of the sink, for any number of     *)
(* threads: one datagram at most for a call, and a truthful answer.        *)
THEOREM SinkImplemented == Spec => Sink!Init /\ [][Sink!Next]_(Sink!vars)
<1>1. Init => SinkInv
  BY DEF Init, SinkInv, Sending, Critical
<1>2. Init => Sink!Init
  <2> SUFFICES ASSUME Init PROVE Sink!Init
    OBVIOUS
  <2>1. \A t \in Thread : (pc[t] \in Sending) = FALSE
    BY DEF Init, Sending, Critical
  <2>2. [t \in Thread |-> pc[t] \in Sending] = [c \in Thread |-> FALSE]
    BY <2>1
  <2>3. [t \in Thread |-> Amount(datagram[t])] = [c \in Thread |-> "nothing"]
    BY NothingOut DEF Init
  <2>4. [t \in Thread |-> IF pc[t] \in Sending THEN "none" ELSE status[t]]
          = [c \in Thread |-> "none"]
    BY <2>1 DEF Init
  <2>5. QED
    BY <2>2, <2>3, <2>4 DEF Sink!Init
<1>3. TypeOK /\ SinkInv /\ [Next]_vars => SinkInv' /\ [Sink!Next]_(Sink!vars)
  BY SinkStep
<1>4. QED
  BY <1>1, <1>2, <1>3, Typing, PTL DEF Spec
=============================================================================
