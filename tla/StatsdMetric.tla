---------------------------- MODULE StatsdMetric ----------------------------
(***************************************************************************)
(* A statsd metric: its construction, the sampling decision the client     *)
(* takes for it and the protocol line it is written as.  Rates are counted *)
(* in steps of 1/One, so that 0 never samples and One always does; names   *)
(* and values are members of abstract sets.                                *)
(***************************************************************************)
EXTENDS Integers

CONSTANTS Name,     (* the names of the metrics                             *)
          One       (* the sampling rate 1.0, in steps of 1/One             *)

ASSUME OneAssumption == One \in Nat \ {0}

Tag == {"empty", "counter", "timer", "gauge", "set"}

Metric == [tag : Tag, name : Name, rate : 0..One]

(* The constructor clamps the rate it is given to [0, 1]. *)
Clamp(rate) == IF rate < 0 THEN 0 ELSE IF rate > One THEN One ELSE rate

NewMetric(tag, name, rate) ==
  [tag |-> tag, name |-> name, rate |-> Clamp(rate)]

(* A wrong comparison: rate 0 would be sent when the draw is 0. *)
ShouldSendAtLeast(m) ==
  IF m.tag = "empty" THEN {FALSE} ELSE {m.rate >= draw : draw \in 0 .. (One - 1)}

(* A draw of uniform_real_distribution(0, 1) lies in [0, 1): here, in      *)
(* 0 .. One - 1.  The set of answers should_send can give for a metric.    *)
ShouldSend(m) ==
  IF m.tag = "empty" THEN {FALSE}
  ELSE IF m.rate < One THEN {m.rate > draw : draw \in 0 .. (One - 1)}
  ELSE {TRUE}

(* What write puts on the stream: the prefix, the name, the kind, and the  *)
(* rate for a sampled counter only.  The measured value is left out.       *)
Line(prefix, m) ==
  [prefix |-> prefix,
   name   |-> m.name,
   kind   |-> m.tag,
   rate   |-> IF m.tag = "counter" THEN m.rate ELSE One]
=============================================================================
