--------------------------- MODULE MCStatsdClient ---------------------------
(***************************************************************************)
(* Instances of StatsdClient for TLC.                                      *)
(***************************************************************************)
EXTENDS StatsdClient, TLC

CONSTANTS t1, t2, t3, h1, h2, p1, p2, x1, x2, m1, m2, m3

(* One metric of each fate; the constructor clamps the first and third. *)
Always    == NewMetric("counter", m1, One + 1)
Sampled   == NewMetric("timer", m2, 1)
Never     == NewMetric("gauge", m3, -1)
NoMetric  == NewMetric("empty", m3, One)

OneMetric == {<<Sampled>>}

MCBatch == {<<Always>>, <<NoMetric, Sampled, Always>>}

(* Batches whose metrics, first ones included, are sent or not. *)
FramedBatch == MCBatch \cup {<< >>, <<Never, NoMetric>>, <<Sampled, Always>>,
                             <<Always, Never, Sampled>>}

Threads == Permutations(Thread)
=============================================================================
