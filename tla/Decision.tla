------------------------------- MODULE Decision -------------------------------
(***************************************************************************)
(* The weight-free decision summary of analysis/paper_figures.py: which    *)
(* protected configurations are dominated by another one on the security   *)
(* axes, latency and bytes (dominance_frame).                              *)
(*                                                                         *)
(* A comparison of two configurations is the interval the bootstrap gave   *)
(* for the difference of their medians, config minus reference:            *)
(* [ci90_lo, ci90_hi, diff_ms, ref_median], in whole units.                *)
(***************************************************************************)
EXTENDS Integers, SecurityAxes

EQUIV_MARGIN_PCT == 5

\* PROTECTED, whose order decides which way round a pair is compared.
RankOf == [classical |-> 1, classical_ecdhe |-> 2, hybrid |-> 3,
           hybrid_kex |-> 4, full_pqc |-> 5, hybrid_kex_pq |-> 6]
Pairs(present) == {p \in present \X present : RankOf[p[1]] < RankOf[p[2]]}

\* pw holds each pair one way round, or, for want of repetitions, not at all.
Compared(a, b, pw) == <<a, b>> \in DOMAIN pw \/ <<b, a>> \in DOMAIN pw

\* Mutant: a pair recorded the other way round is read as it stands.
upper_unflipped(a, b, pw) ==
    IF <<a, b>> \in DOMAIN pw THEN pw[<<a, b>>].ci90_hi ELSE pw[<<b, a>>].ci90_hi

\* The upper end of the interval for a minus b ...
upper(a, b, pw) ==
    IF <<a, b>> \in DOMAIN pw THEN pw[<<a, b>>].ci90_hi ELSE -pw[<<b, a>>].ci90_lo

\* ... and the median of b, which it is a percentage of.
base(a, b, pw) ==
    IF <<a, b>> \in DOMAIN pw THEN pw[<<a, b>>].ref_median
    ELSE pw[<<b, a>>].ref_median + pw[<<b, a>>].diff_ms

\* The two results of lat_not_worse: a is no worse than b, a is better.
lat_not_worse(a, b, pw) ==
    Compared(a, b, pw) => 100 * upper(a, b, pw) < EQUIV_MARGIN_PCT * base(a, b, pw)
lat_better(a, b, pw) ==
    Compared(a, b, pw) /\ 100 * upper(a, b, pw) < -(EQUIV_MARGIN_PCT * base(a, b, pw))

AtLeastAsSecure(a, b) ==
    \A axis \in {KexVsCrqc, KexIfMlkemBreaks, SigVsCrqc} : b \in axis => a \in axis
StrictlyMoreSecure(a, b) ==
    \E axis \in {KexVsCrqc, KexIfMlkemBreaks, SigVsCrqc} : a \in axis /\ b \notin axis

Weighed(a, b, byte_map) == a \in DOMAIN byte_map /\ b \in DOMAIN byte_map

dominates(a, b, pw, byte_map) ==
    /\ AtLeastAsSecure(a, b)
    /\ lat_not_worse(a, b, pw)
    /\ Weighed(a, b, byte_map) => byte_map[a] <= byte_map[b]
    /\ \/ StrictlyMoreSecure(a, b)
       \/ lat_better(a, b, pw)
       \/ Weighed(a, b, byte_map) /\ byte_map[a] < byte_map[b]

\* The configurations no other one dominates, for one workload's bytes.
NonDominated(present, pw, byte_map) ==
    {c \in present : \A o \in present \ {c} : ~dominates(o, c, pw, byte_map)}

\* What holds of the comparisons: percentiles are ordered, medians positive.
Comparison(r) ==
    /\ {r.ci90_lo, r.ci90_hi, r.diff_ms, r.ref_median} \subseteq Int
    /\ r.ci90_lo <= r.ci90_hi
    /\ r.ref_median > 0
    /\ r.ref_median + r.diff_ms > 0

=============================================================================
