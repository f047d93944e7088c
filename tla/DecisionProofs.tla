---------------------------- MODULE DecisionProofs ----------------------------
(***************************************************************************)
(* The analysis for every history of the results directory.                *)
(*                                                                         *)
(* The decision table: domination is asymmetric, and among the six         *)
(* protected configurations it leaves some of any that are present         *)
(* undominated, although it is not transitive (the latency margin is a     *)
(* tolerance) and pairs may lack a comparison.                             *)
(*                                                                         *)
(* The outputs: each is of one run, the sheet of numbers covers what its   *)
(* invocation wrote, and what a table leaves out is noted.  The invariant  *)
(* FiguresInv ties the files on disk to what the running invocation        *)
(* remembers of them.                                                      *)
(*                                                                         *)
(* The dashboard: it opens with the latest run and hides nothing of it.    *)
(***************************************************************************)
EXTENDS Dashboard, FiniteSetTheorems, WellFoundedInduction, TLAPS

\* What dominance_frame is given: comparisons of pairs in the order of
\* PROTECTED, and whole numbers of bytes for some of the configurations.
Measured(present, pw, byte_map) ==
    /\ DOMAIN pw \subseteq Pairs(present)
    /\ \A p \in DOMAIN pw : Comparison(pw[p])
    /\ \A c \in DOMAIN byte_map : byte_map[c] \in Int

-----------------------------------------------------------------------------
\* A pair is compared one way round only.
LEMMA OneWayRound ==
  ASSUME NEW present \in SUBSET PROTECTED, NEW pw, DOMAIN pw \subseteq Pairs(present),
         NEW a, NEW b, <<a, b>> \in DOMAIN pw
  PROVE  <<b, a>> \notin DOMAIN pw
<1>1. <<a, b>> \in Pairs(present) /\ RankOf[a] < RankOf[b] /\ a \in PROTECTED /\ b \in PROTECTED
  BY DEF Pairs
<1>2. \A c \in PROTECTED : RankOf[c] \in Int
  BY DEF PROTECTED, CONFIGS, RankOf
<1>3. ~(RankOf[b] < RankOf[a])
  BY <1>1, <1>2
<1> QED
  BY <1>3 DEF Pairs

\* An interval that lies below zero is not, read the other way round, below
\* zero as well.
LEMMA NotBothBetter ==
  ASSUME NEW present \in SUBSET PROTECTED, NEW pw, NEW byte_map, Measured(present, pw, byte_map),
         NEW a, NEW b, <<a, b>> \in DOMAIN pw, lat_better(a, b, pw), lat_better(b, a, pw)
  PROVE  FALSE
<1> DEFINE r == pw[<<a, b>>]
<1>1. Comparison(r)
  BY DEF Measured
<1>2. <<b, a>> \notin DOMAIN pw
  BY OneWayRound DEF Measured
<1>3. 100 * r.ci90_hi < -(5 * r.ref_median)
  BY DEF lat_better, upper, base, EQUIV_MARGIN_PCT
<1>4. 100 * (-r.ci90_lo) < -(5 * (r.ref_median + r.diff_ms))
  BY <1>2 DEF lat_better, upper, base, EQUIV_MARGIN_PCT
<1>5. /\ r.ci90_lo \in Int /\ r.ci90_hi \in Int /\ r.diff_ms \in Int /\ r.ref_median \in Int
      /\ r.ci90_lo <= r.ci90_hi /\ r.ref_median > 0 /\ r.ref_median + r.diff_ms > 0
  BY <1>1 DEF Comparison
<1> HIDE DEF r
<1> QED
  BY <1>3, <1>4, <1>5

\* Domination is asymmetric (dominates in dominance_frame): two configurations
\* never dismiss each other.
THEOREM DominationAsymmetric ==
  ASSUME NEW present \in SUBSET PROTECTED, NEW pw, NEW byte_map, Measured(present, pw, byte_map),
         NEW a, NEW b, dominates(a, b, pw, byte_map), dominates(b, a, pw, byte_map)
  PROVE  FALSE
<1>1. ~StrictlyMoreSecure(a, b) /\ ~StrictlyMoreSecure(b, a)
  BY DEF dominates, AtLeastAsSecure, StrictlyMoreSecure
<1>2. ~(Weighed(a, b, byte_map) /\ byte_map[a] < byte_map[b])
  BY DEF dominates, Weighed, Measured
<1>3. ~(Weighed(b, a, byte_map) /\ byte_map[b] < byte_map[a])
  BY DEF dominates, Weighed, Measured
<1>4. lat_better(a, b, pw) /\ lat_better(b, a, pw)
  BY <1>1, <1>2, <1>3 DEF dominates
<1>5. CASE <<a, b>> \in DOMAIN pw
  BY <1>4, <1>5, NotBothBetter
<1>6. CASE <<b, a>> \in DOMAIN pw
  BY <1>4, <1>6, NotBothBetter
<1> QED
  BY <1>4, <1>5, <1>6 DEF lat_better, Compared

-----------------------------------------------------------------------------
\* SEC_AXES: what is at least as secure as each configuration.
LEMMA AxesOrder ==
  ASSUME NEW o \in PROTECTED
  PROVE  /\ AtLeastAsSecure(o, "hybrid_kex_pq") => o = "hybrid_kex_pq"
         /\ AtLeastAsSecure(o, "full_pqc") => o \in {"full_pqc", "hybrid_kex_pq"}
         /\ AtLeastAsSecure(o, "hybrid_kex") => o \in {"hybrid_kex", "hybrid_kex_pq"}
         /\ AtLeastAsSecure(o, "hybrid") => o \in {"hybrid", "hybrid_kex", "full_pqc", "hybrid_kex_pq"}
BY DEF AtLeastAsSecure, KexVsCrqc, KexIfMlkemBreaks, SigVsCrqc, PROTECTED, CONFIGS

\* However the measurements come out, dominance_frame leaves a configuration
\* undominated.  Security decides when one with a post-quantum key exchange is
\* present; only the two classical ones are ever told apart by measurement
\* alone, and those never dismiss each other.
THEOREM SomethingUndominated ==
  ASSUME NEW present \in SUBSET PROTECTED, present # {},
         NEW pw, NEW byte_map, Measured(present, pw, byte_map)
  PROVE  NonDominated(present, pw, byte_map) # {}
<1> DEFINE best(c) == c \in present /\ \A o \in present \ {c} : ~AtLeastAsSecure(o, c)
<1>1. ASSUME NEW c, best(c)
      PROVE  NonDominated(present, pw, byte_map) # {}
  <2>1. \A o \in present \ {c} : ~dominates(o, c, pw, byte_map)
    BY <1>1 DEF dominates
  <2> QED
    BY <1>1, <2>1 DEF NonDominated
<1>2. CASE "hybrid_kex_pq" \in present
  <2>1. best("hybrid_kex_pq")
    BY <1>2, AxesOrder
  <2> QED
    BY <2>1, <1>1
<1>3. CASE "hybrid_kex_pq" \notin present /\ "full_pqc" \in present
  <2>1. best("full_pqc")
    BY <1>3, AxesOrder
  <2> QED
    BY <2>1, <1>1
<1>4. CASE "hybrid_kex_pq" \notin present /\ "hybrid_kex" \in present
  <2>1. best("hybrid_kex")
    BY <1>4, AxesOrder
  <2> QED
    BY <2>1, <1>1
<1>5. CASE present \cap {"hybrid_kex_pq", "full_pqc", "hybrid_kex"} = {} /\ "hybrid" \in present
  <2>1. best("hybrid")
    BY <1>5, AxesOrder
  <2> QED
    BY <2>1, <1>1
<1>6. CASE present \subseteq {"classical", "classical_ecdhe"}
  <2>1. SUFFICES ASSUME NonDominated(present, pw, byte_map) = {}
                 PROVE  FALSE
    OBVIOUS
  <2>2. \A c \in present : \E o \in present \ {c} : dominates(o, c, pw, byte_map)
    BY <2>1 DEF NonDominated
  <2>3. PICK a \in present : TRUE
    OBVIOUS
  <2>4. PICK b \in present \ {a} : dominates(b, a, pw, byte_map)
    BY <2>2, <2>3
  <2>5. PICK c \in present \ {b} : dominates(c, b, pw, byte_map)
    BY <2>2, <2>4
  <2>6. c = a
    BY <1>6, <2>3, <2>4, <2>5
  <2> QED
    BY <2>4, <2>5, <2>6, DominationAsymmetric
<1>7. present \subseteq {"classical", "classical_ecdhe", "hybrid", "hybrid_kex", "full_pqc", "hybrid_kex_pq"}
  BY DEF PROTECTED, CONFIGS
<1> QED
  BY <1>2, <1>3, <1>4, <1>5, <1>6, <1>7

-----------------------------------------------------------------------------
\* comparison_stats compares only pairs it is asked to compare.
LEMMA ComparedAsAsked ==
  ASSUME NEW df, NEW present
  PROVE  {<<r.config, r.reference>> : r \in comparison_stats(df, Pairs(present))} \subseteq Pairs(present)
<1>1. SUFFICES ASSUME NEW r \in comparison_stats(df, Pairs(present))
               PROVE  <<r.config, r.reference>> \in Pairs(present)
  OBVIOUS
<1>2. PICK l \in LevelsOf(_ok(df)), p \in Pairs(present) : r = [conc |-> l, config |-> p[1], reference |-> p[2]]
  BY <1>1 DEF comparison_stats
<1>3. r.config = p[1] /\ r.reference = p[2]
  BY <1>2
<1>4. p = <<p[1], p[2]>>
  BY <1>2 DEF Pairs
<1> QED
  BY <1>2, <1>3, <1>4

\* The decision table of every invocation, over every results directory and
\* whatever the bootstrap returned, keeps an undominated configuration for
\* both workloads (table_dominance).
THEOREM UndominatedRemains == Spec => []UndominatedRemain
<1>1. Init => UndominatedRemain
  BY DEF Init, UndominatedRemain
<1>2. UndominatedRemain /\ [Next]_vars => UndominatedRemain'
  <2>1. SUFFICES ASSUME UndominatedRemain, [Next]_vars
                 PROVE  UndominatedRemain'
    OBVIOUS
  <2>2. CASE table_dominance
    <3> DEFINE at == {c \in prog.conc : c.conc = 10}
               present == ConfigsOf(prog.conc) \cap PROTECTED
               compared == {<<r.config, r.reference>> : r \in comparison_stats(at, Pairs(present))}
    <3>1. CASE UNCHANGED decision
      BY <2>1, <3>1 DEF UndominatedRemain
    <3>2. CASE \E pw \in [compared -> Intervals], hs_bytes, pc_bytes \in ByteMaps :
                 decision' = [present |-> present,
                              api |-> NonDominated(present, pw, hs_bytes),
                              per_chunk |-> NonDominated(present, pw, pc_bytes)]
      <4>1. PICK pw \in [compared -> Intervals], hs_bytes \in ByteMaps, pc_bytes \in ByteMaps :
                 decision' = [present |-> present,
                              api |-> NonDominated(present, pw, hs_bytes),
                              per_chunk |-> NonDominated(present, pw, pc_bytes)]
        BY <3>2
      <4>2. \A p \in compared : Comparison(pw[p])
        BY <4>1, IntervalsAssumption
      <4>3. DOMAIN pw = compared /\ compared \subseteq Pairs(present)
        BY <4>1, ComparedAsAsked
      <4>4. Measured(present, pw, hs_bytes) /\ Measured(present, pw, pc_bytes)
        BY <4>1, <4>2, <4>3, ByteMapsAssumption DEF Measured
      <4>5. present \in SUBSET PROTECTED
        OBVIOUS
      <4> HIDE DEF present, compared
      <4>6. present # {} => /\ NonDominated(present, pw, hs_bytes) # {}
                            /\ NonDominated(present, pw, pc_bytes) # {}
        BY <4>4, <4>5, SomethingUndominated
      <4> QED
        BY <4>1, <4>6 DEF UndominatedRemain
    <3> QED
      BY <2>2, <3>1, <3>2 DEF table_dominance
  <2>3. CASE Next /\ ~table_dominance
    <3>1. UNCHANGED decision
      BY <2>3 DEF Next, Experiment, Start, LoadConcurrency, Produce, LoadStreaming, write_numbers, Interrupt
    <3> QED
      BY <2>1, <3>1 DEF UndominatedRemain
  <2>4. CASE UNCHANGED vars
    BY <2>1, <2>4 DEF vars, UndominatedRemain
  <2> QED
    BY <2>1, <2>2, <2>3, <2>4
<1> QED
  BY <1>1, <1>2, PTL DEF Spec

-----------------------------------------------------------------------------
(***************************************************************************)
(* Rows.  A corrective run supersedes the run it repeats, whatever is then *)
(* left out or trimmed.                                                    *)
(***************************************************************************)
OneRun(df) == \A c, d \in df : c.config = d.config /\ Filled(c) = Filled(d) => c.run = d.run
OneRunShown(shows) == \A s, t \in shows : s[2] = t[2] /\ s[3] = t[3] => s[1] = t[1]

LEMMA ShownOne ==
  ASSUME NEW df, OneRun(df)
  PROVE  OneRunShown(Shown(df))
BY DEF OneRun, OneRunShown, Shown

LEMMA StreamOne == \A run, rows : OneRunShown(ShownStream(run, rows))
BY DEF OneRunShown, ShownStream

\* The server's samples, of each configuration's latest run.
LEMMA SamplesOne ==
  ASSUME results.raw \subseteq Cells, NEW run_ids, NEW some, some \subseteq _resource_cells(run_ids)
  PROVE  /\ \A c, d \in some : c.config = d.config => c.run = d.run
         /\ \A c \in some : c.run \in run_ids
<1> SUFFICES ASSUME NEW c \in some, NEW d \in some
             PROVE  (c.config = d.config => c.run = d.run) /\ c.run \in run_ids
  OBVIOUS
<1>1. /\ c \in results.raw /\ d \in results.raw /\ c.run \in run_ids
      /\ c.config = d.config => c.run <= d.run /\ d.run <= c.run
  BY DEF _resource_cells
<1>2. c.run \in Nat /\ d.run \in Nat
  BY <1>1 DEF Cells
<1> QED BY <1>1, <1>2

\* Trimming changes nothing that identifies a row.
LEMMA TrimmedRow ==
  ASSUME NEW c \in Cells
  PROVE  LET t == [c EXCEPT !.warm = {}]
         IN  t \in Cells /\ t.run = c.run /\ t.config = c.config /\ t.settings = c.settings
             /\ Filled(t) = Filled(c) /\ t.conc = c.conc /\ t.rest = c.rest /\ t.warm = {}
BY DEF Cells, Filled

LEMMA TrimmedOne ==
  ASSUME NEW df, df \subseteq Cells, OneRun(df)
  PROVE  OneRun(discard_warmup(df)) /\ discard_warmup(df) \subseteq Cells
<1>1. ASSUME NEW t \in discard_warmup(df)
      PROVE  \E c \in df : t.run = c.run /\ t.config = c.config /\ Filled(t) = Filled(c) /\ t \in Cells
  <2>1. PICK c \in df : t = [c EXCEPT !.warm = {}]
    BY DEF discard_warmup
  <2> QED BY <2>1, TrimmedRow
<1> QED BY <1>1 DEF OneRun

LEMMA LatestOne ==
  ASSUME NEW df, df \subseteq Cells
  PROVE  OneRun(_latest_run_per_cell(df))
<1> SUFFICES ASSUME NEW c \in _latest_run_per_cell(df), NEW d \in _latest_run_per_cell(df),
                    c.config = d.config, Filled(c) = Filled(d)
             PROVE  c.run = d.run
  BY DEF OneRun
<1>1. c \in df /\ d \in df /\ c.run <= d.run /\ d.run <= c.run
  BY DEF _latest_run_per_cell
<1>2. c.run \in Nat /\ d.run \in Nat
  BY <1>1 DEF Cells
<1> QED BY <1>1, <1>2

LEMMA FewerOne ==
  ASSUME NEW df, OneRun(df), NEW some, some \subseteq df
  PROVE  OneRun(some)
BY DEF OneRun

LEMMA SelectedOne ==
  ASSUME NEW raw, raw \subseteq Cells, NEW run_ids
  PROVE  /\ selected(raw, run_ids) \subseteq raw /\ OneRun(selected(raw, run_ids))
         /\ \A c \in selected(raw, run_ids) : IF run_ids = None THEN c.run = LEGACY ELSE c.run \in run_ids
<1>1. CASE run_ids = None
  BY <1>1 DEF selected, OneRun
<1>2. CASE run_ids # None
  <2> DEFINE named == {c \in raw : c.run \in run_ids}
  <2>1. OneRun(_latest_run_per_cell(named))
    BY LatestOne
  <2>2. selected(raw, run_ids) = _latest_run_per_cell(named)
    BY <1>2 DEF selected
  <2>3. _latest_run_per_cell(named) \subseteq named
    BY DEF _latest_run_per_cell
  <2> QED BY <1>2, <2>1, <2>2, <2>3
<1> QED BY <1>1, <1>2

\* What main computes the concurrency outputs from.
LEMMA ConcurrencyOne ==
  ASSUME NEW raw, raw \subseteq Cells, NEW run_ids
  PROVE  LET df == load_concurrency(raw, run_ids)
         IN  /\ OneRun(df) /\ df \subseteq discard_warmup(raw) /\ df \subseteq Cells
             /\ \A c \in df : IF run_ids = None THEN c.run = LEGACY ELSE c.run \in run_ids
<1> DEFINE kept == {c \in selected(raw, run_ids) : ~all_404(c)}
<1>1. /\ kept \subseteq raw /\ OneRun(kept)
      /\ \A c \in kept : IF run_ids = None THEN c.run = LEGACY ELSE c.run \in run_ids
  BY SelectedOne, FewerOne
<1>2. OneRun(discard_warmup(kept)) /\ discard_warmup(kept) \subseteq Cells
  <2> HIDE DEF kept
  <2> QED BY <1>1, TrimmedOne
<1>3. discard_warmup(kept) \subseteq discard_warmup(raw)
  <2> HIDE DEF kept
  <2> QED BY <1>1 DEF discard_warmup
<1>4. ASSUME NEW t \in discard_warmup(kept)
      PROVE  IF run_ids = None THEN t.run = LEGACY ELSE t.run \in run_ids
  <2>1. PICK c \in kept : t = [c EXCEPT !.warm = {}]
    BY DEF discard_warmup
  <2>2. c \in Cells
    BY <1>1, <2>1
  <2> HIDE DEF kept
  <2> QED BY <1>1, <2>1, <2>2, TrimmedRow
<1>5. load_concurrency(raw, run_ids) = discard_warmup(kept)
  BY DEF load_concurrency
<1> QED BY <1>2, <1>3, <1>4, <1>5

\* What the sweeps over one setting are computed from.
LEMMA RunsOne ==
  ASSUME NEW raw, raw \subseteq Cells, NEW run_ids
  PROVE  OneRun(_ok(_load_runs(raw, run_ids)))
<1>1. load_raw(raw, run_ids) \subseteq Cells
  BY DEF load_raw
<1>2. /\ OneRun(_latest_run_per_cell(load_raw(raw, run_ids)))
      /\ _latest_run_per_cell(load_raw(raw, run_ids)) \subseteq Cells
  BY <1>1, LatestOne DEF _latest_run_per_cell
<1>3. OneRun(_load_runs(raw, run_ids))
  BY <1>2, TrimmedOne DEF _load_runs
<1> QED BY <1>3, FewerOne DEF _ok

\* They are rows of the runs that were named.
LEMMA RunsNamed ==
  ASSUME NEW raw, raw \subseteq Cells, NEW run_ids, run_ids # None
  PROVE  \A t \in _ok(_load_runs(raw, run_ids)) : t.run \in run_ids
<1> SUFFICES ASSUME NEW t \in _ok(_load_runs(raw, run_ids))
             PROVE  t.run \in run_ids
  OBVIOUS
<1>1. PICK c \in _latest_run_per_cell(load_raw(raw, run_ids)) : t = [c EXCEPT !.warm = {}]
  BY DEF _ok, _load_runs, discard_warmup
<1>2. c \in raw /\ c.run \in run_ids
  BY DEF _latest_run_per_cell, load_raw
<1> QED BY <1>1, <1>2, TrimmedRow

\* The pairs with and without the authenticated handshake, of which the
\* manifest names one run each.
LEMMA PairsOne ==
  ASSUME NEW raw, raw \subseteq Cells, NEW runs, OneRunEachWay(raw, runs),
         NEW some, some \subseteq discard_warmup({c \in raw : c.run \in runs})
  PROVE  OneRunShown(ShownPairs(some)) /\ \A s \in ShownPairs(some) : s[1] \in runs
<1>1. ASSUME NEW t \in some
      PROVE  \E c \in {e \in raw : e.run \in runs} :
                t.run = c.run /\ t.config = c.config /\ handshake(t) = handshake(c)
  <2>1. PICK c \in {e \in raw : e.run \in runs} : t = [c EXCEPT !.warm = {}]
    BY <1>1 DEF discard_warmup
  <2> QED BY <2>1, TrimmedRow DEF handshake
<1>2. \A t, u \in some : t.config = u.config /\ handshake(t) = handshake(u) => t.run = u.run
  BY <1>1 DEF OneRunEachWay
<1>3. \A t \in some : t.run \in runs
  BY <1>1
<1> QED BY <1>2, <1>3 DEF OneRunShown, ShownPairs

-----------------------------------------------------------------------------
(***************************************************************************)
(* One invocation.                                                         *)
(***************************************************************************)
\* The locals of main, field by field, with those that a call may assign.
Locals(m, conc, provisional, sdf, notes, wrote) ==
    [pc |-> m.pc, run_ids |-> m.run_ids, streaming_run_id |-> m.streaming_run_id,
     payload |-> m.payload, network |-> m.network, amortization |-> m.amortization,
     auth_cost |-> m.auth_cost, checkpoint |-> m.checkpoint, conc |-> conc,
     provisional |-> provisional, sdf |-> sdf, notes |-> notes, wrote |-> wrote]

IsProg(m) == m = Locals(m, m.conc, m.provisional, m.sdf, m.notes, m.wrote)

\* The rows an invocation works on, once it has loaded them.
LoadedInv(m) ==
    /\ OneRun(m.conc) /\ \A c \in m.conc : m.provisional <=> c.run = LEGACY
    /\ m.provisional \in BOOLEAN /\ (m.pc > 1 => (m.provisional <=> m.run_ids = None))
    /\ m.run_ids # None => LEGACY \notin m.run_ids

\* The runs it was given, which are not the legacy bucket; those that are
\* compared in pairs are one each way, whatever is added to the directory.
NamedInv(m, h) ==
    /\ \A runs \in {m.payload, m.network, m.amortization} :
          LEGACY \notin runs /\ (runs = {} \/ runs # None)
    /\ LEGACY \notin m.auth_cost /\ m.streaming_run_id # LEGACY /\ m.checkpoint # LEGACY
    /\ \A t \in DOMAIN Histories[h] : OneRunEachWay(Histories[h][t].raw, m.auth_cost)

\* What is said of legacy rows: the stamp, unless the output never bears it,
\* and for the concurrency outputs the sheet.
ToldOf(f, provisional) ==
    \A s \in f.shows :
        /\ f.stamped <=> s[1] = LEGACY /\ f.name \notin UNSTAMPED
        /\ f.name \in STAMPED \cup UNSTAMPED => (provisional <=> s[1] = LEGACY)

\* A file that may be written: of one run for each row, legacy rows told.
GoodFile(f, m) ==
    /\ f.name \in Outputs
    /\ OneRunShown(f.shows)
    /\ ToldOf(f, m.provisional)
    /\ f.name = "tab_concurrency" => f.shows = Shown(m.conc)

\* Nothing, a note, an exception, or files with what they show.
LEMMA DidFields ==
  /\ Returns.writes = {} /\ Raises.writes = {} /\ Returns.raises = FALSE /\ Raises.raises = TRUE
  /\ \A note : Notes(note).writes = {}
  /\ \A name, stamped, shows :
        /\ Writes(name, stamped, shows).writes = {[name |-> name, stamped |-> stamped, shows |-> shows]}
        /\ Writes(name, stamped, shows).raises = FALSE
BY DEF Returns, Raises, Notes, Writes, Did, File

\* Outputs that have nothing to do with the concurrency rows.
Others == Outputs \ (STAMPED \cup UNSTAMPED)

LEMMA OutputNames ==
  /\ STAMPED \subseteq Outputs /\ UNSTAMPED \subseteq Outputs
  /\ STAMPED \cap UNSTAMPED = {} /\ "tab_concurrency" \in STAMPED
  /\ {"fig_primitive_throughput", "tab_primitives", "fig_wire_bytes",
      "fig_streaming_hndl", "tab_threats", "fig_streaming_strategies", "tab_streaming",
      "tab_campaign", "tab_keysub", "tab_authcost", "fig_payload_profiles", "tab_payload_profiles",
      "fig_checkpoint_frontier", "tab_checkpoint", "tab_timing", "fig_handshake_amortization",
      "fig_network_conditions", "tab_environment"} \subseteq Others
BY DEF Others, Outputs, STAMPED, UNSTAMPED

\* Files of the rows of load_concurrency, which all are legacy or all not.
LEMMA ConcurrencyFiles ==
  ASSUME NEW m, LoadedInv(m), NEW df, df \subseteq m.conc
  PROVE  /\ \A name \in STAMPED \ {"tab_concurrency"} : GoodFile(File(name, m.provisional, Shown(df)), m)
         /\ \A name \in UNSTAMPED : \A some \in SUBSET Shown(df) : GoodFile(File(name, FALSE, some), m)
<1>1. OneRunShown(Shown(df))
  BY FewerOne, ShownOne DEF LoadedInv
<1>2. \A s \in Shown(df) : m.provisional <=> s[1] = LEGACY
  BY DEF Shown, LoadedInv
<1>3. ASSUME NEW some \in SUBSET Shown(df) PROVE OneRunShown(some)
  BY <1>1 DEF OneRunShown
<1>4. ASSUME NEW name \in STAMPED \ {"tab_concurrency"}
      PROVE  GoodFile(File(name, m.provisional, Shown(df)), m)
  <2>1. name \in Outputs /\ name \notin UNSTAMPED
    BY OutputNames
  <2> QED BY <1>1, <1>2, <2>1 DEF GoodFile, File, ToldOf
<1>5. ASSUME NEW name \in UNSTAMPED, NEW some \in SUBSET Shown(df)
      PROVE  GoodFile(File(name, FALSE, some), m)
  <2>1. name \in Outputs /\ name # "tab_concurrency"
    BY OutputNames
  <2> QED BY <1>2, <1>3, <2>1 DEF GoodFile, File, ToldOf
<1> QED BY <1>4, <1>5

LEMMA PlainFiles ==
  ASSUME NEW m, NEW name \in Others, NEW shows, OneRunShown(shows), \A s \in shows : s[1] # LEGACY
  PROVE  GoodFile(File(name, FALSE, shows), m)
BY OutputNames DEF GoodFile, File, ToldOf, Others

LEMMA NothingShown == OneRunShown({})
BY DEF OneRunShown

\* Both panels of a figure are of one run for each of their rows, and legacy
\* rows, which have no samples, are stamped.
LEMMA PanelsFile ==
  ASSUME results.raw \subseteq Cells, NEW m, LoadedInv(m), m.pc > 1, NEW sampled, sampled \subseteq res(m)
  PROVE  /\ GoodFile(File("fig_concurrency_latency", m.provisional,
                          Shown(m.conc) \cup ShownSamples(sampled)), m)
         /\ GoodFile(File("tab_resources", m.provisional, ShownSamples(sampled)), m)
<1>1. /\ m.run_ids = None => sampled = {}
      /\ sampled \subseteq _resource_cells(m.run_ids)
  BY DEF res
<1>2. /\ \A c, d \in sampled : c.config = d.config => c.run = d.run
      /\ \A c \in sampled : c.run \in m.run_ids
  BY <1>1, SamplesOne
<1>3. \A c \in sampled : ~m.provisional /\ c.run # LEGACY
  BY <1>1, <1>2 DEF LoadedInv
<1>4. /\ OneRunShown(ShownSamples(sampled))
      /\ \A s \in ShownSamples(sampled) : s[3] = None /\ ~m.provisional /\ s[1] # LEGACY
  BY <1>2, <1>3 DEF ShownSamples, OneRunShown
<1>5. /\ OneRunShown(Shown(m.conc))
      /\ \A s \in Shown(m.conc) : s[3] # None /\ (m.provisional <=> s[1] = LEGACY)
  BY ShownOne, ArgumentsAssumption DEF LoadedInv, Shown, Filled
<1>6. OneRunShown(Shown(m.conc) \cup ShownSamples(sampled))
  <2>1. PICK a, b : a = Shown(m.conc) /\ b = ShownSamples(sampled)
    OBVIOUS
  <2>2. /\ OneRunShown(a) /\ OneRunShown(b)
        /\ \A s \in a : s[3] # None
        /\ \A s \in b : s[3] = None
    BY <1>4, <1>5, <2>1
  <2>3. OneRunShown(a \cup b)
    BY <2>2 DEF OneRunShown
  <2> QED BY <2>1, <2>3
<1>7. {"fig_concurrency_latency", "tab_resources"} \subseteq Outputs \cap STAMPED
      /\ {"fig_concurrency_latency", "tab_resources"} \cap UNSTAMPED = {}
  BY DEF Outputs, STAMPED, UNSTAMPED
<1>8. \A s \in Shown(m.conc) \cup ShownSamples(sampled) : m.provisional <=> s[1] = LEGACY
  BY <1>4, <1>5
<1>9. GoodFile(File("fig_concurrency_latency", m.provisional, Shown(m.conc) \cup ShownSamples(sampled)), m)
  BY <1>6, <1>7, <1>8 DEF GoodFile, File, ToldOf
<1>10. GoodFile(File("tab_resources", m.provisional, ShownSamples(sampled)), m)
  BY <1>4, <1>7 DEF GoodFile, File, ToldOf
<1> QED BY <1>9, <1>10

Produced(step, m) == \A f \in Outcome(step, m).writes : GoodFile(f, m)

LEMMA ConcurrencyProduces ==
  ASSUME results.raw \subseteq Cells, NEW m, LoadedInv(m), m.pc > 1
  PROVE  /\ \A f \in fig_concurrency(m).writes : GoodFile(f, m)
         /\ \A f \in fig_decomposition(m).writes : GoodFile(f, m)
         /\ \A f \in table_concurrency(m).writes : GoodFile(f, m)
         /\ \A f \in table_equivalence(m).writes : GoodFile(f, m)
         /\ \A f \in table_failures(m).writes : GoodFile(f, m)
         /\ \A f \in main_notes(m).writes : GoodFile(f, m)
<1> USE DEF Writes, Returns, Raises, Did
<1>1. "fig_latency_decomposition" \in STAMPED \ {"tab_concurrency"}
      /\ "tab_equivalence" \in UNSTAMPED /\ "tab_failures" \in UNSTAMPED
  BY DEF STAMPED, UNSTAMPED
<1>2. \A f \in fig_concurrency(m).writes : GoodFile(f, m)
  <2> DEFINE sampled == {c \in res(m) : c.config \in ConfigsOf(m.conc) /\ c.conc \in LevelsOf(m.conc)}
  <2>1. sampled \subseteq res(m)
    OBVIOUS
  <2>2. GoodFile(File("fig_concurrency_latency", m.provisional, Shown(m.conc) \cup ShownSamples(sampled)), m)
    <3> HIDE DEF sampled
    <3> QED BY <2>1, PanelsFile
  <2> QED BY <2>2 DEF fig_concurrency
<1>3. \A f \in fig_decomposition(m).writes : GoodFile(f, m)
  <2> DEFINE ok == _ok({c \in m.conc : c.conc = 10})
  <2>1. ok \subseteq m.conc
    BY DEF _ok
  <2>2. GoodFile(File("fig_latency_decomposition", m.provisional, Shown(ok)), m)
    <3> HIDE DEF ok
    <3> QED BY <1>1, <2>1, ConcurrencyFiles
  <2> QED BY <2>2 DEF fig_decomposition
<1>4. \A f \in table_concurrency(m).writes : GoodFile(f, m)
  <2>1. OneRunShown(Shown(m.conc)) /\ \A s \in Shown(m.conc) : m.provisional <=> s[1] = LEGACY
    BY ShownOne DEF LoadedInv, Shown
  <2>2. GoodFile(File("tab_concurrency", m.provisional, Shown(m.conc)), m)
    <3>1. "tab_concurrency" \in Outputs /\ "tab_concurrency" \notin UNSTAMPED
      BY DEF Outputs, STAMPED, UNSTAMPED
    <3> QED BY <2>1, <3>1 DEF GoodFile, File, ToldOf
  <2> QED BY <2>2 DEF table_concurrency
<1>5. \A f \in table_equivalence(m).writes : GoodFile(f, m)
  <2> DEFINE eq == {r \in cmp(m) : r.reference = "classical_ecdhe"}
             some == {s \in Shown(m.conc) : \E r \in eq : s[2] = r.config}
  <2>1. GoodFile(File("tab_equivalence", FALSE, some), m)
    <3>1. some \in SUBSET Shown(m.conc) /\ m.conc \subseteq m.conc
      OBVIOUS
    <3> HIDE DEF some
    <3> QED BY <1>1, <3>1, ConcurrencyFiles
  <2> QED BY <2>1 DEF table_equivalence
<1>6. \A f \in table_failures(m).writes : GoodFile(f, m)
  <2> DEFINE at == {c \in m.conc : c.conc \in LevelsOf(Failing(m.conc))}
  <2>1. GoodFile(File("tab_failures", FALSE, Shown(at)), m)
    <3>1. at \subseteq m.conc /\ Shown(at) \in SUBSET Shown(at)
      OBVIOUS
    <3> HIDE DEF at
    <3> QED BY <1>1, <3>1, ConcurrencyFiles
  <2> QED BY <2>1 DEF table_failures
<1>7. main_notes(m).writes = {}
  BY DEF main_notes
<1> QED BY <1>2, <1>3, <1>4, <1>5, <1>6, <1>7

LEMMA FileProduces ==
  ASSUME NEW m
  PROVE  /\ \A f \in fig_primitives(m).writes : GoodFile(f, m)
         /\ \A f \in fig_wire_bytes(m).writes : GoodFile(f, m)
         /\ \A f \in fig_streaming_hndl(m).writes : GoodFile(f, m)
         /\ \A f \in table_threats(m).writes : GoodFile(f, m)
         /\ \A f \in table_attack_campaign(m).writes : GoodFile(f, m)
         /\ \A f \in table_key_substitution(m).writes : GoodFile(f, m)
         /\ \A f \in table_timing(m).writes : GoodFile(f, m)
         /\ \A f \in table_environment(m).writes : GoodFile(f, m)
<1>1. \A name \in {"fig_primitive_throughput", "tab_primitives", "fig_wire_bytes", "fig_streaming_hndl",
                   "tab_threats", "tab_campaign", "tab_keysub", "tab_timing", "tab_environment"} :
         GoodFile(File(name, FALSE, {}), m)
  BY OutputNames, PlainFiles, NothingShown
<1> QED
  BY <1>1 DEF fig_primitives, fig_wire_bytes, fig_streaming_hndl, table_threats, table_attack_campaign,
     table_key_substitution, table_timing, table_environment, Writes, Returns, Raises, Notes, Did

LEMMA StreamProduces ==
  ASSUME NEW m, NamedInv(m, history)
  PROVE  /\ \A f \in fig_streaming(m).writes : GoodFile(f, m)
         /\ \A f \in table_streaming(m).writes : GoodFile(f, m)
         /\ \A f \in fig_checkpoint_frontier(m).writes : GoodFile(f, m)
         /\ \A f \in table_checkpoint(m).writes : GoodFile(f, m)
<1>1. ASSUME NEW run, NEW rows, run # LEGACY,
             NEW name \in {"fig_streaming_strategies", "tab_streaming", "fig_checkpoint_frontier", "tab_checkpoint"}
      PROVE  GoodFile(File(name, FALSE, ShownStream(run, rows)), m)
  <2>1. \A s \in ShownStream(run, rows) : s[1] # LEGACY
    BY <1>1 DEF ShownStream
  <2>2. name \in Others
    BY OutputNames
  <2> QED BY <2>1, <2>2, PlainFiles, StreamOne
<1>2. m.streaming_run_id # LEGACY /\ m.checkpoint # LEGACY
  BY DEF NamedInv
<1> QED
  BY <1>1, <1>2 DEF fig_streaming, table_streaming, fig_checkpoint_frontier, table_checkpoint,
     Writes, Returns, Raises, Did

LEMMA SettingProduces ==
  ASSUME results.raw \subseteq Cells, NEW m, NamedInv(m, history)
  PROVE  /\ \A f \in fig_payload_profiles(m).writes : GoodFile(f, m)
         /\ \A f \in table_payload_profiles(m).writes : GoodFile(f, m)
         /\ \A f \in fig_amortization(m).writes : GoodFile(f, m)
         /\ \A f \in fig_network(m).writes : GoodFile(f, m)
<1>1. ASSUME NEW runs \in {m.payload, m.network, m.amortization}, runs # {},
             NEW name \in {"fig_payload_profiles", "tab_payload_profiles", "fig_handshake_amortization",
                           "fig_network_conditions"}
      PROVE  GoodFile(File(name, FALSE, Shown(_ok(_load_runs(results.raw, runs)))), m)
  <2>1. LEGACY \notin runs /\ runs # None
    BY <1>1 DEF NamedInv
  <2>2. \A t \in _ok(_load_runs(results.raw, runs)) : t.run # LEGACY
    BY <2>1, RunsNamed
  <2>3. \A s \in Shown(_ok(_load_runs(results.raw, runs))) : s[1] # LEGACY
    BY <2>2 DEF Shown
  <2>4. OneRunShown(Shown(_ok(_load_runs(results.raw, runs))))
    BY RunsOne, ShownOne
  <2>5. name \in Others
    BY OutputNames
  <2> QED BY <2>3, <2>4, <2>5, PlainFiles
<1> QED
  BY <1>1 DEF fig_payload_profiles, table_payload_profiles, fig_amortization, fig_network,
     Writes, Returns, Raises, Notes, Did

\* The table of pairs, and the table of the server's samples.
LEMMA PairProduces ==
  ASSUME results.raw \subseteq Cells, NEW m, OneRunEachWay(results.raw, m.auth_cost),
         LoadedInv(m), NamedInv(m, history), m.pc > 1
  PROVE  /\ \A f \in table_auth_cost(m).writes : GoodFile(f, m)
         /\ \A f \in table_resources(m).writes : GoodFile(f, m)
<1>1. ASSUME NEW some, some \subseteq discard_warmup({c \in results.raw : c.run \in m.auth_cost})
      PROVE  GoodFile(File("tab_authcost", FALSE, ShownPairs(some)), m)
  <2>1. OneRunShown(ShownPairs(some)) /\ \A s \in ShownPairs(some) : s[1] \in m.auth_cost
    BY <1>1, PairsOne
  <2>2. LEGACY \notin m.auth_cost
    BY DEF NamedInv
  <2> QED BY <2>1, <2>2, OutputNames, PlainFiles
<1>2. \A f \in table_auth_cost(m).writes : GoodFile(f, m)
  <2> SUFFICES ASSUME NEW f \in table_auth_cost(m).writes PROVE GoodFile(f, m)
    OBVIOUS
  <2> DEFINE df == discard_warmup({c \in results.raw : c.run \in m.auth_cost})
  <2>1. \E some \in SUBSET df : f = File("tab_authcost", FALSE, ShownPairs(some))
    BY DEF table_auth_cost, Writes, Returns, Raises, Did
  <2> QED BY <1>1, <2>1
<1>3. \A f \in table_resources(m).writes : GoodFile(f, m)
  BY PanelsFile DEF table_resources, Writes, Notes, Did
<1> QED BY <1>2, <1>3

Steps == {"fig_concurrency", "fig_decomposition", "table_concurrency", "table_equivalence",
          "table_failures", "notes", "fig_primitives", "fig_wire_bytes", "fig_streaming_hndl",
          "table_threats", "fig_streaming", "table_streaming", "table_attack_campaign",
          "table_key_substitution", "table_auth_cost", "table_resources", "fig_payload_profiles",
          "table_payload_profiles", "fig_checkpoint_frontier", "table_checkpoint", "table_timing",
          "fig_amortization", "fig_network", "table_environment"}

LEMMA OutcomeIs ==
  ASSUME NEW m
  PROVE  /\ Outcome("fig_concurrency", m) = fig_concurrency(m)
         /\ Outcome("fig_decomposition", m) = fig_decomposition(m)
         /\ Outcome("table_concurrency", m) = table_concurrency(m)
         /\ Outcome("table_equivalence", m) = table_equivalence(m)
         /\ Outcome("table_failures", m) = table_failures(m)
         /\ Outcome("notes", m) = main_notes(m)
         /\ Outcome("fig_primitives", m) = fig_primitives(m)
         /\ Outcome("fig_wire_bytes", m) = fig_wire_bytes(m)
         /\ Outcome("fig_streaming_hndl", m) = fig_streaming_hndl(m)
         /\ Outcome("table_threats", m) = table_threats(m)
         /\ Outcome("fig_streaming", m) = fig_streaming(m)
         /\ Outcome("table_streaming", m) = table_streaming(m)
         /\ Outcome("table_attack_campaign", m) = table_attack_campaign(m)
         /\ Outcome("table_key_substitution", m) = table_key_substitution(m)
         /\ Outcome("table_auth_cost", m) = table_auth_cost(m)
         /\ Outcome("table_resources", m) = table_resources(m)
         /\ Outcome("fig_payload_profiles", m) = fig_payload_profiles(m)
         /\ Outcome("table_payload_profiles", m) = table_payload_profiles(m)
         /\ Outcome("fig_checkpoint_frontier", m) = fig_checkpoint_frontier(m)
         /\ Outcome("table_checkpoint", m) = table_checkpoint(m)
         /\ Outcome("table_timing", m) = table_timing(m)
         /\ Outcome("fig_amortization", m) = fig_amortization(m)
         /\ Outcome("fig_network", m) = fig_network(m)
         /\ Outcome("table_environment", m) = table_environment(m)
BY DEF Outcome

\* Whatever main calls writes good files only.
LEMMA EveryStepProduces ==
  ASSUME results.raw \subseteq Cells, NEW m, OneRunEachWay(results.raw, m.auth_cost),
         LoadedInv(m), NamedInv(m, history), m.pc > 1, NEW step \in Steps
  PROVE  Produced(step, m)
BY OutcomeIs, ConcurrencyProduces, FileProduces, StreamProduces, SettingProduces, PairProduces
   DEF Steps, Produced


-----------------------------------------------------------------------------
(***************************************************************************)
(* The order of main: the rows are loaded first, the concurrency table is  *)
(* the fourth call, the caveats are noted in the seventh, and the sheet of *)
(* numbers is written last.                                                *)
(***************************************************************************)
LEMMA LastCall == Len(main) = 28 /\ DOMAIN main = 1..28
BY DEF main

LEMMA Calls ==
  /\ main[1] = "load_concurrency" /\ main[2] = "fig_concurrency" /\ main[3] = "fig_decomposition"
  /\ main[4] = "table_concurrency" /\ main[5] = "table_equivalence" /\ main[6] = "table_failures"
  /\ main[7] = "notes" /\ main[8] = "fig_primitives" /\ main[9] = "fig_wire_bytes"
  /\ main[10] = "fig_streaming_hndl" /\ main[11] = "table_threats" /\ main[12] = "load_streaming"
  /\ main[13] = "fig_streaming" /\ main[14] = "table_streaming" /\ main[15] = "table_dominance"
  /\ main[16] = "table_attack_campaign" /\ main[17] = "table_key_substitution"
  /\ main[18] = "table_auth_cost" /\ main[19] = "table_resources" /\ main[20] = "fig_payload_profiles"
  /\ main[21] = "table_payload_profiles" /\ main[22] = "fig_checkpoint_frontier"
  /\ main[23] = "table_checkpoint" /\ main[24] = "table_timing" /\ main[25] = "fig_amortization"
  /\ main[26] = "fig_network" /\ main[27] = "table_environment" /\ main[28] = "write_numbers"
BY DEF main

LEMMA OrderOfCalls ==
  ASSUME NEW i \in 1..28
  PROVE  /\ main[i] = "load_concurrency" <=> i = 1
         /\ main[i] = "load_streaming" => i = 12
         /\ main[i] = "table_dominance" => i = 15
         /\ main[i] = "write_numbers" <=> i = 28
         /\ main[i] \in {"load_concurrency", "load_streaming", "table_dominance", "write_numbers"}
            \/ main[i] \in Steps
<1>1. i \in {1, 2, 3, 4, 5, 6, 7, 8, 9, 10, 11, 12, 13, 14, 15, 16, 17, 18, 19, 20, 21, 22, 23, 24,
             25, 26, 27, 28}
  OBVIOUS
<1> QED BY <1>1, Calls DEF Steps

-----------------------------------------------------------------------------
(***************************************************************************)
(* The invariant: while an invocation runs, the files that bear its number *)
(* are the ones it remembers writing, each is a good file, and the sheet   *)
(* on disk is of an earlier invocation.                                    *)
(***************************************************************************)
Missing(df) == {<<"missing", c>> : c \in CONFIGS \ ConfigsOf(df)}

RunningInv(m) ==
    /\ IsProg(m) /\ LoadedInv(m) /\ m.pc \in 1..28
    /\ m.pc = 1 => m.wrote = {}
    /\ m.pc > 4 => "tab_concurrency" \in m.wrote
    /\ m.pc > 7 => Missing(m.conc) \subseteq m.notes

WroteInv(m) ==
    /\ \A o \in Outputs : /\ disk[o] # None /\ disk[o].invocation = invocations => o \in m.wrote
                          /\ o \in m.wrote => disk[o].invocation = invocations
    /\ "tab_concurrency" \in m.wrote => disk["tab_concurrency"].shows = Shown(m.conc)
    /\ \A o \in m.wrote \cap (STAMPED \cup UNSTAMPED) :
          \A s \in disk[o].shows : m.provisional <=> s[1] = LEGACY
    /\ invocations > 0 /\ (numbers # None => numbers.invocation < invocations)

FiguresInv ==
    /\ ProvenanceTold /\ NumbersCoverOutputs /\ MissingNoted
    /\ prog # None => RunningInv(prog) /\ WroteInv(prog) /\ NamedInv(prog, history)

LEMMA FiguresInit == Init => FiguresInv
<1> SUFFICES ASSUME Init PROVE FiguresInv
  OBVIOUS
<1>1. TypeOK
  BY HistoriesAssumption, ArgumentsAssumption DEF Init, TypeOK
<1>2. OneRunPerConfig /\ LegacyStamped /\ LegacyInSheet
  BY OutputNames DEF Init, OneRunPerConfig, LegacyStamped, LegacyInSheet
<1> QED BY <1>1, <1>2 DEF Init, FiguresInv, ProvenanceTold, NumbersCoverOutputs, MissingNoted

\* What an action does to the files, and to the rest of the state.
Written(writes) ==
    \A o \in Outputs :
        \/ disk'[o] = disk[o] /\ \A f \in writes : f.name # o
        \/ \E f \in writes : /\ f.name = o /\ disk'[o].invocation = invocations
                             /\ disk'[o].stamped = f.stamped /\ disk'[o].shows = f.shows

LEMMA OutWritten ==
  ASSUME NEW writes, disk' = Out(writes, invocations)
  PROVE  Written(writes)
<1> SUFFICES ASSUME NEW o \in Outputs
             PROVE  \/ disk'[o] = disk[o] /\ \A f \in writes : f.name # o
                    \/ \E f \in writes : /\ f.name = o /\ disk'[o].invocation = invocations
                                         /\ disk'[o].stamped = f.stamped /\ disk'[o].shows = f.shows
  BY DEF Written
<1>1. CASE \A f \in writes : f.name # o
  BY <1>1 DEF Out
<1>2. CASE \E f \in writes : f.name = o
  <2> DEFINE g == CHOOSE f \in writes : f.name = o
  <2>1. g \in writes /\ g.name = o
    BY <1>2
  <2>2. disk'[o] = [invocation |-> invocations, stamped |-> g.stamped, shows |-> g.shows]
    BY <1>2 DEF Out
  <2> HIDE DEF g
  <2> QED BY <2>1, <2>2
<1> QED BY <1>1, <1>2

-----------------------------------------------------------------------------
\* What main was given stays as it is.
SameNames ==
    /\ prog'.streaming_run_id = prog.streaming_run_id /\ prog'.checkpoint = prog.checkpoint
    /\ prog'.payload = prog.payload /\ prog'.network = prog.network
    /\ prog'.amortization = prog.amortization /\ prog'.auth_cost = prog.auth_cost

LEMMA StillNamed ==
  ASSUME NamedInv(prog, history), SameNames, UNCHANGED history
  PROVE  NamedInv(prog', history')
BY DEF NamedInv, SameNames

\* The next call, with what the present one changed.
Moves(conc, provisional, notes, wrote) ==
    /\ IsProg(prog') /\ prog'.pc = prog.pc + 1 /\ prog.pc < 28
    /\ prog'.run_ids = prog.run_ids /\ SameNames
    /\ prog'.conc = conc /\ prog'.provisional = provisional
    /\ prog'.notes = notes /\ prog'.wrote = wrote

LEMMA Assigned ==
  ASSUME NEW m, IsProg(m), NEW conc, NEW provisional, NEW sdf, NEW wrote
  PROVE  /\ [m EXCEPT !.conc = conc, !.provisional = provisional]
                = Locals(m, conc, provisional, m.sdf, m.notes, m.wrote)
         /\ [m EXCEPT !.sdf = sdf] = Locals(m, m.conc, m.provisional, sdf, m.notes, m.wrote)
         /\ [m EXCEPT !.wrote = wrote] = Locals(m, m.conc, m.provisional, m.sdf, m.notes, wrote)
<1>1. PICK loaded : loaded = Locals(m, conc, m.provisional, m.sdf, m.notes, m.wrote)
  OBVIOUS
<1>2. [m EXCEPT !.conc = conc] = loaded
  BY <1>1 DEF IsProg, Locals
<1>3. [loaded EXCEPT !.provisional = provisional] = Locals(m, conc, provisional, m.sdf, m.notes, m.wrote)
  BY <1>1 DEF Locals
<1>4. [m EXCEPT !.conc = conc, !.provisional = provisional]
         = Locals(m, conc, provisional, m.sdf, m.notes, m.wrote)
  BY <1>2, <1>3, Zenon
<1>5. [m EXCEPT !.sdf = sdf] = Locals(m, m.conc, m.provisional, sdf, m.notes, m.wrote)
  BY DEF IsProg, Locals
<1>6. [m EXCEPT !.wrote = wrote] = Locals(m, m.conc, m.provisional, m.sdf, m.notes, wrote)
  BY DEF IsProg, Locals
<1> QED BY <1>4, <1>5, <1>6

LEMMA AssignedNotes ==
  ASSUME NEW m, IsProg(m), NEW notes, NEW wrote
  PROVE  [m EXCEPT !.notes = notes, !.wrote = wrote]
            = Locals(m, m.conc, m.provisional, m.sdf, notes, wrote)
<1>1. PICK noted : noted = Locals(m, m.conc, m.provisional, m.sdf, notes, m.wrote)
  OBVIOUS
<1>2. [m EXCEPT !.notes = notes] = noted
  BY <1>1 DEF IsProg, Locals
<1>3. [noted EXCEPT !.wrote = wrote] = Locals(m, m.conc, m.provisional, m.sdf, notes, wrote)
  BY <1>1 DEF Locals
<1> QED BY <1>2, <1>3, Zenon

LEMMA NextCall ==
  ASSUME IsProg(prog), prog.pc \in 1..28, NEW conc, NEW provisional, NEW sdf, NEW notes, NEW wrote,
         Continue(Locals(prog, conc, provisional, sdf, notes, wrote))
  PROVE  prog' = None \/ Moves(conc, provisional, notes, wrote)
<1> DEFINE m == Locals(prog, conc, provisional, sdf, notes, wrote)
<1>1. m.pc = prog.pc
  BY DEF Locals
<1>2. CASE prog.pc = 28
  BY <1>1, <1>2, LastCall DEF Continue
<1>3. CASE prog.pc # 28
  <2>1. prog' = [m EXCEPT !.pc = @ + 1]
    BY <1>1, <1>3, LastCall DEF Continue
  <2>2. prog' = [pc |-> prog.pc + 1, run_ids |-> prog.run_ids, streaming_run_id |-> prog.streaming_run_id,
                 payload |-> prog.payload, network |-> prog.network, amortization |-> prog.amortization,
                 auth_cost |-> prog.auth_cost, checkpoint |-> prog.checkpoint, conc |-> conc,
                 provisional |-> provisional, sdf |-> sdf, notes |-> notes, wrote |-> wrote]
    BY <2>1 DEF Locals
  <2>3. prog.pc < 28
    BY <1>3
  <2> QED BY <2>2, <2>3 DEF Moves, SameNames, IsProg, Locals
<1> QED BY <1>2, <1>3

\* A call that writes good files, if any, and remembers them unless it raises.
LEMMA CallStep ==
  ASSUME FiguresInv, prog # None, prog.pc > 1,
         NEW writes, \A f \in writes : GoodFile(f, prog), Written(writes),
         NEW notes, prog.notes \subseteq notes,
         prog.pc = 4 => prog' = None \/ "tab_concurrency" \in {f.name : f \in writes},
         prog.pc = 7 => Missing(prog.conc) \subseteq notes,
         prog' = None \/ Moves(prog.conc, prog.provisional, notes, prog.wrote \cup {f.name : f \in writes}),
         UNCHANGED <<history, stage, invocations, numbers>>
  PROVE  FiguresInv'
<1>1. /\ RunningInv(prog) /\ WroteInv(prog) /\ NamedInv(prog, history) /\ TypeOK /\ OneRunPerConfig /\ LegacyStamped /\ LegacyInSheet
      /\ NumbersCoverOutputs /\ MissingNoted
  BY DEF FiguresInv, ProvenanceTold
<1>2. invocations \in Nat /\ prog.pc \in Nat /\ (numbers # None => numbers.invocation \in Nat)
  BY <1>1, ArgumentsAssumption DEF TypeOK, RunningInv
<1>3. numbers # None => numbers.invocation < invocations /\ numbers.invocation \in 1..invocations
  BY <1>1 DEF WroteInv, TypeOK
<1>4. ASSUME NEW f \in writes
      PROVE  /\ f.name \in Outputs
             /\ OneRunShown(f.shows) /\ ToldOf(f, prog.provisional)
             /\ f.name = "tab_concurrency" => f.shows = Shown(prog.conc)
  BY <1>4 DEF GoodFile
<1>5. invocations > 0 /\ "tab_concurrency" \in Outputs
  BY <1>1, OutputNames DEF WroteInv, STAMPED
<1>6. TypeOK'
  <2>1. \A o \in Outputs : disk'[o] # None => disk'[o].invocation \in 1..invocations
    BY <1>1, <1>2, <1>5 DEF Written, TypeOK
  <2>2. results' = results
    BY DEF results
  <2>3. prog' # None => /\ prog'.pc \in DOMAIN main
                        /\ prog'.conc \subseteq discard_warmup(results.raw)
                        /\ prog'.wrote \subseteq Outputs
    BY <1>1, <1>2, <1>4, LastCall DEF TypeOK, Moves
  <2> QED BY <1>1, <2>1, <2>2, <2>3 DEF TypeOK
<1>7. OneRunPerConfig'
  BY <1>1, <1>4 DEF OneRunPerConfig, OneRunShown, Written
<1>8. LegacyStamped' /\ LegacyInSheet'
  <2>1. LegacyStamped'
    <3> SUFFICES ASSUME NEW o \in Outputs, disk'[o] # None, NEW s \in disk'[o].shows
                 PROVE  disk'[o].stamped <=> s[1] = LEGACY /\ o \notin UNSTAMPED
      BY DEF LegacyStamped
    <3>1. CASE disk'[o] = disk[o]
      BY <1>1, <3>1 DEF LegacyStamped
    <3>2. CASE disk'[o] # disk[o]
      <4>1. PICK f \in writes : f.name = o /\ disk'[o].stamped = f.stamped /\ disk'[o].shows = f.shows
        BY <3>2 DEF Written
      <4> QED BY <1>4, <4>1 DEF ToldOf
    <3> QED BY <3>1, <3>2
  <2>2. LegacyInSheet'
    <3> SUFFICES ASSUME numbers # None, NEW o \in STAMPED \cup UNSTAMPED,
                        disk'[o] # None, disk'[o].invocation = numbers.invocation
                 PROVE  \A s \in disk'[o].shows : numbers.provisional <=> s[1] = LEGACY
      BY DEF LegacyInSheet
    <3>1. disk'[o] = disk[o]
      BY <1>2, <1>3, OutputNames DEF Written
    <3> QED BY <1>1, <3>1 DEF LegacyInSheet
  <2> QED BY <2>1, <2>2
<1>9. NumbersCoverOutputs'
  BY <1>1, <1>2, <1>3 DEF NumbersCoverOutputs, Written
<1>10. MissingNoted'
  <2> SUFFICES ASSUME numbers # None, disk'["tab_concurrency"].invocation = numbers.invocation
               PROVE  \A c \in CONFIGS : \/ \E s \in disk'["tab_concurrency"].shows : s[2] = c
                                         \/ <<"missing", c>> \in numbers.notes
    BY DEF MissingNoted
  <2>1. disk'["tab_concurrency"] = disk["tab_concurrency"]
    BY <1>2, <1>3, <1>5 DEF Written
  <2> QED BY <1>1, <2>1 DEF MissingNoted
<1>11. prog' # None => RunningInv(prog')
  <2> SUFFICES ASSUME prog' # None PROVE RunningInv(prog')
    OBVIOUS
  <2>1. LoadedInv(prog')
    BY <1>1, <1>2 DEF RunningInv, LoadedInv, Moves
  <2>2. prog'.pc > 4 => "tab_concurrency" \in prog'.wrote
    BY <1>1, <1>2 DEF RunningInv, Moves
  <2>3. prog'.pc > 7 => Missing(prog'.conc) \subseteq prog'.notes
    BY <1>1, <1>2 DEF RunningInv, Moves
  <2> QED BY <1>1, <1>2, <2>1, <2>2, <2>3 DEF RunningInv, Moves
<1>12. prog' # None => WroteInv(prog)' 
  <2> SUFFICES ASSUME prog' # None PROVE WroteInv(prog)'
    OBVIOUS
  <2>1. prog'.wrote = prog.wrote \cup {f.name : f \in writes} /\ prog'.conc = prog.conc
    BY DEF Moves
  <2>2. ASSUME NEW o \in Outputs
        PROVE  /\ disk'[o] # None /\ disk'[o].invocation = invocations => o \in prog'.wrote
               /\ o \in prog'.wrote => disk'[o].invocation = invocations
    BY <1>1, <2>1 DEF WroteInv, Written
  <2>3. "tab_concurrency" \in prog'.wrote => disk'["tab_concurrency"].shows = Shown(prog'.conc)
    BY <1>1, <1>4, <1>5, <2>1 DEF WroteInv, Written
  <2>4. ASSUME NEW o \in prog'.wrote \cap (STAMPED \cup UNSTAMPED), NEW s \in disk'[o].shows
        PROVE  prog'.provisional <=> s[1] = LEGACY
    <3>1. o \in Outputs /\ prog'.provisional = prog.provisional
      BY OutputNames DEF Moves
    <3>2. CASE disk'[o] = disk[o] /\ \A f \in writes : f.name # o
      BY <1>1, <2>1, <3>1, <3>2 DEF WroteInv
    <3>3. CASE \E f \in writes : f.name = o /\ disk'[o].shows = f.shows
      <4>1. PICK f \in writes : f.name = o /\ disk'[o].shows = f.shows
        BY <3>3
      <4>2. prog.provisional <=> s[1] = LEGACY
        BY <1>4, <4>1 DEF ToldOf
      <4> QED BY <3>1, <4>2
    <3> QED BY <3>1, <3>2, <3>3 DEF Written
  <2> QED BY <1>1, <1>5, <2>2, <2>3, <2>4 DEF WroteInv
<1>13. prog' # None => NamedInv(prog', history')
  BY <1>1, StillNamed DEF Moves
<1> QED BY <1>6, <1>7, <1>8, <1>9, <1>10, <1>11, <1>12, <1>13 DEF FiguresInv, ProvenanceTold

\* An action that leaves the files and the running invocation's record of
\* them alone, or ends it.
LEMMA Ends ==
  ASSUME FiguresInv, prog' = None, UNCHANGED <<history, stage, invocations, disk, numbers>>
  PROVE  FiguresInv'
BY DEF FiguresInv, ProvenanceTold, TypeOK, OneRunPerConfig, LegacyStamped, LegacyInSheet, NumbersCoverOutputs,
   MissingNoted, results

\* What experiments add leaves the rows of a running invocation among those
\* of the directory.
LEMMA ExperimentStep ==
  ASSUME FiguresInv, Experiment
  PROVE  FiguresInv'
<1>1. stage' \in DOMAIN Histories[history] /\ results.raw \subseteq results'.raw
  <2>1. history \in DOMAIN Histories /\ stage \in 1..Len(Histories[history]) /\ stage < Len(Histories[history])
    BY HistoriesAssumption DEF FiguresInv, ProvenanceTold, TypeOK, Experiment
  <2>2. Len(Histories[history]) \in Nat /\ DOMAIN Histories[history] = 1..Len(Histories[history])
    BY <2>1, HistoriesAssumption
  <2>3. stage + 1 \in DOMAIN Histories[history] /\ stage + 1 > 1 /\ (stage + 1) - 1 = stage
    BY <2>1, <2>2
  <2>4. Histories[history][(stage + 1) - 1].raw \subseteq Histories[history][stage + 1].raw
    BY <2>1, <2>3, HistoriesAssumption
  <2> QED BY <2>3, <2>4 DEF Experiment, results
<1>2. discard_warmup(results.raw) \subseteq discard_warmup(results'.raw)
  BY <1>1 DEF discard_warmup
<1>3. TypeOK'
  BY <1>1, <1>2 DEF FiguresInv, ProvenanceTold, TypeOK, Experiment
<1>4. UNCHANGED <<prog, invocations, disk, numbers>>
  BY DEF Experiment
<1> QED
  BY <1>3, <1>4 DEF FiguresInv, ProvenanceTold, OneRunPerConfig, LegacyStamped, LegacyInSheet, NumbersCoverOutputs,
     MissingNoted, WroteInv, Experiment

LEMMA StartStep ==
  ASSUME FiguresInv, NEW run_ids \in Arguments, Start(run_ids)
  PROVE  FiguresInv'
<1> DEFINE manifest == results.manifest
           named == IF run_ids # None \/ manifest = None THEN run_ids
                    ELSE IF manifest.concurrency = {} THEN None ELSE manifest.concurrency
<1>1. /\ TypeOK /\ OneRunPerConfig /\ LegacyStamped /\ LegacyInSheet /\ NumbersCoverOutputs /\ MissingNoted
  BY DEF FiguresInv, ProvenanceTold
<1>2. invocations \in Nat /\ invocations' = invocations + 1 /\ invocations' \in 0..MaxInvocations
  BY <1>1, ArgumentsAssumption DEF TypeOK, Start
<1>3. UNCHANGED <<history, stage, disk, numbers, results>>
  BY DEF Start, results
<1>4. named # None => LEGACY \notin named
  <2>1. manifest # None => LEGACY \notin manifest.concurrency
    <3>1. manifest # None => LEGACY \notin NamedRuns(manifest)
      BY <1>1, HistoriesAssumption DEF TypeOK, results
    <3> HIDE DEF manifest
    <3> QED BY <3>1 DEF NamedRuns
  <2> QED BY <2>1, ArgumentsAssumption
<1>5. /\ IsProg(prog') /\ prog'.pc = 1 /\ prog'.run_ids = named /\ prog'.conc = {}
      /\ prog'.provisional = FALSE /\ prog'.notes = {} /\ prog'.wrote = {} /\ NamedInv(prog', history')
  <2> DEFINE streaming == IF manifest = None \/ manifest.streaming = None
                          THEN DEFAULT_STREAMING_RUN ELSE manifest.streaming
             payload == IF manifest = None THEN {} ELSE manifest.payload
             network == IF manifest = None THEN {} ELSE manifest.network
             amortization == IF manifest = None THEN {} ELSE manifest.amortization
             auth_cost == IF manifest = None THEN {} ELSE manifest.auth_cost
             checkpoint == IF manifest = None THEN None ELSE manifest.checkpoint
  <2>1. prog' = [pc |-> 1, run_ids |-> named, streaming_run_id |-> streaming, payload |-> payload,
                 network |-> network, amortization |-> amortization, auth_cost |-> auth_cost,
                 checkpoint |-> checkpoint, conc |-> {}, provisional |-> FALSE, sdf |-> {},
                 notes |-> {}, wrote |-> {}]
    BY DEF Start
  <2>2. /\ LEGACY \notin payload /\ LEGACY \notin network /\ LEGACY \notin amortization
        /\ LEGACY \notin auth_cost /\ streaming # LEGACY /\ checkpoint # LEGACY
        /\ payload = {} \/ payload # None
        /\ network = {} \/ network # None
        /\ amortization = {} \/ amortization # None
    <3>1. CASE manifest = None
      BY <3>1, ArgumentsAssumption DEF LEGACY, DEFAULT_STREAMING_RUN
    <3>2. CASE manifest # None
      <4>1. /\ LEGACY \notin NamedRuns(manifest)
            /\ None \notin {manifest.payload, manifest.network, manifest.amortization}
        BY <1>1, <3>2, HistoriesAssumption DEF TypeOK, results
      <4> HIDE DEF manifest
      <4> QED BY <3>2, <4>1 DEF NamedRuns, LEGACY, DEFAULT_STREAMING_RUN
    <3> QED BY <3>1, <3>2
  <2>3. \A t \in DOMAIN Histories[history] : OneRunEachWay(Histories[history][t].raw, auth_cost)
    <3>1. CASE manifest = None
      BY <3>1 DEF OneRunEachWay
    <3>2. CASE manifest # None
      <4>1. history \in DOMAIN Histories /\ stage \in DOMAIN Histories[history]
        BY <1>1 DEF TypeOK
      <4>2. Histories[history][stage].manifest # None
        BY <3>2 DEF results
      <4>3. \A t \in DOMAIN Histories[history] :
               OneRunEachWay(Histories[history][t].raw, Histories[history][stage].manifest.auth_cost)
        BY <4>1, <4>2, HistoriesAssumption, Zenon
      <4> QED BY <3>2, <4>3 DEF results
    <3> QED BY <3>1, <3>2
  <2> HIDE DEF named, streaming, payload, network, amortization, auth_cost, checkpoint
  <2>4. /\ prog'.streaming_run_id = streaming /\ prog'.checkpoint = checkpoint
        /\ prog'.payload = payload /\ prog'.network = network
        /\ prog'.amortization = amortization /\ prog'.auth_cost = auth_cost
    BY <2>1
  <2>5. NamedInv(prog', history')
    BY <1>3, <2>2, <2>3, <2>4 DEF NamedInv
  <2> QED BY <2>1, <2>5 DEF IsProg, Locals
<1> HIDE DEF named, manifest
<1>6. TypeOK'
  <2>1. \A i \in 1..invocations : i \in 1..(invocations + 1)
    BY <1>2
  <2>2. prog'.pc \in DOMAIN main
    BY <1>5, LastCall
  <2> QED BY <1>1, <1>2, <1>3, <1>5, <2>1, <2>2 DEF TypeOK
<1>7. /\ OneRunPerConfig' /\ LegacyStamped' /\ LegacyInSheet' /\ NumbersCoverOutputs' /\ MissingNoted'
  BY <1>1, <1>3 DEF OneRunPerConfig, LegacyStamped, LegacyInSheet, NumbersCoverOutputs, MissingNoted
<1>8. RunningInv(prog')
  <2>1. LoadedInv(prog')
    <3>1. OneRun(prog'.conc) /\ \A c \in prog'.conc : prog'.provisional <=> c.run = LEGACY
      BY <1>5 DEF OneRun
    <3>2. prog'.provisional \in BOOLEAN
      BY <1>5, Zenon
    <3>4. ~(prog'.pc > 1)
      BY <1>5
    <3>3. prog'.run_ids # None => LEGACY \notin prog'.run_ids
      BY <1>4, <1>5
    <3> QED BY <3>1, <3>2, <3>3, <3>4 DEF LoadedInv
  <2> QED BY <1>5, <2>1 DEF RunningInv
<1>9. WroteInv(prog)'
  <2>1. \A i \in 1..invocations : i < invocations + 1
    BY <1>2
  <2>2. \A o \in Outputs : disk[o] # None => disk[o].invocation # invocations + 1
    BY <1>1, <1>2 DEF TypeOK
  <2> QED BY <1>1, <1>2, <1>3, <1>5, <2>1, <2>2 DEF WroteInv, TypeOK
<1> QED BY <1>3, <1>5, <1>6, <1>7, <1>8, <1>9 DEF FiguresInv, ProvenanceTold

LEMMA RawCells == FiguresInv => results.raw \subseteq Cells
BY HistoriesAssumption DEF FiguresInv, ProvenanceTold, TypeOK, results

LEMMA LoadConcurrencyStep ==
  ASSUME FiguresInv, LoadConcurrency
  PROVE  FiguresInv'
<1> DEFINE conc == load_concurrency(results.raw, prog.run_ids)
           provisional == (prog.run_ids = None)
<1>1. /\ prog # None /\ RunningInv(prog) /\ WroteInv(prog) /\ NamedInv(prog, history)
      /\ TypeOK /\ OneRunPerConfig /\ LegacyStamped /\ LegacyInSheet /\ NumbersCoverOutputs /\ MissingNoted
  BY DEF FiguresInv, ProvenanceTold, LoadConcurrency, At_step
<1>2. prog.pc = 1 /\ prog.wrote = {}
  BY <1>1, OrderOfCalls DEF LoadConcurrency, At_step, RunningInv
<1>3. UNCHANGED <<history, stage, invocations, disk, decision, numbers, results>>
  BY DEF LoadConcurrency, results
<1>4. prog' = None \/ Moves(conc, provisional, prog.notes, prog.wrote)
  <2>1. prog' = None \/ Continue([prog EXCEPT !.conc = conc, !.provisional = provisional])
    BY DEF LoadConcurrency, Exit
  <2> HIDE DEF conc, provisional
  <2>2. IsProg(prog) /\ prog.pc \in 1..28
    BY <1>1 DEF RunningInv
  <2>3. [prog EXCEPT !.conc = conc, !.provisional = provisional]
           = Locals(prog, conc, provisional, prog.sdf, prog.notes, prog.wrote)
    BY <2>2, Assigned
  <2> QED BY <2>1, <2>2, <2>3, NextCall
<1>5. CASE prog' = None
  BY <1>3, <1>5, Ends
<1>6. CASE Moves(conc, provisional, prog.notes, prog.wrote)
  <2>1. /\ OneRun(conc) /\ conc \subseteq discard_warmup(results.raw)
        /\ \A c \in conc : IF prog.run_ids = None THEN c.run = LEGACY ELSE c.run \in prog.run_ids
    BY RawCells, ConcurrencyOne
  <2> HIDE DEF conc
  <2>2. LoadedInv(prog')
    BY <1>1, <1>2, <1>6, <2>1 DEF LoadedInv, Moves, RunningInv
  <2>3. RunningInv(prog')
    BY <1>1, <1>2, <1>6, <2>2 DEF RunningInv, Moves
  <2>4. TypeOK'
    BY <1>1, <1>2, <1>3, <1>6, <2>1, LastCall DEF TypeOK, Moves
  <2>5. OneRunPerConfig' /\ LegacyStamped' /\ LegacyInSheet' /\ NumbersCoverOutputs' /\ MissingNoted'
    BY <1>1, <1>3 DEF OneRunPerConfig, LegacyStamped, LegacyInSheet, NumbersCoverOutputs, MissingNoted
  <2>6. WroteInv(prog)'
    BY <1>1, <1>2, <1>3, <1>6 DEF WroteInv, Moves
  <2>7. NamedInv(prog', history')
    BY <1>1, <1>3, <1>6, StillNamed DEF Moves
  <2> QED BY <2>3, <2>4, <2>5, <2>6, <2>7 DEF FiguresInv, ProvenanceTold
<1> QED BY <1>4, <1>5, <1>6

LEMMA LoadStreamingStep ==
  ASSUME FiguresInv, LoadStreaming
  PROVE  FiguresInv'
<1> DEFINE sdf == {s \in load_streaming(prog.streaming_run_id).rows : s.k = None}
<1>1. prog # None /\ IsProg(prog) /\ prog.pc = 12
  BY OrderOfCalls DEF FiguresInv, RunningInv, LoadStreaming, At_step
<1>2. prog' = None \/ Continue([prog EXCEPT !.sdf = sdf])
  BY DEF LoadStreaming, Exit
<1>3. UNCHANGED <<history, stage, invocations, disk, numbers>>
  BY DEF LoadStreaming
<1> HIDE DEF sdf
<1>4. [prog EXCEPT !.sdf = sdf] = Locals(prog, prog.conc, prog.provisional, sdf, prog.notes, prog.wrote)
  BY <1>1, Assigned
<1>5. prog' = None \/ Moves(prog.conc, prog.provisional, prog.notes, prog.wrote)
  BY <1>1, <1>2, <1>4, NextCall
<1>6. Written({}) /\ prog.wrote = prog.wrote \cup {f.name : f \in {}}
  BY <1>3 DEF Written
<1>7. prog' = None \/ Moves(prog.conc, prog.provisional, prog.notes, prog.wrote \cup {f.name : f \in {}})
  BY <1>5, <1>6
<1> QED BY <1>1, <1>3, <1>6, <1>7, CallStep

\* The call that must have been made before the table's rows are noted, and
\* the one that notes them.
LEMMA TableWritten ==
  ASSUME NEW m
  PROVE  /\ Outcome("table_concurrency", m).raises
            \/ "tab_concurrency" \in {f.name : f \in Outcome("table_concurrency", m).writes}
         /\ Missing(m.conc) \subseteq Outcome("notes", m).notes
<1>1. table_concurrency(m).raises \/ "tab_concurrency" \in {f.name : f \in table_concurrency(m).writes}
  BY DEF table_concurrency, Raises, Writes, Did, File
<1>2. Missing(m.conc) \subseteq main_notes(m).notes
  BY DEF main_notes, caveats, Missing, Did
<1> QED BY <1>1, <1>2, OutcomeIs

LEMMA ProduceStep ==
  ASSUME FiguresInv, Produce
  PROVE  FiguresInv'
<1> DEFINE did == Outcome(main[prog.pc], prog)
           notes == prog.notes \cup did.notes
           wrote == prog.wrote \cup {f.name : f \in did.writes}
<1>1. prog # None /\ IsProg(prog) /\ LoadedInv(prog) /\ prog.pc \in 1..28
  BY DEF FiguresInv, RunningInv, Produce
<1>2. prog.pc > 1 /\ main[prog.pc] \in Steps
  BY <1>1, OrderOfCalls DEF Produce
<1>3. \A f \in did.writes : GoodFile(f, prog)
  <2>1. OneRunEachWay(results.raw, prog.auth_cost) /\ NamedInv(prog, history)
    BY <1>1 DEF FiguresInv, ProvenanceTold, TypeOK, RunningInv, NamedInv, results
  <2> QED BY <1>1, <1>2, <2>1, RawCells, EveryStepProduces DEF Produced
<1>4. Written(did.writes)
  BY OutWritten DEF Produce
<1>5. /\ prog.pc = 4 => did.raises \/ "tab_concurrency" \in {f.name : f \in did.writes}
      /\ prog.pc = 7 => Missing(prog.conc) \subseteq notes
  BY Calls, TableWritten
<1>6. (prog' = None) \/ (~did.raises /\ Continue([prog EXCEPT !.notes = notes, !.wrote = wrote]))
  BY DEF Produce, Exit
<1>7. did.raises => prog' = None
  BY DEF Produce, Exit
<1>8. UNCHANGED <<history, stage, invocations, numbers>>
  BY DEF Produce
<1>9. prog.notes \subseteq notes
  OBVIOUS
<1>10. prog' = None \/ Moves(prog.conc, prog.provisional, notes, wrote)
  <2> HIDE DEF notes, wrote
  <2>1. [prog EXCEPT !.notes = notes, !.wrote = wrote]
           = Locals(prog, prog.conc, prog.provisional, prog.sdf, notes, wrote)
    BY <1>1, AssignedNotes
  <2> QED BY <1>1, <1>6, <2>1, NextCall
<1> HIDE DEF did, notes
<1> QED BY <1>1, <1>2, <1>3, <1>4, <1>5, <1>7, <1>8, <1>9, <1>10, CallStep

LEMMA DominanceStep ==
  ASSUME FiguresInv, table_dominance
  PROVE  FiguresInv'
<1> DEFINE writes == {File("tab_dominance", FALSE, Shown(prog.conc))}
           wrote == prog.wrote \cup {"tab_dominance"}
<1>1. prog # None /\ IsProg(prog) /\ LoadedInv(prog) /\ prog.pc = 15
  BY OrderOfCalls DEF FiguresInv, RunningInv, table_dominance, At_step
<1>2. UNCHANGED <<history, stage, invocations, numbers>>
  BY DEF table_dominance
<1>3. \/ prog' = None /\ UNCHANGED disk
      \/ disk' = Out(writes, invocations) /\ Continue([prog EXCEPT !.wrote = wrote])
  BY DEF table_dominance, Exit
<1>4. CASE prog' = None /\ UNCHANGED disk
  BY <1>2, <1>4, Ends
<1>5. CASE disk' = Out(writes, invocations) /\ Continue([prog EXCEPT !.wrote = wrote])
  <2>1. \A f \in writes : GoodFile(f, prog)
    <3>1. "tab_dominance" \in UNSTAMPED
      BY DEF UNSTAMPED
    <3>2. prog.conc \subseteq prog.conc /\ Shown(prog.conc) \in SUBSET Shown(prog.conc)
      OBVIOUS
    <3>3. GoodFile(File("tab_dominance", FALSE, Shown(prog.conc)), prog)
      BY <1>1, <3>1, <3>2, ConcurrencyFiles
    <3> QED BY <3>3
  <2>2. Written(writes)
    BY <1>5, OutWritten
  <2>3. wrote = prog.wrote \cup {f.name : f \in writes}
    BY DEF File
  <2> HIDE DEF writes
  <2>4. prog' = None \/ Moves(prog.conc, prog.provisional, prog.notes, wrote)
    <3> HIDE DEF wrote
    <3>1. [prog EXCEPT !.wrote = wrote]
             = Locals(prog, prog.conc, prog.provisional, prog.sdf, prog.notes, wrote)
      BY <1>1, Assigned
    <3> QED BY <1>1, <1>5, <3>1, NextCall
  <2>5. prog' = None \/ Moves(prog.conc, prog.provisional, prog.notes, prog.wrote \cup {f.name : f \in writes})
    BY <2>3, <2>4
  <2> QED BY <1>1, <1>2, <2>1, <2>2, <2>5, CallStep
<1> QED BY <1>3, <1>4, <1>5

\* The sheet covers what its invocation wrote, which is all that bears its
\* number, and the caveats say what the table leaves out.
LEMMA WriteNumbersStep ==
  ASSUME FiguresInv, write_numbers
  PROVE  FiguresInv'
<1>1. /\ prog # None /\ RunningInv(prog) /\ WroteInv(prog) /\ TypeOK /\ OneRunPerConfig /\ LegacyStamped /\ LegacyInSheet
  BY DEF FiguresInv, ProvenanceTold, write_numbers, At_step
<1>2. prog.pc = 28
  BY <1>1, OrderOfCalls DEF RunningInv, write_numbers, At_step
<1>3. prog' = None
  BY <1>2, LastCall DEF write_numbers, Continue
<1>4. UNCHANGED <<history, stage, invocations, disk, results>>
  BY DEF write_numbers, results
<1>5. /\ numbers'.invocation = invocations /\ numbers'.covers = prog.wrote /\ numbers'.notes = prog.notes
  BY DEF write_numbers
<1>6. invocations \in Nat /\ invocations > 0
  BY <1>1, ArgumentsAssumption DEF TypeOK, WroteInv
<1>7. TypeOK'
  BY <1>1, <1>3, <1>4, <1>5, <1>6 DEF TypeOK
<1>8. NumbersCoverOutputs'
  <2>1. \A o \in Outputs : /\ disk[o] # None /\ disk[o].invocation = invocations => o \in prog.wrote
                           /\ o \in prog.wrote => disk[o].invocation >= invocations
    BY <1>1, <1>6 DEF WroteInv
  <2> QED BY <1>4, <1>5, <2>1 DEF NumbersCoverOutputs
<1>9. MissingNoted'
  <2>1. disk["tab_concurrency"].shows = Shown(prog.conc) /\ Missing(prog.conc) \subseteq prog.notes
    BY <1>1, <1>2 DEF RunningInv, WroteInv
  <2>2. ASSUME NEW c \in CONFIGS
        PROVE  (\E s \in Shown(prog.conc) : s[2] = c) \/ <<"missing", c>> \in prog.notes
    <3>1. CASE c \in ConfigsOf(prog.conc)
      <4>1. PICK d \in prog.conc : c = d.config
        BY <3>1 DEF ConfigsOf
      <4>2. <<d.run, d.config, Filled(d)>> \in Shown(prog.conc)
        BY <4>1 DEF Shown
      <4>3. <<d.run, d.config, Filled(d)>>[2] = c
        BY <4>1
      <4> QED BY <4>2, <4>3
    <3>2. CASE c \notin ConfigsOf(prog.conc)
      BY <2>1, <3>2 DEF Missing
    <3> QED BY <3>1, <3>2
  <2> QED BY <1>4, <1>5, <2>1, <2>2 DEF MissingNoted
<1>10. OneRunPerConfig' /\ LegacyStamped'
  BY <1>1, <1>4 DEF OneRunPerConfig, LegacyStamped
<1>11. LegacyInSheet'
  <2> SUFFICES ASSUME NEW o \in STAMPED \cup UNSTAMPED, disk[o] # None, disk[o].invocation = invocations
               PROVE  \A s \in disk[o].shows : prog.provisional <=> s[1] = LEGACY
    <3>1. numbers'.provisional = prog.provisional
      BY DEF write_numbers
    <3> QED BY <1>4, <1>5, <3>1 DEF LegacyInSheet
  <2>1. o \in prog.wrote
    BY <1>1, OutputNames DEF WroteInv
  <2> QED BY <1>1, <2>1 DEF WroteInv
<1> QED BY <1>3, <1>7, <1>8, <1>9, <1>10, <1>11 DEF FiguresInv, ProvenanceTold

-----------------------------------------------------------------------------
LEMMA FiguresStep == FiguresInv /\ [Next]_vars => FiguresInv'
<1> SUFFICES ASSUME FiguresInv, [Next]_vars
             PROVE  FiguresInv'
  OBVIOUS
<1>1. CASE Experiment
  BY <1>1, ExperimentStep
<1>2. CASE \E run_ids \in Arguments : Start(run_ids)
  BY <1>2, StartStep
<1>3. CASE LoadConcurrency
  BY <1>3, LoadConcurrencyStep
<1>4. CASE Produce
  BY <1>4, ProduceStep
<1>5. CASE LoadStreaming
  BY <1>5, LoadStreamingStep
<1>6. CASE table_dominance
  BY <1>6, DominanceStep
<1>7. CASE write_numbers
  BY <1>7, WriteNumbersStep
<1>8. CASE Interrupt
  BY <1>8, Ends DEF Interrupt, Exit
<1>9. CASE UNCHANGED vars
  BY <1>9 DEF vars, FiguresInv, ProvenanceTold, TypeOK, OneRunPerConfig, LegacyStamped, LegacyInSheet,
     NumbersCoverOutputs, MissingNoted, WroteInv, results
<1> QED BY <1>1, <1>2, <1>3, <1>4, <1>5, <1>6, <1>7, <1>8, <1>9 DEF Next

LEMMA FiguresInvariant == Spec => []FiguresInv
BY FiguresInit, FiguresStep, PTL DEF Spec

\* Whatever results are added while the program runs, and wherever it stops:
\* no output, the panel and the table of the server's samples included, pools
\* two runs of a configuration under the same settings; PROVISIONAL stands on
\* the four outputs that can bear it exactly when they show legacy rows, on no
\* other, and never on the three that show those rows unstamped; of these the
\* sheet of their invocation says whether they are legacy
\* (_latest_run_per_cell, _resource_cells, load_concurrency, write_numbers).
THEOREM ProvenanceHolds == Spec => []ProvenanceTold
<1>1. FiguresInv => ProvenanceTold
  BY DEF FiguresInv
<1> QED BY <1>1, FiguresInvariant, PTL

\* key_numbers.md covers every output on disk that its invocation wrote, and
\* nothing it covers is older than it is (the end of main).
THEOREM SheetComplete == Spec => []NumbersCoverOutputs
<1>1. FiguresInv => NumbersCoverOutputs
  BY DEF FiguresInv
<1> QED BY <1>1, FiguresInvariant, PTL

\* A configuration that the concurrency table of the sheet's invocation does
\* not show is named in the sheet's caveats (main).
THEOREM LeftOutIsNoted == Spec => []MissingNoted
<1>1. FiguresInv => MissingNoted
  BY DEF FiguresInv
<1> QED BY <1>1, FiguresInvariant, PTL

-----------------------------------------------------------------------------
(***************************************************************************)
(* The dashboard.                                                          *)
(***************************************************************************)
LEMMA LeastNatural ==
  ASSUME NEW T, T \subseteq Nat, T # {}
  PROVE  \E n \in T : \A i \in T : n <= i
<1>1. PICK n \in T : \A i \in T : <<i, n>> \notin OpToRel(<, Nat)
  BY NatLessThanWellFounded, WFMin
<1>2. \A i \in T : ~(i < n)
  BY <1>1 DEF OpToRel
<1> QED BY <1>2

\* Sorting by time stamp puts the greatest one first.
LEMMA FirstIsLatest ==
  ASSUME NEW runs, runs \subseteq Nat, IsFiniteSet(runs), runs # {}, LEGACY \notin runs \/ runs = {LEGACY}
  PROVE  First(runs) \in runs /\ \A r \in runs : r <= First(runs)
<1> DEFINE older(run) == {r \in runs : r < run /\ r # LEGACY}
<1>1. Cardinality(runs) \in Nat
  BY FS_CardinalityType
<1>2. ASSUME NEW r \in runs
      PROVE  /\ IsFiniteSet(older(r)) /\ Cardinality(older(r)) \in Nat /\ Cardinality(older(r)) <= Cardinality(runs)
  <2>1. older(r) \in SUBSET runs
    OBVIOUS
  <2> HIDE DEF older
  <2> QED BY <2>1, FS_Subset, FS_CardinalityType
<1>3. CASE runs = {LEGACY}
  <2>1. \A q \in runs : Sorts(q, runs) <= Sorts(LEGACY, runs)
    BY <1>1, <1>3 DEF Sorts
  <2>2. First(runs) = LEGACY
    BY <1>3, <2>1 DEF First
  <2> QED BY <1>3, <2>2 DEF LEGACY
<1>4. CASE LEGACY \notin runs
  <2>1. \A r \in runs : Sorts(r, runs) = Cardinality(older(r))
    BY <1>4 DEF Sorts
  <2> HIDE DEF older
  <2> DEFINE above == {Cardinality(runs) - Cardinality(older(r)) : r \in runs}
  <2>2. above \subseteq Nat /\ above # {}
    <3>1. ASSUME NEW r \in runs PROVE Cardinality(runs) - Cardinality(older(r)) \in Nat
      BY <1>1, <1>2
    <3> QED BY <3>1
  <2>3. PICK n \in above : \A i \in above : n <= i
    <3> HIDE DEF above
    <3> QED BY <2>2, LeastNatural
  <2>4. PICK m \in runs : n = Cardinality(runs) - Cardinality(older(m))
    BY <2>3
  <2>5. \A q \in runs : Cardinality(older(q)) <= Cardinality(older(m))
    <3> SUFFICES ASSUME NEW q \in runs PROVE Cardinality(older(q)) <= Cardinality(older(m))
      OBVIOUS
    <3>1. n <= Cardinality(runs) - Cardinality(older(q))
      BY <2>3
    <3> QED BY <1>1, <1>2, <2>4, <3>1
  <2>6. \A q \in runs : Sorts(q, runs) <= Sorts(m, runs)
    BY <2>1, <2>5
  <2>7. First(runs) \in runs /\ \A q \in runs : Sorts(q, runs) <= Sorts(First(runs), runs)
    BY <2>6 DEF First
  <2>8. PICK f \in runs : f = First(runs)
    BY <2>7
  <2>9. ASSUME NEW q \in runs PROVE q <= f
    <3> SUFFICES ASSUME ~(q <= f) PROVE FALSE
      OBVIOUS
    <3>1. f < q /\ f # LEGACY
      BY <1>4
    <3>2. older(f) \in SUBSET older(q) /\ f \in older(q) /\ f \notin older(f)
      <4>1. f \in Nat /\ q \in Nat
        OBVIOUS
      <4>2. \A r \in Nat : r < f => r < q
        BY <3>1, <4>1
      <4>3. older(f) \in SUBSET older(q)
        BY <4>2 DEF older
      <4>4. f \in older(q) /\ f \notin older(f)
        BY <3>1, <4>1 DEF older
      <4> QED BY <4>3, <4>4
    <3>3. Cardinality(older(q)) # Cardinality(older(f))
      BY <1>2, <3>2, FS_Subset
    <3>4. Cardinality(older(f)) <= Cardinality(older(q))
      BY <1>2, <3>2, FS_Subset
    <3>5. Cardinality(older(q)) <= Cardinality(older(f))
      BY <2>1, <2>7, <2>8
    <3> QED BY <1>2, <3>3, <3>4, <3>5
  <2> QED BY <2>8, <2>9
<1> QED BY <1>3, <1>4

LEMMA LatestRun ==
  ASSUME NEW runs, runs \subseteq Nat, IsFiniteSet(runs), runs # {}
  PROVE  latest_run_id(runs) \in runs /\ \A r \in runs : r <= latest_run_id(runs)
<1>1. CASE runs \ {LEGACY} # {}
  <2> DEFINE named == runs \ {LEGACY}
  <2>1. named \subseteq Nat /\ IsFiniteSet(named) /\ named # {} /\ LEGACY \notin named
    BY <1>1, FS_Subset
  <2>2. latest_run_id(runs) = First(named)
    BY <1>1 DEF latest_run_id
  <2> HIDE DEF named
  <2>3. First(named) \in named /\ \A r \in named : r <= First(named)
    BY <2>1, FirstIsLatest
  <2>4. PICK f \in named : f = First(named)
    BY <2>3
  <2> QED BY <2>2, <2>3, <2>4 DEF named, LEGACY
<1>2. CASE runs \ {LEGACY} = {}
  <2>1. runs = {LEGACY} /\ latest_run_id(runs) = First(runs)
    BY <1>2 DEF latest_run_id
  <2> QED BY <2>1, FirstIsLatest
<1> QED BY <1>1, <1>2

LEMMA TheRuns ==
  ASSUME FiguresInv
  PROVE  LET all == get_available_runs \cup get_available_streaming_runs
         IN  all \subseteq Nat /\ IsFiniteSet(all)
<1>1. /\ results.raw \subseteq Cells /\ IsFiniteSet(results.raw)
      /\ DOMAIN results.streaming \subseteq Nat /\ IsFiniteSet(DOMAIN results.streaming)
  BY HistoriesAssumption DEF FiguresInv, ProvenanceTold, TypeOK, results
<1>2. get_available_runs = {c.run : c \in results.raw} /\ get_available_streaming_runs = DOMAIN results.streaming
  BY DEF get_available_runs, get_available_streaming_runs, list_runs, load_raw_df
<1>3. get_available_runs \subseteq Nat
  BY <1>1, <1>2 DEF Cells
<1>4. IsFiniteSet(get_available_runs)
  <2> DEFINE run_of == [c \in results.raw |-> c.run]
  <2>1. run_of \in Surjection(results.raw, get_available_runs)
    BY <1>2 DEF Surjection
  <2> HIDE DEF run_of
  <2> QED BY <1>1, <2>1, FS_Surjection
<1> QED BY <1>1, <1>2, <1>3, <1>4, FS_Union

LEMMA Opens ==
  ASSUME FiguresInv
  PROVE  OpensWithTheLatest
<1> DEFINE all == get_available_runs \cup get_available_streaming_runs
<1>1. all \subseteq Nat /\ IsFiniteSet(all)
  BY TheRuns
<1>2. CASE all = {}
  <2>1. latest_run_id(all) = None
    BY <1>2 DEF latest_run_id
  <2> QED BY <1>2, <2>1 DEF OpensWithTheLatest, get_unified_runs
<1>3. CASE all # {}
  <2> DEFINE kind(run) == IF run \in get_available_runs THEN "concurrency" ELSE "streaming"
  <2>1. PICK run \in all : run = latest_run_id(all) /\ \A r \in all : r <= run
    <3> HIDE DEF all
    <3> QED BY <1>1, <1>3, LatestRun
  <2>2. run # None
    BY <1>1, <2>1, ArgumentsAssumption
  <2>3. get_unified_runs = <<kind(run), run>>
    BY <2>1, <2>2 DEF get_unified_runs
  <2>4. get_unified_runs[1] = kind(run) /\ get_unified_runs[2] = run
    BY <2>3
  <2>5. ASSUME kind(run) = "concurrency" PROVE get_summary(run) # {}
    <3>1. PICK c \in results.raw : c.run = run
      BY <2>5 DEF get_available_runs, list_runs, load_raw_df
    <3>2. [c EXCEPT !.warm = {}] \in get_trimmed(run)
      BY <3>1 DEF get_trimmed, discard_warmup, load_raw_df
    <3> QED BY <3>2 DEF get_summary, summarize
  <2>6. ASSUME kind(run) # "concurrency" PROVE run \in DOMAIN results.streaming
    BY <2>1, <2>6 DEF get_available_streaming_runs
  <2> QED BY <1>3, <2>1, <2>4, <2>5, <2>6 DEF OpensWithTheLatest
<1> QED BY <1>2, <1>3

\* At a level, the successful rows of a configuration are the rows of that
\* configuration among the successful ones.
LEMMA OkAt == \A df, config, conc : _ok(At(df, config, conc)) = At(_ok(df), config, conc)
BY DEF _ok, At

HasItsRows(df, c) ==
    \A scored :
        scored = (At(_ok(df), c.config, c.conc) # {}) =>
            /\ \E r \in summarize(df) : <<r.config, r.conc, r.latency>> = <<c.config, c.conc, scored>>
            /\ /\ c.config \in PROTECTED
               /\ At(_ok(df), resolve_baseline_config(ConfigsOf(_ok(df))), c.conc) # {}
               => \E r \in build_matrix_at(df) : <<r.config, r.conc, r.available>> = <<c.config, c.conc, scored>>

LEMMA Attempted ==
  ASSUME NEW df, NEW c \in df
  PROVE  HasItsRows(df, c)
<1> SUFFICES ASSUME NEW scored, scored = (At(_ok(df), c.config, c.conc) # {})
             PROVE  /\ \E r \in summarize(df) : <<r.config, r.conc, r.latency>> = <<c.config, c.conc, scored>>
                    /\ /\ c.config \in PROTECTED
                       /\ At(_ok(df), resolve_baseline_config(ConfigsOf(_ok(df))), c.conc) # {}
                       => \E r \in build_matrix_at(df) :
                             <<r.config, r.conc, r.available>> = <<c.config, c.conc, scored>>
  BY Zenon DEF HasItsRows
<1>1. \E r \in summarize(df) : <<r.config, r.conc, r.latency>> = <<c.config, c.conc, scored>>
  <2> DEFINE attempted == At(df, c.config, c.conc)
  <2>1. PICK n, e : n = Cardinality(Reps(attempted)) /\ e = (Failing(attempted) # {})
    OBVIOUS
  <2>2. (_ok(attempted) # {}) = scored
    BY OkAt, Zenon
  <2>3. [config |-> c.config, conc |-> c.conc, n_repetitions |-> n, errors |-> e, latency |-> scored]
           \in summarize(df)
    BY <2>1, <2>2, Zenon DEF summarize
  <2> QED BY <2>3
<1>2. ASSUME c.config \in PROTECTED, At(_ok(df), resolve_baseline_config(ConfigsOf(_ok(df))), c.conc) # {}
      PROVE  \E r \in build_matrix_at(df) : <<r.config, r.conc, r.available>> = <<c.config, c.conc, scored>>
  <2>1. [config |-> c.config, conc |-> c.conc, available |-> scored] \in build_matrix_at(df)
    BY <1>2, Zenon DEF build_matrix_at
  <2> QED BY <2>1
<1> QED BY <1>1, <1>2

LEMMA NothingHidden == NothingVanishes
<1> SUFFICES ASSUME NEW run \in get_available_runs \cup {None},
                    NEW row \in {<<c.config, c.conc>> : c \in get_trimmed(run)}
             PROVE  LET ok == _ok(get_trimmed(run))
                        baseline == resolve_baseline_config(ConfigsOf(ok))
                        scored == At(ok, row[1], row[2]) # {}
                    IN  /\ \E r \in get_summary(run) : <<r.config, r.conc, r.latency>> = <<row[1], row[2], scored>>
                        /\ row[1] \in PROTECTED /\ At(ok, baseline, row[2]) # {} =>
                              \E r \in build_custom_tradeoff(run) :
                                 <<r.config, r.conc, r.available>> = <<row[1], row[2], scored>>
  BY DEF NothingVanishes
<1>1. PICK df : df = get_trimmed(run)
  OBVIOUS
<1>2. PICK c \in df : row = <<c.config, c.conc>>
  BY <1>1
<1>3. row[1] = c.config /\ row[2] = c.conc
  BY <1>2
<1>4. get_summary(run) = summarize(df) /\ build_custom_tradeoff(run) = build_matrix_at(df)
  BY <1>1 DEF get_summary, build_custom_tradeoff
<1>5. PICK scored : scored = (At(_ok(df), c.config, c.conc) # {})
  OBVIOUS
<1>6. /\ \E r \in summarize(df) : <<r.config, r.conc, r.latency>> = <<c.config, c.conc, scored>>
      /\ /\ c.config \in PROTECTED
         /\ At(_ok(df), resolve_baseline_config(ConfigsOf(_ok(df))), c.conc) # {}
         => \E r \in build_matrix_at(df) : <<r.config, r.conc, r.available>> = <<c.config, c.conc, scored>>
  <2>1. HasItsRows(df, c)
    BY Attempted
  <2> QED BY <1>5, <2>1, Zenon DEF HasItsRows
<1> QED BY <1>1, <1>3, <1>4, <1>5, <1>6, Zenon

\* While experiments go on writing, a page opens with the newest run of either
\* kind and shows every configuration that run attempted, failed or not
\* (get_unified_runs, get_summary, build_custom_tradeoff).
THEOREM PageComplete == Spec => []RunsShown
<1>1. FiguresInv => RunsShown
  BY Opens, NothingHidden DEF RunsShown
<1> QED BY <1>1, FiguresInvariant, PTL
=============================================================================
