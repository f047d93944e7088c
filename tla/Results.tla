------------------------------- MODULE Results -------------------------------
(***************************************************************************)
(* What analysis/aggregate.py, analysis/tradeoff_matrix.py and the run     *)
(* selection of analysis/paper_figures.py compute from results/raw.        *)
(*                                                                         *)
(* A cell is the CSV of one (run, config, concurrency, repetition).  Of    *)
(* its requests only the kinds of outcome are kept: warm those among the   *)
(* first 5% by request_index, rest those of the others.  warm is empty in  *)
(* a file of fewer than 20 requests, of which nothing counts as warm-up.   *)
(* Runs are ordered by their time stamps; LEGACY stands for rows written   *)
(* before there was a run_id.  settings is the payload profile, network    *)
(* profile and session length taken together, None where the columns are   *)
(* missing.                                                                *)
(***************************************************************************)
EXTENDS Integers, FiniteSets

CONSTANT None

LEGACY == 0
DEFAULT == "tabular_small/localhost/1"

Outcomes == {"ok", "failed", "404"}

CONFIGS == {"control", "control_2rt", "classical", "classical_ecdhe", "hybrid",
            "hybrid_kex", "full_pqc", "hybrid_kex_pq"}
PROTECTED == CONFIGS \ {"control", "control_2rt"}

Cells == [run: Nat, config: CONFIGS, settings: STRING \cup {None}, conc: Nat, rep: Nat,
          warm: SUBSET Outcomes, rest: SUBSET Outcomes]

Requests(c) == c.warm \cup c.rest

\* The rows without an error.
_ok(df) == {c \in df : "ok" \in Requests(c)}
Failing(df) == {c \in df : Requests(c) # {"ok"}}

ConfigsOf(df) == {c.config : c \in df}
LevelsOf(df) == {c.conc : c \in df}
At(df, config, conc) == {c \in df : c.config = config /\ c.conc = conc}
Reps(df) == {c.rep : c \in df}

-----------------------------------------------------------------------------
(***************************************************************************)
(* analysis/aggregate.py                                                   *)
(***************************************************************************)
load_raw(raw, run_ids) == {c \in raw : run_ids = None \/ c.run \in run_ids}

discard_warmup(df) == {[c EXCEPT !.warm = {}] : c \in df}

\* One row for every configuration and level that was attempted.
summarize(df) ==
    {LET attempted == At(df, c.config, c.conc)
     IN  [config |-> c.config, conc |-> c.conc,
          n_repetitions |-> Cardinality(Reps(attempted)),
          errors |-> Failing(attempted) # {},
          latency |-> _ok(attempted) # {}] : c \in df}

resolve_baseline_config(available) == IF "control" \in available THEN "control" ELSE "classical"

mann_whitney_vs_control(df) ==
    LET ok == _ok(df)
        baseline == resolve_baseline_config(ConfigsOf(ok))
    IN  {[conc |-> c.conc, config |-> c.config, baseline_config |-> baseline] :
            c \in {d \in ok : d.config # baseline /\ At(ok, baseline, d.conc) # {}}}

-----------------------------------------------------------------------------
(***************************************************************************)
(* analysis/tradeoff_matrix.py: a row for each scored configuration at     *)
(* each level at which the baseline has a median.                          *)
(***************************************************************************)
\* Mutant: configurations are looked up among the successful rows.
build_matrix_at_successful(df) ==
    LET ok == _ok(df)
        baseline == resolve_baseline_config(ConfigsOf(ok))
    IN  {[config |-> c.config, conc |-> c.conc, available |-> TRUE] :
            c \in {d \in ok : d.config \in PROTECTED /\ At(ok, baseline, d.conc) # {}}}

build_matrix_at(df) ==
    LET ok == _ok(df)
        baseline == resolve_baseline_config(ConfigsOf(ok))
    IN  {[config |-> c.config, conc |-> c.conc, available |-> At(ok, c.config, c.conc) # {}] :
            c \in {d \in df : d.config \in PROTECTED /\ At(ok, baseline, d.conc) # {}}}

-----------------------------------------------------------------------------
(***************************************************************************)
(* analysis/paper_figures.py: the rows the paper is computed from.         *)
(***************************************************************************)
Filled(c) == IF c.settings = None THEN DEFAULT ELSE c.settings

\* Mutant: settings that predate their columns are not given the default.
_latest_run_per_cell_unfilled(df) ==
    {c \in df : \A d \in df : d.config = c.config /\ d.settings = c.settings => d.run <= c.run}

\* The latest run of each configuration under the same settings, whatever
\* levels that run covers.
_latest_run_per_cell(df) ==
    {c \in df : \A d \in df : d.config = c.config /\ Filled(d) = Filled(c) => d.run <= c.run}

\* The rows of load_concurrency before the cells that only met 404 are left
\* out; SystemExit when there are none.
selected(raw, run_ids) ==
    IF run_ids # None THEN _latest_run_per_cell({c \in raw : c.run \in run_ids})
    ELSE {c \in raw : c.run = LEGACY}

\* Every request of the cell hit the wrong server.
all_404(c) == Requests(c) = {"404"}

load_concurrency(raw, run_ids) == discard_warmup({c \in selected(raw, run_ids) : ~all_404(c)})

\* _load_runs, for the payload, network and amortization sweeps.
_load_runs(raw, run_ids) == discard_warmup(_latest_run_per_cell(load_raw(raw, run_ids)))

\* The pairs compared at each level: two repetitions with a success on both
\* sides, the repetition being the statistical unit.
comparison_stats(df, pairs) ==
    LET reps(config, conc) == Cardinality(Reps(At(_ok(df), config, conc)))
        compared(p, l) == reps(p[1], l) >= 2 /\ reps(p[2], l) >= 2
    IN  UNION {{[conc |-> l, config |-> p[1], reference |-> p[2]] :
                    p \in {q \in pairs : compared(q, l)}} : l \in LevelsOf(_ok(df))}

=============================================================================
