------------------------------ MODULE Dashboard ------------------------------
(***************************************************************************)
(* The other reader of the results directory: webapp/data_loader.py, which *)
(* lists the runs, picks the one a page opens with and summarises it, also *)
(* while experiments go on writing.                                        *)
(***************************************************************************)
EXTENDS PaperFigures

\* A file being written is skipped here, where load_raw fails.
load_raw_df == results.raw

\* Legacy rows get the run id "legacy", which sorts above every time stamp.
Sorts(run, runs) == IF run = LEGACY THEN 1 + Cardinality(runs) ELSE Cardinality({r \in runs : r < run /\ r # LEGACY})
First(runs) == CHOOSE r \in runs : \A q \in runs : Sorts(q, runs) <= Sorts(r, runs)

list_runs(df) == {c.run : c \in df}

\* The latest run that is not the legacy bucket, if there is one.
latest_run_id(runs) ==
    IF runs \ {LEGACY} # {} THEN First(runs \ {LEGACY}) ELSE IF runs # {} THEN First(runs) ELSE None

get_available_runs == list_runs(load_raw_df)
get_available_streaming_runs == DOMAIN results.streaming

\* The entry of the merged list that the page opens with.
get_unified_runs ==
    LET run == latest_run_id(get_available_runs \cup get_available_streaming_runs)
    IN  IF run = None THEN None
        ELSE <<IF run \in get_available_runs THEN "concurrency" ELSE "streaming", run>>

get_trimmed(run) == discard_warmup({c \in load_raw_df : run = None \/ c.run = run})
get_summary(run) == summarize(get_trimmed(run))
build_custom_tradeoff(run) == build_matrix_at(get_trimmed(run))

-----------------------------------------------------------------------------
(***************************************************************************)
(* Both depend on the directory alone, and every directory occurs while no *)
(* invocation is running.                                                  *)
(***************************************************************************)

\* The page opens with the newest run there is of either kind, and with the
\* legacy rows only as long as there is no other; that run has something to
\* show.
OpensWithTheLatest ==
    prog = None =>
    LET all == get_available_runs \cup get_available_streaming_runs
    IN  IF all = {} THEN get_unified_runs = None
        ELSE LET kind == get_unified_runs[1]
                 run == get_unified_runs[2]
             IN  /\ \A r \in all : r <= run
                 /\ IF kind = "concurrency" THEN get_summary(run) # {} ELSE run \in DOMAIN results.streaming

\* A configuration that failed every request at a level is shown as failed:
\* every configuration attempted at a level has its row in the summary, and in
\* the matrix as well where the baseline has a latency to compare with.  Only
\* those that succeeded have a score.
NothingVanishes ==
    prog = None => \A run \in get_available_runs \cup {None} :
        LET df == get_trimmed(run)
            ok == _ok(df)
            baseline == resolve_baseline_config(ConfigsOf(ok))
            summary == get_summary(run)
            matrix == build_custom_tradeoff(run)
        IN  \A row \in {<<c.config, c.conc>> : c \in df} :
               LET scored == At(ok, row[1], row[2]) # {}
               IN  /\ \E r \in summary : <<r.config, r.conc, r.latency>> = <<row[1], row[2], scored>>
                   /\ row[1] \in PROTECTED /\ At(ok, baseline, row[2]) # {} =>
                         \E r \in matrix : <<r.config, r.conc, r.available>> = <<row[1], row[2], scored>>

\* A page opens with the newest run and hides nothing that run attempted.
RunsShown == OpensWithTheLatest /\ NothingVanishes

=============================================================================
