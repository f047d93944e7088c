------------------------------ MODULE MCFigures ------------------------------
(***************************************************************************)
(* Results directories as they came about: the legacy sweep, the first     *)
(* named run, a corrective run, a run against the wrong server, runs with  *)
(* too few repetitions, files that are missing.                            *)
(***************************************************************************)
EXTENDS Dashboard, TLC

Cell(run, config, settings, conc, rep, warm, rest) ==
    [run |-> run, config |-> config, settings |-> settings, conc |-> conc, rep |-> rep,
     warm |-> warm, rest |-> rest]

\* Two repetitions at both levels, every request answered.
Sweep(run, configs, settings) ==
    {Cell(run, c, settings, l, r, {"ok"}, {"ok"}) : c \in configs, l \in {10, 100}, r \in {1, 2}}
\* At 10 connections only, as the runs over one setting are.
Small(run, configs, settings) == {c \in Sweep(run, configs, settings) : c.conc = 10}
\* The same, with what happened to one configuration at one level.
Where(cells, config, conc, warm, rest) ==
    {IF c.config = config /\ c.conc = conc THEN [c EXCEPT !.warm = warm, !.rest = rest] ELSE c : c \in cells}

Two == {"control", "hybrid"}
Three == {"control", "classical", "hybrid"}
Four == Three \cup {"classical_ecdhe"}

Rows(configs, strategies, ks) == [config : configs, strategy : strategies, k : ks]
Stream(rows, column) == [rows |-> rows, checkpoint_column |-> column]

AllFiles == {"primitive_bench.json", "hndl", "hndl/streaming", "campaign.json", "key_substitution.json",
             "contention_check.csv", "environment.json"}

NoManifest == None
Manifest(concurrency, streaming, payload, network, amortization, auth_cost, checkpoint) ==
    [concurrency |-> concurrency, streaming |-> streaming, payload |-> payload, network |-> network,
     amortization |-> amortization, auth_cost |-> auth_cost, checkpoint |-> checkpoint]

Directory(raw, torn, summaries, streaming, files, manifest) ==
    [raw |-> raw, torn |-> torn, summaries |-> summaries, streaming |-> streaming, files |-> files,
     manifest |-> manifest]

-----------------------------------------------------------------------------
\* The original sweep: RSA answers nothing at the higher level.  Without the
\* ECDHE baseline, the failures cannot be compared with it.
Legacy == Where(Sweep(LEGACY, Four, None), "classical", 100, {"failed"}, {"failed"})
LegacyThree == {c \in Legacy : c.config \in Three}

First1 == Sweep(1, Four, DEFAULT)
\* Written before the columns for the settings, with failures; run 2 is the
\* same again without them.
Older1 == Where(Sweep(1, Four \ {"hybrid"}, None), "classical", 100, {}, {"ok", "failed"})
Again2 == Sweep(2, Four \ {"hybrid"}, DEFAULT)
\* Some requests fail, in the warm-up or after it.
Failing1 == Where(First1, "classical", 100, {"ok"}, {"failed"})
Partly1 == Where(First1, "classical", 100, {"ok"}, {"ok", "failed"})
\* Against the wrong server.
Wrong2 == Where(Where(Sweep(2, {"hybrid"}, DEFAULT), "hybrid", 10, {"404"}, {"404"}), "hybrid", 100, {}, {"404"})
\* Nothing protected to decide between but one configuration.
Only1 == Sweep(1, Two, DEFAULT)
Thin1 == {c \in First1 : c.rep = 1}
ThinBelow1 == {c \in First1 : c.rep = 1 \/ c.conc = 100}

\* The sweeps over one setting: payload, network, handshake, session length,
\* and at one length perhaps without Control.
Settings(reusing) ==
    Small(3, Two, "image_cnn") \cup Small(4, Two, DEFAULT) \cup Small(4, {"hybrid"}, "wan")
    \cup Small(5, Two, DEFAULT) \cup Small(5, reusing, "10 per handshake")
    \cup Small(6, {"hybrid"}, "auth") \cup Small(7, {"hybrid"}, DEFAULT)

Streams == (DEFAULT_STREAMING_RUN :> Stream(Rows({"classical", "hybrid"}, STRATS, {None}), FALSE))
           @@ (8 :> Stream(Rows({"classical", "hybrid"}, STRATS, {None}), TRUE))
           @@ (9 :> Stream(Rows({"hybrid"}, {"hash_chain"}, {None, 2}), TRUE))
\* No hash-chain transaction of one configuration succeeded.
Gap == (DEFAULT_STREAMING_RUN :> Stream(Rows({"classical"}, STRATS, {None})
                                        \cup Rows({"hybrid"}, STRATS \ {"hash_chain"}, {None}), FALSE))

Full(concurrency) == Manifest(concurrency, 8, {3}, {4}, {5}, {6, 7}, 9)
Bare(concurrency) == Manifest(concurrency, None, {}, {}, {}, {}, None)
EmptyStreams == (DEFAULT_STREAMING_RUN :> Stream({}, TRUE))

MCHistories ==
   << \* legacy rows first, then a named run of all four
      <<Directory(Legacy, FALSE, {}, Streams, AllFiles, NoManifest),
        Directory(Legacy \cup First1, FALSE, {1}, Streams, AllFiles, Bare({1}))>>,
      <<Directory(LegacyThree, FALSE, {}, Streams, AllFiles, NoManifest),
        Directory(LegacyThree \cup Failing1, TRUE, {1}, Streams, AllFiles, Bare({})),
        Directory(LegacyThree \cup Failing1, FALSE, {1}, Streams, AllFiles \ {"environment.json"}, Bare({1}))>>,
      \* corrective runs, the second of them without a summary or against the
      \* wrong server
      <<Directory(Older1, FALSE, {1}, Streams, {}, Bare({1})),
        Directory(Older1 \cup Again2, FALSE, {1}, Streams, AllFiles, Bare({1, 2}))>>,
      <<Directory(Partly1, FALSE, {1}, Streams, AllFiles, Bare({1})),
        Directory(Partly1 \cup Wrong2, FALSE, {1, 2}, Streams, AllFiles, Bare({1, 2}))>>,
      \* Control measured later at one session length, and a sweep that is
      \* just writing its rows
      <<Directory(Only1 \cup Settings({"hybrid"}), FALSE, {1}, Streams, AllFiles, Full({1})),
        Directory(Only1 \cup Settings(Two), FALSE, {1}, Streams, AllFiles, Full({1})),
        Directory(Only1 \cup Settings(Two), TRUE, {1}, Streams, AllFiles, Full({1}))>>,
      \* runs that do not make a paper
      <<Directory({}, FALSE, {}, <<>>, {}, NoManifest),
        Directory(Thin1, FALSE, {}, Streams, AllFiles, Bare({1})),
        Directory(ThinBelow1, FALSE, {}, Streams, AllFiles, Bare({1}))>>,
      <<Directory(Wrong2, FALSE, {2}, Streams, AllFiles, Bare({2})),
        Directory(First1 \cup Wrong2, FALSE, {}, <<>>, AllFiles, Bare({1}))>>,
      <<Directory(First1, FALSE, {1}, Gap, AllFiles \ {"primitive_bench.json"}, Bare({1})),
        Directory(First1, FALSE, {1}, Gap, AllFiles, Bare({1}))>>,
      <<Directory(First1, FALSE, {1}, EmptyStreams, AllFiles, Bare({1})),
        Directory(First1, FALSE, {1}, Streams, AllFiles,
                  Manifest({1}, 8, {13}, {}, {}, {}, DEFAULT_STREAMING_RUN))>>,
      <<Directory(First1, FALSE, {1}, Streams, AllFiles, Manifest({1}, 8, {}, {}, {}, {}, DEFAULT_STREAMING_RUN)),
        Directory(First1, FALSE, {1}, Streams, AllFiles, Manifest({1}, 8, {}, {1}, {1}, {1}, 11))>> >>

MCArguments == {None, {1}}

\* Clearly faster, the same, clearly slower.
MCIntervals ==
    {[ci90_lo |-> -30, ci90_hi |-> -20, diff_ms |-> -25, ref_median |-> 100],
     [ci90_lo |-> -2, ci90_hi |-> 2, diff_ms |-> 0, ref_median |-> 100],
     [ci90_lo |-> 20, ci90_hi |-> 40, diff_ms |-> 30, ref_median |-> 100]}
\* The measured order of the three, and one configuration measured alone.
MCByteMaps == {[classical |-> 2, classical_ecdhe |-> 1, hybrid |-> 3], [hybrid |-> 1]}

=============================================================================
