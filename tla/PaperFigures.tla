----------------------------- MODULE PaperFigures -----------------------------
(***************************************************************************)
(* python -m analysis.paper_figures: one pass over the results directory   *)
(* that writes figures and tables as it goes, and the key-numbers sheet at *)
(* the end.  It is run again as experiments add results, it stops at the   *)
(* first exception, and what an earlier invocation wrote stays on disk     *)
(* until a later one writes the same file.                                 *)
(*                                                                         *)
(* Of an output only its provenance is kept: whether it is stamped         *)
(* PROVISIONAL, and the rows it shows, each as <<run, config, settings>>.  *)
(* Where the code tells rows apart by something else, that stands in the   *)
(* place of the settings: the strategy of a stream, the handshake of a     *)
(* pair of runs with and without authentication, and None for the samples  *)
(* of the server's CPU and memory, which go by the configuration alone.    *)
(***************************************************************************)
EXTENDS Results, Decision, Sequences

CONSTANTS
    Histories,       \* histories of the results directory, each a sequence of its contents
    Arguments,       \* --concurrency-run-id: None or a set of runs
    MaxInvocations,  \* bound on the invocations
    EnoughReps,      \* repetitions below which a cell is noted as thin
    Intervals,       \* what a comparison may come out as
    ByteMaps         \* what the bytes per configuration may be

NamedRuns(manifest) ==
    manifest.concurrency \cup manifest.payload \cup manifest.network \cup manifest.amortization
    \cup manifest.auth_cost \cup {manifest.streaming, manifest.checkpoint}

\* step_auth_cost makes one run of a configuration with the authenticated
\* handshake and one without.
handshake(c) == IF c.settings = "auth" THEN "auth" ELSE "no auth"
OneRunEachWay(raw, runs) ==
    \A c, d \in {e \in raw : e.run \in runs} :
        c.config = d.config /\ handshake(c) = handshake(d) => c.run = d.run

\* Experiments only add rows, each with the time stamp of its run, and the
\* runs that are named, by an argument or a manifest, have one.  None is no
\* time stamp, no list of them and no settings.
ASSUME HistoriesAssumption ==
    \A h \in DOMAIN Histories :
        /\ Len(Histories[h]) \in Nat \ {0} /\ DOMAIN Histories[h] = 1..Len(Histories[h])
        /\ \A s \in DOMAIN Histories[h] :
              /\ Histories[h][s].raw \subseteq Cells /\ IsFiniteSet(Histories[h][s].raw)
              /\ DOMAIN Histories[h][s].streaming \subseteq Nat /\ IsFiniteSet(DOMAIN Histories[h][s].streaming)
              /\ s > 1 => Histories[h][s - 1].raw \subseteq Histories[h][s].raw
              /\ Histories[h][s].manifest # None =>
                    /\ LEGACY \notin NamedRuns(Histories[h][s].manifest)
                    /\ None \notin {Histories[h][s].manifest.payload, Histories[h][s].manifest.network,
                                    Histories[h][s].manifest.amortization}
                    /\ \A t \in DOMAIN Histories[h] :
                          OneRunEachWay(Histories[h][t].raw, Histories[h][s].manifest.auth_cost)
ASSUME ArgumentsAssumption ==
    /\ None \notin Nat /\ None # DEFAULT
    /\ MaxInvocations \in Nat
    /\ \A run_ids \in Arguments : run_ids # None => LEGACY \notin run_ids
ASSUME IntervalsAssumption == \A r \in Intervals : Comparison(r)
ASSUME ByteMapsAssumption == \A b \in ByteMaps : \A c \in DOMAIN b : b[c] \in Int

VARIABLES
    history, stage,  \* which history, and how far experiments have got in it
    prog,            \* the running invocation's locals, None when there is none
    invocations,     \* invocations started so far
    disk,            \* the output directory: provenance of each file
    decision,        \* what tab_dominance says
    numbers          \* key_numbers.md

vars == <<history, stage, prog, invocations, disk, decision, numbers>>

results == Histories[history][stage]
DEFAULT_STREAMING_RUN == 10  \* a named run

STRATS == {"buffer_and_sign", "per_chunk", "hash_chain"}
STAMPED == {"fig_concurrency_latency", "fig_latency_decomposition", "tab_concurrency", "tab_resources"}
\* Of the same rows, but written by calls that do not pass the stamp on.
UNSTAMPED == {"tab_equivalence", "tab_failures", "tab_dominance"}
Outputs == STAMPED \cup UNSTAMPED \cup
    {"fig_primitive_throughput", "tab_primitives", "fig_wire_bytes", "fig_streaming_hndl",
     "tab_threats", "fig_streaming_strategies", "tab_streaming", "tab_campaign", "tab_keysub",
     "tab_authcost", "fig_payload_profiles", "tab_payload_profiles", "fig_checkpoint_frontier",
     "tab_checkpoint", "tab_timing", "fig_handshake_amortization", "fig_network_conditions",
     "tab_environment"}

-----------------------------------------------------------------------------
(***************************************************************************)
(* What a function that produces outputs does: the files it writes, the    *)
(* caveats it notes, and whether it then raises.                           *)
(***************************************************************************)
Did(writes, notes, raises) == [writes |-> writes, notes |-> notes, raises |-> raises]
File(name, stamped, shows) == [name |-> name, stamped |-> stamped, shows |-> shows]

Returns == Did({}, {}, FALSE)
Raises == Did({}, {}, TRUE)
Notes(note) == Did({}, {note}, FALSE)
Writes(name, stamped, shows) == Did({File(name, stamped, shows)}, {}, FALSE)

Shown(df) == {<<c.run, c.config, Filled(c)>> : c \in df}
ShownStream(run, rows) == {<<run, s.config, s.strategy>> : s \in rows}
ShownPairs(df) == {<<c.run, c.config, handshake(c)>> : c \in df}
ShownSamples(rs) == {<<c.run, c.config, None>> : c \in rs}

Exists(file) == file \in results.files

-----------------------------------------------------------------------------
(***************************************************************************)
(* The concurrency outputs, from the rows m.conc of load_concurrency.      *)
(***************************************************************************)
ComparedPairs(present) ==
    {<<c, "control">> : c \in present \ {"control"}}
    \cup (IF "control_2rt" \in present
          THEN {<<c, "control_2rt">> : c \in present \cap PROTECTED} ELSE {})
    \cup (IF "classical_ecdhe" \in present
          THEN {<<c, "classical_ecdhe">> : c \in (present \cap PROTECTED) \ {"classical", "classical_ecdhe"}}
          ELSE {})

cmp(m) == comparison_stats(m.conc, ComparedPairs(ConfigsOf(m.conc)))

\* The server's samples: each configuration's latest run among those with a
\* summary, which need not be the run whose latencies are shown.
_resource_cells(run_ids) ==
    LET rs == {c \in results.raw : c.run \in run_ids \cap results.summaries}
    IN  {c \in rs : \A d \in rs : d.config = c.config => d.run <= c.run}

res(m) == IF m.run_ids = None THEN {} ELSE _resource_cells(m.run_ids)

\* Panel (a) is of the rows m.conc; panel (b) is of the server's samples at
\* the same configurations and levels, or without samples of m.conc again.
fig_concurrency(m) ==
    LET sampled == {c \in res(m) : c.config \in ConfigsOf(m.conc) /\ c.conc \in LevelsOf(m.conc)}
    IN  IF m.conc = {} THEN Raises
        ELSE Writes("fig_concurrency_latency", m.provisional, Shown(m.conc) \cup ShownSamples(sampled))

\* At the decomposition concurrency, 10 connections.
fig_decomposition(m) ==
    LET ok == _ok({c \in m.conc : c.conc = 10})
    IN  IF ok = {} THEN Returns
        ELSE Writes("fig_latency_decomposition", m.provisional, Shown(ok))

\* An empty comparison has no columns to select by.
table_concurrency(m) ==
    IF cmp(m) = {} THEN Raises
    ELSE Writes("tab_concurrency", m.provisional, Shown(m.conc))

table_equivalence(m) ==
    LET eq == {r \in cmp(m) : r.reference = "classical_ecdhe"}
    IN  IF eq = {} THEN Returns
        ELSE Writes("tab_equivalence", FALSE, {s \in Shown(m.conc) : \E r \in eq : s[2] = r.config})

\* With each failed request counted as one that took the client's timeout.
Imputed(df) == {[c EXCEPT !.rest = {"ok"}] : c \in df}

\* A failing cell lost at least 0.5% of its requests.
table_failures(m) ==
    LET levels == LevelsOf(Failing(m.conc))
        at == {c \in m.conc : c.conc \in levels}
        pairs == {<<c, "classical_ecdhe">> : c \in (ConfigsOf(at) \cap PROTECTED) \ {"classical_ecdhe"}}
    IN  IF levels = {} THEN Returns
        ELSE IF comparison_stats(at, pairs) = {} \/ comparison_stats(Imputed(at), pairs) = {} THEN Raises
        ELSE Writes("tab_failures", FALSE, Shown(at))

\* Mutant: the configurations are looked up in what was selected, before the
\* cells that only met 404 are left out.
caveats_selected(m) ==
    {<<"missing", c>> : c \in CONFIGS \ ConfigsOf(selected(results.raw, m.run_ids))}

\* The caveats that main notes about these rows.
caveats(m) ==
    {<<"missing", c>> : c \in CONFIGS \ ConfigsOf(m.conc)}
    \cup {<<"thin", r.config, r.conc>> : r \in {q \in summarize(m.conc) : q.n_repetitions < EnoughReps}}

main_notes(m) == Did({}, caveats(m), FALSE)

-----------------------------------------------------------------------------
(***************************************************************************)
(* Primitives, bytes and single responses, from files that are there or    *)
(* not.                                                                    *)
(***************************************************************************)
fig_primitives(m) ==
    IF ~Exists("primitive_bench.json") THEN Raises
    ELSE Did({File("fig_primitive_throughput", FALSE, {}), File("tab_primitives", FALSE, {})}, {}, FALSE)
fig_wire_bytes(m) == IF Exists("hndl") THEN Writes("fig_wire_bytes", FALSE, {}) ELSE Returns
fig_streaming_hndl(m) == IF Exists("hndl/streaming") THEN Writes("fig_streaming_hndl", FALSE, {}) ELSE Returns
table_threats(m) == Writes("tab_threats", FALSE, {})

-----------------------------------------------------------------------------
(***************************************************************************)
(* Streaming: the successful rows of one run, and whether its files have   *)
(* the checkpoint_interval column.                                         *)
(***************************************************************************)
HasStreaming(run) == run \in DOMAIN results.streaming
load_streaming(run) == results.streaming[run]

\* The figure is written before the numbers that need every strategy.
fig_streaming(m) ==
    IF m.sdf = {} THEN Raises
    ELSE Did({File("fig_streaming_strategies", FALSE, ShownStream(m.streaming_run_id, m.sdf))}, {},
             \E s \in m.sdf : {t.strategy : t \in {u \in m.sdf : u.config = s.config}} # STRATS)

table_streaming(m) == Writes("tab_streaming", FALSE, ShownStream(m.streaming_run_id, m.sdf))

table_attack_campaign(m) == IF Exists("campaign.json") THEN Writes("tab_campaign", FALSE, {}) ELSE Returns
table_key_substitution(m) == IF Exists("key_substitution.json") THEN Writes("tab_keysub", FALSE, {}) ELSE Returns

\* The manifest's pairs of runs, with and without the authenticated handshake.
table_auth_cost(m) ==
    LET df == discard_warmup({c \in results.raw : c.run \in m.auth_cost})
        with == {c \in df : c.settings = "auth"}
        without == df \ with
        present == PROTECTED \cap ConfigsOf(with) \cap ConfigsOf(without)
        twice(d, c) == Cardinality(Reps({e \in _ok(d) : e.config = c})) >= 2
    IN  IF m.auth_cost = {} THEN Returns
        ELSE IF results.torn THEN Raises
        ELSE IF present # {} /\ \A c \in present : ~(twice(with, c) /\ twice(without, c)) THEN Raises
        ELSE Writes("tab_authcost", FALSE, ShownPairs({c \in df : c.config \in present}))

table_resources(m) ==
    IF m.run_ids = None THEN Notes(<<"no resource table">>)
    ELSE IF res(m) = {} THEN Notes(<<"no resource samples">>)
    ELSE Writes("tab_resources", m.provisional, ShownSamples(res(m)))

-----------------------------------------------------------------------------
(***************************************************************************)
(* The sweeps over one setting.                                            *)
(***************************************************************************)
Payloads == {DEFAULT, "image_cnn"}

\* load_raw exits when no row is of the named runs, and cannot read a file
\* that a sweep is just writing.
Unreadable(run_ids) == results.torn \/ load_raw(results.raw, run_ids) = {}

fig_payload_profiles(m) ==
    LET ok == _ok(_load_runs(results.raw, m.payload))
    IN  IF m.payload = {} THEN Notes(<<"no payload sweep">>)
        ELSE IF Unreadable(m.payload) THEN Raises
        ELSE IF {Filled(c) : c \in ok} \cap Payloads = {} THEN Returns
        ELSE Writes("fig_payload_profiles", FALSE, Shown(ok))
table_payload_profiles(m) ==
    LET ok == _ok(_load_runs(results.raw, m.payload))
    IN  IF m.payload = {} \/ {Filled(c) : c \in ok} \cap Payloads = {} THEN Returns
        ELSE Writes("tab_payload_profiles", FALSE, Shown(ok))

hash_chain_rows(run) == {s \in load_streaming(run).rows : s.strategy = "hash_chain"}

fig_checkpoint_frontier(m) ==
    IF m.checkpoint = None THEN Returns
    ELSE IF ~HasStreaming(m.checkpoint) THEN Raises
    ELSE IF hash_chain_rows(m.checkpoint) = {} \/ ~load_streaming(m.checkpoint).checkpoint_column THEN Returns
    ELSE Writes("fig_checkpoint_frontier", FALSE, ShownStream(m.checkpoint, hash_chain_rows(m.checkpoint)))

\* Unlike the figure, the table reads the column whether it is there or not.
table_checkpoint(m) ==
    IF m.checkpoint = None \/ hash_chain_rows(m.checkpoint) = {} THEN Returns
    ELSE IF ~load_streaming(m.checkpoint).checkpoint_column THEN Raises
    ELSE Writes("tab_checkpoint", FALSE, ShownStream(m.checkpoint, hash_chain_rows(m.checkpoint)))

table_timing(m) ==
    IF Exists("contention_check.csv") THEN Writes("tab_timing", FALSE, {}) ELSE Notes(<<"no signing diagnostic">>)

\* Overheads are relative to Control at the same session length, which is
\* looked up for every protected configuration measured there.
fig_amortization(m) ==
    LET ok == _ok(_load_runs(results.raw, m.amortization))
        uncontrolled == {c \in ok : c.config \in PROTECTED /\
                            ~\E d \in ok : d.config = "control" /\ Filled(d) = Filled(c)}
    IN  IF m.amortization = {} THEN Returns
        ELSE IF Unreadable(m.amortization) THEN Raises
        ELSE IF Cardinality({Filled(c) : c \in ok}) < 2 THEN Returns
        ELSE IF uncontrolled # {} THEN Raises
        ELSE Writes("fig_handshake_amortization", FALSE, Shown(ok))

fig_network(m) ==
    LET ok == _ok(_load_runs(results.raw, m.network))
    IN  IF m.network = {} THEN Notes(<<"no network sweep">>)
        ELSE IF Unreadable(m.network) THEN Raises
        ELSE IF Cardinality({Filled(c) : c \in ok}) < 2 \/ ConfigsOf(ok) \cap PROTECTED = {} THEN Returns
        ELSE Writes("fig_network_conditions", FALSE, Shown(ok))

table_environment(m) ==
    IF Exists("environment.json") THEN Writes("tab_environment", FALSE, {}) ELSE Notes(<<"no environment">>)

-----------------------------------------------------------------------------
(***************************************************************************)
(* main                                                                    *)
(***************************************************************************)
\* Mutant: the sheet is written before the last table.
main_numbers_early ==
    <<"load_concurrency", "fig_concurrency", "fig_decomposition", "table_concurrency", "table_equivalence",
      "table_failures", "notes", "fig_primitives", "fig_wire_bytes", "fig_streaming_hndl", "table_threats",
      "load_streaming", "fig_streaming", "table_streaming", "table_dominance", "table_attack_campaign",
      "table_key_substitution", "table_auth_cost", "table_resources", "fig_payload_profiles",
      "table_payload_profiles", "fig_checkpoint_frontier", "table_checkpoint", "table_timing",
      "fig_amortization", "fig_network", "write_numbers", "table_environment">>

main ==
    <<"load_concurrency", "fig_concurrency", "fig_decomposition", "table_concurrency", "table_equivalence",
      "table_failures", "notes", "fig_primitives", "fig_wire_bytes", "fig_streaming_hndl", "table_threats",
      "load_streaming", "fig_streaming", "table_streaming", "table_dominance", "table_attack_campaign",
      "table_key_substitution", "table_auth_cost", "table_resources", "fig_payload_profiles",
      "table_payload_profiles", "fig_checkpoint_frontier", "table_checkpoint", "table_timing",
      "fig_amortization", "fig_network", "table_environment", "write_numbers">>

Outcome(step, m) ==
    CASE step = "fig_concurrency" -> fig_concurrency(m)
      [] step = "fig_decomposition" -> fig_decomposition(m)
      [] step = "table_concurrency" -> table_concurrency(m)
      [] step = "table_equivalence" -> table_equivalence(m)
      [] step = "table_failures" -> table_failures(m)
      [] step = "notes" -> main_notes(m)
      [] step = "fig_primitives" -> fig_primitives(m)
      [] step = "fig_wire_bytes" -> fig_wire_bytes(m)
      [] step = "fig_streaming_hndl" -> fig_streaming_hndl(m)
      [] step = "table_threats" -> table_threats(m)
      [] step = "fig_streaming" -> fig_streaming(m)
      [] step = "table_streaming" -> table_streaming(m)
      [] step = "table_attack_campaign" -> table_attack_campaign(m)
      [] step = "table_key_substitution" -> table_key_substitution(m)
      [] step = "table_auth_cost" -> table_auth_cost(m)
      [] step = "table_resources" -> table_resources(m)
      [] step = "fig_payload_profiles" -> fig_payload_profiles(m)
      [] step = "table_payload_profiles" -> table_payload_profiles(m)
      [] step = "fig_checkpoint_frontier" -> fig_checkpoint_frontier(m)
      [] step = "table_checkpoint" -> table_checkpoint(m)
      [] step = "table_timing" -> table_timing(m)
      [] step = "fig_amortization" -> fig_amortization(m)
      [] step = "fig_network" -> fig_network(m)
      [] step = "table_environment" -> table_environment(m)

At_step(step) == prog # None /\ main[prog.pc] = step

Init ==
    /\ history \in DOMAIN Histories /\ stage = 1
    /\ prog = None /\ invocations = 0
    /\ disk = [o \in Outputs |-> None] /\ decision = None /\ numbers = None

\* An experiment adds to the results directory, whatever is running.
Experiment ==
    /\ stage < Len(Histories[history])
    /\ stage' = stage + 1
    /\ UNCHANGED <<history, prog, invocations, disk, decision, numbers>>

\* The arguments, with what the manifest fills in.
Start(run_ids) ==
    /\ prog = None /\ invocations < MaxInvocations
    /\ invocations' = invocations + 1
    /\ LET manifest == results.manifest
           named == IF run_ids # None \/ manifest = None THEN run_ids
                    ELSE IF manifest.concurrency = {} THEN None ELSE manifest.concurrency
       IN  prog' = [pc |-> 1, run_ids |-> named,
                    streaming_run_id |-> IF manifest = None \/ manifest.streaming = None
                                         THEN DEFAULT_STREAMING_RUN ELSE manifest.streaming,
                    payload |-> IF manifest = None THEN {} ELSE manifest.payload,
                    network |-> IF manifest = None THEN {} ELSE manifest.network,
                    amortization |-> IF manifest = None THEN {} ELSE manifest.amortization,
                    auth_cost |-> IF manifest = None THEN {} ELSE manifest.auth_cost,
                    checkpoint |-> IF manifest = None THEN None ELSE manifest.checkpoint,
                    conc |-> {}, provisional |-> FALSE, sdf |-> {}, notes |-> {}, wrote |-> {}]
    /\ UNCHANGED <<history, stage, disk, decision, numbers>>

Exit == prog' = None

\* On to the next call; the program ends after the last one.
Continue(m) == prog' = IF m.pc = Len(main) THEN None ELSE [m EXCEPT !.pc = @ + 1]

LoadConcurrency ==
    /\ At_step("load_concurrency")
    /\ IF results.torn \/ selected(results.raw, prog.run_ids) = {} THEN Exit
       ELSE Continue([prog EXCEPT !.conc = load_concurrency(results.raw, prog.run_ids),
                                  !.provisional = (prog.run_ids = None)])
    /\ UNCHANGED <<history, stage, invocations, disk, decision, numbers>>

\* Plain strategies only; checkpoints have outputs of their own.
LoadStreaming ==
    /\ At_step("load_streaming")
    /\ IF ~HasStreaming(prog.streaming_run_id) THEN Exit
       ELSE Continue([prog EXCEPT !.sdf = {s \in load_streaming(prog.streaming_run_id).rows : s.k = None}])
    /\ UNCHANGED <<history, stage, invocations, disk, decision, numbers>>

Out(writes, invocation) ==
    [o \in Outputs |-> IF \E f \in writes : f.name = o
                       THEN LET f == CHOOSE f \in writes : f.name = o
                            IN  [invocation |-> invocation, stamped |-> f.stamped, shows |-> f.shows]
                       ELSE disk[o]]

\* One of the functions that main calls, in the order of main.
Produce ==
    /\ prog # None
    /\ main[prog.pc] \notin {"load_concurrency", "load_streaming", "table_dominance", "write_numbers"}
    /\ \E did \in {Outcome(main[prog.pc], prog)} :
           /\ disk' = Out(did.writes, invocations)
           /\ IF did.raises THEN Exit
              ELSE Continue([prog EXCEPT !.notes = @ \cup did.notes,
                                         !.wrote = @ \cup {f.name : f \in did.writes}])
    /\ UNCHANGED <<history, stage, invocations, decision, numbers>>

\* dominance_frame compares at 10 connections.  Without any comparison the
\* lookup raises, unless there is nothing to look up.
table_dominance ==
    /\ At_step("table_dominance")
    /\ LET at == {c \in prog.conc : c.conc = 10}
           present == ConfigsOf(prog.conc) \cap PROTECTED
           compared == {<<r.config, r.reference>> : r \in comparison_stats(at, Pairs(present))}
       IN  IF compared = {} /\ at # {} /\ Pairs(present) # {}
           THEN Exit /\ UNCHANGED <<disk, decision>>
           ELSE \E pw \in [compared -> Intervals], hs_bytes, pc_bytes \in ByteMaps :
                   /\ decision' = [present |-> present,
                                   api |-> NonDominated(present, pw, hs_bytes),
                                   per_chunk |-> NonDominated(present, pw, pc_bytes)]
                   /\ disk' = Out({File("tab_dominance", FALSE, Shown(prog.conc))}, invocations)
                   /\ Continue([prog EXCEPT !.wrote = @ \cup {"tab_dominance"}])
    /\ UNCHANGED <<history, stage, invocations, numbers>>

write_numbers ==
    /\ At_step("write_numbers")
    /\ numbers' = [invocation |-> invocations, provisional |-> prog.provisional, run_ids |-> prog.run_ids,
                   covers |-> prog.wrote, notes |-> prog.notes]
    /\ Continue(prog)
    /\ UNCHANGED <<history, stage, invocations, disk, decision>>

\* The program is stopped from outside.
Interrupt ==
    /\ prog # None /\ Exit
    /\ UNCHANGED <<history, stage, invocations, disk, decision, numbers>>

Next ==
    \/ Experiment
    \/ \E run_ids \in Arguments : Start(run_ids)
    \/ LoadConcurrency \/ Produce \/ LoadStreaming \/ table_dominance \/ write_numbers
    \/ Interrupt

Spec == Init /\ [][Next]_vars

-----------------------------------------------------------------------------
\* The program's place in main, and what it has written so far.
TypeOK ==
    /\ history \in DOMAIN Histories /\ stage \in DOMAIN Histories[history]
    /\ invocations \in 0 .. MaxInvocations
    /\ prog # None => /\ prog.pc \in DOMAIN main
                      /\ prog.conc \subseteq discard_warmup(results.raw)
                      /\ prog.wrote \subseteq Outputs
    /\ \A o \in Outputs : disk[o] # None => disk[o].invocation \in 1 .. invocations
    /\ numbers # None => numbers.invocation \in 1 .. invocations

\* No output of the paper pools two runs of a configuration under the same
\* settings, not even when one of the runs predates the columns that say so:
\* a corrective run supersedes the earlier one (_latest_run_per_cell).  The
\* server's samples are of one run per configuration too, though not always
\* of the run whose latencies stand beside them (_resource_cells).
OneRunPerConfig ==
    \A o \in Outputs :
        disk[o] # None =>
            \A s, t \in disk[o].shows : s[2] = t[2] /\ s[3] = t[3] => s[1] = t[1]

\* key_numbers.md is complete when it appears: of the outputs on disk, those
\* its invocation wrote are the ones it covers, and nothing it covers is
\* older than it is.
NumbersCoverOutputs ==
    numbers # None =>
        \A o \in Outputs :
            /\ disk[o] # None /\ disk[o].invocation = numbers.invocation => o \in numbers.covers
            /\ o \in numbers.covers => disk[o].invocation >= numbers.invocation

\* A configuration that the concurrency table leaves out, because nothing of
\* it was selected or because its latest run only met 404, is named in the
\* caveats next to the numbers.
MissingNoted ==
    numbers # None /\ disk["tab_concurrency"].invocation = numbers.invocation =>
        \A c \in CONFIGS :
            \/ \E s \in disk["tab_concurrency"].shows : s[2] = c
            \/ <<"missing", c>> \in numbers.notes

\* PROVISIONAL stands on the outputs of legacy rows and on no others, except
\* that tab_equivalence, tab_failures and tab_dominance never bear it: the
\* docstring's "every output is stamped" does not hold of those three.
LegacyStamped ==
    \A o \in Outputs :
        disk[o] # None =>
            \A s \in disk[o].shows : disk[o].stamped <=> s[1] = LEGACY /\ o \notin UNSTAMPED

\* The sheet tells what those three do not: it is PROVISIONAL exactly when
\* what its invocation computed from the concurrency rows, stamped or not,
\* is of legacy rows (load_concurrency, write_numbers).
LegacyInSheet ==
    numbers # None =>
        \A o \in STAMPED \cup UNSTAMPED :
            disk[o] # None /\ disk[o].invocation = numbers.invocation =>
                \A s \in disk[o].shows : numbers.provisional <=> s[1] = LEGACY

\* What is printed is of one run for each of its rows, and the stamp or the
\* sheet beside it says when that is the legacy sweep.
ProvenanceTold == TypeOK /\ OneRunPerConfig /\ LegacyStamped /\ LegacyInSheet

\* Whatever the measurements, the decision table never dismisses every
\* configuration: domination has no cycles.
UndominatedRemain ==
    decision # None /\ decision.present # {} => decision.api # {} /\ decision.per_chunk # {}

=============================================================================
