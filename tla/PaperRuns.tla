------------------------------ MODULE PaperRuns ------------------------------
(***************************************************************************)
(* bench/paper_runs.py: one invocation runs a list of steps; a step makes  *)
(* calls, each a sweep (module Sweep) or a command (python -m ..., which   *)
(* succeeds or exits with an error); the run_ids of the sweeps go to the   *)
(* manifest results/paper_runs.json, which later invocations extend.       *)
(*                                                                         *)
(* The manifest is abstracted to the run_ids under each key and the two    *)
(* lists of steps: entries that name a fixed path, and the time stamps,    *)
(* tell no behaviour apart.  A list of steps is a set, for its order is    *)
(* never read.  The process may be killed at any step, ^C included.        *)
(***************************************************************************)
EXTENDS Sweep, SequencesExt

CONSTANTS ALL_CONFIGS, PROTECTED, PROTECTED_V2, PROFILES, NETWORKS,
          Cells,           \* measurements per configuration of a sweep
          Plans,           \* what --steps may ask for
          MaxInvocations, MaxCrashes,
          Absent, Corrupt  \* the manifest file: missing, or cut short

VARIABLES main,      \* the invocation
          m,         \* its manifest
          manifest,  \* the file
          invocations, crashes

mainVars == <<main, m, manifest, invocations, crashes>>
vars == <<sweepVars, mainVars>>

ASSUME PaperAssumption ==
    /\ Cells \in Nat \ {0} /\ MaxInvocations \in Nat /\ MaxCrashes \in Nat
    /\ Plans \subseteq Seq(1..21)
    /\ {ALL_CONFIGS, PROTECTED, PROTECTED_V2} \subseteq Seq(CONFIGS) \ {<<>>}
    /\ PROFILES \in Seq(PAYLOADS) /\ NETWORKS \in Seq(LINKS)

-----------------------------------------------------------------------------
(* The steps: their calls, and the key the run_ids go to. *)

Concurrency(configs) ==
    [kind |-> "concurrency", configs |-> configs, cells |-> Cells, profile |-> "tabular_small",
     network |-> "localhost", requests_per_handshake |-> 1, auth |-> FALSE]

Streaming(configs) == [Concurrency(configs) EXCEPT !.kind = "streaming"]

\* One HNDL capture and two tampering experiments per configuration.
Threats(configs) == [Concurrency(configs) EXCEPT !.kind = "threats", !.cells = 3]

command == [Concurrency(<<>>) EXCEPT !.kind = "command"]

step_primitives == <<command>>
step_concurrency == <<Concurrency(ALL_CONFIGS)>>
step_payload == [i \in DOMAIN PROFILES |-> [Concurrency(ALL_CONFIGS) EXCEPT !.profile = PROFILES[i]]]
step_network == [i \in DOMAIN NETWORKS |-> [Concurrency(ALL_CONFIGS) EXCEPT !.network = NETWORKS[i]]]
step_threats == <<Threats(PROTECTED)>>
step_streaming == <<Streaming(PROTECTED)>>
step_streaming_hndl == <<command>>
step_streaming_mitm == <<command>>
step_checkpoint == <<Streaming(<<"hybrid", "full-pqc">>)>>
step_checkpoint_attacks == <<command>>
step_amortization ==
    [i \in 1..3 |-> [Concurrency(ALL_CONFIGS) EXCEPT !.requests_per_handshake = <<1, 10, 100>>[i]]]
step_concurrency_supplement == <<Concurrency(<<"control", "hybrid-kex">>)>>
step_control_2rt == <<Concurrency(<<"control-2rt">>)>>
step_signing_diagnostic == <<command>>
step_concurrency_hkpq == <<Concurrency(<<"hybrid-kex-pq">>)>>
step_streaming_v2 == <<Streaming(PROTECTED_V2)>>
step_checkpoint_v2 == <<Streaming(<<"hybrid", "full-pqc", "hybrid-kex-pq">>)>>
step_attack_campaign == <<command>>
step_key_substitution == <<command>>

\* Without and with authentication; the order alternates.
step_auth_cost ==
    [j \in 1..(2 * Len(PROTECTED_V2)) |->
        [Concurrency(<<PROTECTED_V2[(j + 1) \div 2]>>) EXCEPT !.auth = j % 4 \in {2, 3}]]
step_hndl_hkpq == <<Threats(<<"hybrid-kex-pq">>), command>>

STEPS ==
    <<step_primitives, step_concurrency, step_payload, step_network, step_threats, step_streaming,
      step_streaming_hndl, step_streaming_mitm, step_checkpoint, step_checkpoint_attacks,
      step_amortization, step_concurrency_supplement, step_control_2rt, step_signing_diagnostic,
      step_concurrency_hkpq, step_streaming_v2, step_checkpoint_v2, step_attack_campaign,
      step_key_substitution, step_auth_cost, step_hndl_hkpq>>

\* The key of a step whose result is a run_id, or several.
SingleKey ==
    [n \in {2, 6, 9, 12, 13, 15, 16, 17} |->
        CASE n = 2 -> "concurrency" [] n \in {6, 16} -> "streaming" [] n \in {9, 17} -> "checkpoint"
          [] n = 12 -> "concurrency_supplement" [] n = 13 -> "concurrency_control_2rt"
          [] n = 15 -> "concurrency_hybrid_kex_pq"]

ListKey ==
    [n \in {3, 4, 11, 20} |->
        CASE n = 3 -> "payload" [] n = 4 -> "network" [] n = 11 -> "amortization" [] n = 20 -> "auth_cost"]

KeyOf == [n \in DOMAIN ListKey \cup DOMAIN SingleKey |->
             IF n \in DOMAIN ListKey THEN ListKey[n] ELSE SingleKey[n]]

Keys == {KeyOf[n] : n \in DOMAIN KeyOf}

-----------------------------------------------------------------------------

NoManifest == [runs |-> [key \in Keys |-> <<>>], completed |-> {}, failed |-> {}]

Idle == [pc |-> "idle", steps |-> <<>>, calls |-> <<>>, failed |-> {}, next |-> "idle"]

\* The environment of a new process: the defaults of every reader.
FreshEnviron == [profile |-> "tabular_small", backend |-> "synthetic", auth |-> FALSE]

Init ==
    /\ SweepInit(FreshEnviron)
    /\ main = Idle /\ m = NoManifest /\ manifest = Absent /\ invocations = 0 /\ crashes = 0

\* _save_manifest, then on to next: first the file is emptied, then written.
Saving(next, state) == [state EXCEPT !.pc = "truncate", !.next = next]

Truncate ==
    /\ main.pc = "truncate"
    /\ manifest' = Corrupt
    /\ main' = [main EXCEPT !.pc = "write"]
    /\ UNCHANGED <<sweepVars, m, invocations, crashes>>

Write ==
    /\ main.pc = "write"
    /\ manifest' = m
    /\ main' = [main EXCEPT !.pc = main.next]
    /\ UNCHANGED <<sweepVars, m, invocations, crashes>>

\* python -m bench.paper_runs --steps plan
Invoke(plan) ==
    /\ main.pc = "idle" /\ invocations < MaxInvocations
    /\ invocations' = invocations + 1
    /\ manifest # Corrupt                        \* json.load raises
    /\ m' = IF manifest = Absent THEN NoManifest ELSE manifest
    /\ main' = Saving("steps", [Idle EXCEPT !.steps = plan])
    /\ environ' = FreshEnviron
    /\ UNCHANGED <<procVars, clock, sweep, csvs, summaries, manifest, crashes>>

CurrentStep == Head(main.steps)

\* A step that fills a list empties it first.
BeginStep ==
    /\ main.pc = "steps" /\ main.steps # <<>>
    /\ main' = [main EXCEPT !.pc = "call", !.calls = STEPS[CurrentStep]]
    /\ m' = IF CurrentStep \in DOMAIN ListKey THEN [m EXCEPT !.runs[KeyOf[CurrentStep]] = <<>>] ELSE m
    /\ UNCHANGED <<sweepVars, manifest, invocations, crashes>>

\* The streaming steps choose the Llama backend, for the rest of the invocation.
_llama_env(args) == IF args.kind = "streaming" THEN [environ EXCEPT !.backend = "llama_cpp"] ELSE environ

BeginCall ==
    /\ main.pc = "call" /\ main.calls # <<>> /\ Head(main.calls).kind # "command"
    /\ Call(Head(main.calls), _llama_env(Head(main.calls)))
    /\ main' = [main EXCEPT !.pc = "in_call"]
    /\ UNCHANGED <<m, manifest, invocations, crashes>>

\* The manifest with the run_id of a sweep of step n.
Recorded(n, run_id) ==
    CASE n \in DOMAIN ListKey -> [m EXCEPT !.runs[KeyOf[n]] = Append(@, run_id)]
      [] n \in DOMAIN SingleKey -> [m EXCEPT !.runs[KeyOf[n]] = <<run_id>>]
      [] OTHER -> m

\* The call has returned; a list step saves the manifest after each.
CallReturned ==
    /\ main.pc = "in_call" /\ sweep.pc = "returned"
    /\ sweep' = None
    /\ m' = Recorded(CurrentStep, sweep.run_id)
    /\ main' = LET s == [main EXCEPT !.pc = "call", !.calls = Tail(@)]
               IN  IF CurrentStep \in DOMAIN ListKey THEN Saving("call", s) ELSE s
    /\ UNCHANGED <<procVars, clock, environ, csvs, summaries, manifest, invocations, crashes>>

\* A command runs to its end.
RunCommand ==
    /\ main.pc = "call" /\ main.calls # <<>> /\ Head(main.calls).kind = "command"
    /\ main' = [main EXCEPT !.calls = Tail(@)]
    /\ UNCHANGED <<sweepVars, m, manifest, invocations, crashes>>

NextSteps(state) == [state EXCEPT !.steps = Tail(@), !.calls = <<>>]

StepDone ==
    /\ main.pc = "call" /\ main.calls = <<>>
    /\ m' = [m EXCEPT !.completed = @ \cup {CurrentStep}, !.failed = main.failed]
    /\ main' = Saving("steps", NextSteps(main))
    /\ UNCHANGED <<sweepVars, manifest, invocations, crashes>>

\* The exception of a sweep, or of a command, ends the step and not the run.
StepFailed ==
    /\ \/ main.pc = "in_call" /\ sweep.pc = "raised" /\ sweep.raised = "exception"
       \/ main.pc = "call" /\ main.calls # <<>> /\ Head(main.calls).kind = "command"
    /\ sweep' = None
    /\ LET failed == main.failed \cup {CurrentStep} IN
       /\ m' = [m EXCEPT !.failed = failed]
       /\ main' = Saving("steps", NextSteps([main EXCEPT !.failed = failed]))
    /\ UNCHANGED <<procVars, clock, environ, csvs, summaries, manifest, invocations, crashes>>

\* KeyboardInterrupt is no Exception: it ends the invocation, nothing is saved.
Interrupted ==
    /\ \/ main.pc = "in_call" /\ sweep.pc = "raised" /\ sweep.raised = "interrupt"
       \/ main.pc = "call" /\ main.calls # <<>> /\ Head(main.calls).kind = "command"
    /\ sweep' = None /\ main' = Idle
    /\ UNCHANGED <<procVars, clock, environ, csvs, summaries, m, manifest, invocations, crashes>>

\* The last save; the figures follow.
Finish ==
    /\ main.pc = "steps" /\ main.steps = <<>>
    /\ main' = Saving("idle", main)
    /\ UNCHANGED <<sweepVars, m, manifest, invocations, crashes>>

MainStep ==
    \/ Truncate \/ Write \/ BeginStep \/ BeginCall \/ CallReturned \/ RunCommand
    \/ StepDone \/ StepFailed \/ Interrupted \/ Finish

\* The process is killed; the servers it has started are not.
Crash ==
    /\ main.pc # "idle" /\ crashes < MaxCrashes
    /\ crashes' = crashes + 1
    /\ main' = Idle /\ sweep' = None /\ procs' = Orphaned
    /\ UNCHANGED <<listener, clock, environ, csvs, summaries, m, manifest, invocations>>

Next ==
    \/ \E plan \in Plans : Invoke(plan)
    \/ MainStep
    \/ (SweepStep \/ OSStep) /\ UNCHANGED mainVars
    \/ Crash

Spec == Init /\ [][Next]_vars

(***************************************************************************)
(* An invocation runs on; a sweep in _wait_healthy gets its answer or      *)
(* reaches the deadline; a signalled process exits, by SIGKILL if need be. *)
(***************************************************************************)
FairSpec ==
    /\ Spec
    /\ WF_vars(MainStep)
    /\ WF_vars(SweepStep /\ UNCHANGED mainVars)
    /\ WF_vars((\E p \in 1..Len(procs) : Exit(p))
               /\ UNCHANGED <<clock, environ, sweep, csvs, summaries, mainVars>>)

-----------------------------------------------------------------------------

TypeOK ==
    /\ ProcTypeOK
    /\ clock \in Nat
    /\ sweep # None =>
          /\ sweep.at \in 1..Len(sweep.args.configs)
          /\ sweep.cell \in 0..sweep.args.cells
          /\ main.pc = "in_call" /\ Head(main.calls) = sweep.args
    /\ main.pc = "in_call" => sweep # None
    /\ main.failed \subseteq 1..21
    /\ manifest \in {Absent, Corrupt} \/ manifest.completed \cup manifest.failed \subseteq 1..21

Measured == sweep # None /\ sweep.measured # None

(***************************************************************************)
(* What is measured is the server, and the proxy, this sweep has started:  *)
(* no two configurations share a process (orchestrator.py:1-5).  Only a    *)
(* server left over from a killed invocation can answer in its place.      *)
(***************************************************************************)
MeasuredOwn ==
    Measured => \A part \in {"proxy", "server"} :
        LET p == sweep.measured.answered[part]
        IN  p # None => p = sweep.measured.started[part] \/ procs[p].orphan

\* Between two calls nothing runs that the invocation has started.
NothingLeftRunning ==
    sweep = None => \A p \in 1..Len(procs) : Dead(p) \/ procs[p].orphan

(***************************************************************************)
(* The client side, in the orchestrator's process, and the server it       *)
(* measures use the same payload profile, the one the sweep was called     *)
(* with; authentication is the sweep's own and never leaks into the next.  *)
(***************************************************************************)
EnvironmentsAgree ==
    Measured /\ sweep.measured.answered.server = sweep.measured.started.server =>
        LET env == procs[sweep.measured.answered.server].env
        IN  /\ env.profile = environ.profile
            /\ env.auth = sweep.args.auth
            /\ sweep.args.kind = "concurrency" => env.profile = sweep.args.profile
            /\ sweep.args.kind = "streaming" => env.backend = "llama_cpp"

\* A measurement is of what its sweep was called for: this sweep's processes,
\* in the environment the call asked for, after whatever steps came before.
MeasuredAsCalled == TypeOK /\ MeasuredOwn /\ EnvironmentsAgree

\* cells lists every cell of the sweep args, configuration by configuration.
Complete(args, cells) ==
    /\ Len(cells) = args.cells * Len(args.configs)
    /\ \A i \in DOMAIN cells : cells[i] = args.configs[1 + (i - 1) \div args.cells]

(***************************************************************************)
(* Every run_id in the manifest file names a summary that holds every cell *)
(* of the very sweep the step called at that place, and the summary's      *)
(* files are there, after failures, ^C, kills and reruns.                  *)
(***************************************************************************)
ManifestSound ==
    manifest \notin {Absent, Corrupt} =>
    \A key \in Keys : manifest.runs[key] # <<>> =>
    \E n \in DOMAIN KeyOf :
        /\ KeyOf[n] = key
        /\ \A i \in DOMAIN manifest.runs[key] :
              LET run_id == manifest.runs[key][i] IN
              /\ run_id \in DOMAIN summaries
              /\ summaries[run_id].args = STEPS[n][i]
              /\ Complete(summaries[run_id].args, summaries[run_id].cells)
              /\ \A c \in ToSet(STEPS[n][i].configs) :
                    [run_id |-> run_id, config |-> c, upto |-> Cells] \in csvs

\* Every invocation ends.
MainEnds == main.pc # "idle" ~> main.pc = "idle"

=============================================================================
