-------------------------------- MODULE Sweep --------------------------------
(***************************************************************************)
(* A call that measures configuration after configuration on a server of   *)
(* its own: bench/orchestrator.py:run_full_sweep ("concurrency"),          *)
(* bench/streaming_runner.py:run_sweep ("streaming") and                   *)
(* bench/paper_runs.py:step_threats ("threats"), with what they leave on   *)
(* disk and in os.environ.                                                 *)
(*                                                                         *)
(* A measurement stands for a cell, a transaction or a threat experiment;  *)
(* its rows may all be errors.  Time counts whole seconds, the resolution  *)
(* of a run_id.                                                            *)
(***************************************************************************)
EXTENDS ServerProcess

ASSUME PortsAssumption == Ports = {"server", "proxy"}

VARIABLES clock,
          environ,    \* os.environ: profile, backend, auth
          sweep,      \* the call under way, or None
          csvs,       \* result files, by run_id and configuration
          summaries   \* results/sweep_summaries: run_id -> what was measured

sweepVars == <<procVars, clock, environ, sweep, csvs, summaries>>

CONFIGS == {"control", "control-2rt", "classical", "classical-ecdhe", "hybrid", "hybrid-kex",
            "full-pqc", "hybrid-kex-pq"}
PAYLOADS == {"tabular_small", "image_cnn", "embedding", "llm_completion"}
LINKS == {"localhost", "metro", "wan", "mobile"}

Environments == [profile: PAYLOADS, backend: {"synthetic", "llama_cpp"}, auth: BOOLEAN]

Calls == [kind: {"concurrency", "streaming", "threats", "command"}, configs: Seq(CONFIGS), cells: Nat,
          profile: PAYLOADS, network: LINKS, requests_per_handshake: Nat, auth: BOOLEAN]

SweepPcs == {"start", "health", "proxy", "proxy_health", "measure", "stop_proxy", "wait_proxy",
             "stop", "wait", "summary", "returned", "raised"}

\* The processes a request goes through, or should.
Routes == [proxy: Nat \cup {None}, server: Nat \cup {None}]

Sweeps == [args: Calls, pc: SweepPcs, at: Nat, cell: Nat, run_id: Nat, proc: Nat \cup {None},
           proxy: Nat \cup {None}, raised: {"no", "exception", "interrupt"}, done: Seq(CONFIGS),
           measured: {None} \cup [started: Routes, answered: Routes]]

ASSUME SweepAssumption == None \notin Nat /\ None \notin Sweeps

SweepInit(env) ==
    /\ NoProcess /\ clock = 0 /\ environ = env /\ sweep = None
    /\ csvs = {} /\ summaries = <<>>

netem == sweep.args.network # "localhost"

config == sweep.args.configs[sweep.at]

\* Only run_full_sweep sets the profile, for its own process too: the client
\* side of a cell runs there.
EnvironAfter(args, env) ==
    IF args.kind = "concurrency" THEN [env EXCEPT !.profile = args.profile] ELSE env

\* The call begins in the environment env: new_run_id, the profile.
Call(args, env) ==
    /\ sweep' = [args |-> args, pc |-> "start", at |-> 1, cell |-> 0, run_id |-> clock,
                 proc |-> None, proxy |-> None, raised |-> "no", done |-> <<>>, measured |-> None]
    /\ environ' = EnvironAfter(args, env)
    /\ UNCHANGED <<procVars, clock, csvs, summaries>>

\* What the server inherits, with extra_env on top.
ServerEnv ==
    IF sweep.args.kind = "concurrency"
    THEN [environ EXCEPT !.profile = sweep.args.profile, !.auth = sweep.args.auth] ELSE environ

StartServer ==
    /\ sweep.pc = "start"
    /\ _start_server("server", config, ServerEnv)
    /\ sweep' = [sweep EXCEPT !.pc = "health", !.proc = Len(procs) + 1]
    /\ UNCHANGED <<clock, environ, csvs, summaries>>

WaitHealthy ==
    /\ sweep.pc = "health" /\ Healthy("server")
    /\ sweep' = [sweep EXCEPT !.pc = IF netem THEN "proxy" ELSE "measure"]
    /\ UNCHANGED <<procVars, clock, environ, csvs, summaries>>

_start_proxy(next) ==
    /\ sweep.pc = "proxy"
    /\ _start_server("proxy", "proxy", environ)
    /\ sweep' = [sweep EXCEPT !.pc = next, !.proxy = Len(procs) + 1]
    /\ UNCHANGED <<clock, environ, csvs, summaries>>

StartNetemProxy == netem /\ _start_proxy("proxy_health")

\* The tampering proxy of a threat experiment is given 1.5 s and not asked.
StartMitmHarness == sweep.args.kind = "threats" /\ _start_proxy("measure")

\* The check through the emulator needs both ends.
WaitProxyHealthy ==
    /\ sweep.pc = "proxy_health" /\ Healthy("proxy") /\ Healthy("server")
    /\ sweep' = [sweep EXCEPT !.pc = "measure"]
    /\ UNCHANGED <<procVars, clock, environ, csvs, summaries>>

\* Mutant: without the finally clauses an exception leaves the call at once.
UnwindAtOnce(s) == IF s.raised # "no" THEN "raised" ELSE IF s.proxy # None THEN "stop_proxy" ELSE "stop"

\* The finally clauses: the proxy first, then the server.
Unwind(s) == IF s.proxy # None THEN "stop_proxy" ELSE "stop"

\* The deadline passes, a measurement raises, a file cannot be written; or ^C.
Raise(why) ==
    /\ sweep.pc \in {"health", "proxy_health", "measure"}
    /\ LET s == [sweep EXCEPT !.raised = why] IN sweep' = [s EXCEPT !.pc = Unwind(s)]
    /\ UNCHANGED <<procVars, clock, environ, csvs, summaries>>

\* The processes a request goes through, proxy and server; any of them may be
\* gone, and any of them may be somebody else's.
Route == [proxy |-> IF sweep.proxy = None THEN None ELSE listener["proxy"], server |-> listener["server"]]

\* After a measurement: a threat experiment has a proxy of its own for each
\* but the first.
NextPc(s) ==
    CASE s.cell = s.args.cells -> Unwind(s)
      [] s.cell < s.args.cells /\ s.args.kind = "threats" ->
            IF s.proxy # None THEN "stop_proxy" ELSE "proxy"
      [] OTHER -> "measure"

\* A measurement that leaves the result file numbered upto, unless that is 0.
Measure(upto) ==
    /\ sweep.pc = "measure"
    /\ LET s == [sweep EXCEPT !.cell = @ + 1, !.done = Append(@, config)] IN
       sweep' = [s EXCEPT !.pc = NextPc(s),
          !.measured = [started |-> [proxy |-> sweep.proxy, server |-> sweep.proc], answered |-> Route]]
    /\ csvs' = csvs \cup {[run_id |-> sweep.run_id, config |-> config, upto |-> n] : n \in {upto} \ {0}}
    /\ UNCHANGED <<procVars, clock, environ, summaries>>

\* run_full_sweep writes a file per cell,
MeasureCell == sweep.args.kind = "concurrency" /\ Measure(sweep.cell + 1)

\* run_sweep one per configuration, after its last transaction;
MeasureTransaction ==
    /\ sweep.args.kind = "streaming"
    /\ Measure(IF sweep.cell + 1 = sweep.args.cells THEN sweep.args.cells ELSE 0)

\* a threat experiment overwrites the file of its configuration, whatever the run.
MeasureThreat == sweep.args.kind = "threats" /\ Measure(0)

\* Mutant: the process is signalled but not waited for.
ReapedEarly(p) == TRUE

\* proc.wait has returned.
Reaped(p) == Dead(p)

StopProxy ==
    /\ sweep.pc = "stop_proxy" /\ Signal(sweep.proxy)
    /\ sweep' = [sweep EXCEPT !.pc = "wait_proxy"]
    /\ UNCHANGED <<clock, environ, csvs, summaries>>

ProxyStopped ==
    /\ sweep.pc = "wait_proxy" /\ Reaped(sweep.proxy)
    /\ sweep' = [sweep EXCEPT !.proxy = None,
          !.pc = IF sweep.raised = "no" /\ sweep.cell < sweep.args.cells THEN "proxy" ELSE "stop"]
    /\ UNCHANGED <<procVars, clock, environ, csvs, summaries>>

StopServer ==
    /\ sweep.pc = "stop" /\ Signal(sweep.proc)
    /\ sweep' = [sweep EXCEPT !.pc = "wait"]
    /\ UNCHANGED <<clock, environ, csvs, summaries>>

MoreConfigs(s) == s.at < Len(s.args.configs)

\* Mutant: no pause between two servers.
NoPause == clock

\* time.sleep(1.0)
Pause == clock + 1

ServerStopped ==
    /\ sweep.pc = "wait" /\ Reaped(sweep.proc)
    /\ clock' = Pause
    /\ sweep' = CASE sweep.raised # "no" -> [sweep EXCEPT !.pc = "raised"]
                  [] sweep.raised = "no" /\ MoreConfigs(sweep) ->
                        [sweep EXCEPT !.pc = "start", !.at = @ + 1, !.cell = 0]
                  [] OTHER -> [sweep EXCEPT !.pc = "summary"]
    /\ UNCHANGED <<procVars, environ, csvs, summaries>>

\* The summary is written once, after the last configuration.
WriteSummary ==
    /\ sweep.pc = "summary"
    /\ sweep' = [sweep EXCEPT !.pc = "returned"]
    /\ summaries' = IF sweep.args.kind = "threats" THEN summaries
                    ELSE [r \in DOMAIN summaries \cup {sweep.run_id} |->
                             IF r = sweep.run_id THEN [args |-> sweep.args, cells |-> sweep.done]
                             ELSE summaries[r]]
    /\ UNCHANGED <<procVars, clock, environ, csvs>>

SweepStep ==
    /\ sweep # None
    /\ \/ StartServer \/ WaitHealthy \/ StartNetemProxy \/ StartMitmHarness \/ WaitProxyHealthy
       \/ MeasureCell \/ MeasureTransaction \/ MeasureThreat
       \/ (\E why \in {"exception", "interrupt"} : Raise(why))
       \/ StopProxy \/ ProxyStopped \/ StopServer \/ ServerStopped \/ WriteSummary

OSStep == ProcessStep /\ UNCHANGED <<clock, environ, sweep, csvs, summaries>>

=============================================================================
