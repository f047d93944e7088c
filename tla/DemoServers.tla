----------------------------- MODULE DemoServers -----------------------------
(***************************************************************************)
(* webapp/server_manager.py: the servers behind the dashboard's live demo  *)
(* and threat pages, one port per configuration.  Every browser session    *)
(* runs its page in a thread of its own; what they share are the           *)
(* processes and their ports.  A session remembers the process ids of the  *)
(* servers it has started, and forgets them when it is closed.             *)
(*                                                                         *)
(* A benchmark sweep may run next to the dashboard: a server of the same   *)
(* module, on a port of its own.                                           *)
(***************************************************************************)
EXTENDS ServerProcess, FiniteSets, FiniteSetsExt

CONSTANTS Sessions,   \* browser sessions
          Configs,    \* configurations with a demo port
          Bench,      \* the port of the benchmark orchestrator
          MaxProcs,   \* bound on the processes spawned
          MaxKills    \* bound on the kills of the dashboard

ASSUME PortsAssumption == Ports = Configs \cup {Bench} /\ Bench \notin Configs
ASSUME OutcomeAssumption == None # "stopped"

VARIABLES session,  \* per browser session: the call in progress, session_state and the last outcome
          kills

vars == <<procVars, session, kills>>

NewSession ==
    [pc |-> "idle", config |-> None, proc |-> None, todo |-> {},
     demo_server_pids |-> [c \in Configs |-> None],
     outcome |-> None,
     asked |-> 0]     \* number of processes there were when stop_server was called

Init == NoProcess /\ session = [s \in Sessions |-> NewSession] /\ kills = 0

\* A call returns or raises: the page runs on to its end.
Ends(s, outcome) ==
    [session[s] EXCEPT !.pc = "idle", !.proc = None, !.outcome = outcome,
                       !.config = IF outcome = "stopped" THEN @ ELSE None]

In(s, pc) == session[s].pc = pc
MayStart == Len(procs) + Cardinality({t \in Sessions : In(t, "start")}) < MaxProcs

\* GET /healthz on the configuration's port; any failure means False.
is_healthy(config) == Healthy(config)

\* A page needs the server of a configuration.  There may be one.
ensure_server(s, config) ==
    /\ In(s, "idle") /\ (is_healthy(config) \/ MayStart)
    /\ session' = [session EXCEPT ![s] =
          IF is_healthy(config)
          THEN [Ends(s, "url") EXCEPT !.asked = 0]
          ELSE [@ EXCEPT !.pc = "start", !.config = config, !.outcome = None, !.asked = 0]]
    /\ UNCHANGED <<procVars, kills>>

\* There was none when it asked: it spawns one.
StartServer(s) ==
    /\ In(s, "start")
    /\ _start_server(session[s].config, session[s].config, [auth |-> TRUE])
    /\ session' = [session EXCEPT ![s].pc = "wait", ![s].proc = Len(procs) + 1]
    /\ UNCHANGED kills

\* _wait_healthy is answered by whoever listens; only then is the pid noted.
WaitHealthy(s) ==
    /\ In(s, "wait") /\ is_healthy(session[s].config)
    /\ session' = [session EXCEPT ![s] =
          [Ends(s, "url") EXCEPT !.demo_server_pids[session[s].config] = session[s].proc]]
    /\ UNCHANGED <<procVars, kills>>

\* Mutant: it goes on asking.
DeadlineNever(s) == FALSE

\* 25 s have passed: RuntimeError, and the process is left to itself.
Deadline(s) ==
    /\ In(s, "wait")
    /\ session' = [session EXCEPT ![s] = Ends(s, "raised")]
    /\ UNCHANGED <<procVars, kills>>

\* Mutant: the server whose pid this session has noted.
matching_recorded(s, config) == {p \in 1..Len(procs) : p = session[s].demo_server_pids[config]}

\* The processes whose command line names the module and the demo port.
matching(s, config) == {p \in 1..Len(procs) : procs[p].role = config /\ procs[p].port = config}

\* The Stop button, which the page shows for a server that answers.
stop_server(s, config) ==
    /\ In(s, "idle") /\ is_healthy(config)
    /\ session' = [session EXCEPT ![s] =
          [@ EXCEPT !.pc = "stop", !.config = config, !.outcome = None, !.asked = Len(procs),
                    !.todo = {p \in matching(s, config) : ~Dead(p)}]]
    /\ UNCHANGED <<procVars, kills>>

\* The next of the listed processes: terminate, and wait; or it is gone.
Terminate(s) ==
    /\ In(s, "stop") /\ session[s].todo # {}
    /\ LET p == Min(session[s].todo) IN
          IF Dead(p)
          THEN session' = [session EXCEPT ![s].todo = @ \ {p}] /\ UNCHANGED procVars
          ELSE session' = [session EXCEPT ![s].pc = "reap", ![s].proc = p] /\ Signal(p)
    /\ UNCHANGED kills

\* It has exited within five seconds, or is killed and no longer waited for.
Reap(s) ==
    /\ In(s, "reap")
    /\ session' = [session EXCEPT ![s].pc = "stop", ![s].proc = None,
                                  ![s].todo = @ \ {session[s].proc}]
    /\ UNCHANGED <<procVars, kills>>

StopReturns(s) ==
    /\ In(s, "stop") /\ session[s].todo = {}
    /\ session' = [session EXCEPT ![s] =
          [Ends(s, "stopped") EXCEPT !.demo_server_pids[session[s].config] = None]]
    /\ UNCHANGED <<procVars, kills>>

\* The browser tab is closed, and its session_state with it.
CloseSession(s) ==
    /\ In(s, "idle") /\ session[s] # NewSession
    /\ session' = [session EXCEPT ![s] = NewSession]
    /\ UNCHANGED <<procVars, kills>>

\* The dashboard is killed and started again; the servers, each in a session
\* of its own (start_new_session), live on.
Kill ==
    /\ kills < MaxKills
    /\ session' = [s \in Sessions |-> NewSession] /\ kills' = kills + 1
    /\ UNCHANGED procVars

\* bench.orchestrator starts a server for a sweep.
BenchStarts(config) ==
    /\ MayStart /\ \A p \in 1..Len(procs) : procs[p].port # Bench
    /\ _start_server(Bench, config, [auth |-> FALSE])
    /\ UNCHANGED <<session, kills>>

OSStep == ProcessStep /\ UNCHANGED <<session, kills>>

CallStep(s) ==
    StartServer(s) \/ WaitHealthy(s) \/ Deadline(s) \/ Terminate(s) \/ Reap(s) \/ StopReturns(s)

Next ==
    \/ \E s \in Sessions, c \in Configs : ensure_server(s, c) \/ stop_server(s, c)
    \/ \E s \in Sessions : CallStep(s) \/ CloseSession(s)
    \/ \E c \in Configs : BenchStarts(c)
    \/ Kill \/ OSStep

Spec == Init /\ [][Next]_vars

\* A page's thread runs on, and the clock reaches its deadlines.
FairSpec == Spec /\ \A s \in Sessions : WF_vars(CallStep(s))

-----------------------------------------------------------------------------
(***************************************************************************)
(* Properties.                                                             *)
(***************************************************************************)
\* When stop_server has returned, no server of the configuration that was
\* there when it was called goes on: also not one that lost the race for the
\* port, came up after its page had given up on it, or was started by a
\* session that is closed or a dashboard that was killed.  And the server of
\* a sweep, of the same module on the benchmark's port, is never signalled.
StopReachesExactly ==
    /\ \A s \in Sessions :
          session[s].outcome = "stopped" =>
             \A p \in 1..session[s].asked :
                procs[p].port = session[s].config => procs[p].state \in {"signalled", "dead"}
    /\ \A p \in 1..Len(procs) : procs[p].state = "signalled" => procs[p].port # Bench

\* Every ensure_server and every stop_server ends, although another session
\* may stop the server this one waits for, or start a new one while it stops.
CallsEnd == \A s \in Sessions : ~In(s, "idle") ~> In(s, "idle")

=============================================================================
