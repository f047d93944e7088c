---------------------------- MODULE ServerProcess ----------------------------
(***************************************************************************)
(* Server processes and their ports, as the helpers of                     *)
(* bench/orchestrator.py see them: _start_server spawns a process and      *)
(* returns, _wait_healthy asks the port, whoever listens there, and        *)
(* _stop_server signals a process and waits for it.                        *)
(***************************************************************************)
EXTENDS Integers, Sequences

CONSTANTS None, Ports

VARIABLES procs,    \* every process spawned so far; a process is its number
          listener  \* the process that listens on a port, or None

procVars == <<procs, listener>>

NoProcess == procs = <<>> /\ listener = [port \in Ports |-> None]

Dead(p) == procs[p].state = "dead"

\* subprocess.Popen with the environment env
_start_server(port, role, env) ==
    /\ procs' = Append(procs, [port |-> port, role |-> role, env |-> env,
                               state |-> "starting", orphan |-> FALSE])
    /\ UNCHANGED listener

Die(p) ==
    /\ procs' = [procs EXCEPT ![p].state = "dead"]
    /\ listener' = [port \in Ports |-> IF listener[port] = p THEN None ELSE listener[port]]

\* uvicorn binds its port, or exits because the port is taken.
Bind(p) ==
    /\ procs[p].state = "starting"
    /\ IF listener[procs[p].port] = None
       THEN /\ listener' = [listener EXCEPT ![procs[p].port] = p]
            /\ procs' = [procs EXCEPT ![p].state = "listening"]
       ELSE Die(p)

\* The process fails to start, or crashes.
Fail(p) == procs[p].state \in {"starting", "listening"} /\ Die(p)

\* Its parent is killed: a process in a session of its own lives on.
Orphaned == [p \in 1..Len(procs) |-> [procs[p] EXCEPT !.orphan = ~Dead(p) \/ @]]

\* Mutant: only a server that has come up is signalled.
SignalListening(p) ==
    /\ procs' = [procs EXCEPT ![p].state = IF @ = "listening" THEN "signalled" ELSE @]
    /\ UNCHANGED listener

\* _stop_server: SIGTERM to the group, nothing if it is gone.
Signal(p) ==
    /\ procs' = [procs EXCEPT ![p].state = IF @ = "dead" THEN @ ELSE "signalled"]
    /\ UNCHANGED listener

\* It obeys, or SIGKILL ends it after five seconds.
Exit(p) == procs[p].state = "signalled" /\ Die(p)

\* GET /healthz is answered.
Healthy(port) == listener[port] # None

ProcessStep == \E p \in 1..Len(procs) : Bind(p) \/ Fail(p) \/ Exit(p)

ProcTypeOK ==
    /\ \A p \in 1..Len(procs) :
          procs[p].port \in Ports /\ procs[p].state \in {"starting", "listening", "signalled", "dead"}
    /\ \A port \in Ports : listener[port] # None =>
          /\ listener[port] \in 1..Len(procs) /\ procs[listener[port]].port = port
          /\ procs[listener[port]].state \in {"listening", "signalled"}

=============================================================================
