--------------------------- MODULE DemoServersProofs ---------------------------
(***************************************************************************)
(* What stop_server reaches, for any number of browser sessions,           *)
(* configurations, processes and kills of the dashboard.                   *)
(*                                                                         *)
(* DemoInv is the inductive invariant: the processes a stop_server still   *)
(* has on its list, together with those that are signalled or dead, are    *)
(* all there were of its port when it was called, and a process once       *)
(* signalled or dead stays so, whatever other sessions do meanwhile.       *)
(***************************************************************************)
EXTENDS DemoServers, SequenceTheorems, WellFoundedInduction, TLAPS

States == {"starting", "listening", "signalled", "dead"}
Process == [port: Ports, role: Configs, env: [auth: BOOLEAN], state: States, orphan: BOOLEAN]

\* Signalled, and on its way out, or gone.
Over(p) == procs[p].state \in {"signalled", "dead"}

\* A server on a demo port was started for the configuration of that port.
ProcInv ==
    /\ procs \in Seq(Process)
    /\ \A p \in 1..Len(procs) :
          /\ procs[p].port # Bench => procs[p].role = procs[p].port
          /\ procs[p].state = "signalled" => procs[p].port # Bench

SessionType ==
    [pc: {"idle", "start", "wait", "stop", "reap"}, config: Configs \cup {None},
     proc: Nat \cup {None}, todo: SUBSET Nat,
     demo_server_pids: [Configs -> Nat \cup {None}],
     outcome: {None, "url", "raised", "stopped"}, asked: Nat]

\* A call of ensure_server or stop_server in progress, and the last one's outcome.
CallInv(s) ==
    LET call == session[s] IN
    /\ call.pc # "idle" => call.config \in Configs
    /\ call.pc \in {"stop", "reap"} =>
          /\ call.asked <= Len(procs)
          /\ \A p \in call.todo : p \in 1..Len(procs) /\ procs[p].port = call.config
          /\ \A p \in 1..call.asked : procs[p].port = call.config => p \in call.todo \/ Over(p)
    /\ call.pc = "reap" => call.proc \in 1..Len(procs) /\ Over(call.proc)
    /\ call.outcome = "stopped" =>
          /\ call.asked <= Len(procs)
          /\ \A p \in 1..call.asked : procs[p].port = call.config => Over(p)

DemoInv ==
    /\ ProcInv
    /\ session \in [Sessions -> SessionType]
    /\ \A s \in Sessions : CallInv(s)

-----------------------------------------------------------------------------
(***************************************************************************)
(* Processes.                                                              *)
(***************************************************************************)
LEMMA SmallestOfSome ==
    ASSUME NEW S, S \subseteq Nat, S # {}
    PROVE  Min(S) \in S
<1>1. PICK x \in S : \A y \in S : ~(<<y, x>> \in OpToRel(<, Nat))
  BY NatLessThanWellFounded, WFMin
<1>2. \A y \in S : ~(y < x)
  BY <1>1 DEF OpToRel
<1>3. \A y \in S : x =< y
  BY <1>2
<1> QED BY <1>3 DEF Min

\* Processes come, keep what they were started for, and go.
Grows ==
    /\ Len(procs) <= Len(procs')
    /\ \A p \in 1..Len(procs) : procs'[p].port = procs[p].port /\ (Over(p) => Over(p)')

LEMMA Spawned ==
    ASSUME ProcInv, NEW port \in Ports, NEW role \in Configs, NEW auth \in BOOLEAN,
           _start_server(port, role, [auth |-> auth]), port # Bench => role = port
    PROVE  ProcInv' /\ Grows
<1> DEFINE new == [port |-> port, role |-> role, env |-> [auth |-> auth],
                   state |-> "starting", orphan |-> FALSE]
<1>1. procs \in Seq(Process) /\ procs' = Append(procs, new)
  BY DEF ProcInv, _start_server
<1>2. new \in Process
  BY DEF Process, States
<1>3. new.port = port /\ new.role = role /\ new.state = "starting"
  OBVIOUS
<1> HIDE DEF new, Process
<1>4. /\ procs' \in Seq(Process) /\ Len(procs) \in Nat /\ Len(procs') = Len(procs) + 1
      /\ \A p \in 1..Len(procs) : procs'[p] = procs[p]
      /\ procs'[Len(procs) + 1] = new
  BY <1>1, <1>2, AppendProperties
<1>5. ProcInv'
  BY <1>3, <1>4 DEF ProcInv
<1>6. Grows
  BY <1>4 DEF Grows, Over
<1> QED BY <1>5, <1>6

\* A process changes its state.
LEMMA Moved ==
    ASSUME ProcInv, NEW p \in 1..Len(procs), NEW state \in States,
           procs' = [procs EXCEPT ![p].state = state],
           Over(p) => state \in {"signalled", "dead"},
           state = "signalled" => procs[p].port # Bench
    PROVE  ProcInv' /\ Grows /\ procs'[p].state = state /\ Len(procs') = Len(procs)
<1>1. /\ procs \in Seq(Process) /\ Len(procs) \in Nat /\ DOMAIN procs = 1..Len(procs)
      /\ procs[p] \in Process
  BY DEF ProcInv
<1> DEFINE new == [procs[p] EXCEPT !.state = state]
<1>2. new \in Process /\ new.port = procs[p].port /\ new.role = procs[p].role /\ new.state = state
  BY <1>1 DEF Process
<1>3. procs' = [procs EXCEPT ![p] = new]
  OBVIOUS
<1> HIDE DEF new, Process
<1>4. /\ procs' \in Seq(Process) /\ Len(procs') = Len(procs)
      /\ procs'[p] = new /\ \A q \in 1..Len(procs) : q # p => procs'[q] = procs[q]
  BY <1>1, <1>2, <1>3, ExceptSeq
<1>5. ProcInv'
  BY <1>1, <1>2, <1>4 DEF ProcInv
<1>6. Grows
  BY <1>1, <1>2, <1>4 DEF Grows, Over
<1> QED BY <1>2, <1>4, <1>5, <1>6

LEMMA Dies ==
    ASSUME ProcInv, NEW p \in 1..Len(procs), Die(p)
    PROVE  ProcInv' /\ Grows
BY Moved DEF Die, States

LEMMA OnItsOwn ==
    ASSUME ProcInv, ProcessStep
    PROVE  ProcInv' /\ Grows
<1>1. PICK p \in 1..Len(procs) : Bind(p) \/ Fail(p) \/ Exit(p)
  BY DEF ProcessStep
<1>2. CASE Die(p)
  BY <1>2, Dies
<1>3. CASE procs[p].state = "starting" /\ procs' = [procs EXCEPT ![p].state = "listening"]
  BY <1>3, Moved DEF States, Over
<1> QED BY <1>1, <1>2, <1>3 DEF Bind, Fail, Exit

LEMMA Signalled ==
    ASSUME ProcInv, NEW p \in 1..Len(procs), Signal(p), procs[p].port # Bench
    PROVE  ProcInv' /\ Grows /\ Over(p)' /\ Len(procs') = Len(procs)
<1> DEFINE state == IF procs[p].state = "dead" THEN "dead" ELSE "signalled"
<1>1. procs \in Seq(Process) /\ DOMAIN procs = 1..Len(procs)
  BY DEF ProcInv
<1>2. procs' = [procs EXCEPT ![p].state = state]
  BY <1>1 DEF Signal
<1>3. state \in States /\ state \in {"signalled", "dead"}
  BY DEF States
<1> HIDE DEF state
<1>4. ProcInv' /\ Grows /\ procs'[p].state = state /\ Len(procs') = Len(procs)
  BY <1>2, <1>3, Moved
<1> QED BY <1>3, <1>4 DEF Over

-----------------------------------------------------------------------------
(***************************************************************************)
(* Calls.                                                                  *)
(***************************************************************************)
\* What a call has reached stays reached, whatever happens to processes.
LEMMA CallStays ==
    ASSUME DemoInv, Grows, NEW s \in Sessions, session'[s] = session[s], Len(procs') \in Nat
    PROVE  CallInv(s)'
<1>1. /\ CallInv(s) /\ Len(procs) \in Nat /\ session[s].asked \in Nat /\ session[s] \in SessionType
      /\ session'[s].asked = session[s].asked /\ session'[s].config = session[s].config
  BY DEF DemoInv, ProcInv, SessionType
<1>2. \A n \in Nat : n <= Len(procs) => n <= Len(procs') /\ \A p \in 1..n : p \in 1..Len(procs)
  BY <1>1 DEF Grows
<1>3. \A p \in 1..Len(procs) :
        /\ p \in 1..Len(procs') /\ procs'[p].port = procs[p].port /\ (Over(p) => Over(p)')
  BY <1>1 DEF Grows
<1>4. ASSUME session[s].pc \in {"stop", "reap"}
      PROVE  /\ session[s].asked <= Len(procs')
             /\ \A p \in session[s].todo : p \in 1..Len(procs') /\ procs'[p].port = session[s].config
             /\ \A p \in 1..session[s].asked :
                   procs'[p].port = session[s].config => p \in session[s].todo \/ Over(p)'
  BY <1>1, <1>2, <1>3, <1>4 DEF CallInv
<1>5. session[s].pc = "reap" => session[s].proc \in 1..Len(procs') /\ Over(session[s].proc)'
  <2>1. ASSUME NEW p, p = session[s].proc, session[s].pc = "reap"
        PROVE  p \in 1..Len(procs') /\ procs'[p].state \in {"signalled", "dead"}
    BY <1>1, <1>3, <2>1 DEF CallInv, Over
  <2> QED BY <2>1 DEF Over
<1>6. ASSUME session[s].outcome = "stopped"
      PROVE  /\ session[s].asked <= Len(procs')
             /\ \A p \in 1..session[s].asked : procs'[p].port = session[s].config => Over(p)'
  BY <1>1, <1>2, <1>3, <1>6 DEF CallInv
<1>7. session[s].pc # "idle" => session[s].config \in Configs
  BY <1>1 DEF CallInv
<1> QED BY <1>4, <1>5, <1>6, <1>7 DEF CallInv

\* One session's call goes on; the others' are left alone.
LEMMA CallMoves ==
    ASSUME DemoInv, ProcInv', Grows, NEW s \in Sessions, NEW new \in SessionType,
           session' = [session EXCEPT ![s] = new],
           session'[s] = new => CallInv(s)'
    PROVE  DemoInv'
<1>1. /\ session' \in [Sessions -> SessionType] /\ session'[s] = new
      /\ \A t \in Sessions \ {s} : session'[t] = session[t]
  BY DEF DemoInv
<1>2. Len(procs') \in Nat
  BY DEF ProcInv
<1>3. \A t \in Sessions \ {s} : CallInv(t)'
  BY <1>1, <1>2, CallStays
<1> QED BY <1>1, <1>3 DEF DemoInv

LEMMA ProcsStay ==
    ASSUME ProcInv, UNCHANGED procs
    PROVE  ProcInv' /\ Grows /\ Len(procs) \in Nat
BY DEF ProcInv, Grows, Over

LEMMA EnsureStep ==
    ASSUME DemoInv, NEW s \in Sessions, NEW c \in Configs, ensure_server(s, c)
    PROVE  DemoInv'
<1>1. session[s] \in SessionType /\ UNCHANGED procs /\ ProcInv /\ session \in [Sessions -> SessionType]
  BY DEF DemoInv, ensure_server, procVars
<1> DEFINE new == IF is_healthy(c)
                  THEN [Ends(s, "url") EXCEPT !.asked = 0]
                  ELSE [session[s] EXCEPT !.pc = "start", !.config = c, !.outcome = None, !.asked = 0]
<1>2. session' = [session EXCEPT ![s] = new]
  BY <1>1 DEF ensure_server
<1>3. /\ new \in SessionType /\ new.pc \in {"idle", "start"} /\ new.outcome # "stopped"
      /\ new.pc # "idle" => new.config \in Configs
  BY <1>1, OutcomeAssumption DEF Ends, SessionType
<1> HIDE DEF new
<1>4. session'[s] = new => CallInv(s)'
  BY <1>3 DEF CallInv
<1> QED BY <1>1, <1>2, <1>3, <1>4, ProcsStay, CallMoves

LEMMA StartStep ==
    ASSUME DemoInv, NEW s \in Sessions, StartServer(s)
    PROVE  DemoInv'
<1>1. /\ session[s] \in SessionType /\ ProcInv /\ CallInv(s) /\ session \in [Sessions -> SessionType]
      /\ session[s].pc = "start" /\ session[s].config \in Configs /\ Len(procs) \in Nat
  BY DEF DemoInv, CallInv, StartServer, In, ProcInv
<1>2. ProcInv' /\ Grows
  BY <1>1, PortsAssumption, Spawned DEF StartServer
<1>6. PICK n \in Nat : n = Len(procs) + 1
  BY <1>1
<1> DEFINE new == [session[s] EXCEPT !.pc = "wait", !.proc = n]
<1>3. session' = [session EXCEPT ![s] = new]
  BY <1>1, <1>6 DEF StartServer
<1>4. /\ new \in SessionType /\ new.pc = "wait" /\ new.config = session[s].config
      /\ new.outcome = session[s].outcome /\ new.asked = session[s].asked
  BY <1>1 DEF SessionType
<1> HIDE DEF new
<1>5. session'[s] = new => CallInv(s)'
  <2>1. Len(procs') \in Nat /\ session[s].asked \in Nat
    BY <1>1, <1>2 DEF ProcInv, SessionType
  <2>2. ASSUME new.outcome = "stopped"
        PROVE  /\ new.asked <= Len(procs')
               /\ \A p \in 1..new.asked : procs'[p].port = new.config => Over(p)'
    <3>1. /\ session[s].asked <= Len(procs)
          /\ \A p \in 1..session[s].asked : procs[p].port = session[s].config => Over(p)
      BY <1>1, <1>4, <2>2 DEF CallInv
    <3>2. \A p \in 1..session[s].asked : p \in 1..Len(procs)
      BY <1>1, <2>1, <3>1
    <3> QED BY <1>1, <1>2, <1>4, <2>1, <3>1, <3>2 DEF Grows
  <2> QED BY <1>1, <1>4, <2>2 DEF CallInv
<1> QED BY <1>2, <1>3, <1>4, <1>5, CallMoves

LEMMA WaitStep ==
    ASSUME DemoInv, NEW s \in Sessions, WaitHealthy(s) \/ Deadline(s)
    PROVE  DemoInv'
<1>1. /\ session[s] \in SessionType /\ UNCHANGED procs /\ ProcInv /\ CallInv(s)
      /\ session \in [Sessions -> SessionType] /\ session[s].pc = "wait"
  BY DEF DemoInv, WaitHealthy, Deadline, procVars, In
<1>2. session[s].config \in Configs
  BY <1>1 DEF CallInv
<1>3. \E new \in SessionType :
         /\ session' = [session EXCEPT ![s] = new]
         /\ new.pc = "idle" /\ new.outcome # "stopped"
  <2>1. CASE Deadline(s)
    <3> DEFINE new == Ends(s, "raised")
    <3>1. new \in SessionType /\ new.pc = "idle" /\ new.outcome = "raised"
      BY <1>1 DEF Ends, SessionType
    <3> QED BY <2>1, <3>1 DEF Deadline
  <2>2. CASE WaitHealthy(s)
    <3> DEFINE ended == Ends(s, "url")
               new == [ended EXCEPT !.demo_server_pids[session[s].config] = session[s].proc]
    <3>1. ended \in SessionType /\ ended.pc = "idle" /\ ended.outcome = "url"
      BY <1>1 DEF Ends, SessionType
    <3>2. session' = [session EXCEPT ![s] = new]
      BY <2>2 DEF WaitHealthy
    <3> HIDE DEF ended
    <3>3. new \in SessionType /\ new.pc = "idle" /\ new.outcome = "url"
      BY <1>1, <1>2, <3>1 DEF SessionType
    <3> QED BY <3>2, <3>3
  <2> QED BY <2>1, <2>2
<1>4. PICK new \in SessionType :
         /\ session' = [session EXCEPT ![s] = new]
         /\ new.pc = "idle" /\ new.outcome # "stopped"
  BY <1>3
<1>5. session'[s] = new => CallInv(s)'
  BY <1>4 DEF CallInv
<1> QED BY <1>1, <1>4, <1>5, ProcsStay, CallMoves

\* stop_server lists what is alive of the configuration's port.
LEMMA StopStep ==
    ASSUME DemoInv, NEW s \in Sessions, NEW c \in Configs, stop_server(s, c)
    PROVE  DemoInv'
<1>1. /\ session[s] \in SessionType /\ UNCHANGED procs /\ ProcInv
      /\ session \in [Sessions -> SessionType] /\ Len(procs) \in Nat
  BY DEF DemoInv, stop_server, procVars, ProcInv
<1> DEFINE listed == {p \in matching(s, c) : ~Dead(p)}
           new == [session[s] EXCEPT !.pc = "stop", !.config = c, !.outcome = None,
                                     !.asked = Len(procs), !.todo = listed]
<1>2. session' = [session EXCEPT ![s] = new]
  BY <1>1 DEF stop_server
<1>3. \A p \in listed : p \in 1..Len(procs) /\ p \in Nat /\ procs[p].port = c
  BY <1>1 DEF matching
<1>4. ASSUME NEW p \in 1..Len(procs), procs[p].port = c PROVE p \in listed \/ Over(p)
  <2>1. procs[p].role = c
    BY <1>1, <1>4, PortsAssumption DEF ProcInv
  <2> QED BY <1>4, <2>1 DEF matching, Dead, Over
<1>5. listed \in SUBSET Nat
  BY <1>3
<1> HIDE DEF listed
<1>6. /\ new \in SessionType /\ new.pc = "stop" /\ new.outcome = None /\ new.config = c
      /\ new.asked = Len(procs) /\ new.todo = listed
  BY <1>1, <1>5 DEF SessionType
<1> HIDE DEF new
<1>7. \A p : Over(p)' <=> Over(p)
  BY <1>1 DEF Over
<1>8. session'[s] = new => CallInv(s)'
  BY <1>1, <1>3, <1>4, <1>6, <1>7, OutcomeAssumption DEF CallInv
<1> QED BY <1>1, <1>2, <1>6, <1>8, ProcsStay, CallMoves

\* One of them after the other is signalled, or found to be gone.
LEMMA TerminateStep ==
    ASSUME DemoInv, NEW s \in Sessions, Terminate(s)
    PROVE  DemoInv'
<1>1. /\ session[s] \in SessionType /\ ProcInv /\ CallInv(s) /\ session \in [Sessions -> SessionType]
      /\ session[s].pc = "stop" /\ session[s].todo # {} /\ Len(procs) \in Nat
  BY DEF DemoInv, Terminate, In, ProcInv
<1>2. /\ session[s].config \in Configs /\ session[s].todo \subseteq Nat /\ session[s].asked \in Nat
      /\ session[s].asked <= Len(procs)
      /\ \A p \in session[s].todo : p \in 1..Len(procs) /\ procs[p].port = session[s].config
      /\ \A p \in 1..session[s].asked :
            procs[p].port = session[s].config => p \in session[s].todo \/ Over(p)
  BY <1>1 DEF CallInv, SessionType
<1>3. PICK p \in session[s].todo : p = Min(session[s].todo)
  BY <1>1, <1>2, SmallestOfSome
<1>4. p \in 1..Len(procs) /\ p \in Nat /\ procs[p].port # Bench
  BY <1>2, PortsAssumption
<1>5. CASE Dead(p)
  <2> DEFINE new == [session[s] EXCEPT !.todo = @ \ {p}]
  <2>1. session' = [session EXCEPT ![s] = new] /\ UNCHANGED procs
    BY <1>1, <1>3, <1>5 DEF Terminate, procVars
  <2>2. /\ new \in SessionType /\ new.pc = "stop" /\ new.config = session[s].config
        /\ new.todo = session[s].todo \ {p} /\ new.asked = session[s].asked
        /\ new.outcome = session[s].outcome
    BY <1>1 DEF SessionType
  <2> HIDE DEF new
  <2>3. (\A q : Over(q)' <=> Over(q)) /\ Over(p)
    BY <1>5, <2>1 DEF Over, Dead
  <2>4. session'[s] = new => CallInv(s)'
    BY <1>1, <1>2, <2>1, <2>2, <2>3 DEF CallInv
  <2> QED BY <1>1, <2>1, <2>2, <2>4, ProcsStay, CallMoves
<1>6. CASE ~Dead(p)
  <2> DEFINE new == [session[s] EXCEPT !.pc = "reap", !.proc = p]
  <2>1. session' = [session EXCEPT ![s] = new] /\ Signal(p)
    BY <1>1, <1>3, <1>6 DEF Terminate
  <2>2. /\ new \in SessionType /\ new.pc = "reap" /\ new.config = session[s].config /\ new.proc = p
        /\ new.todo = session[s].todo /\ new.asked = session[s].asked
        /\ new.outcome = session[s].outcome
    BY <1>1, <1>4 DEF SessionType
  <2> HIDE DEF new
  <2>3. ProcInv' /\ Grows /\ Over(p)' /\ Len(procs') = Len(procs)
    BY <1>1, <1>4, <2>1, Signalled
  <2>4. /\ \A q \in 1..Len(procs) : procs'[q].port = procs[q].port /\ (Over(q) => Over(q)')
        /\ \A q \in 1..session[s].asked : q \in 1..Len(procs)
    BY <1>1, <1>2, <2>3 DEF Grows
  <2>5. ASSUME session'[s] = new PROVE CallInv(s)'
    <3>1. session'[s].proc \in 1..Len(procs') /\ Over(session[s].proc)'
      BY <1>4, <2>2, <2>3, <2>5 DEF Over
    <3>2. new.outcome = "stopped" =>
             \A q \in 1..new.asked : procs'[q].port = new.config => Over(q)'
      BY <1>1, <2>2, <2>4 DEF CallInv
    <3>3. \A q \in 1..new.asked : procs'[q].port = new.config => q \in new.todo \/ Over(q)'
      BY <1>2, <2>2, <2>4
    <3>4. \A q \in new.todo : q \in 1..Len(procs') /\ procs'[q].port = new.config
      BY <1>2, <2>2, <2>3, <2>4
    <3>5. new.asked <= Len(procs') /\ new.config \in Configs
      BY <1>2, <2>2, <2>3
    <3> QED BY <2>2, <2>5, <3>1, <3>2, <3>3, <3>4, <3>5 DEF CallInv
  <2> QED BY <2>1, <2>2, <2>3, <2>5, CallMoves
<1> QED BY <1>5, <1>6

LEMMA ReapStep ==
    ASSUME DemoInv, NEW s \in Sessions, Reap(s)
    PROVE  DemoInv'
<1>1. /\ session[s] \in SessionType /\ ProcInv /\ CallInv(s) /\ session \in [Sessions -> SessionType]
      /\ session[s].pc = "reap" /\ UNCHANGED procs
  BY DEF DemoInv, Reap, In, procVars
<1> DEFINE new == [session[s] EXCEPT !.pc = "stop", !.proc = None, !.todo = @ \ {session[s].proc}]
<1>2. session' = [session EXCEPT ![s] = new]
  BY <1>1 DEF Reap
<1>3. /\ new \in SessionType /\ new.pc = "stop" /\ new.config = session[s].config
      /\ new.todo = session[s].todo \ {session[s].proc} /\ new.asked = session[s].asked
      /\ new.outcome = session[s].outcome
  BY <1>1 DEF SessionType
<1> HIDE DEF new
<1>4. (\A q : Over(q)' <=> Over(q)) /\ Over(session[s].proc)
  BY <1>1 DEF Over, CallInv
<1>5. session'[s] = new => CallInv(s)'
  BY <1>1, <1>3, <1>4 DEF CallInv
<1> QED BY <1>1, <1>2, <1>3, <1>5, ProcsStay, CallMoves

\* The list is empty: every process there was is signalled or gone.
LEMMA ReturnStep ==
    ASSUME DemoInv, NEW s \in Sessions, StopReturns(s)
    PROVE  DemoInv'
<1>1. /\ session[s] \in SessionType /\ ProcInv /\ CallInv(s) /\ session \in [Sessions -> SessionType]
      /\ session[s].pc = "stop" /\ session[s].todo = {} /\ UNCHANGED procs
  BY DEF DemoInv, StopReturns, In, procVars
<1>2. /\ session[s].config \in Configs /\ session[s].asked <= Len(procs)
      /\ \A p \in 1..session[s].asked : procs[p].port = session[s].config => Over(p)
  BY <1>1 DEF CallInv
<1> DEFINE ended == Ends(s, "stopped")
           new == [ended EXCEPT !.demo_server_pids[session[s].config] = None]
<1>3. session' = [session EXCEPT ![s] = new]
  BY DEF StopReturns
<1>4. /\ ended \in SessionType /\ ended.pc = "idle" /\ ended.config = session[s].config
      /\ ended.asked = session[s].asked /\ ended.outcome = "stopped"
  BY <1>1 DEF Ends, SessionType
<1> HIDE DEF ended
<1>5. /\ new \in SessionType /\ new.pc = "idle" /\ new.config = session[s].config
      /\ new.asked = session[s].asked
  BY <1>1, <1>2, <1>4 DEF SessionType
<1> HIDE DEF new
<1>6. \A q : Over(q)' <=> Over(q)
  BY <1>1 DEF Over
<1>7. session'[s] = new => CallInv(s)'
  BY <1>1, <1>2, <1>5, <1>6 DEF CallInv
<1> QED BY <1>1, <1>3, <1>5, <1>7, ProcsStay, CallMoves

LEMMA Fresh ==
    /\ NewSession \in SessionType /\ NewSession.pc = "idle" /\ NewSession.outcome # "stopped"
BY OutcomeAssumption DEF NewSession, SessionType

LEMMA CloseStep ==
    ASSUME DemoInv, NEW s \in Sessions, CloseSession(s)
    PROVE  DemoInv'
<1>1. session' = [session EXCEPT ![s] = NewSession] /\ UNCHANGED procs /\ ProcInv
  BY DEF CloseSession, DemoInv, procVars
<1>2. session'[s] = NewSession => CallInv(s)'
  BY Fresh DEF CallInv
<1> QED BY <1>1, <1>2, Fresh, ProcsStay, CallMoves

LEMMA KillStep ==
    ASSUME DemoInv, Kill
    PROVE  DemoInv'
<1>1. session' = [s \in Sessions |-> NewSession] /\ UNCHANGED procs /\ ProcInv
  BY DEF Kill, DemoInv, procVars
<1>2. \A s \in Sessions : session'[s] = NewSession
  BY <1>1
<1>3. \A s \in Sessions : CallInv(s)'
  BY <1>2, Fresh DEF CallInv
<1> QED BY <1>1, <1>3, Fresh, ProcsStay DEF DemoInv

\* Processes of a sweep come, and all processes live and die, on their own.
LEMMA ProcessesMove ==
    ASSUME DemoInv, UNCHANGED session, ProcInv', Grows
    PROVE  DemoInv'
<1>1. Len(procs') \in Nat /\ session' \in [Sessions -> SessionType]
  BY DEF ProcInv, DemoInv
<1>2. \A s \in Sessions : CallInv(s)'
  BY <1>1, CallStays
<1> QED BY <1>1, <1>2 DEF DemoInv

-----------------------------------------------------------------------------
LEMMA DemoInit == Init => DemoInv
<1> SUFFICES ASSUME Init PROVE DemoInv
  OBVIOUS
<1>1. procs = <<>> /\ session = [s \in Sessions |-> NewSession]
  BY DEF Init, NoProcess
<1>2. ProcInv
  BY <1>1 DEF ProcInv
<1>3. \A s \in Sessions : session[s] = NewSession
  BY <1>1
<1>4. \A s \in Sessions : CallInv(s)
  BY <1>3, Fresh DEF CallInv
<1> QED BY <1>1, <1>2, <1>4, Fresh DEF DemoInv

LEMMA DemoStep == DemoInv /\ [Next]_vars => DemoInv'
<1> SUFFICES ASSUME DemoInv, [Next]_vars PROVE DemoInv'
  OBVIOUS
<1>1. ProcInv
  BY DEF DemoInv
<1>2. ASSUME NEW s \in Sessions, NEW c \in Configs, ensure_server(s, c) \/ stop_server(s, c)
      PROVE  DemoInv'
  BY <1>2, EnsureStep, StopStep
<1>3. ASSUME NEW s \in Sessions, CallStep(s) \/ CloseSession(s)
      PROVE  DemoInv'
  BY <1>3, StartStep, WaitStep, TerminateStep, ReapStep, ReturnStep, CloseStep DEF CallStep
<1>4. ASSUME NEW c \in Configs, BenchStarts(c) PROVE DemoInv'
  <2>1. ProcInv' /\ Grows
    BY <1>1, <1>4, PortsAssumption, Spawned DEF BenchStarts
  <2> QED BY <1>4, <2>1, ProcessesMove DEF BenchStarts
<1>5. CASE OSStep
  BY <1>1, <1>5, OnItsOwn, ProcessesMove DEF OSStep
<1>6. CASE UNCHANGED vars
  BY <1>1, <1>6, ProcsStay, ProcessesMove DEF vars, procVars
<1> QED BY <1>2, <1>3, <1>4, <1>5, <1>6, KillStep DEF Next

\* What a stop_server still has to reach is on its list, through every
\* interleaving of sessions, sweeps, crashes and kills of the dashboard.
THEOREM ListComplete == Spec => []DemoInv
BY DemoInit, DemoStep, PTL DEF Spec

\* A stop_server that has returned left no server of the configuration that
\* was there when it was called, and no sweep's server was ever signalled.
THEOREM StopExact == Spec => []StopReachesExactly
<1>1. DemoInv => StopReachesExactly
  BY DEF DemoInv, ProcInv, CallInv, Over, StopReachesExactly
<1> QED BY <1>1, ListComplete, PTL

=============================================================================
