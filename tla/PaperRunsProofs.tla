--------------------------- MODULE PaperRunsProofs ---------------------------
(***************************************************************************)
(* PaperRuns for any configurations, profiles, networks, lists of steps    *)
(* and numbers of invocations and kills.                                   *)
(*                                                                         *)
(* PaperInv says whose the running processes are at each place of a sweep, *)
(* what the sweep has measured so far and which files that has left, and   *)
(* where the run_ids of the manifest come from.                            *)
(***************************************************************************)
EXTENDS PaperRuns, SequenceTheorems, TLAPS

ProcessStates == {"starting", "listening", "signalled", "dead"}

Processes == [port: Ports, role: CONFIGS \cup {"proxy"}, env: Environments, state: ProcessStates, orphan: BOOLEAN]

ProcsInv ==
    /\ procs \in Seq(Processes)
    /\ listener \in [Ports -> Nat \cup {None}]
    /\ \A port \in Ports : listener[port] # None =>
          /\ listener[port] \in 1..Len(procs) /\ procs[listener[port]].port = port
          /\ procs[listener[port]].state \in {"listening", "signalled"}

\* A call of a sweep, as some step makes it.
SweepCall(args) ==
    /\ args.kind \in {"concurrency", "streaming", "threats"}
    /\ args.configs # <<>> /\ args.cells > 0
    /\ args.kind # "threats" => args.cells = Cells
    /\ args.kind # "concurrency" => ~args.auth

\* Where the sweep s is: what its place says of its counters.
PlaceInv(s) ==
    /\ SweepCall(s.args)
    /\ s.at \in 1..Len(s.args.configs) /\ s.cell \in 0..s.args.cells
    /\ s.pc \in {"start", "health", "proxy", "proxy_health", "measure"} =>
          s.cell < s.args.cells /\ s.raised = "no"
    /\ s.pc \in {"stop", "wait"} /\ s.raised = "no" => s.cell = s.args.cells
    /\ s.pc \in {"summary", "returned"} =>
          s.raised = "no" /\ s.cell = s.args.cells /\ s.at = Len(s.args.configs)
    /\ s.pc = "raised" => s.raised # "no"

Settled(p) == Dead(p) \/ procs[p].orphan

\* Every process that runs is an orphan or one of the two the sweep holds.
OwnInv(s) ==
    /\ s.pc # "start" => s.proc # None
    /\ s.proc # None =>
          /\ s.proc \in 1..Len(procs) /\ procs[s.proc].port = "server"
          /\ procs[s.proc].env = ServerEnv
    /\ s.proxy # None => s.proxy \in 1..Len(procs) /\ procs[s.proxy].port = "proxy"
    /\ s.pc \in {"stop_proxy", "wait_proxy", "proxy_health"} => s.proxy # None
    /\ s.pc \in {"start", "health", "proxy", "stop", "wait", "summary", "returned", "raised"} =>
          s.proxy = None
    /\ s.pc \in {"start", "summary", "returned", "raised"} => \A p \in 1..Len(procs) : Settled(p)
    /\ \A p \in 1..Len(procs) : Settled(p) \/ p \in {s.proc, s.proxy}

EnvironInv(args) ==
    /\ args.kind = "concurrency" => environ.profile = args.profile
    /\ args.kind = "streaming" => environ.backend = "llama_cpp"

\* The last measurement went to the sweep's processes, or to an orphan.
MeasuredInv(s) ==
    s.measured # None =>
        /\ s.measured.started.server \in 1..Len(procs)
        /\ procs[s.measured.started.server].env = ServerEnv
        /\ \A part \in {"proxy", "server"} :
              LET p == s.measured.answered[part]
              IN  p # None => /\ p \in 1..Len(procs)
                              /\ p = s.measured.started[part] \/ procs[p].orphan

\* The cell c of the configuration a, of k cells each: how many are before it.
CellsBefore(k, a, c) == k * (a - 1) + c

\* The cells done, and the files of the configurations that are finished.
DoneInv(s) ==
    /\ Len(s.done) = CellsBefore(s.args.cells, s.at, s.cell)
    /\ \A i \in 1..Len(s.done) : s.done[i] = s.args.configs[1 + (i - 1) \div s.args.cells]

Finished(s, j) == j < s.at \/ (j = s.at /\ s.cell = s.args.cells)

FilesInv(s) ==
    s.args.kind # "threats" =>
        \A j \in 1..Len(s.args.configs) : Finished(s, j) =>
            [run_id |-> s.run_id, config |-> s.args.configs[j], upto |-> Cells] \in csvs

\* The run_id names a summary of the sweep args, with every cell and file.
RunIn(written, files, args, run_id) ==
    /\ run_id \in DOMAIN written
    /\ written[run_id].args = args
    /\ Complete(args, written[run_id].cells)
    /\ \A c \in ToSet(args.configs) : [run_id |-> run_id, config |-> c, upto |-> Cells] \in files

RunOK(args, run_id) == RunIn(summaries, csvs, args, run_id)

\* A new run_id is later than every summary.
SummariesInv ==
    /\ \A r \in DOMAIN summaries : r \in Nat /\ r < clock
    /\ sweep # None =>
          /\ sweep.run_id <= clock
          /\ sweep.pc # "returned" => \A r \in DOMAIN summaries : r < sweep.run_id
          /\ sweep.pc \in {"summary", "returned"} => sweep.run_id < clock
          /\ sweep.pc = "returned" /\ sweep.args.kind # "threats" => RunOK(sweep.args, sweep.run_id)

SweepInv ==
    /\ clock \in Nat /\ environ \in Environments /\ ~environ.auth
    /\ sweep \in Sweeps \cup {None}
    /\ sweep # None => /\ PlaceInv(sweep) /\ OwnInv(sweep) /\ EnvironInv(sweep.args)
                       /\ MeasuredInv(sweep) /\ DoneInv(sweep) /\ FilesInv(sweep)
    /\ sweep = None => \A p \in 1..Len(procs) : Settled(p)

-----------------------------------------------------------------------------
Manifests == [runs: [Keys -> Seq(Nat)], completed: SUBSET (1..21), failed: SUBSET (1..21)]

MainPcs == {"idle", "steps", "call", "in_call", "truncate", "write"}

Mains == [pc: MainPcs, steps: Seq(1..21), calls: Seq(Calls), failed: SUBSET (1..21),
          next: {"idle", "steps", "call"}]

\* The invocation is inside a step.
InStep == main.pc \in {"call", "in_call"} \/ (main.pc \in {"truncate", "write"} /\ main.next = "call")

\* How many calls of the step n have been made.
Made(n) == Len(STEPS[n]) - Len(main.calls)

CallsInv(n) ==
    /\ Len(main.calls) <= Len(STEPS[n])
    /\ \A j \in 1..Len(main.calls) : main.calls[j] = STEPS[n][Made(n) + j]

ListedIn(written, files, n, list) == \A i \in 1..Len(list) : RunIn(written, files, STEPS[n][i], list[i])

\* The run_ids of a list step are those of its calls so far.
ListInv(n) ==
    n \in DOMAIN ListKey =>
        /\ Len(m.runs[KeyOf[n]]) = Made(n)
        /\ ListedIn(summaries, csvs, n, m.runs[KeyOf[n]])

\* Every run_id under a key is of the sweep one step called at that place.
SoundIn(written, files, runs) ==
    \A key \in Keys : runs[key] # <<>> =>
        \E n \in DOMAIN KeyOf :
            KeyOf[n] = key /\ ListedIn(written, files, n, runs[key])

Sound(runs) == SoundIn(summaries, csvs, runs)

MainInv ==
    /\ main \in Mains /\ m \in Manifests
    /\ manifest \notin {Absent, Corrupt} => manifest \in Manifests /\ Sound(manifest.runs)
    /\ Sound(m.runs)
    /\ (main.pc = "in_call") <=> (sweep # None)
    /\ sweep # None => main.calls # <<>> /\ Head(main.calls) = sweep.args
    /\ InStep => main.steps # <<>> /\ CallsInv(CurrentStep) /\ ListInv(CurrentStep)

PaperInv == ProcsInv /\ SweepInv /\ SummariesInv /\ MainInv

-----------------------------------------------------------------------------
(***************************************************************************)
(* The steps and their calls.                                              *)
(***************************************************************************)
LEMMA ListKeys == DOMAIN ListKey = {3, 4, 11, 20}
BY DEF ListKey

LEMMA SingleKeys == DOMAIN SingleKey = {2, 6, 9, 12, 13, 15, 16, 17}
BY DEF SingleKey

LEMMA KeyNumbers == DOMAIN KeyOf = DOMAIN ListKey \cup DOMAIN SingleKey
BY DEF KeyOf

LEMMA CallTypes ==
  ASSUME NEW configs \in Seq(CONFIGS)
  PROVE  /\ Concurrency(configs) \in Calls /\ Streaming(configs) \in Calls
         /\ Threats(configs) \in Calls /\ command \in Calls
         /\ command.kind = "command"
         /\ configs # <<>> => SweepCall(Concurrency(configs)) /\ SweepCall(Streaming(configs))
                              /\ SweepCall(Threats(configs))
<1>1. Cells \in Nat /\ Cells > 0 /\ <<>> \in Seq(CONFIGS)
  BY PaperAssumption
<1>2. \A s \in Seq(CONFIGS) :
        LET c == Concurrency(s) IN
        /\ c \in Calls /\ c.configs = s /\ c.cells = Cells /\ c.kind = "concurrency" /\ ~c.auth
  BY <1>1 DEF Concurrency, Calls, PAYLOADS, LINKS
<1>3. LET c == Streaming(configs) IN
      c \in Calls /\ c.configs = configs /\ c.cells = Cells /\ c.kind = "streaming" /\ ~c.auth
  BY <1>2 DEF Streaming, Calls
<1>4. LET c == Threats(configs) IN
      c \in Calls /\ c.configs = configs /\ c.cells = 3 /\ c.kind = "threats" /\ ~c.auth
  <2>1. [Concurrency(configs) EXCEPT !.kind = "threats"] \in Calls
    BY <1>2 DEF Calls
  <2> QED
    BY <2>1, <1>2 DEF Threats, Calls
<1>5. command \in Calls /\ command.kind = "command"
  BY <1>1, <1>2 DEF command, Calls
<1> QED
  BY <1>1, <1>2, <1>3, <1>4, <1>5 DEF SweepCall

\* A call of step n: a command or a sweep.
CallOK(n, args) ==
    /\ args \in Calls
    /\ args.kind # "command" => SweepCall(args)
    /\ n \in DOMAIN KeyOf => args.kind \in {"concurrency", "streaming"}

Step(n) ==
    /\ STEPS[n] \in Seq(Calls)
    /\ \A i \in 1..Len(STEPS[n]) : CallOK(n, STEPS[n][i])

LEMMA OneCall ==
  ASSUME NEW n, NEW c, CallOK(n, c), STEPS[n] = <<c>>
  PROVE  Step(n) /\ Len(STEPS[n]) = 1
<1>1. <<c>> \in Seq(Calls) /\ Len(<<c>>) = 1 /\ <<c>>[1] = c
  BY DEF CallOK
<1> QED
  BY <1>1 DEF Step

LEMMA ListedCalls ==
  ASSUME NEW n, NEW k \in Nat, NEW f, f = [i \in 1..k |-> f[i]], \A i \in 1..k : CallOK(n, f[i]), STEPS[n] = f
  PROVE  Step(n)
<1>1. STEPS[n] \in Seq(Calls) /\ Len(STEPS[n]) = k
  BY DEF CallOK
<1> QED
  BY <1>1 DEF Step

\* Steps of one call.
LEMMA SingleSteps == \A n \in {2, 5, 6, 9, 12, 13, 15, 16, 17} : Step(n) /\ Len(STEPS[n]) = 1
<1> DEFINE S == Seq(CONFIGS) \ {<<>>}
<1>1. /\ ALL_CONFIGS \in S /\ PROTECTED \in S /\ PROTECTED_V2 \in S
      /\ <<"hybrid", "full-pqc">> \in S /\ <<"control", "hybrid-kex">> \in S /\ <<"control-2rt">> \in S
      /\ <<"hybrid-kex-pq">> \in S /\ <<"hybrid", "full-pqc", "hybrid-kex-pq">> \in S
  BY PaperAssumption DEF CONFIGS
<1>2. \A configs \in S :
         /\ CallOK(5, Threats(configs))
         /\ \A n : CallOK(n, Concurrency(configs)) /\ CallOK(n, Streaming(configs))
  <2> SUFFICES ASSUME NEW configs \in S, NEW n
               PROVE  CallOK(5, Threats(configs)) /\ CallOK(n, Concurrency(configs)) /\ CallOK(n, Streaming(configs))
    OBVIOUS
  <2>1. Concurrency(configs).kind = "concurrency" /\ Streaming(configs).kind = "streaming"
    BY DEF Concurrency, Streaming
  <2>2. 5 \notin DOMAIN KeyOf
    BY KeyNumbers, ListKeys, SingleKeys
  <2> QED
    BY <2>1, <2>2, CallTypes DEF CallOK
<1>3. /\ STEPS[2] = <<Concurrency(ALL_CONFIGS)>>
      /\ STEPS[5] = <<Threats(PROTECTED)>>
      /\ STEPS[6] = <<Streaming(PROTECTED)>>
      /\ STEPS[9] = <<Streaming(<<"hybrid", "full-pqc">>)>>
      /\ STEPS[12] = <<Concurrency(<<"control", "hybrid-kex">>)>>
      /\ STEPS[13] = <<Concurrency(<<"control-2rt">>)>>
      /\ STEPS[15] = <<Concurrency(<<"hybrid-kex-pq">>)>>
      /\ STEPS[16] = <<Streaming(PROTECTED_V2)>>
      /\ STEPS[17] = <<Streaming(<<"hybrid", "full-pqc", "hybrid-kex-pq">>)>>
  BY DEF STEPS, step_concurrency, step_threats, step_streaming, step_checkpoint,
     step_concurrency_supplement, step_control_2rt, step_concurrency_hkpq, step_streaming_v2,
     step_checkpoint_v2
<1>4. \A n \in {2, 5, 6, 9, 12, 13, 15, 16, 17} : \E c : CallOK(n, c) /\ STEPS[n] = <<c>>
  BY <1>1, <1>2, <1>3
<1> QED
  BY <1>4, OneCall

\* Steps that run a command and sweep nothing, or only for the threats.
LEMMA CommandSteps == \A n \in {1, 7, 8, 10, 14, 18, 19, 21} : Step(n)
<1>1. \A n \in {1, 7, 8, 10, 14, 18, 19} : STEPS[n] = <<command>>
  BY DEF STEPS, step_primitives, step_streaming_hndl, step_streaming_mitm, step_checkpoint_attacks,
     step_signing_diagnostic, step_attack_campaign, step_key_substitution
<1>2. STEPS[21] = <<Threats(<<"hybrid-kex-pq">>), command>>
  BY DEF STEPS, step_hndl_hkpq
<1>3. \A n \in {1, 7, 8, 10, 14, 18, 19, 21} : n \notin DOMAIN KeyOf
  BY KeyNumbers, ListKeys, SingleKeys
<1>4. command \in Calls /\ command.kind = "command"
  BY CallTypes, <<>> \in Seq(CONFIGS)
<1>5. Threats(<<"hybrid-kex-pq">>) \in Calls /\ SweepCall(Threats(<<"hybrid-kex-pq">>))
  BY CallTypes, <<"hybrid-kex-pq">> \in Seq(CONFIGS) DEF CONFIGS
<1>6. \A n \in {1, 7, 8, 10, 14, 18, 19, 21} : CallOK(n, command)
  BY <1>3, <1>4 DEF CallOK
<1>7. Step(21)
  <2>1. CallOK(21, Threats(<<"hybrid-kex-pq">>))
    BY <1>3, <1>5 DEF CallOK
  <2>2. STEPS[21] \in Seq(Calls) /\ Len(STEPS[21]) = 2 /\ STEPS[21][1] = Threats(<<"hybrid-kex-pq">>)
        /\ STEPS[21][2] = command
    BY <1>2, <1>4, <1>5
  <2> QED
    BY <2>1, <2>2, <1>6 DEF Step
<1> QED
  BY <1>1, <1>6, <1>7, OneCall

\* Steps that go through a list.
LEMMA ListSteps == \A n \in {3, 4, 11, 20} : Step(n)
<1> DEFINE c == Concurrency(ALL_CONFIGS)
<1>1. c \in Calls /\ SweepCall(c) /\ c.kind = "concurrency"
  BY CallTypes, PaperAssumption DEF Concurrency
<1>2. \A x \in PAYLOADS : LET d == [c EXCEPT !.profile = x] IN d \in Calls /\ SweepCall(d) /\ d.kind = "concurrency"
  BY <1>1 DEF Calls, SweepCall
<1>3. \A x \in LINKS : LET d == [c EXCEPT !.network = x] IN d \in Calls /\ SweepCall(d) /\ d.kind = "concurrency"
  BY <1>1 DEF Calls, SweepCall
<1>4. \A x \in Nat :
        LET d == [c EXCEPT !.requests_per_handshake = x] IN d \in Calls /\ SweepCall(d) /\ d.kind = "concurrency"
  BY <1>1 DEF Calls, SweepCall
<1>5. \A x \in CONFIGS, a \in BOOLEAN :
        LET d == [Concurrency(<<x>>) EXCEPT !.auth = a] IN d \in Calls /\ SweepCall(d) /\ d.kind = "concurrency"
  <2> SUFFICES ASSUME NEW x \in CONFIGS
               PROVE  Concurrency(<<x>>) \in Calls /\ SweepCall(Concurrency(<<x>>))
                      /\ Concurrency(<<x>>).kind = "concurrency"
    BY DEF Calls, SweepCall
  <2>1. <<x>> \in Seq(CONFIGS) /\ <<x>> # <<>>
    OBVIOUS
  <2> QED
    BY <2>1, CallTypes DEF Concurrency
<1>6. \A n, d : d \in Calls /\ SweepCall(d) /\ d.kind = "concurrency" => CallOK(n, d)
  BY DEF CallOK
<1>7. PROFILES \in Seq(PAYLOADS) /\ NETWORKS \in Seq(LINKS) /\ PROTECTED_V2 \in Seq(CONFIGS)
  BY PaperAssumption
<1>8. Step(3)
  <2> DEFINE f == [i \in 1..Len(PROFILES) |-> [c EXCEPT !.profile = PROFILES[i]]]
  <2>1. STEPS[3] = f /\ Len(PROFILES) \in Nat
    BY <1>7 DEF STEPS, step_payload
  <2>2. ASSUME NEW i \in 1..Len(PROFILES) PROVE CallOK(3, f[i])
    <3> DEFINE x == PROFILES[i]
    <3>1. x \in PAYLOADS
      BY <1>7
    <3> HIDE DEF x
    <3>2. CallOK(3, [c EXCEPT !.profile = x])
      BY <3>1, <1>2, <1>6
    <3> QED
      BY <3>2 DEF x
  <2>3. f = [i \in 1..Len(PROFILES) |-> f[i]]
    OBVIOUS
  <2> HIDE DEF f
  <2> QED
    BY <2>1, <2>2, <2>3, ListedCalls
<1>9. Step(4)
  <2> DEFINE f == [i \in 1..Len(NETWORKS) |-> [c EXCEPT !.network = NETWORKS[i]]]
  <2>1. STEPS[4] = f /\ Len(NETWORKS) \in Nat
    BY <1>7 DEF STEPS, step_network
  <2>2. ASSUME NEW i \in 1..Len(NETWORKS) PROVE CallOK(4, f[i])
    <3> DEFINE x == NETWORKS[i]
    <3>1. x \in LINKS
      BY <1>7
    <3> HIDE DEF x
    <3>2. CallOK(4, [c EXCEPT !.network = x])
      BY <3>1, <1>3, <1>6
    <3> QED
      BY <3>2 DEF x
  <2>3. f = [i \in 1..Len(NETWORKS) |-> f[i]]
    OBVIOUS
  <2> HIDE DEF f
  <2> QED
    BY <2>1, <2>2, <2>3, ListedCalls
<1>10. Step(11)
  <2> DEFINE f == [i \in 1..3 |-> [c EXCEPT !.requests_per_handshake = <<1, 10, 100>>[i]]]
  <2>1. STEPS[11] = f
    BY DEF STEPS, step_amortization
  <2>2. \A i \in 1..3 : <<1, 10, 100>>[i] \in Nat
    OBVIOUS
  <2>3. \A i \in 1..3 : CallOK(11, f[i])
    BY <2>2, <1>4, <1>6
  <2>4. f = [i \in 1..3 |-> f[i]]
    OBVIOUS
  <2> HIDE DEF f
  <2> QED
    BY <2>1, <2>3, <2>4, ListedCalls
<1>11. Step(20)
  <2> DEFINE L == 2 * Len(PROTECTED_V2)
             f == [j \in 1..L |->
                     [Concurrency(<<PROTECTED_V2[(j + 1) \div 2]>>) EXCEPT !.auth = j % 4 \in {2, 3}]]
  <2>1. STEPS[20] = f
    BY DEF STEPS, step_auth_cost
  <2>2. L \in Nat /\ \A j \in 1..L : (j + 1) \div 2 \in 1..Len(PROTECTED_V2)
    BY <1>7
  <2>3. \A j \in 1..L : PROTECTED_V2[(j + 1) \div 2] \in CONFIGS /\ (j % 4 \in {2, 3}) \in BOOLEAN
    BY <2>2, <1>7
  <2>4. ASSUME NEW j \in 1..L PROVE CallOK(20, f[j])
    <3> DEFINE x == PROTECTED_V2[(j + 1) \div 2]
               a == j % 4 \in {2, 3}
    <3>1. x \in CONFIGS /\ a \in BOOLEAN
      BY <2>3
    <3>2. f[j] = [Concurrency(<<x>>) EXCEPT !.auth = a]
      OBVIOUS
    <3> HIDE DEF x, a, f
    <3>3. CallOK(20, [Concurrency(<<x>>) EXCEPT !.auth = a])
      BY <3>1, <1>5, <1>6
    <3> QED
      BY <3>2, <3>3
  <2>5. f = [j \in 1..L |-> f[j]]
    OBVIOUS
  <2> HIDE DEF L, f
  <2> QED
    BY <2>1, <2>2, <2>4, <2>5, ListedCalls
<1> QED
  BY <1>8, <1>9, <1>10, <1>11

LEMMA EveryStep ==
  /\ \A n \in 1..21 : Step(n)
  /\ \A n \in DOMAIN SingleKey : Len(STEPS[n]) = 1
BY SingleSteps, CommandSteps, ListSteps, SingleKeys

-----------------------------------------------------------------------------
(***************************************************************************)
(* Processes.  A step leaves every process its port and its environment;   *)
(* the dead stay dead and the orphans orphans.                             *)
(***************************************************************************)
Kept(p) ==
    /\ procs'[p].port = procs[p].port /\ procs'[p].env = procs[p].env
    /\ procs[p].orphan => procs'[p].orphan
    /\ procs[p].state = "dead" => procs'[p].state = "dead"

Keeps == Len(procs) <= Len(procs') /\ \A p \in 1..Len(procs) : Kept(p)

Stay == Keeps /\ Len(procs') = Len(procs)

LEMMA UnchangedKeep ==
  ASSUME ProcsInv, UNCHANGED procVars
  PROVE  ProcsInv' /\ Stay
BY DEF ProcsInv, procVars, Stay, Keeps, Kept

LEMMA DieKeeps ==
  ASSUME ProcsInv, NEW p \in 1..Len(procs), Die(p)
  PROVE  ProcsInv' /\ Stay
<1>1. /\ procs' = [procs EXCEPT ![p].state = "dead"]
      /\ listener' = [port \in Ports |-> IF listener[port] = p THEN None ELSE listener[port]]
  BY DEF Die
<1>2. procs \in Seq(Processes) /\ procs[p] \in Processes
  BY DEF ProcsInv
<1>3. [procs[p] EXCEPT !.state = "dead"] \in Processes
  BY <1>2 DEF Processes, ProcessStates
<1>4. procs' \in Seq(Processes) /\ Len(procs') = Len(procs)
      /\ procs'[p] = [procs[p] EXCEPT !.state = "dead"]
      /\ \A q \in 1..Len(procs) : q # p => procs'[q] = procs[q]
  BY <1>1, <1>2, <1>3
<1>5. \A q \in 1..Len(procs) : Kept(q)
  BY <1>2, <1>4 DEF Kept, Processes
<1>6. listener' \in [Ports -> Nat \cup {None}]
  BY <1>1 DEF ProcsInv
<1>7. ASSUME NEW port \in Ports, listener'[port] # None
      PROVE  /\ listener'[port] \in 1..Len(procs') /\ procs'[listener'[port]].port = port
             /\ procs'[listener'[port]].state \in {"listening", "signalled"}
  <2>1. listener'[port] = listener[port] /\ listener[port] # p
    BY <1>1, <1>7
  <2> QED
    BY <2>1, <1>4, <1>7 DEF ProcsInv
<1> QED
  BY <1>4, <1>5, <1>6, <1>7 DEF ProcsInv, Stay, Keeps

LEMMA SignalKeeps ==
  ASSUME ProcsInv, NEW p \in 1..Len(procs), Signal(p)
  PROVE  ProcsInv' /\ Stay
<1> DEFINE x == IF procs[p].state = "dead" THEN "dead" ELSE "signalled"
<1>1. procs \in Seq(Processes) /\ procs[p] \in Processes
  BY DEF ProcsInv
<1>2. procs' = [procs EXCEPT ![p] = [procs[p] EXCEPT !.state = x]] /\ listener' = listener
  BY DEF Signal
<1>3. [procs[p] EXCEPT !.state = x] \in Processes
  BY <1>1 DEF Processes, ProcessStates
<1>4. procs' \in Seq(Processes) /\ Len(procs') = Len(procs)
      /\ procs'[p] = [procs[p] EXCEPT !.state = x]
      /\ \A q \in 1..Len(procs) : q # p => procs'[q] = procs[q]
  BY <1>1, <1>2, <1>3
<1>5. \A q \in 1..Len(procs) : Kept(q)
  BY <1>1, <1>4 DEF Kept, Processes
<1>6. ASSUME NEW port \in Ports, listener'[port] # None
      PROVE  /\ listener'[port] \in 1..Len(procs') /\ procs'[listener'[port]].port = port
             /\ procs'[listener'[port]].state \in {"listening", "signalled"}
  <2>1. /\ listener[port] \in 1..Len(procs) /\ procs[listener[port]].port = port
        /\ procs[listener[port]].state \in {"listening", "signalled"}
    BY <1>2, <1>6 DEF ProcsInv
  <2>2. CASE listener[port] = p
    BY <2>1, <2>2, <1>1, <1>2, <1>4 DEF Processes
  <2>3. CASE listener[port] # p
    BY <2>1, <2>3, <1>2, <1>4
  <2> QED
    BY <2>2, <2>3
<1> QED
  BY <1>2, <1>4, <1>5, <1>6 DEF ProcsInv, Stay, Keeps

LEMMA BindKeeps ==
  ASSUME ProcsInv, NEW p \in 1..Len(procs), Bind(p)
  PROVE  ProcsInv' /\ Stay
<1> DEFINE at == procs[p].port
<1>1. CASE listener[at] = None
  <2>1. /\ listener' = [listener EXCEPT ![at] = p]
        /\ procs' = [procs EXCEPT ![p].state = "listening"]
    BY <1>1 DEF Bind
  <2>2. procs \in Seq(Processes) /\ procs[p] \in Processes /\ procs[p].state = "starting" /\ at \in Ports
    <3>1. procs \in Seq(Processes) /\ procs[p] \in Processes
      BY DEF ProcsInv
    <3> QED
      BY <3>1 DEF Bind, Processes
  <2>3. [procs[p] EXCEPT !.state = "listening"] \in Processes
    BY <2>2 DEF Processes, ProcessStates
  <2>4. procs' \in Seq(Processes) /\ Len(procs') = Len(procs)
        /\ procs'[p] = [procs[p] EXCEPT !.state = "listening"]
        /\ \A q \in 1..Len(procs) : q # p => procs'[q] = procs[q]
    BY <2>1, <2>2, <2>3
  <2>5. \A q \in 1..Len(procs) : Kept(q)
    BY <2>2, <2>4 DEF Kept, Processes
  <2>6. listener' \in [Ports -> Nat \cup {None}]
    <3>1. p \in Nat
      BY <2>2
    <3> QED
      BY <2>1, <2>2, <3>1 DEF ProcsInv
  <2>7. ASSUME NEW port \in Ports, listener'[port] # None
        PROVE  /\ listener'[port] \in 1..Len(procs') /\ procs'[listener'[port]].port = port
               /\ procs'[listener'[port]].state \in {"listening", "signalled"}
    <3>1. CASE port = at
      <4>1. listener'[port] = p
        BY <2>1, <3>1 DEF ProcsInv
      <4>2. procs'[p].port = at /\ procs'[p].state = "listening"
        BY <2>2, <2>4 DEF Processes
      <4> QED
        BY <4>1, <4>2, <2>4, <3>1
    <3>2. CASE port # at
      <4>1. listener'[port] = listener[port]
        BY <2>1, <3>2 DEF ProcsInv
      <4>2. /\ listener[port] \in 1..Len(procs) /\ procs[listener[port]].port = port
            /\ procs[listener[port]].state \in {"listening", "signalled"}
        BY <4>1, <2>7 DEF ProcsInv
      <4> QED
        BY <4>1, <4>2, <2>2, <2>4
    <3> QED
      BY <3>1, <3>2
  <2> QED
    BY <2>4, <2>5, <2>6, <2>7 DEF ProcsInv, Stay, Keeps
<1>2. CASE listener[at] # None
  BY <1>2, DieKeeps DEF Bind
<1> QED
  BY <1>1, <1>2

LEMMA ProcessStepKeeps ==
  ASSUME ProcsInv, ProcessStep
  PROVE  ProcsInv' /\ Stay
BY BindKeeps, DieKeeps DEF ProcessStep, Fail, Exit

LEMMA SpawnKeeps ==
  ASSUME ProcsInv, NEW port \in Ports, NEW role \in CONFIGS \cup {"proxy"}, NEW env \in Environments,
         _start_server(port, role, env)
  PROVE  /\ ProcsInv' /\ Keeps /\ Len(procs') = Len(procs) + 1
         /\ procs'[Len(procs) + 1].port = port /\ procs'[Len(procs) + 1].env = env
<1> DEFINE new == [port |-> port, role |-> role, env |-> env, state |-> "starting", orphan |-> FALSE]
<1>1. procs \in Seq(Processes) /\ procs' = Append(procs, new) /\ listener' = listener
  BY DEF ProcsInv, _start_server
<1>2. new \in Processes /\ new.port = port /\ new.env = env
  BY DEF Processes, ProcessStates
<1> HIDE DEF new
<1>3. procs' \in Seq(Processes) /\ Len(procs') = Len(procs) + 1 /\ procs'[Len(procs) + 1] = new
      /\ \A q \in 1..Len(procs) : procs'[q] = procs[q]
  BY <1>1, <1>2
<1>4. \A q \in 1..Len(procs) : Kept(q)
  BY <1>3 DEF Kept
<1> QED
  BY <1>1, <1>2, <1>3, <1>4 DEF ProcsInv, Keeps

LEMMA OrphanKeeps ==
  ASSUME ProcsInv, procs' = Orphaned, listener' = listener
  PROVE  ProcsInv' /\ Stay /\ \A p \in 1..Len(procs) : Settled(p)'
<1>1. procs \in Seq(Processes) /\ \A p \in 1..Len(procs) : procs[p] \in Processes
  BY DEF ProcsInv
<1>2. ASSUME NEW p \in 1..Len(procs)
      PROVE  /\ procs'[p] \in Processes
             /\ procs'[p].state = procs[p].state /\ procs'[p].port = procs[p].port
             /\ procs'[p].env = procs[p].env
             /\ procs'[p].orphan = (procs[p].state # "dead" \/ procs[p].orphan)
  <2>1. procs'[p] = [procs[p] EXCEPT !.orphan = ~Dead(p) \/ procs[p].orphan]
    BY DEF Orphaned
  <2>2. procs[p] \in Processes
    BY <1>1
  <2>3. (~Dead(p) \/ procs[p].orphan) \in BOOLEAN
    OBVIOUS
  <2> QED
    BY <2>1, <2>2, <2>3 DEF Processes, Dead
<1>3. Len(procs') = Len(procs) /\ procs' \in Seq(Processes)
  <2>1. DOMAIN procs' = 1..Len(procs) /\ procs' = [p \in DOMAIN procs' |-> procs'[p]]
    BY DEF Orphaned
  <2>2. Len(procs) \in Nat /\ procs' \in [1..Len(procs) -> Processes]
    BY <1>1, <1>2, <2>1
  <2> QED
    BY <2>2
<1>4. \A p \in 1..Len(procs) : Kept(p) /\ Settled(p)'
  BY <1>2 DEF Kept, Settled, Dead
<1> QED
  BY <1>2, <1>3, <1>4 DEF ProcsInv, Stay, Keeps

-----------------------------------------------------------------------------
(***************************************************************************)
(* The steps of a sweep.  Most touch neither what it has measured nor the  *)
(* files; for those only its place and its processes need an argument.     *)
(***************************************************************************)
Quiet ==
    /\ sweep' \in Sweeps
    /\ sweep'.args = sweep.args /\ sweep'.at = sweep.at /\ sweep'.cell = sweep.cell
    /\ sweep'.run_id = sweep.run_id /\ sweep'.done = sweep.done /\ sweep'.measured = sweep.measured
    /\ sweep.pc # "returned" /\ sweep'.pc \notin {"summary", "returned"}
    /\ UNCHANGED <<clock, environ, csvs, summaries>>

\* What the invocation sees of a step of its sweep.
Runs ==
    /\ sweep' \in Sweeps /\ sweep'.args = sweep.args
    /\ csvs \subseteq csvs'
    /\ \A r \in DOMAIN summaries : r \in DOMAIN summaries' /\ summaries'[r] = summaries[r]

LEMMA EnvStays ==
  ASSUME sweep'.args = sweep.args, environ' = environ
  PROVE  ServerEnv' = ServerEnv
BY DEF ServerEnv

LEMMA MeasuredStays ==
  ASSUME ProcsInv, sweep \in Sweeps, MeasuredInv(sweep), Keeps, ServerEnv' = ServerEnv,
         sweep'.measured = sweep.measured
  PROVE  MeasuredInv(sweep)'
<1> SUFFICES ASSUME sweep.measured # None
             PROVE  /\ sweep.measured.started.server \in 1..Len(procs')
                    /\ procs'[sweep.measured.started.server].env = ServerEnv
                    /\ \A part \in {"proxy", "server"} :
                          LET p == sweep.measured.answered[part]
                          IN  p # None => /\ p \in 1..Len(procs')
                                          /\ p = sweep.measured.started[part] \/ procs'[p].orphan
  BY DEF MeasuredInv
<1>1. /\ sweep.measured.started.server \in 1..Len(procs)
      /\ procs[sweep.measured.started.server].env = ServerEnv
      /\ \A part \in {"proxy", "server"} :
            LET p == sweep.measured.answered[part]
            IN  p # None => /\ p \in 1..Len(procs)
                            /\ p = sweep.measured.started[part] \/ procs[p].orphan
  BY DEF MeasuredInv
<1>2. Len(procs) \in Nat /\ Len(procs) <= Len(procs') /\ \A p \in 1..Len(procs) : Kept(p)
  BY DEF Keeps, ProcsInv
<1>3. Len(procs') \in Int => \A p \in 1..Len(procs) : p \in 1..Len(procs')
  BY <1>2
<1> QED
  BY <1>1, <1>2, <1>3 DEF Kept

LEMMA QuietStep ==
  ASSUME ProcsInv, ProcsInv', SweepInv, SummariesInv, sweep # None, Quiet, Keeps,
         PlaceInv(sweep)', OwnInv(sweep)'
  PROVE  SweepInv' /\ SummariesInv' /\ Runs
<1>1. /\ sweep \in Sweeps /\ sweep' # None
      /\ PlaceInv(sweep) /\ OwnInv(sweep) /\ EnvironInv(sweep.args)
      /\ MeasuredInv(sweep) /\ DoneInv(sweep) /\ FilesInv(sweep)
  BY SweepAssumption DEF SweepInv, Quiet
<1>2. MeasuredInv(sweep)'
  BY <1>1, EnvStays, MeasuredStays DEF Quiet
<1>3. EnvironInv(sweep.args)' /\ DoneInv(sweep)'
  BY <1>1 DEF Quiet, EnvironInv, DoneInv
<1>4. FilesInv(sweep)'
  BY <1>1 DEF Quiet, FilesInv, Finished
<1>5. SweepInv'
  BY <1>1, <1>2, <1>3, <1>4 DEF SweepInv, Quiet
<1>6. SummariesInv'
  BY <1>1 DEF SummariesInv, Quiet
<1> QED
  BY <1>5, <1>6 DEF Runs, Quiet

-----------------------------------------------------------------------------
\* What the sweep holds stays what it is.
Holdings(s) ==
    /\ s.proc # None =>
          /\ s.proc \in 1..Len(procs) /\ procs[s.proc].port = "server"
          /\ procs[s.proc].env = ServerEnv
    /\ s.proxy # None => s.proxy \in 1..Len(procs) /\ procs[s.proxy].port = "proxy"
    /\ \A p \in 1..Len(procs) : Settled(p) \/ p \in {s.proc, s.proxy}

LEMMA SettledStays ==
  ASSUME Keeps, NEW p \in 1..Len(procs), Settled(p)
  PROVE  Settled(p)'
BY DEF Keeps, Kept, Settled, Dead

LEMMA HoldingsStay ==
  ASSUME ProcsInv, ProcsInv', Stay, sweep # None, Holdings(sweep), ServerEnv' = ServerEnv,
         sweep'.proc = sweep.proc, sweep'.proxy = sweep.proxy
  PROVE  Holdings(sweep)'
<1>1. Len(procs') = Len(procs) /\ \A p \in 1..Len(procs) : Kept(p) /\ (Settled(p) => Settled(p)')
  BY SettledStays DEF Stay, Keeps
<1>2. sweep.proc # None => /\ sweep.proc \in 1..Len(procs') /\ procs'[sweep.proc].port = "server"
                           /\ procs'[sweep.proc].env = ServerEnv
  BY <1>1 DEF Holdings, Kept
<1>3. sweep.proxy # None => sweep.proxy \in 1..Len(procs') /\ procs'[sweep.proxy].port = "proxy"
  BY <1>1 DEF Holdings, Kept
<1>4. \A p \in 1..Len(procs') : Settled(p)' \/ p \in {sweep.proc, sweep.proxy}
  BY <1>1 DEF Holdings
<1> QED
  BY <1>2, <1>3, <1>4 DEF Holdings

\* A step that only moves on.
LEMMA Moves ==
  ASSUME ProcsInv, SweepInv, SummariesInv, sweep # None,
         NEW pc \in SweepPcs \ {"start", "summary", "returned", "raised"},
         NEW why \in {"no", "exception", "interrupt"},
         sweep' = [sweep EXCEPT !.pc = pc, !.raised = why],
         sweep.pc \notin {"start", "returned"}, ProcsInv', Stay,
         UNCHANGED <<clock, environ, csvs, summaries>>,
         PlaceInv(sweep)',
         pc \in {"stop_proxy", "wait_proxy", "proxy_health"} => sweep.proxy # None,
         pc \in {"health", "proxy", "stop", "wait"} => sweep.proxy = None
  PROVE  SweepInv' /\ SummariesInv' /\ Runs
<1>1. sweep \in Sweeps /\ OwnInv(sweep)
  BY DEF SweepInv
<1>2. /\ sweep' \in Sweeps /\ sweep'.pc = pc /\ sweep'.proc = sweep.proc /\ sweep'.proxy = sweep.proxy
      /\ sweep'.args = sweep.args /\ Quiet
  BY <1>1 DEF Sweeps, Quiet
<1>3. Holdings(sweep)'
  BY <1>1, <1>2, HoldingsStay, EnvStays DEF Holdings, OwnInv
<1>4. sweep'.proc # None
  BY <1>1, <1>2 DEF OwnInv
<1>5. OwnInv(sweep)'
  BY <1>2, <1>3, <1>4 DEF OwnInv, Holdings
<1> QED
  BY <1>2, <1>5, QuietStep DEF Stay

LEMMA WaitStep ==
  ASSUME ProcsInv, SweepInv, SummariesInv, sweep # None, WaitHealthy \/ WaitProxyHealthy
  PROVE  ProcsInv' /\ SweepInv' /\ SummariesInv' /\ Runs
<1> DEFINE pc == IF sweep.pc = "health" /\ netem THEN "proxy" ELSE "measure"
<1>1. sweep \in Sweeps /\ PlaceInv(sweep) /\ OwnInv(sweep)
  BY DEF SweepInv
<1>2. /\ sweep.pc \in {"health", "proxy_health"} /\ sweep' = [sweep EXCEPT !.pc = pc]
      /\ UNCHANGED <<procVars, clock, environ, csvs, summaries>>
  BY DEF WaitHealthy, WaitProxyHealthy
<1>3. sweep' = [sweep EXCEPT !.pc = pc, !.raised = sweep.raised]
  BY <1>1, <1>2 DEF Sweeps
<1>5. PlaceInv(sweep)'
  BY <1>1, <1>2 DEF PlaceInv, Sweeps
<1>6. ProcsInv' /\ Stay /\ UNCHANGED <<clock, environ, csvs, summaries>>
  BY <1>2, UnchangedKeep
<1>7. sweep.raised \in {"no", "exception", "interrupt"}
  BY <1>1 DEF Sweeps
<1>8. pc = "proxy" \/ pc = "measure"
  OBVIOUS
<1>9. pc = "proxy" => sweep.proxy = None
  BY <1>1, <1>2 DEF OwnInv
<1> HIDE DEF pc
<1> QED
  BY <1>2, <1>3, <1>5, <1>6, <1>7, <1>8, <1>9, Moves DEF SweepPcs

LEMMA RaiseStep ==
  ASSUME ProcsInv, SweepInv, SummariesInv, sweep # None,
         NEW why \in {"exception", "interrupt"}, Raise(why)
  PROVE  ProcsInv' /\ SweepInv' /\ SummariesInv' /\ Runs
<1> DEFINE pc == IF sweep.proxy # None THEN "stop_proxy" ELSE "stop"
<1>1. sweep \in Sweeps /\ PlaceInv(sweep) /\ OwnInv(sweep)
  BY DEF SweepInv
<1>2. /\ sweep.pc \in {"health", "proxy_health", "measure"}
      /\ sweep' = [sweep EXCEPT !.pc = pc, !.raised = why]
      /\ UNCHANGED <<procVars, clock, environ, csvs, summaries>>
  BY <1>1 DEF Raise, Unwind, Sweeps
<1>3. PlaceInv(sweep)'
  BY <1>1, <1>2 DEF PlaceInv, Sweeps
<1>4. ProcsInv' /\ Stay /\ UNCHANGED <<clock, environ, csvs, summaries>>
  BY <1>2, UnchangedKeep
<1>5. (pc = "stop_proxy" /\ sweep.proxy # None) \/ (pc = "stop" /\ sweep.proxy = None)
  OBVIOUS
<1> HIDE DEF pc
<1> QED
  BY <1>2, <1>3, <1>4, <1>5, Moves DEF SweepPcs

LEMMA SignalStep ==
  ASSUME ProcsInv, SweepInv, SummariesInv, sweep # None, StopProxy \/ StopServer
  PROVE  ProcsInv' /\ SweepInv' /\ SummariesInv' /\ Runs
<1> DEFINE pc == IF sweep.pc = "stop_proxy" THEN "wait_proxy" ELSE "wait"
           p == IF sweep.pc = "stop_proxy" THEN sweep.proxy ELSE sweep.proc
<1>1. sweep \in Sweeps /\ PlaceInv(sweep) /\ OwnInv(sweep)
  BY DEF SweepInv
<1>2. /\ sweep.pc \in {"stop_proxy", "stop"} /\ sweep' = [sweep EXCEPT !.pc = pc] /\ Signal(p)
      /\ UNCHANGED <<clock, environ, csvs, summaries>>
  BY DEF StopProxy, StopServer
<1>3. sweep' = [sweep EXCEPT !.pc = pc, !.raised = sweep.raised]
  BY <1>1, <1>2 DEF Sweeps
<1>4. p \in 1..Len(procs)
  BY <1>1, <1>2 DEF OwnInv
<1>5. PlaceInv(sweep)'
  BY <1>1, <1>2 DEF PlaceInv, Sweeps
<1>6. ProcsInv' /\ Stay
  BY <1>2, <1>4, SignalKeeps
<1>7. sweep.raised \in {"no", "exception", "interrupt"}
  BY <1>1 DEF Sweeps
<1>8. (pc = "wait_proxy" /\ sweep.proxy # None) \/ (pc = "wait" /\ sweep.proxy = None)
  BY <1>1, <1>2 DEF OwnInv
<1> HIDE DEF pc, p
<1> QED
  BY <1>2, <1>3, <1>5, <1>6, <1>7, <1>8, Moves DEF SweepPcs

LEMMA EnvTypes ==
  ASSUME SweepInv, sweep # None
  PROVE  ServerEnv \in Environments /\ config \in CONFIGS
<1>1. sweep \in Sweeps /\ environ \in Environments /\ PlaceInv(sweep)
  BY DEF SweepInv
<1>2. sweep.args \in Calls
  BY <1>1 DEF Sweeps
<1>3. sweep.args.configs \in Seq(CONFIGS) /\ sweep.args.profile \in PAYLOADS /\ sweep.args.auth \in BOOLEAN
  BY <1>2 DEF Calls
<1>4. ServerEnv \in Environments
  BY <1>1, <1>3 DEF ServerEnv, Environments
<1>5. config \in CONFIGS
  BY <1>1, <1>3 DEF config, PlaceInv
<1> QED
  BY <1>4, <1>5

LEMMA StartServerStep ==
  ASSUME ProcsInv, SweepInv, SummariesInv, sweep # None, StartServer
  PROVE  ProcsInv' /\ SweepInv' /\ SummariesInv' /\ Runs
<1>1. sweep \in Sweeps /\ PlaceInv(sweep) /\ OwnInv(sweep)
  BY DEF SweepInv
<1>2. /\ sweep.pc = "start" /\ _start_server("server", config, ServerEnv)
      /\ sweep' = [sweep EXCEPT !.pc = "health", !.proc = Len(procs) + 1]
      /\ UNCHANGED <<clock, environ, csvs, summaries>>
  BY DEF StartServer
<1>3. Len(procs) \in Nat /\ Len(procs) + 1 \in Nat /\ Len(procs) + 1 # None
  BY SweepAssumption DEF ProcsInv
<1>4. /\ ProcsInv' /\ Keeps /\ Len(procs') = Len(procs) + 1
      /\ procs'[Len(procs) + 1].port = "server" /\ procs'[Len(procs) + 1].env = ServerEnv
  <2>1. "server" \in Ports
    BY PortsAssumption
  <2> QED
    BY <1>2, <2>1, EnvTypes, SpawnKeeps
<1>5. /\ sweep' \in Sweeps /\ sweep'.pc = "health" /\ sweep'.proc = Len(procs) + 1
      /\ sweep'.proxy = sweep.proxy /\ Quiet
  <2>1. Len(procs) + 1 \in Nat \cup {None} /\ "health" \in SweepPcs
    BY <1>3 DEF SweepPcs
  <2> QED
    BY <2>1, <1>1, <1>2 DEF Sweeps, Quiet
<1>6. PlaceInv(sweep)'
  BY <1>1, <1>2 DEF PlaceInv, Sweeps
<1>7. ServerEnv' = ServerEnv
  BY <1>5, EnvStays DEF Quiet
<1>8. \A p \in 1..Len(procs') : Settled(p)' \/ p = Len(procs) + 1
  <2>1. \A p \in 1..Len(procs) : Settled(p)'
    BY <1>1, <1>2, <1>4, SettledStays DEF OwnInv
  <2> QED
    BY <2>1, <1>3, <1>4
<1>9. OwnInv(sweep)'
  <2>1. sweep.proxy = None /\ Len(procs) + 1 \in 1..Len(procs')
    BY <1>1, <1>2, <1>3, <1>4 DEF OwnInv
  <2> QED
    BY <2>1, <1>3, <1>4, <1>5, <1>7, <1>8 DEF OwnInv
<1> QED
  BY <1>4, <1>5, <1>6, <1>9, QuietStep

LEMMA StartProxyStep ==
  ASSUME ProcsInv, SweepInv, SummariesInv, sweep # None,
         NEW next \in {"proxy_health", "measure"}, _start_proxy(next)
  PROVE  ProcsInv' /\ SweepInv' /\ SummariesInv' /\ Runs
<1>1. sweep \in Sweeps /\ PlaceInv(sweep) /\ OwnInv(sweep) /\ environ \in Environments
  BY DEF SweepInv
<1>2. /\ sweep.pc = "proxy" /\ _start_server("proxy", "proxy", environ)
      /\ sweep' = [sweep EXCEPT !.pc = next, !.proxy = Len(procs) + 1]
      /\ UNCHANGED <<clock, environ, csvs, summaries>>
  BY DEF _start_proxy
<1>3. Len(procs) \in Nat /\ Len(procs) + 1 \in Nat /\ Len(procs) + 1 # None
  BY SweepAssumption DEF ProcsInv
<1>4. /\ ProcsInv' /\ Keeps /\ Len(procs') = Len(procs) + 1
      /\ procs'[Len(procs) + 1].port = "proxy"
  <2>1. "proxy" \in Ports
    BY PortsAssumption
  <2> QED
    BY <1>1, <1>2, <2>1, SpawnKeeps
<1>5. /\ sweep' \in Sweeps /\ sweep'.pc = next /\ sweep'.proc = sweep.proc
      /\ sweep'.proxy = Len(procs) + 1 /\ Quiet
  <2>1. Len(procs) + 1 \in Nat \cup {None} /\ next \in SweepPcs
    BY <1>3 DEF SweepPcs
  <2> QED
    BY <2>1, <1>1, <1>2 DEF Sweeps, Quiet
<1>6. PlaceInv(sweep)'
  BY <1>1, <1>2 DEF PlaceInv, Sweeps
<1>7. ServerEnv' = ServerEnv
  BY <1>5, EnvStays DEF Quiet
<1>8. \A p \in 1..Len(procs') : Settled(p)' \/ p \in {sweep.proc, Len(procs) + 1}
  <2>1. \A p \in 1..Len(procs) : Settled(p) \/ p = sweep.proc
    BY <1>1, <1>2, <1>3, SweepAssumption DEF OwnInv
  <2>2. \A p \in 1..Len(procs) : Settled(p)' \/ p = sweep.proc
    BY <2>1, <1>4, SettledStays
  <2> QED
    BY <2>2, <1>3, <1>4
<1>9. OwnInv(sweep)'
  <2>1. /\ sweep.proc # None /\ sweep.proc \in 1..Len(procs)
        /\ procs[sweep.proc].port = "server" /\ procs[sweep.proc].env = ServerEnv
    BY <1>1, <1>2 DEF OwnInv
  <2>2. /\ sweep.proc \in 1..Len(procs') /\ procs'[sweep.proc].port = "server"
        /\ procs'[sweep.proc].env = ServerEnv /\ Len(procs) + 1 \in 1..Len(procs')
    BY <2>1, <1>3, <1>4 DEF Keeps, Kept
  <2> QED
    BY <2>1, <2>2, <1>3, <1>4, <1>5, <1>7, <1>8 DEF OwnInv
<1> QED
  BY <1>4, <1>5, <1>6, <1>9, QuietStep

LEMMA ProxyStoppedStep ==
  ASSUME ProcsInv, SweepInv, SummariesInv, sweep # None, ProxyStopped
  PROVE  ProcsInv' /\ SweepInv' /\ SummariesInv' /\ Runs
<1> DEFINE pc == IF sweep.raised = "no" /\ sweep.cell < sweep.args.cells THEN "proxy" ELSE "stop"
<1>1. sweep \in Sweeps /\ PlaceInv(sweep) /\ OwnInv(sweep)
  BY DEF SweepInv
<1>2. /\ sweep.pc = "wait_proxy" /\ Dead(sweep.proxy)
      /\ sweep' = [sweep EXCEPT !.proxy = None, !.pc = pc]
      /\ UNCHANGED <<procVars, clock, environ, csvs, summaries>>
  BY DEF ProxyStopped, Reaped
<1>3. ProcsInv' /\ Stay /\ procs' = procs
  BY <1>2, UnchangedKeep DEF procVars
<1>4. /\ sweep' \in Sweeps /\ sweep'.pc = pc /\ sweep'.proc = sweep.proc /\ sweep'.proxy = None /\ Quiet
  BY <1>1, <1>2 DEF Sweeps, Quiet, SweepPcs
<1>5. PlaceInv(sweep)'
  <2>1. sweep.cell \in 0..sweep.args.cells /\ sweep.args.cells \in Nat
    BY <1>1 DEF PlaceInv, Sweeps, Calls
  <2> QED
    BY <2>1, <1>1, <1>2 DEF PlaceInv, Sweeps
<1>6. ServerEnv' = ServerEnv
  BY <1>4, EnvStays DEF Quiet
<1>7. \A p \in 1..Len(procs) : Settled(p) \/ p = sweep.proc
  BY <1>1, <1>2 DEF OwnInv, Settled
<1>8. OwnInv(sweep)'
  BY <1>1, <1>2, <1>3, <1>4, <1>6, <1>7 DEF OwnInv, Settled, Dead
<1> QED
  BY <1>3, <1>4, <1>5, <1>8, QuietStep DEF Stay

-----------------------------------------------------------------------------
(***************************************************************************)
(* A measurement.                                                          *)
(***************************************************************************)
LEMMA DivisionFacts ==
  ASSUME NEW k \in Nat, k > 0, NEW q \in Nat, NEW r \in 0..(k - 1)
  PROVE  (k * q + r) \div k = q
<1> DEFINE n == k * q + r
           d == n \div k
<1>1. k * q \in Nat /\ n \in Nat
  OBVIOUS
<1>2. d \in Int /\ n = k * d + (n % k) /\ n % k \in 0..(k - 1)
  BY <1>1
<1> DEFINE e == n % k
<1>3. k * q + r = k * d + e /\ e \in 0..(k - 1) /\ d \in Int
  BY <1>2
<1> HIDE DEF n, d, e
<1>4. ~(d < q)
  <2> SUFFICES ASSUME d + 1 <= q PROVE FALSE
    BY <1>3
  <2>1. k * (d + 1) <= k * q
    BY <1>3
  <2>2. k * (d + 1) = k * d + k
    BY <1>3
  <2> QED
    BY <2>1, <2>2, <1>3, <1>1
<1>5. ~(q < d)
  <2> SUFFICES ASSUME q + 1 <= d PROVE FALSE
    BY <1>3
  <2>1. k * (q + 1) <= k * d
    BY <1>3
  <2>2. k * (q + 1) = k * q + k
    BY <1>3
  <2> QED
    BY <2>1, <2>2, <1>3, <1>1
<1> QED
  BY <1>3, <1>4, <1>5 DEF d, n

LEMMA NextCell ==
  ASSUME NEW k \in Nat, NEW a \in Nat, a > 0, NEW c \in Nat, c < k
  PROVE  /\ CellsBefore(k, a, c) \in Nat
         /\ CellsBefore(k, a, c) + 1 = CellsBefore(k, a, c + 1)
         /\ 1 + CellsBefore(k, a, c) \div k = a
<1>1. a - 1 \in Nat /\ c \in 0..(k - 1) /\ k > 0
  OBVIOUS
<1>2. k * (a - 1) \in Nat
  BY <1>1
<1>3. CellsBefore(k, a, c) \div k = a - 1
  BY <1>1, DivisionFacts DEF CellsBefore
<1>4. 1 + (a - 1) = a
  OBVIOUS
<1>5. CellsBefore(k, a, c) \in Nat /\ CellsBefore(k, a, c) + 1 = CellsBefore(k, a, c + 1)
  <2> DEFINE x == k * (a - 1)
  <2> HIDE DEF x
  <2>1. x \in Nat
    BY <1>2 DEF x
  <2>2. x + c \in Nat /\ (x + c) + 1 = x + (c + 1)
    BY <2>1
  <2> QED
    BY <2>2 DEF x, CellsBefore
<1> QED
  BY <1>3, <1>4, <1>5

\* A configuration that is finished is as good as one not yet begun.
LEMMA NextConfig ==
  ASSUME NEW k \in Nat, NEW a \in Nat
  PROVE  CellsBefore(k, a, k) = CellsBefore(k, a + 1, 0)
<1>1. k * ((a + 1) - 1) = k * a /\ k * (a - 1) = k * a - k /\ k * a \in Int
  OBVIOUS
<1> QED
  BY <1>1 DEF CellsBefore

LEMMA MeasureStep ==
  ASSUME ProcsInv, SweepInv, SummariesInv, sweep # None, NEW upto, Measure(upto),
         sweep.args.kind # "threats" /\ sweep.cell + 1 = sweep.args.cells => upto = sweep.args.cells
  PROVE  ProcsInv' /\ SweepInv' /\ SummariesInv' /\ Runs
<1> DEFINE s == [sweep EXCEPT !.cell = @ + 1, !.done = Append(@, config)]
           pc == NextPc(s)
           route == [started |-> [proxy |-> sweep.proxy, server |-> sweep.proc], answered |-> Route]
           cells == sweep.args.cells
           configs == sweep.args.configs
<1>1. /\ sweep \in Sweeps /\ PlaceInv(sweep) /\ OwnInv(sweep) /\ EnvironInv(sweep.args)
      /\ MeasuredInv(sweep) /\ DoneInv(sweep) /\ FilesInv(sweep)
  BY DEF SweepInv
<1>2. /\ sweep.pc = "measure" /\ sweep' = [s EXCEPT !.pc = pc, !.measured = route]
      /\ csvs' = csvs \cup {[run_id |-> sweep.run_id, config |-> config, upto |-> n] : n \in {upto} \ {0}}
      /\ UNCHANGED <<procVars, clock, environ, summaries>>
  BY DEF Measure
<1>3. ProcsInv' /\ Keeps /\ procs' = procs /\ listener' = listener
  BY <1>2, UnchangedKeep DEF procVars, Stay
<1>4. /\ cells \in Nat /\ configs \in Seq(CONFIGS) /\ sweep.cell \in Nat /\ sweep.at \in 1..Len(configs)
      /\ sweep.cell < cells /\ sweep.raised = "no" /\ config \in CONFIGS /\ config = configs[sweep.at]
      /\ sweep.done \in Seq(CONFIGS)
  BY <1>1, <1>2, EnvTypes DEF Sweeps, Calls, PlaceInv, config
<1>5. /\ s \in Sweeps /\ s.cell = sweep.cell + 1 /\ s.done = Append(sweep.done, config)
      /\ s.args = sweep.args /\ s.at = sweep.at /\ s.run_id = sweep.run_id /\ s.raised = sweep.raised
      /\ s.proc = sweep.proc /\ s.proxy = sweep.proxy
  <2>1. sweep.cell + 1 \in Nat /\ Append(sweep.done, config) \in Seq(CONFIGS)
    BY <1>4
  <2> QED
    BY <1>1, <2>1 DEF Sweeps
<1>6. \/ pc = "stop_proxy" /\ sweep.proxy # None /\ (s.cell = cells \/ s.cell < cells)
      \/ pc = "stop" /\ sweep.proxy = None /\ s.cell = cells
      \/ pc = "proxy" /\ sweep.proxy = None /\ s.cell < cells
      \/ pc = "measure" /\ s.cell < cells
  <2>1. s.cell <= cells /\ s.cell \in Nat
    BY <1>4, <1>5
  <2> HIDE DEF s
  <2>2. CASE s.cell = cells
    <3>1. s.args.cells = cells /\ s.proxy = sweep.proxy
      BY <1>5
    <3>2. s.cell = s.args.cells
      BY <2>2, <3>1
    <3>3. ~(s.cell < s.args.cells)
      BY <2>1, <3>2
    <3>4. pc = Unwind(s)
      BY <3>2, <3>3 DEF NextPc
    <3> QED
      BY <2>2, <3>1, <3>4 DEF Unwind
  <2>3. CASE s.cell < cells /\ sweep.args.kind = "threats"
    BY <2>3, <2>1, <1>4, <1>5 DEF NextPc
  <2>4. CASE s.cell < cells /\ sweep.args.kind # "threats"
    BY <2>4, <2>1, <1>4, <1>5 DEF NextPc
  <2> QED
    BY <2>1, <2>2, <2>3, <2>4, <1>4
<1>7. route \in [started: Routes, answered: Routes]
  <2>1. listener["proxy"] \in Nat \cup {None} /\ listener["server"] \in Nat \cup {None}
    BY PortsAssumption DEF ProcsInv
  <2>2. sweep.proxy \in Nat \cup {None} /\ sweep.proc \in Nat \cup {None}
    BY <1>1 DEF Sweeps
  <2> QED
    BY <2>1, <2>2 DEF Routes, Route
<1> HIDE DEF s, pc, route
<1>8. /\ sweep' \in Sweeps /\ sweep' # None /\ sweep'.pc = pc /\ sweep'.measured = route
      /\ sweep'.cell = sweep.cell + 1 /\ sweep'.done = Append(sweep.done, config)
      /\ sweep'.args = sweep.args /\ sweep'.at = sweep.at /\ sweep'.run_id = sweep.run_id
      /\ sweep'.raised = "no" /\ sweep'.proc = sweep.proc /\ sweep'.proxy = sweep.proxy
  <2>1. pc \in SweepPcs
    BY <1>6 DEF SweepPcs
  <2>2. sweep' \in Sweeps
    BY <2>1, <1>2, <1>5, <1>7 DEF Sweeps
  <2> QED
    BY <2>2, <1>2, <1>4, <1>5, SweepAssumption DEF Sweeps
<1>9. PlaceInv(sweep)'
  BY <1>1, <1>4, <1>5, <1>6, <1>8 DEF PlaceInv
<1>10. ServerEnv' = ServerEnv /\ EnvironInv(sweep.args)'
  BY <1>1, <1>2, <1>8, EnvStays DEF EnvironInv
<1>11. OwnInv(sweep)'
  BY <1>1, <1>2, <1>3, <1>6, <1>8, <1>10 DEF OwnInv, Settled, Dead
<1>12. MeasuredInv(sweep)'
  <2>1. sweep.proc # None /\ sweep.proc \in 1..Len(procs) /\ procs[sweep.proc].env = ServerEnv
    BY <1>1, <1>2 DEF OwnInv
  <2>2. /\ route.started.server = sweep.proc /\ route.started.proxy = sweep.proxy
        /\ route.answered.server = listener["server"]
        /\ route.answered.proxy = IF sweep.proxy = None THEN None ELSE listener["proxy"]
    BY DEF route, Route
  <2>3. ASSUME NEW part \in {"proxy", "server"}, route.answered[part] # None
        PROVE  /\ route.answered[part] \in 1..Len(procs)
               /\ route.answered[part] = route.started[part] \/ procs[route.answered[part]].orphan
    <3> DEFINE p == listener[part]
    <3>1. route.answered[part] = p /\ p # None
      BY <2>2, <2>3
    <3>2. p \in 1..Len(procs) /\ procs[p].port = part /\ procs[p].state \in {"listening", "signalled"}
      BY <3>1, PortsAssumption DEF ProcsInv
    <3>3. procs[p].orphan \/ p \in {sweep.proc, sweep.proxy}
      BY <3>2, <1>1 DEF OwnInv, Settled, Dead
    <3>4. p = sweep.proc => part = "server"
      BY <3>2, <1>1, <2>1 DEF OwnInv
    <3>5. p = sweep.proxy => part = "proxy"
      BY <3>1, <3>2, <1>1 DEF OwnInv
    <3> QED
      BY <3>1, <3>2, <3>3, <3>4, <3>5, <2>2
  <2> QED
    BY <2>1, <2>2, <2>3, <1>3, <1>8, <1>10 DEF MeasuredInv
<1>13. DoneInv(sweep)'
  <2> DEFINE L == CellsBefore(cells, sweep.at, sweep.cell)
  <2>1. sweep.at \in Nat /\ sweep.at > 0
    BY <1>4
  <2>2. L \in Nat /\ L + 1 = CellsBefore(cells, sweep.at, sweep.cell + 1) /\ 1 + L \div cells = sweep.at
    BY <2>1, <1>4, NextCell
  <2>3. Len(sweep.done) = L /\ \A i \in 1..Len(sweep.done) : sweep.done[i] = configs[1 + (i - 1) \div cells]
    BY <1>1 DEF DoneInv
  <2>4. Len(Append(sweep.done, config)) = L + 1 /\ Append(sweep.done, config)[L + 1] = config
        /\ \A i \in 1..L : Append(sweep.done, config)[i] = sweep.done[i]
    BY <2>3, <1>4
  <2> HIDE DEF L
  <2>5. (L + 1) - 1 = L /\ \A i \in 1..(L + 1) : i \in 1..L \/ i = L + 1
    BY <2>2
  <2>6. config = configs[1 + ((L + 1) - 1) \div cells]
    BY <2>2, <2>5, <1>4
  <2>7. \A i \in 1..(L + 1) : Append(sweep.done, config)[i] = configs[1 + (i - 1) \div cells]
    BY <2>3, <2>4, <2>5, <2>6
  <2> QED
    BY <2>2, <2>4, <2>7, <1>8 DEF DoneInv
<1>14. FilesInv(sweep)'
  <2> SUFFICES ASSUME sweep.args.kind # "threats", NEW j \in 1..Len(configs), Finished(sweep', j)
               PROVE  [run_id |-> sweep.run_id, config |-> configs[j], upto |-> Cells] \in csvs'
    BY <1>8 DEF FilesInv
  <2>1. CASE j < sweep.at
    BY <2>1, <1>1, <1>2 DEF FilesInv, Finished
  <2>2. CASE j = sweep.at /\ sweep.cell + 1 = cells
    <3>1. upto = Cells /\ cells = Cells /\ upto # 0
      BY <2>2, <1>1, PaperAssumption DEF PlaceInv, SweepCall
    <3> QED
      BY <3>1, <2>2, <1>2, <1>4
  <2> QED
    BY <2>1, <2>2, <1>8 DEF Finished
<1>15. SweepInv'
  BY <1>2, <1>8, <1>9, <1>10, <1>11, <1>12, <1>13, <1>14 DEF SweepInv
<1>16. SummariesInv'
  <2>1. pc \notin {"summary", "returned"}
    BY <1>6
  <2> QED
    BY <2>1, <1>2, <1>8 DEF SummariesInv
<1>17. Runs
  BY <1>2, <1>8 DEF Runs
<1> QED
  BY <1>3, <1>15, <1>16, <1>17

LEMMA MeasureSteps ==
  ASSUME ProcsInv, SweepInv, SummariesInv, sweep # None,
         MeasureCell \/ MeasureTransaction \/ MeasureThreat
  PROVE  ProcsInv' /\ SweepInv' /\ SummariesInv' /\ Runs
<1>1. CASE MeasureCell
  BY <1>1, MeasureStep DEF MeasureCell
<1>2. CASE MeasureTransaction
  BY <1>2, MeasureStep DEF MeasureTransaction
<1>3. CASE MeasureThreat
  BY <1>3, MeasureStep DEF MeasureThreat
<1> QED
  BY <1>1, <1>2, <1>3

-----------------------------------------------------------------------------
(***************************************************************************)
(* The end of a configuration, and of the sweep.                           *)
(***************************************************************************)
LEMMA ServerStoppedStep ==
  ASSUME ProcsInv, SweepInv, SummariesInv, sweep # None, ServerStopped
  PROVE  ProcsInv' /\ SweepInv' /\ SummariesInv' /\ Runs
<1>1. /\ sweep \in Sweeps /\ PlaceInv(sweep) /\ OwnInv(sweep) /\ EnvironInv(sweep.args)
      /\ MeasuredInv(sweep) /\ DoneInv(sweep) /\ FilesInv(sweep) /\ clock \in Nat
  BY DEF SweepInv
<1>2. /\ sweep.pc = "wait" /\ Dead(sweep.proc) /\ clock' = clock + 1
      /\ UNCHANGED <<procVars, environ, csvs, summaries>>
  BY DEF ServerStopped, Reaped, Pause
<1>3. /\ ProcsInv' /\ Keeps /\ procs' = procs
  BY <1>2, UnchangedKeep DEF procVars, Stay
<1>4. /\ sweep.args.cells \in Nat /\ sweep.args.cells > 0 /\ sweep.at \in Nat
      /\ sweep.at <= Len(sweep.args.configs) /\ Len(sweep.args.configs) \in Nat
      /\ sweep.raised = "no" => sweep.cell = sweep.args.cells
  BY <1>1, <1>2 DEF Sweeps, Calls, PlaceInv, SweepCall
<1>5. \A p \in 1..Len(procs) : Settled(p)
  <2>1. sweep.proxy = None /\ Len(procs) \in Nat
    BY <1>1, <1>2 DEF OwnInv, ProcsInv
  <2>2. \A p \in 1..Len(procs) : p # None
    BY <2>1, SweepAssumption
  <2> QED
    BY <2>1, <2>2, <1>1, <1>2 DEF OwnInv, Settled
<1>6. \/ sweep.raised # "no" /\ sweep' = [sweep EXCEPT !.pc = "raised"]
      \/ /\ sweep.raised = "no" /\ sweep.at < Len(sweep.args.configs)
         /\ sweep' = [sweep EXCEPT !.pc = "start", !.at = @ + 1, !.cell = 0]
      \/ /\ sweep.raised = "no" /\ ~(sweep.at < Len(sweep.args.configs))
         /\ sweep' = [sweep EXCEPT !.pc = "summary"]
  BY <1>4 DEF ServerStopped, MoreConfigs
<1>7. /\ sweep' \in Sweeps /\ sweep' # None /\ sweep'.args = sweep.args /\ sweep'.run_id = sweep.run_id
      /\ sweep'.done = sweep.done /\ sweep'.measured = sweep.measured
      /\ sweep'.proc = sweep.proc /\ sweep'.proxy = sweep.proxy /\ sweep'.raised = sweep.raised
      /\ \/ sweep.raised # "no" /\ sweep'.pc = "raised" /\ sweep'.at = sweep.at /\ sweep'.cell = sweep.cell
         \/ /\ sweep.raised = "no" /\ sweep'.pc = "start" /\ sweep'.at = sweep.at + 1 /\ sweep'.cell = 0
            /\ sweep.at < Len(sweep.args.configs)
         \/ /\ sweep.raised = "no" /\ sweep'.pc = "summary" /\ sweep'.at = sweep.at
            /\ sweep'.cell = sweep.cell /\ sweep.at = Len(sweep.args.configs)
  <2>1. {"raised", "start", "summary"} \subseteq SweepPcs /\ sweep.at + 1 \in Nat /\ 0 \in Nat
    BY <1>4 DEF SweepPcs
  <2>2. sweep' \in Sweeps
    BY <2>1, <1>1, <1>6 DEF Sweeps
  <2>3. /\ sweep'.args = sweep.args /\ sweep'.run_id = sweep.run_id
        /\ sweep'.done = sweep.done /\ sweep'.measured = sweep.measured
        /\ sweep'.proc = sweep.proc /\ sweep'.proxy = sweep.proxy /\ sweep'.raised = sweep.raised
    BY <1>1, <1>6 DEF Sweeps
  <2>4. ~(sweep.at < Len(sweep.args.configs)) => sweep.at = Len(sweep.args.configs)
    BY <1>4
  <2>5. \/ sweep.raised # "no" /\ sweep'.pc = "raised" /\ sweep'.at = sweep.at /\ sweep'.cell = sweep.cell
        \/ /\ sweep.raised = "no" /\ sweep'.pc = "start" /\ sweep'.at = sweep.at + 1 /\ sweep'.cell = 0
           /\ sweep.at < Len(sweep.args.configs)
        \/ /\ sweep.raised = "no" /\ sweep'.pc = "summary" /\ sweep'.at = sweep.at
           /\ sweep'.cell = sweep.cell /\ sweep.at = Len(sweep.args.configs)
    BY <2>4, <1>1, <1>6 DEF Sweeps
  <2> QED
    BY <2>2, <2>3, <2>5, SweepAssumption
<1>8. PlaceInv(sweep)'
  BY <1>1, <1>4, <1>7 DEF PlaceInv
<1>9. ServerEnv' = ServerEnv /\ EnvironInv(sweep.args)'
  BY <1>1, <1>2, <1>7, EnvStays DEF EnvironInv
<1>10. OwnInv(sweep)'
  <2>1. \A p \in 1..Len(procs') : Settled(p)'
    BY <1>3, <1>5 DEF Settled, Dead
  <2> QED
    BY <2>1, <1>1, <1>2, <1>3, <1>7, <1>9 DEF OwnInv
<1>11. MeasuredInv(sweep)'
  BY <1>1, <1>3, <1>7, <1>9, MeasuredStays
<1>12. DoneInv(sweep)'
  <2>1. CellsBefore(sweep.args.cells, sweep.at, sweep.args.cells) = CellsBefore(sweep.args.cells, sweep.at + 1, 0)
    BY <1>4, NextConfig
  <2> QED
    BY <2>1, <1>1, <1>4, <1>7 DEF DoneInv
<1>13. FilesInv(sweep)'
  <2>1. \A j \in 1..Len(sweep.args.configs) : Finished(sweep', j) => Finished(sweep, j)
    BY <1>4, <1>7 DEF Finished
  <2> QED
    BY <2>1, <1>1, <1>2, <1>7 DEF FilesInv
<1>14. SweepInv'
  BY <1>1, <1>2, <1>7, <1>8, <1>9, <1>10, <1>11, <1>12, <1>13 DEF SweepInv
<1>15. SummariesInv'
  <2>1. sweep.run_id \in Nat
    BY <1>1 DEF Sweeps
  <2> QED
    BY <2>1, <1>1, <1>2, <1>7 DEF SummariesInv
<1> QED
  BY <1>2, <1>3, <1>7, <1>14, <1>15 DEF Runs

LEMMA WriteSummaryStep ==
  ASSUME ProcsInv, SweepInv, SummariesInv, sweep # None, WriteSummary
  PROVE  ProcsInv' /\ SweepInv' /\ SummariesInv' /\ Runs
<1> DEFINE cells == sweep.args.cells
           configs == sweep.args.configs
<1>1. /\ sweep \in Sweeps /\ PlaceInv(sweep) /\ OwnInv(sweep) /\ EnvironInv(sweep.args)
      /\ MeasuredInv(sweep) /\ DoneInv(sweep) /\ FilesInv(sweep)
  BY DEF SweepInv
<1>2. /\ sweep.pc = "summary" /\ sweep' = [sweep EXCEPT !.pc = "returned"]
      /\ UNCHANGED <<procVars, clock, environ, csvs>>
  BY DEF WriteSummary
<1>3. ProcsInv' /\ Keeps /\ procs' = procs
  BY <1>2, UnchangedKeep DEF procVars, Stay
<1>4. /\ sweep' \in Sweeps /\ sweep' # None /\ sweep'.pc = "returned"
      /\ sweep'.args = sweep.args /\ sweep'.at = sweep.at /\ sweep'.cell = sweep.cell
      /\ sweep'.run_id = sweep.run_id /\ sweep'.done = sweep.done /\ sweep'.measured = sweep.measured
      /\ sweep'.proc = sweep.proc /\ sweep'.proxy = sweep.proxy /\ sweep'.raised = sweep.raised
  <2>1. "returned" \in SweepPcs
    BY DEF SweepPcs
  <2>2. sweep' \in Sweeps
    BY <2>1, <1>1, <1>2 DEF Sweeps
  <2> QED
    BY <2>2, <1>1, <1>2, SweepAssumption DEF Sweeps
<1>5. PlaceInv(sweep)'
  BY <1>1, <1>2, <1>4 DEF PlaceInv
<1>6. ServerEnv' = ServerEnv /\ EnvironInv(sweep.args)'
  BY <1>1, <1>2, <1>4, EnvStays DEF EnvironInv
<1>7. OwnInv(sweep)'
  BY <1>1, <1>2, <1>3, <1>4, <1>6 DEF OwnInv, Settled, Dead
<1>8. MeasuredInv(sweep)'
  BY <1>1, <1>3, <1>4, <1>6, MeasuredStays
<1>9. DoneInv(sweep)' /\ FilesInv(sweep)'
  BY <1>1, <1>2, <1>4 DEF DoneInv, FilesInv, Finished
<1>10. SweepInv'
  BY <1>2, <1>4, <1>5, <1>6, <1>7, <1>8, <1>9 DEF SweepInv
<1>11. CASE sweep.args.kind = "threats"
  <2>1. summaries' = summaries
    BY <1>11 DEF WriteSummary
  <2>2. SummariesInv'
    BY <2>1, <1>2, <1>4, <1>11 DEF SummariesInv
  <2> QED
    BY <2>1, <2>2, <1>2, <1>3, <1>4, <1>10 DEF Runs
<1>12. CASE sweep.args.kind # "threats"
  <2>1. summaries' = [r \in DOMAIN summaries \cup {sweep.run_id} |->
                        IF r = sweep.run_id THEN [args |-> sweep.args, cells |-> sweep.done] ELSE summaries[r]]
    BY <1>12 DEF WriteSummary
  <2>2. sweep.run_id \in Nat /\ sweep.run_id < clock /\ \A r \in DOMAIN summaries : r \in Nat /\ r < sweep.run_id
    BY <1>1, <1>2 DEF SummariesInv, Sweeps
  <2>3. \A r \in DOMAIN summaries : r # sweep.run_id
    BY <2>2
  <2>4. /\ DOMAIN summaries' = DOMAIN summaries \cup {sweep.run_id}
        /\ summaries'[sweep.run_id].args = sweep.args /\ summaries'[sweep.run_id].cells = sweep.done
        /\ \A r \in DOMAIN summaries : summaries'[r] = summaries[r]
    BY <2>1, <2>3
  <2>5. Complete(sweep.args, sweep.done)
    <3>1. /\ cells \in Nat /\ configs \in Seq(CONFIGS) /\ sweep.done \in Seq(CONFIGS)
          /\ sweep.at = Len(configs) /\ sweep.cell = cells
      BY <1>1, <1>2 DEF Sweeps, Calls, PlaceInv
    <3>2. CellsBefore(cells, Len(configs), cells) = cells * Len(configs)
      <4> DEFINE a == Len(configs)
                 k == cells
      <4>1. a \in Nat /\ k \in Nat
        BY <3>1
      <4> HIDE DEF a, k
      <4>2. k * (a - 1) = k * a - k /\ k * a \in Int
        BY <4>1
      <4>3. k * (a - 1) + k = k * a
        BY <4>1, <4>2
      <4> QED
        BY <4>3 DEF CellsBefore, a, k
    <3>3. Len(sweep.done) = cells * Len(configs)
      BY <3>1, <3>2, <1>1 DEF DoneInv
    <3>4. \A i \in DOMAIN sweep.done : sweep.done[i] = configs[1 + (i - 1) \div cells]
      BY <3>1, <1>1 DEF DoneInv
    <3> QED
      BY <3>3, <3>4 DEF Complete
  <2>6. \A c \in ToSet(configs) : [run_id |-> sweep.run_id, config |-> c, upto |-> Cells] \in csvs
    <3>1. configs \in Seq(CONFIGS) /\ sweep.at = Len(configs) /\ sweep.cell = cells
      BY <1>1, <1>2 DEF Sweeps, Calls, PlaceInv
    <3>2. \A j \in 1..Len(configs) : Finished(sweep, j)
      BY <3>1 DEF Finished
    <3>3. \A j \in 1..Len(configs) : [run_id |-> sweep.run_id, config |-> configs[j], upto |-> Cells] \in csvs
      BY <3>2, <1>1, <1>12 DEF FilesInv
    <3> QED
      BY <3>1, <3>3 DEF ToSet
  <2>7. RunOK(sweep.args, sweep.run_id)'
    BY <2>4, <2>5, <2>6, <1>2, <1>4 DEF RunOK, RunIn, Complete
  <2>8. SummariesInv'
    BY <2>2, <2>4, <2>7, <1>2, <1>4 DEF SummariesInv
  <2> QED
    BY <2>4, <2>8, <1>2, <1>3, <1>4, <1>10 DEF Runs
<1> QED
  BY <1>11, <1>12

LEMMA SweepSteps ==
  ASSUME ProcsInv, SweepInv, SummariesInv, SweepStep
  PROVE  ProcsInv' /\ SweepInv' /\ SummariesInv' /\ Runs /\ sweep # None
<1>1. CASE StartNetemProxy \/ StartMitmHarness
  BY <1>1, StartProxyStep DEF StartNetemProxy, StartMitmHarness, SweepStep
<1> QED
  BY <1>1, StartServerStep, WaitStep, MeasureSteps, RaiseStep, SignalStep, ProxyStoppedStep,
     ServerStoppedStep, WriteSummaryStep DEF SweepStep

LEMMA OSSteps ==
  ASSUME ProcsInv, SweepInv, SummariesInv, OSStep
  PROVE  /\ ProcsInv' /\ SweepInv' /\ SummariesInv'
         /\ UNCHANGED <<clock, environ, sweep, csvs, summaries>>
<1>1. UNCHANGED <<clock, environ, sweep, csvs, summaries>>
  BY DEF OSStep
<1>2. ProcsInv' /\ Stay
  BY ProcessStepKeeps DEF OSStep
<1>3. SummariesInv'
  BY <1>1 DEF SummariesInv, RunOK
<1>4. CASE sweep = None
  <2>1. \A p \in 1..Len(procs') : Settled(p)'
    BY <1>2, <1>4, SettledStays DEF SweepInv, Stay
  <2> QED
    BY <2>1, <1>1, <1>2, <1>3, <1>4 DEF SweepInv
<1>5. CASE sweep # None
  <2>1. /\ sweep \in Sweeps /\ PlaceInv(sweep) /\ OwnInv(sweep) /\ EnvironInv(sweep.args)
        /\ MeasuredInv(sweep) /\ DoneInv(sweep) /\ FilesInv(sweep)
    BY <1>5 DEF SweepInv
  <2>2. ServerEnv' = ServerEnv
    BY <1>1 DEF ServerEnv
  <2>3. MeasuredInv(sweep)'
    BY <2>1, <2>2, <1>1, <1>2, MeasuredStays DEF Stay
  <2>4. Holdings(sweep)'
    BY <2>1, <2>2, <1>1, <1>2, <1>5, HoldingsStay DEF OwnInv, Holdings
  <2>5. sweep.pc \in {"start", "summary", "returned", "raised"} => \A p \in 1..Len(procs') : Settled(p)'
    BY <2>1, <1>2, SettledStays DEF OwnInv, Stay
  <2>6. OwnInv(sweep)'
    BY <2>1, <2>4, <2>5, <1>1 DEF OwnInv, Holdings
  <2>7. PlaceInv(sweep)' /\ EnvironInv(sweep.args)' /\ DoneInv(sweep)' /\ FilesInv(sweep)'
    BY <2>1, <1>1 DEF PlaceInv, EnvironInv, DoneInv, FilesInv, Finished
  <2> QED
    BY <2>1, <2>3, <2>6, <2>7, <1>1, <1>2, <1>3, <1>5 DEF SweepInv
<1> QED
  BY <1>4, <1>5

-----------------------------------------------------------------------------
(***************************************************************************)
(* The invocation: the manifest, and the calls still to be made.           *)
(***************************************************************************)
Grows ==
    /\ csvs \subseteq csvs'
    /\ \A r \in DOMAIN summaries : r \in DOMAIN summaries' /\ summaries'[r] = summaries[r]

LEMMA RunStays ==
  ASSUME Grows
  PROVE  \A args, run_id : RunIn(summaries, csvs, args, run_id) => RunIn(summaries', csvs', args, run_id)
BY DEF Grows, RunIn

LEMMA ListedStays ==
  ASSUME Grows
  PROVE  \A n, list : ListedIn(summaries, csvs, n, list) => ListedIn(summaries', csvs', n, list)
BY RunStays DEF ListedIn

LEMMA SoundStays ==
  ASSUME Grows
  PROVE  \A runs : SoundIn(summaries, csvs, runs) => SoundIn(summaries', csvs', runs)
BY ListedStays DEF SoundIn

LEMMA Standing ==
  ASSUME MainInv
  PROVE  InStep => /\ CurrentStep \in 1..21 /\ main.calls \in Seq(Calls)
                   /\ Step(CurrentStep) /\ Made(CurrentStep) \in Nat
<1> SUFFICES ASSUME InStep PROVE /\ CurrentStep \in 1..21 /\ main.calls \in Seq(Calls)
                                 /\ Step(CurrentStep) /\ Made(CurrentStep) \in Nat
  OBVIOUS
<1>1. main.steps \in Seq(1..21) /\ main.steps # <<>> /\ main.calls \in Seq(Calls) /\ CallsInv(CurrentStep)
  BY DEF MainInv, Mains
<1>2. CurrentStep \in 1..21
  BY <1>1 DEF CurrentStep
<1>3. Step(CurrentStep)
  BY <1>2, EveryStep
<1> QED
  BY <1>1, <1>2, <1>3 DEF Step, CallsInv, Made

\* The steps of the sweep and of the system leave the invocation where it is.
LEMMA MainStays ==
  ASSUME MainInv, UNCHANGED mainVars, Grows,
         (sweep' = None) <=> (sweep = None), sweep # None => sweep'.args = sweep.args
  PROVE  MainInv'
<1>1. UNCHANGED <<main, m, manifest>>
  BY DEF mainVars
<1>2. SoundIn(summaries', csvs', m.runs)
  BY SoundStays DEF MainInv, Sound
<1>3. manifest \notin {Absent, Corrupt} => SoundIn(summaries', csvs', manifest.runs)
  BY SoundStays DEF MainInv, Sound
<1>4. (InStep)' <=> InStep
  BY <1>1 DEF InStep
<1>5. CurrentStep' = CurrentStep
  BY <1>1 DEF CurrentStep
<1>6. InStep => main'.steps # <<>> /\ CallsInv(CurrentStep)'
  BY <1>1, <1>5 DEF MainInv, CallsInv, Made, CurrentStep
<1>7. InStep => ListInv(CurrentStep)'
  BY <1>1, <1>5, ListedStays DEF MainInv, ListInv, Made, CurrentStep
<1> QED
  BY <1>1, <1>2, <1>3, <1>4, <1>6, <1>7 DEF MainInv, Sound

\* The rest of the state is left alone.
LEMMA SweepVarsStay ==
  ASSUME ProcsInv, SweepInv, SummariesInv, UNCHANGED sweepVars
  PROVE  ProcsInv' /\ SweepInv' /\ SummariesInv' /\ Grows
<1>1. UNCHANGED <<procs, listener, clock, environ, sweep, csvs, summaries>>
  BY DEF sweepVars, procVars
<1>2. ProcsInv' /\ Grows
  BY <1>1 DEF ProcsInv, Grows
<1>3. SummariesInv'
  BY <1>1 DEF SummariesInv, RunOK
<1>4. SweepInv'
  BY <1>1 DEF SweepInv, PlaceInv, OwnInv, EnvironInv, MeasuredInv, DoneInv, FilesInv, Finished,
     Settled, Dead, ServerEnv
<1> QED
  BY <1>2, <1>3, <1>4

LEMMA SaveStep ==
  ASSUME PaperInv, Truncate \/ Write
  PROVE  PaperInv'
<1>1. UNCHANGED sweepVars /\ m' = m
  BY DEF Truncate, Write
<1>2. ProcsInv' /\ SweepInv' /\ SummariesInv' /\ sweep' = sweep /\ csvs' = csvs /\ summaries' = summaries
  BY <1>1, SweepVarsStay DEF PaperInv, sweepVars
<1>3. main \in Mains /\ m \in Manifests /\ MainInv
  BY DEF PaperInv, MainInv
<1>4. manifest' = Corrupt \/ manifest' = m
  BY DEF Truncate, Write
<1>5. /\ main' \in Mains /\ main'.steps = main.steps /\ main'.calls = main.calls
      /\ main'.pc # "in_call" /\ main.pc # "in_call"
      /\ InStep' => InStep
  <2>1. CASE Truncate
    BY <2>1, <1>3 DEF Truncate, Mains, MainPcs, InStep
  <2>2. CASE Write
    <3>1. main.next \in {"idle", "steps", "call"}
      BY <1>3 DEF Mains
    <3> QED
      BY <2>2, <3>1, <1>3 DEF Write, Mains, MainPcs, InStep
  <2> QED
    BY <2>1, <2>2
<1>6. CurrentStep' = CurrentStep
  BY <1>5 DEF CurrentStep
<1>7. InStep' => main'.steps # <<>> /\ CallsInv(CurrentStep)' /\ ListInv(CurrentStep)'
  BY <1>1, <1>2, <1>3, <1>5, <1>6 DEF MainInv, CallsInv, ListInv, Made, CurrentStep
<1>8. MainInv'
  BY <1>1, <1>2, <1>3, <1>4, <1>5, <1>7 DEF MainInv, Sound
<1> QED
  BY <1>2, <1>8 DEF PaperInv

LEMMA InvokeStep ==
  ASSUME PaperInv, NEW plan \in Plans, Invoke(plan)
  PROVE  PaperInv'
<1>1. /\ main.pc = "idle" /\ manifest # Corrupt
      /\ m' = IF manifest = Absent THEN NoManifest ELSE manifest
      /\ main' = Saving("steps", [Idle EXCEPT !.steps = plan])
      /\ environ' = FreshEnviron
      /\ UNCHANGED <<procVars, clock, sweep, csvs, summaries, manifest>>
  BY DEF Invoke
<1>2. sweep = None /\ sweep' = None
  BY <1>1 DEF PaperInv, MainInv
<1>3. ProcsInv' /\ procs' = procs
  BY <1>1, UnchangedKeep DEF PaperInv, procVars
<1>4. SweepInv'
  BY <1>1, <1>2, <1>3 DEF PaperInv, SweepInv, FreshEnviron, Environments, PAYLOADS, Settled, Dead
<1>5. SummariesInv'
  BY <1>1, <1>2 DEF PaperInv, SummariesInv
<1>6. /\ main' \in Mains /\ main'.pc = "truncate" /\ main'.next = "steps" /\ ~InStep'
  <2>1. plan \in Seq(1..21)
    BY PaperAssumption
  <2>2. Idle \in Mains
    BY DEF Idle, Mains, MainPcs
  <2>3. [Idle EXCEPT !.steps = plan] \in Mains
    BY <2>1, <2>2 DEF Mains
  <2> QED
    BY <1>1, <2>3 DEF Saving, Mains, MainPcs, InStep
<1>7. m' \in Manifests /\ SoundIn(summaries, csvs, m'.runs)
  <2>1. NoManifest \in Manifests /\ SoundIn(summaries, csvs, NoManifest.runs)
    BY DEF NoManifest, Manifests, SoundIn
  <2> QED
    BY <2>1, <1>1 DEF PaperInv, MainInv, Sound
<1>8. manifest' \notin {Absent, Corrupt} => manifest' \in Manifests /\ Sound(manifest.runs)'
  BY <1>1 DEF PaperInv, MainInv, Sound
<1>9. MainInv'
  BY <1>1, <1>2, <1>6, <1>7, <1>8 DEF MainInv, Sound
<1> QED
  BY <1>3, <1>4, <1>5, <1>9 DEF PaperInv

LEMMA BeginStepStep ==
  ASSUME PaperInv, BeginStep
  PROVE  PaperInv'
<1> DEFINE n == CurrentStep
<1>1. /\ main.pc = "steps" /\ main.steps # <<>>
      /\ main' = [main EXCEPT !.pc = "call", !.calls = STEPS[n]]
      /\ m' = IF n \in DOMAIN ListKey THEN [m EXCEPT !.runs[KeyOf[n]] = <<>>] ELSE m
      /\ UNCHANGED <<sweepVars, manifest>>
  BY DEF BeginStep
<1>2. ProcsInv' /\ SweepInv' /\ SummariesInv' /\ sweep' = sweep /\ csvs' = csvs /\ summaries' = summaries
  BY <1>1, SweepVarsStay DEF PaperInv, sweepVars
<1>3. main \in Mains /\ m \in Manifests /\ MainInv /\ sweep = None
  BY <1>1 DEF PaperInv, MainInv
<1>4. n \in 1..21
  BY <1>1, <1>3 DEF Mains, CurrentStep
<1>5. STEPS[n] \in Seq(Calls)
  BY <1>4, EveryStep DEF Step
<1>6. /\ main' \in Mains /\ main'.pc = "call" /\ main'.steps = main.steps /\ main'.calls = STEPS[n]
  BY <1>1, <1>3, <1>5 DEF Mains, MainPcs
<1>7. CurrentStep' = n
  BY <1>6 DEF CurrentStep
<1>8. n \in DOMAIN ListKey => KeyOf[n] \in Keys
  BY KeyNumbers DEF Keys
<1>9. /\ m' \in Manifests
      /\ n \in DOMAIN ListKey => m'.runs[KeyOf[n]] = <<>>
      /\ \A key \in Keys : m'.runs[key] = m.runs[key] \/ m'.runs[key] = <<>>
  <2>1. CASE n \in DOMAIN ListKey
    <3>1. m' = [m EXCEPT !.runs = [m.runs EXCEPT ![KeyOf[n]] = <<>>]]
      BY <2>1, <1>1, <1>3
    <3>2. m.runs \in [Keys -> Seq(Nat)] /\ <<>> \in Seq(Nat)
      BY <1>3 DEF Manifests
    <3>3. [m.runs EXCEPT ![KeyOf[n]] = <<>>] \in [Keys -> Seq(Nat)]
      BY <3>2, <1>8, <2>1
    <3>4. m' \in Manifests /\ m'.runs = [m.runs EXCEPT ![KeyOf[n]] = <<>>]
      BY <3>1, <3>3, <1>3 DEF Manifests
    <3> QED
      BY <3>2, <3>4, <1>8, <2>1
  <2>2. CASE n \notin DOMAIN ListKey
    BY <2>2, <1>1, <1>3
  <2> QED
    BY <2>1, <2>2
<1>10. SoundIn(summaries, csvs, m'.runs)
  BY <1>3, <1>9 DEF MainInv, Sound, SoundIn
<1>11. CallsInv(CurrentStep)'
  BY <1>5, <1>6, <1>7 DEF CallsInv, Made
<1>12. ListInv(CurrentStep)'
  <2>1. Made(CurrentStep)' = 0
    <3>1. Len(STEPS[n]) - Len(STEPS[n]) = 0
      BY <1>5
    <3> QED
      BY <3>1, <1>6, <1>7 DEF Made
  <2>2. Len(<<>>) = 0 /\ \A written, files, k : ListedIn(written, files, k, <<>>)
    BY DEF ListedIn
  <2> QED
    BY <2>1, <2>2, <1>7, <1>9 DEF ListInv
<1>13. MainInv'
  BY <1>1, <1>2, <1>3, <1>6, <1>9, <1>10, <1>11, <1>12 DEF MainInv, Sound
<1> QED
  BY <1>2, <1>13 DEF PaperInv

LEMMA Countdown ==
  ASSUME NEW a \in Nat, NEW b \in Nat, b >= 1, a - b \in Nat
  PROVE  a - b < a /\ (a - b) + 1 \in 1..a /\ a - (b - 1) = (a - b) + 1 /\ b - 1 <= a
OBVIOUS

\* The call under way is the next of the step's.
LEMMA CurrentCall ==
  ASSUME MainInv, InStep, main.calls # <<>>
  PROVE  LET n == CurrentStep IN
         /\ n \in 1..21 /\ Len(STEPS[n]) \in Nat /\ main.calls \in Seq(Calls)
         /\ Made(n) \in Nat /\ Made(n) < Len(STEPS[n])
         /\ Head(main.calls) = STEPS[n][Made(n) + 1]
         /\ CallOK(n, Head(main.calls))
<1> DEFINE n == CurrentStep
<1>1. /\ n \in 1..21 /\ main.calls \in Seq(Calls) /\ Step(n) /\ Made(n) \in Nat /\ CallsInv(n)
  BY Standing DEF MainInv
<1>2. /\ Len(main.calls) \in Nat /\ Len(main.calls) >= 1 /\ Len(STEPS[n]) \in Nat
      /\ Head(main.calls) = main.calls[1]
  BY <1>1 DEF Step
<1>3. Made(n) < Len(STEPS[n]) /\ Made(n) + 1 \in 1..Len(STEPS[n])
  BY <1>1, <1>2, Countdown DEF Made
<1>4. Head(main.calls) = STEPS[n][Made(n) + 1]
  BY <1>1, <1>2 DEF CallsInv
<1> QED
  BY <1>1, <1>2, <1>3, <1>4 DEF Step

LEMMA BeginCallStep ==
  ASSUME PaperInv, BeginCall
  PROVE  PaperInv'
<1> DEFINE args == Head(main.calls)
           env == _llama_env(args)
           new == [args |-> args, pc |-> "start", at |-> 1, cell |-> 0, run_id |-> clock,
                   proc |-> None, proxy |-> None, raised |-> "no", done |-> <<>>, measured |-> None]
<1>1. /\ main.pc = "call" /\ main.calls # <<>> /\ args.kind # "command"
      /\ sweep' = new /\ environ' = EnvironAfter(args, env)
      /\ UNCHANGED <<procVars, clock, csvs, summaries>>
      /\ main' = [main EXCEPT !.pc = "in_call"] /\ UNCHANGED <<m, manifest>>
  BY DEF BeginCall, Call
<1>2. /\ main \in Mains /\ MainInv /\ sweep = None /\ InStep /\ ProcsInv /\ SweepInv /\ SummariesInv
  BY <1>1 DEF PaperInv, MainInv, InStep
<1>3. args \in Calls /\ SweepCall(args)
  BY <1>1, <1>2, CurrentCall DEF CallOK
<1> HIDE DEF args
<1>4. args.configs \in Seq(CONFIGS) /\ args.cells \in Nat /\ args.profile \in PAYLOADS
      /\ args.kind \in {"concurrency", "streaming", "threats", "command"}
  BY <1>3 DEF Calls
<1>5. clock \in Nat /\ environ \in Environments /\ ~environ.auth
  BY <1>2 DEF SweepInv
<1>6. /\ sweep' \in Sweeps /\ sweep' # None /\ sweep'.args = args /\ sweep'.pc = "start" /\ sweep'.at = 1
      /\ sweep'.cell = 0 /\ sweep'.run_id = clock /\ sweep'.proc = None /\ sweep'.proxy = None
      /\ sweep'.raised = "no" /\ sweep'.done = <<>> /\ sweep'.measured = None
  <2>1. new \in Sweeps
    BY <1>3, <1>5 DEF Sweeps, SweepPcs
  <2> QED
    BY <2>1, <1>1, SweepAssumption
<1> HIDE DEF new
<1>7. /\ environ' \in Environments /\ ~environ'.auth
      /\ args.kind = "concurrency" => environ'.profile = args.profile
      /\ args.kind = "streaming" => environ'.backend = "llama_cpp"
  <2>1. env \in Environments /\ ~env.auth /\ (args.kind = "streaming" => env.backend = "llama_cpp")
    BY <1>5 DEF _llama_env, Environments
  <2> HIDE DEF env
  <2> QED
    BY <2>1, <1>1, <1>4 DEF EnvironAfter, Environments
<1>8. ProcsInv' /\ procs' = procs /\ \A p \in 1..Len(procs) : Settled(p)
  BY <1>1, <1>2, UnchangedKeep DEF SweepInv, procVars
<1>9. PlaceInv(sweep)'
  <2>1. Len(args.configs) \in Nat /\ Len(args.configs) > 0 /\ args.cells > 0
    BY <1>3, <1>4 DEF SweepCall
  <2> QED
    BY <2>1, <1>3, <1>4, <1>6 DEF PlaceInv, SweepCall
<1>10. OwnInv(sweep)'
  BY <1>6, <1>8 DEF OwnInv, Settled, Dead
<1>11. EnvironInv(sweep.args)' /\ MeasuredInv(sweep)'
  BY <1>6, <1>7 DEF EnvironInv, MeasuredInv
<1>12. DoneInv(sweep)'
  <2>1. CellsBefore(args.cells, 1, 0) = 0 /\ Len(<<>>) = 0
    BY <1>4 DEF CellsBefore
  <2> QED
    BY <2>1, <1>6 DEF DoneInv
<1>13. FilesInv(sweep)'
  <2>1. \A j \in 1..Len(args.configs) : ~Finished(sweep', j)
    BY <1>3, <1>4, <1>6 DEF Finished, SweepCall
  <2> QED
    BY <2>1, <1>6 DEF FilesInv
<1>14. SweepInv'
  BY <1>1, <1>5, <1>6, <1>7, <1>9, <1>10, <1>11, <1>12, <1>13 DEF SweepInv
<1>15. SummariesInv'
  BY <1>1, <1>2, <1>5, <1>6 DEF SummariesInv
<1>16. /\ main' \in Mains /\ main'.pc = "in_call" /\ main'.steps = main.steps /\ main'.calls = main.calls
  BY <1>1, <1>2 DEF Mains, MainPcs
<1>17. CallsInv(CurrentStep)' /\ ListInv(CurrentStep)'
  <2>1. CurrentStep' = CurrentStep
    BY <1>16 DEF CurrentStep
  <2> QED
    BY <2>1, <1>1, <1>2, <1>16 DEF MainInv, CallsInv, ListInv, Made, CurrentStep
<1>18. MainInv'
  BY <1>1, <1>2, <1>6, <1>16, <1>17 DEF MainInv, Sound, args
<1> QED
  BY <1>8, <1>14, <1>15, <1>18 DEF PaperInv

\* One call less.
LEMMA CallsLess ==
  ASSUME MainInv, InStep, main.calls # <<>>, main'.calls = Tail(main.calls), CurrentStep' = CurrentStep
  PROVE  CallsInv(CurrentStep)' /\ Made(CurrentStep)' = Made(CurrentStep) + 1
<1> DEFINE n == CurrentStep
           L == Len(STEPS[n])
<1>1. L \in Nat /\ main.calls \in Seq(Calls) /\ Made(n) \in Nat /\ CallsInv(n)
  BY CurrentCall DEF MainInv
<1>2. /\ Len(main.calls) \in Nat /\ Len(Tail(main.calls)) = Len(main.calls) - 1 /\ Len(main.calls) >= 1
      /\ \A j \in 1..Len(Tail(main.calls)) : Tail(main.calls)[j] = main.calls[j + 1]
  BY <1>1
<1>3. L - Len(Tail(main.calls)) = Made(n) + 1 /\ Len(Tail(main.calls)) <= L
  BY <1>1, <1>2, Countdown DEF Made
<1>4. \A j \in 1..Len(Tail(main.calls)) : Tail(main.calls)[j] = STEPS[n][(Made(n) + 1) + j]
  <2> SUFFICES ASSUME NEW j \in 1..Len(Tail(main.calls))
               PROVE  main.calls[j + 1] = STEPS[n][(Made(n) + 1) + j]
    BY <1>2
  <2>1. j + 1 \in 1..Len(main.calls) /\ Made(n) + (j + 1) = (Made(n) + 1) + j
    BY <1>1, <1>2
  <2> QED
    BY <2>1, <1>1 DEF CallsInv
<1>5. Made(CurrentStep)' = Made(n) + 1
  BY <1>3 DEF Made
<1> QED
  BY <1>3, <1>4, <1>5 DEF CallsInv

LEMMA RunCommandStep ==
  ASSUME PaperInv, RunCommand
  PROVE  PaperInv'
<1>1. /\ main.pc = "call" /\ main.calls # <<>> /\ Head(main.calls).kind = "command"
      /\ main' = [main EXCEPT !.calls = Tail(@)]
      /\ UNCHANGED <<sweepVars, m, manifest>>
  BY DEF RunCommand
<1>2. ProcsInv' /\ SweepInv' /\ SummariesInv' /\ sweep' = sweep /\ csvs' = csvs /\ summaries' = summaries
  BY <1>1, SweepVarsStay DEF PaperInv, sweepVars
<1>3. main \in Mains /\ MainInv /\ sweep = None /\ InStep /\ main.calls \in Seq(Calls)
  BY <1>1 DEF PaperInv, MainInv, InStep, Mains
<1>4. main' \in Mains /\ main'.pc = "call" /\ main'.steps = main.steps /\ main'.calls = Tail(main.calls)
  <2>1. Tail(main.calls) \in Seq(Calls)
    BY <1>1, <1>3
  <2> QED
    BY <2>1, <1>1, <1>3 DEF Mains
<1>5. CurrentStep' = CurrentStep
  BY <1>4 DEF CurrentStep
<1>6. CallsInv(CurrentStep)'
  BY <1>1, <1>3, <1>4, <1>5, CallsLess
<1>7. CurrentStep \notin DOMAIN ListKey
  BY <1>1, <1>3, CurrentCall, KeyNumbers DEF CallOK
<1>8. ListInv(CurrentStep)'
  BY <1>5, <1>7 DEF ListInv
<1>9. MainInv'
  BY <1>1, <1>2, <1>3, <1>4, <1>6, <1>8 DEF MainInv, Sound
<1> QED
  BY <1>2, <1>9 DEF PaperInv

\* The run_ids after a call of step n has returned.
LEMMA RecordedSound ==
  ASSUME MainInv, SweepInv, SummariesInv, InStep, main.calls # <<>>, sweep # None, sweep.pc = "returned",
         NEW mm, mm = Recorded(CurrentStep, sweep.run_id)
  PROVE  /\ mm \in Manifests /\ SoundIn(summaries, csvs, mm.runs)
         /\ CurrentStep \in DOMAIN ListKey =>
               /\ Len(mm.runs[KeyOf[CurrentStep]]) = Made(CurrentStep) + 1
               /\ ListedIn(summaries, csvs, CurrentStep, mm.runs[KeyOf[CurrentStep]])
<1> DEFINE n == CurrentStep
           id == sweep.run_id
           key == KeyOf[n]
<1>1. /\ m \in Manifests /\ SoundIn(summaries, csvs, m.runs) /\ sweep.args = Head(main.calls)
      /\ ListInv(n) /\ sweep \in Sweeps
  BY DEF MainInv, Sound, SweepInv
<1>2. m.runs \in [Keys -> Seq(Nat)] /\ id \in Nat
  BY <1>1 DEF Manifests, Sweeps
<1>3. /\ n \in 1..21 /\ Made(n) \in Nat /\ Made(n) < Len(STEPS[n]) /\ sweep.args = STEPS[n][Made(n) + 1]
      /\ n \in DOMAIN KeyOf => sweep.args.kind # "threats"
  BY <1>1, CurrentCall DEF CallOK
<1>4. n \in DOMAIN KeyOf => key \in Keys /\ RunIn(summaries, csvs, STEPS[n][Made(n) + 1], id)
  BY <1>3 DEF SummariesInv, RunOK, Keys
<1> HIDE DEF n, id
<1>5. CASE n \in DOMAIN ListKey
  <2> DEFINE old == m.runs[key]
             new == Append(old, id)
  <2>1. n \in DOMAIN KeyOf /\ key \in Keys
    BY <1>4, <1>5, KeyNumbers
  <2>2. mm = [m EXCEPT !.runs = [m.runs EXCEPT ![key] = new]]
    <3>1. mm = Recorded(n, id)
      BY DEF n, id
    <3>2. Recorded(n, id) = [m EXCEPT !.runs[KeyOf[n]] = Append(@, id)]
      <4>1. n \notin DOMAIN SingleKey
        BY <1>5, ListKeys, SingleKeys
      <4> QED
        BY <4>1, <1>5 DEF Recorded
    <3> QED
      BY <3>1, <3>2
  <2>3. old \in Seq(Nat) /\ new \in Seq(Nat)
    BY <2>1, <1>2
  <2>4. /\ mm \in Manifests /\ mm.runs = [m.runs EXCEPT ![key] = new]
    <3>1. [m.runs EXCEPT ![key] = new] \in [Keys -> Seq(Nat)]
      BY <2>1, <2>3, <1>2
    <3> QED
      BY <3>1, <2>2, <1>1 DEF Manifests
  <2>5. mm.runs[key] = new /\ \A other \in Keys : other # key => mm.runs[other] = m.runs[other]
    BY <2>1, <2>4, <1>2
  <2>6. /\ Len(old) = Made(n) /\ Len(new) = Made(n) + 1 /\ new[Made(n) + 1] = id
        /\ \A i \in 1..Len(old) : new[i] = old[i]
    BY <2>3, <1>1, <1>5 DEF ListInv
  <2>7. ListedIn(summaries, csvs, n, new)
    <3>1. \A i \in 1..Len(old) : RunIn(summaries, csvs, STEPS[n][i], old[i])
      BY <1>1, <1>5 DEF ListInv, ListedIn
    <3>2. \A i \in 1..Len(new) : i \in 1..Len(old) \/ i = Made(n) + 1
      BY <2>6, <1>3
    <3> QED
      BY <3>1, <3>2, <2>1, <2>6, <1>4 DEF ListedIn
  <2>8. SoundIn(summaries, csvs, mm.runs)
    BY <2>1, <2>5, <2>7, <1>1 DEF SoundIn
  <2> QED
    BY <2>4, <2>5, <2>6, <2>7, <2>8 DEF n
<1>6. CASE n \in DOMAIN SingleKey /\ n \notin DOMAIN ListKey
  <2> DEFINE new == <<id>>
  <2>1. n \in DOMAIN KeyOf /\ key \in Keys
    BY <1>4, <1>6, KeyNumbers
  <2>2. mm = [m EXCEPT !.runs = [m.runs EXCEPT ![key] = new]]
    BY <1>1, <1>6 DEF Recorded, n, id
  <2>3. new \in Seq(Nat) /\ Len(new) = 1 /\ new[1] = id
    BY <1>2
  <2> HIDE DEF new
  <2>4. /\ mm \in Manifests /\ mm.runs = [m.runs EXCEPT ![key] = new]
    <3>1. [m.runs EXCEPT ![key] = new] \in [Keys -> Seq(Nat)]
      BY <2>1, <2>3, <1>2
    <3> QED
      BY <3>1, <2>2, <1>1 DEF Manifests
  <2>5. mm.runs[key] = new /\ \A other \in Keys : other # key => mm.runs[other] = m.runs[other]
    BY <2>1, <2>4, <1>2
  <2>6. Made(n) = 0
    <3>1. Len(STEPS[n]) = 1
      BY <1>6, EveryStep
    <3> QED
      BY <3>1, <1>3
  <2>7. ListedIn(summaries, csvs, n, new)
    <3>1. RunIn(summaries, csvs, STEPS[n][1], new[1])
      BY <2>1, <2>3, <2>6, <1>4
    <3> QED
      BY <3>1, <2>3 DEF ListedIn
  <2>8. SoundIn(summaries, csvs, mm.runs)
    BY <2>1, <2>5, <2>7, <1>1 DEF SoundIn
  <2> QED
    BY <2>4, <2>8, <1>6 DEF n
<1>7. CASE n \notin DOMAIN SingleKey /\ n \notin DOMAIN ListKey
  <2>1. mm = m
    BY <1>7 DEF Recorded, n
  <2> QED
    BY <2>1, <1>1, <1>7 DEF n
<1> QED
  BY <1>5, <1>6, <1>7

\* A sweep that is over leaves nothing running.
LEMMA SweepOver ==
  ASSUME ProcsInv, SweepInv, SummariesInv, sweep # None => sweep.pc \in {"returned", "raised"},
         sweep' = None, UNCHANGED <<procVars, clock, environ, csvs, summaries>>
  PROVE  ProcsInv' /\ SweepInv' /\ SummariesInv'
<1>1. ProcsInv' /\ procs' = procs
  BY UnchangedKeep DEF procVars
<1>2. \A p \in 1..Len(procs) : Settled(p)
  BY DEF SweepInv, OwnInv
<1>3. SweepInv'
  BY <1>1, <1>2 DEF SweepInv, Settled, Dead
<1>4. SummariesInv'
  BY DEF SummariesInv
<1> QED
  BY <1>1, <1>3, <1>4

LEMMA CallReturnedStep ==
  ASSUME PaperInv, CallReturned
  PROVE  PaperInv'
<1> DEFINE n == CurrentStep
           s == [main EXCEPT !.pc = "call", !.calls = Tail(@)]
<1>1. /\ main.pc = "in_call" /\ sweep.pc = "returned" /\ sweep' = None
      /\ m' = Recorded(n, sweep.run_id)
      /\ main' = IF n \in DOMAIN ListKey THEN Saving("call", s) ELSE s
      /\ UNCHANGED <<procVars, clock, environ, csvs, summaries, manifest>>
  BY DEF CallReturned
<1>2. /\ main \in Mains /\ MainInv /\ InStep /\ sweep # None /\ main.calls # <<>> /\ main.calls \in Seq(Calls)
      /\ ProcsInv /\ SweepInv /\ SummariesInv
  BY <1>1 DEF PaperInv, MainInv, InStep, Mains
<1>3. ProcsInv' /\ SweepInv' /\ SummariesInv'
  BY <1>1, <1>2, SweepOver
<1>4. /\ main' \in Mains /\ main'.pc # "in_call" /\ main'.steps = main.steps
      /\ main'.calls = Tail(main.calls)
  <2>1. Tail(main.calls) \in Seq(Calls)
    BY <1>2
  <2>2. s \in Mains /\ s.pc = "call" /\ s.steps = main.steps /\ s.calls = Tail(main.calls)
    BY <2>1, <1>2 DEF Mains, MainPcs
  <2> HIDE DEF s
  <2>3. /\ Saving("call", s) \in Mains /\ Saving("call", s).pc = "truncate"
        /\ Saving("call", s).steps = s.steps /\ Saving("call", s).calls = s.calls
    BY <2>2 DEF Saving, Mains, MainPcs
  <2> QED
    BY <2>2, <2>3, <1>1
<1>5. CurrentStep' = n
  BY <1>4 DEF CurrentStep
<1>6. CallsInv(CurrentStep)' /\ Made(CurrentStep)' = Made(n) + 1
  BY <1>2, <1>4, <1>5, CallsLess
<1>7. /\ m' \in Manifests /\ SoundIn(summaries, csvs, m'.runs)
      /\ n \in DOMAIN ListKey =>
            Len(m'.runs[KeyOf[n]]) = Made(n) + 1 /\ ListedIn(summaries, csvs, n, m'.runs[KeyOf[n]])
  BY <1>1, <1>2, RecordedSound
<1>8. ListInv(CurrentStep)'
  BY <1>1, <1>5, <1>6, <1>7 DEF ListInv
<1>9. MainInv'
  BY <1>1, <1>2, <1>4, <1>6, <1>7, <1>8 DEF MainInv, Sound, CurrentStep
<1> QED
  BY <1>3, <1>9 DEF PaperInv

\* The step is over: what is left of the invocation, and the lists of steps.
LEMMA StepOver ==
  ASSUME MainInv, sweep' = None, UNCHANGED <<csvs, summaries, manifest>>,
         main' \in Mains, main'.pc # "in_call", ~InStep', m' \in Manifests, m'.runs = m.runs
  PROVE  MainInv'
BY DEF MainInv, Sound

LEMMA StepEnds ==
  ASSUME PaperInv, StepDone \/ StepFailed \/ Finish
  PROVE  PaperInv'
<1>1. /\ main \in Mains /\ m \in Manifests /\ MainInv /\ ProcsInv /\ SweepInv /\ SummariesInv
  BY DEF PaperInv, MainInv
<1>2. /\ main.steps \in Seq(1..21) /\ main.failed \in SUBSET (1..21) /\ <<>> \in Seq(Calls)
      /\ m.completed \in SUBSET (1..21)
  <2>1. <<>> \in Seq(Calls)
    OBVIOUS
  <2>2. main.steps \in Seq(1..21) /\ main.failed \in SUBSET (1..21)
    BY <1>1 DEF Mains
  <2>3. m.completed \in SUBSET (1..21)
    BY <1>1 DEF Manifests
  <2> QED
    BY <2>1, <2>2, <2>3
<1>3. CASE StepDone \/ StepFailed
  <2>1. main.pc \in {"call", "in_call"}
    BY <1>3 DEF StepDone, StepFailed
  <2>2. main.steps # <<>> /\ CurrentStep \in 1..21 /\ Tail(main.steps) \in Seq(1..21)
    BY <2>1, <1>1, <1>2, Standing DEF MainInv, InStep
  <2> DEFINE failed == IF StepDone THEN main.failed ELSE main.failed \cup {CurrentStep}
             over == NextSteps([main EXCEPT !.failed = failed])
  <2>3. failed \in SUBSET (1..21) /\ m.completed \cup {CurrentStep} \in SUBSET (1..21)
    BY <2>2, <1>2
  <2>4. main' = Saving("steps", over)
    <3>1. CASE StepDone
      <4>1. [main EXCEPT !.failed = main.failed] = main
        BY <1>1 DEF Mains
      <4> QED
        BY <4>1, <3>1 DEF StepDone
    <3>2. CASE ~StepDone
      BY <3>2, <1>3 DEF StepFailed
    <3> QED
      BY <3>1, <3>2
  <2> HIDE DEF failed
  <2>5. over \in Mains
    <3>1. [main EXCEPT !.failed = failed] \in Mains /\ [main EXCEPT !.failed = failed].steps = main.steps
      BY <2>3, <1>1 DEF Mains
    <3> QED
      BY <3>1, <2>2, <1>2 DEF NextSteps, Mains
  <2> HIDE DEF over
  <2>6. main' \in Mains /\ main'.pc = "truncate" /\ main'.next = "steps"
    BY <2>4, <2>5 DEF Saving, Mains, MainPcs
  <2>7. ~InStep'
    BY <2>6 DEF InStep
  <2>8. m' \in Manifests /\ m'.runs = m.runs
    BY <2>2, <1>1, <1>2, <1>3 DEF StepDone, StepFailed, Manifests
  <2>9. sweep' = None /\ (sweep # None => sweep.pc \in {"returned", "raised"})
        /\ UNCHANGED <<procVars, clock, environ, csvs, summaries, manifest>>
    <3>1. CASE StepDone
      BY <3>1, <1>1 DEF StepDone, sweepVars, MainInv
    <3>2. CASE StepFailed
      BY <3>2, <1>1 DEF StepFailed, MainInv
    <3> QED
      BY <3>1, <3>2, <1>3
  <2>10. ProcsInv' /\ SweepInv' /\ SummariesInv'
    BY <2>9, <1>1, SweepOver
  <2>11. MainInv'
    BY <2>6, <2>7, <2>8, <2>9, <1>1, StepOver
  <2> QED
    BY <2>10, <2>11 DEF PaperInv
<1>4. CASE Finish
  <2>1. /\ main.pc = "steps" /\ main' = Saving("idle", main) /\ UNCHANGED <<sweepVars, m, manifest>>
    BY <1>4 DEF Finish
  <2>2. main' \in Mains /\ main'.pc = "truncate" /\ main'.next = "idle"
    BY <2>1, <1>1 DEF Saving, Mains, MainPcs
  <2>3. ~InStep' /\ sweep = None
    BY <2>1, <2>2, <1>1 DEF InStep, MainInv
  <2>4. sweep' = None /\ UNCHANGED <<procVars, clock, environ, csvs, summaries, manifest>>
    BY <2>1, <2>3 DEF sweepVars
  <2>5. ProcsInv' /\ SweepInv' /\ SummariesInv'
    BY <2>1, <1>1, SweepVarsStay
  <2>6. MainInv'
    BY <2>1, <2>2, <2>3, <2>4, <1>1, StepOver
  <2> QED
    BY <2>5, <2>6 DEF PaperInv
<1> QED
  BY <1>3, <1>4

LEMMA InvocationEnds ==
  ASSUME PaperInv, Interrupted \/ Crash
  PROVE  PaperInv'
<1>1. /\ main \in Mains /\ m \in Manifests /\ MainInv /\ ProcsInv /\ SweepInv /\ SummariesInv
  BY DEF PaperInv, MainInv
<1>2. /\ sweep' = None /\ main' = Idle
      /\ UNCHANGED <<listener, clock, environ, csvs, summaries, m, manifest>>
  BY DEF Interrupted, Crash, procVars
<1>3. Idle \in Mains /\ Idle.pc = "idle"
  BY DEF Idle, Mains, MainPcs
<1>4. ~InStep' /\ main'.pc # "in_call"
  BY <1>2, <1>3 DEF InStep
<1>5. MainInv'
  BY <1>1, <1>2, <1>3, <1>4, StepOver
<1>6. CASE Interrupted
  <2>1. UNCHANGED procVars /\ (sweep # None => sweep.pc \in {"returned", "raised"})
    BY <1>6, <1>1 DEF Interrupted, MainInv
  <2> QED
    BY <2>1, <1>1, <1>2, <1>5, SweepOver DEF PaperInv
<1>7. CASE Crash
  <2>1. procs' = Orphaned /\ listener' = listener
    BY <1>7 DEF Crash
  <2>2. ProcsInv' /\ Len(procs') = Len(procs) /\ \A p \in 1..Len(procs) : Settled(p)'
    BY <2>1, <1>1, OrphanKeeps DEF Stay
  <2>3. SweepInv'
    BY <2>2, <1>1, <1>2 DEF SweepInv
  <2>4. SummariesInv'
    BY <1>1, <1>2 DEF SummariesInv
  <2> QED
    BY <2>2, <2>3, <2>4, <1>5 DEF PaperInv
<1> QED
  BY <1>6, <1>7

-----------------------------------------------------------------------------
LEMMA PaperInit == Init => PaperInv
<1> SUFFICES ASSUME Init PROVE PaperInv
  OBVIOUS
<1>1. /\ procs = <<>> /\ listener = [port \in Ports |-> None] /\ clock = 0 /\ environ = FreshEnviron
      /\ sweep = None /\ csvs = {} /\ summaries = <<>>
      /\ main = Idle /\ m = NoManifest /\ manifest = Absent
  BY DEF Init, SweepInit, NoProcess
<1>2. ProcsInv
  BY <1>1 DEF ProcsInv
<1>3. SweepInv
  BY <1>1 DEF SweepInv, FreshEnviron, Environments, PAYLOADS
<1>4. SummariesInv
  BY <1>1 DEF SummariesInv
<1>5. main \in Mains /\ main.pc = "idle" /\ ~InStep
  BY <1>1 DEF Idle, Mains, MainPcs, InStep
<1>6. m \in Manifests /\ Sound(m.runs)
  BY <1>1 DEF NoManifest, Manifests, Sound, SoundIn
<1>7. MainInv
  BY <1>1, <1>5, <1>6 DEF MainInv
<1> QED
  BY <1>2, <1>3, <1>4, <1>7 DEF PaperInv

LEMMA PaperNext == PaperInv /\ [Next]_vars => PaperInv'
<1> SUFFICES ASSUME PaperInv, [Next]_vars PROVE PaperInv'
  OBVIOUS
<1>1. ProcsInv /\ SweepInv /\ SummariesInv /\ MainInv
  BY DEF PaperInv
<1>2. CASE SweepStep /\ UNCHANGED mainVars
  <2>1. ProcsInv' /\ SweepInv' /\ SummariesInv' /\ Runs /\ sweep # None
    BY <1>1, <1>2, SweepSteps
  <2>2. Grows /\ sweep' # None /\ sweep'.args = sweep.args
    BY <2>1, SweepAssumption DEF Runs, Grows
  <2> QED
    BY <2>1, <2>2, <1>1, <1>2, MainStays DEF PaperInv
<1>3. CASE OSStep /\ UNCHANGED mainVars
  <2>1. /\ ProcsInv' /\ SweepInv' /\ SummariesInv'
        /\ UNCHANGED <<clock, environ, sweep, csvs, summaries>>
    BY <1>1, <1>3, OSSteps
  <2>2. Grows
    BY <2>1 DEF Grows
  <2> QED
    BY <2>1, <2>2, <1>1, <1>3, MainStays DEF PaperInv
<1>4. CASE UNCHANGED vars
  <2>1. UNCHANGED sweepVars /\ UNCHANGED mainVars /\ sweep' = sweep
    BY <1>4 DEF vars, sweepVars
  <2> QED
    BY <2>1, <1>1, SweepVarsStay, MainStays DEF PaperInv
<1> QED
  BY <1>2, <1>3, <1>4, InvokeStep, SaveStep, BeginStepStep, BeginCallStep, CallReturnedStep,
     RunCommandStep, StepEnds, InvocationEnds DEF Next, MainStep

\* Every process has an owner, every file and every run_id a sweep it is of:
\* at each step of bench/paper_runs.py and of the sweeps it calls.
THEOREM Accounted == Spec => []PaperInv
BY PaperInit, PaperNext, PTL DEF Spec

\* Between two calls of a step nothing runs that the invocation has started,
\* whatever the sweep before has met: an exception, ^C, a server that would
\* not start (the finally clauses of run_full_sweep, run_sweep, step_threats).
THEOREM StopsWhatItStarts == Spec => []NothingLeftRunning
<1>1. PaperInv => NothingLeftRunning
  BY DEF PaperInv, SweepInv, NothingLeftRunning, Settled
<1> QED
  BY <1>1, Accounted, PTL

\* A measurement is answered by the processes of its own sweep, in the
\* environment the call asked for; only an orphan of a killed invocation can
\* answer in their place (orchestrator.py:_start_server, _wait_healthy).
THEOREM MeasuresItsOwn == Spec => []MeasuredAsCalled
<1>1. PaperInv => MeasuredAsCalled
  <2> SUFFICES ASSUME PaperInv PROVE MeasuredAsCalled
    OBVIOUS
  <2>1. ProcsInv /\ SweepInv /\ SummariesInv /\ MainInv
    BY DEF PaperInv
  <2>2. ProcTypeOK
    <3>1. \A p \in 1..Len(procs) : procs[p] \in Processes
      BY <2>1 DEF ProcsInv
    <3>2. \A p \in 1..Len(procs) : procs[p].port \in Ports
                                   /\ procs[p].state \in {"starting", "listening", "signalled", "dead"}
      BY <3>1 DEF Processes, ProcessStates
    <3> QED
      BY <3>2, <2>1 DEF ProcTypeOK, ProcsInv
  <2>3. TypeOK
    <3>1. clock \in Nat /\ (main.pc = "in_call" => sweep # None)
      BY <2>1 DEF SweepInv, MainInv
    <3>2. sweep # None => /\ sweep.at \in 1..Len(sweep.args.configs)
                          /\ sweep.cell \in 0..sweep.args.cells
                          /\ main.pc = "in_call" /\ Head(main.calls) = sweep.args
      BY <2>1 DEF SweepInv, PlaceInv, MainInv
    <3>3. main.failed \subseteq 1..21
      BY <2>1 DEF MainInv, Mains
    <3>4. manifest \in {Absent, Corrupt} \/ manifest.completed \cup manifest.failed \subseteq 1..21
      BY <2>1 DEF MainInv, Manifests
    <3> QED
      BY <2>2, <3>1, <3>2, <3>3, <3>4 DEF TypeOK
  <2>4. MeasuredOwn
    BY <2>1 DEF MeasuredOwn, Measured, SweepInv, MeasuredInv
  <2>5. EnvironmentsAgree
    <3> SUFFICES ASSUME Measured, sweep.measured.answered.server = sweep.measured.started.server
                 PROVE  LET env == procs[sweep.measured.answered.server].env
                        IN  /\ env.profile = environ.profile
                            /\ env.auth = sweep.args.auth
                            /\ sweep.args.kind = "concurrency" => env.profile = sweep.args.profile
                            /\ sweep.args.kind = "streaming" => env.backend = "llama_cpp"
      BY DEF EnvironmentsAgree
    <3>1. /\ sweep \in Sweeps /\ EnvironInv(sweep.args) /\ SweepCall(sweep.args)
          /\ environ \in Environments /\ ~environ.auth
          /\ procs[sweep.measured.answered.server].env = ServerEnv
      BY <2>1 DEF Measured, SweepInv, PlaceInv, MeasuredInv
    <3>2. sweep.args.auth \in BOOLEAN
      BY <3>1 DEF Sweeps, Calls
    <3>3. CASE sweep.args.kind = "concurrency"
      <4>1. ServerEnv = [environ EXCEPT !.profile = sweep.args.profile, !.auth = sweep.args.auth]
        BY <3>3 DEF ServerEnv
      <4> QED
        BY <4>1, <3>1, <3>3 DEF Environments, EnvironInv
    <3>4. CASE sweep.args.kind # "concurrency"
      <4>1. ServerEnv = environ /\ ~sweep.args.auth
        BY <3>1, <3>4 DEF ServerEnv, SweepCall
      <4>2. environ.auth = sweep.args.auth
        BY <4>1, <3>1, <3>2 DEF Environments
      <4> QED
        BY <4>1, <4>2, <3>1, <3>4 DEF EnvironInv
    <3> QED
      BY <3>3, <3>4
  <2> QED
    BY <2>3, <2>4, <2>5 DEF MeasuredAsCalled
<1> QED
  BY <1>1, Accounted, PTL

\* Every run_id in results/paper_runs.json is of the very sweep the step called
\* at that place, complete and with its files, after any sequence of failures,
\* ^C, kills and reruns (paper_runs.py:main, _save_manifest, new_run_id).
THEOREM ManifestHolds == Spec => []ManifestSound
<1>1. PaperInv => ManifestSound
  <2> SUFFICES ASSUME PaperInv, manifest \notin {Absent, Corrupt},
                      NEW key \in Keys, manifest.runs[key] # <<>>
               PROVE  \E n \in DOMAIN KeyOf :
                         /\ KeyOf[n] = key
                         /\ \A i \in DOMAIN manifest.runs[key] :
                               LET run_id == manifest.runs[key][i] IN
                               /\ run_id \in DOMAIN summaries
                               /\ summaries[run_id].args = STEPS[n][i]
                               /\ Complete(summaries[run_id].args, summaries[run_id].cells)
                               /\ \A c \in ToSet(STEPS[n][i].configs) :
                                     [run_id |-> run_id, config |-> c, upto |-> Cells] \in csvs
    BY DEF ManifestSound
  <2>1. manifest \in Manifests /\ SoundIn(summaries, csvs, manifest.runs)
    BY DEF PaperInv, MainInv, Sound
  <2>2. manifest.runs[key] \in Seq(Nat)
    BY <2>1 DEF Manifests
  <2>3. PICK n \in DOMAIN KeyOf : KeyOf[n] = key /\ ListedIn(summaries, csvs, n, manifest.runs[key])
    BY <2>1 DEF SoundIn
  <2>4. \A i \in DOMAIN manifest.runs[key] : RunIn(summaries, csvs, STEPS[n][i], manifest.runs[key][i])
    BY <2>2, <2>3 DEF ListedIn
  <2> QED
    BY <2>3, <2>4 DEF RunIn
<1> QED
  BY <1>1, Accounted, PTL

=============================================================================
