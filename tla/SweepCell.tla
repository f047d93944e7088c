------------------------------ MODULE SweepCell ------------------------------
(***************************************************************************)
(* A benchmark cell, bench/runner.py:run_sweep_cell: concurrent workers    *)
(* share a counter of requests and run api/secure_client.py transactions   *)
(* against the server of SecureApp, each worker with the resumption state  *)
(* of one client (ClientSession).                                          *)
(*                                                                         *)
(* Transaction idx makes at most one handshake and at most one predict     *)
(* call: idx names the call, the handshake it obtains and the session key  *)
(* it establishes.  Cached names the handshake of reuse_handshake.  The    *)
(* semaphore has as many permits as there are workers and never blocks.    *)
(***************************************************************************)
EXTENDS SecureApp, Sequences

CONSTANTS Workers, n_requests, Cached,
          Modes     \* values of config_name, requests_per_handshake and reuse_handshake

\* Every concurrency level the runs use has at least one worker.
ASSUME CellAssumption ==
    /\ n_requests \in Nat /\ Workers # {}
    /\ Modes \subseteq [config_name: {"protected", "control", "control_2rt"},
                         requests_per_handshake: Nat \ {0}, reuse_handshake: BOOLEAN]
    /\ Calls = 0..(n_requests - 1) /\ Keys = Calls
    /\ Hids = Calls \cup {Cached} /\ Cached \notin Calls /\ Cached # None

VARIABLES mode,     \* the arguments of the cell
          counter,  \* counter["n"]
          workers,  \* the local state of each worker
          results   \* rows in the order they are appended

vars == <<serverVars, mode, counter, workers, results>>

requests_per_handshake == mode.requests_per_handshake
reuse_handshake == mode.reuse_handshake
unprotected == mode.config_name # "protected"
resuming == ~unprotected /\ requests_per_handshake > 1

NewSession == [requests_left |-> requests_per_handshake, hid |-> None, session_key |-> None]
Session == [requests_left: Nat, hid: Hids \cup {None}, session_key: Keys \cup {None}]
ASSUME SessionAssumption == None \notin Session

Idle(session) == [pc |-> "loop", idx |-> None, hid |-> None, session |-> session]

Init ==
    /\ mode \in Modes
    /\ ServerInit(IF reuse_handshake /\ ~unprotected THEN {Cached} ELSE {})
    /\ counter = 0
    /\ workers = [w \in Workers |-> Idle(None)]
    /\ results = <<>>

-----------------------------------------------------------------------------
(***************************************************************************)
(* A worker.  Its steps end where it awaits.                               *)
(***************************************************************************)
\* The session the next request runs in.
NextSession(session) ==
    IF resuming /\ (session = None \/ session.requests_left <= 0) THEN NewSession ELSE session

\* What a worker does with the index it has taken.
FirstStep == CASE mode.config_name = "protected" -> "begin"
               [] mode.config_name = "control" -> "predict"
               [] mode.config_name = "control_2rt" -> "handshake"

\* Mutant: without the lock, two waiting workers may take the same index.
ClaimWithoutAdvance(w) ==
    /\ workers[w].pc = "loop" /\ counter < n_requests
    /\ workers' = [workers EXCEPT ![w] =
          [pc |-> FirstStep, idx |-> counter, hid |-> None, session |-> NextSession(@.session)]]
    /\ \/ counter' = counter + 1
       \/ counter' = counter /\ \E v \in Workers \ {w} : workers[v].pc = "loop"
    /\ UNCHANGED <<serverVars, results>>

\* Under counter_lock: take the next request index.
Claim(w) ==
    /\ workers[w].pc = "loop" /\ counter < n_requests
    /\ counter' = counter + 1
    /\ workers' = [workers EXCEPT ![w] =
          [pc |-> FirstStep, idx |-> counter, hid |-> None, session |-> NextSession(@.session)]]
    /\ UNCHANGED <<serverVars, results>>

Stop(w) ==
    /\ workers[w].pc = "loop" /\ counter >= n_requests
    /\ workers' = [workers EXCEPT ![w].pc = "stopped"]
    /\ UNCHANGED <<serverVars, counter, results>>

Resumed(w) == workers[w].session # None /\ workers[w].session.session_key # None

\* Mutant: the session survives a failed transaction.
SessionKeptAfter(w, outcome) == workers[w].session

\* The row is appended; a failure ends the worker's session.
SessionAfter(w, outcome) == IF outcome = "error" THEN None ELSE workers[w].session

Finish(w, outcome) ==
    /\ results' = Append(results, [idx |-> workers[w].idx, outcome |-> outcome])
    /\ workers' = [workers EXCEPT ![w] = Idle(SessionAfter(w, outcome))]
    /\ UNCHANGED counter

\* _control_transaction: with two round trips, a handshake without any key
\* precedes the request.  The server keeps nothing of either.
ControlHandshake(w) ==
    /\ workers[w].pc = "handshake"
    /\ \/ /\ workers' = [workers EXCEPT ![w].pc = "predict"]
          /\ UNCHANGED <<counter, results>>
       \/ Finish(w, "error")
    /\ UNCHANGED serverVars

ControlPredict(w) ==
    /\ workers[w].pc = "predict"
    /\ \E outcome \in {"ok", "error"} : Finish(w, outcome)
    /\ UNCHANGED serverVars

\* do_handshake
Handshake(w) ==
    /\ workers[w].pc = "begin" /\ ~Resumed(w) /\ ~reuse_handshake
    /\ new_handshake(workers[w].idx)
    /\ workers' = [workers EXCEPT ![w].pc = "establish", ![w].hid = workers[w].idx]
    /\ UNCHANGED <<calls, counter, results>>

\* do_handshake fails, before or after the server has made the key pairs.
HandshakeFails(w) ==
    /\ workers[w].pc = "begin" /\ ~Resumed(w) /\ ~reuse_handshake
    /\ new_handshake(workers[w].idx) \/ UNCHANGED <<sessions, session_keys>>
    /\ Finish(w, "error")
    /\ UNCHANGED calls

\* Mutant: off by one, the last request keeps the session too.
KeepSessionOnce(session) == session # None /\ session.requests_left > 0

\* establish, then POST /secure/predict: the session is marked established and
\* its request counted before the server has answered, or seen, anything.
SessionWith(session, h, key) ==
    IF session = None THEN None
    ELSE [requests_left |-> session.requests_left - 1, hid |-> h, session_key |-> key]

KeepSession(session) == session # None /\ session.requests_left > 1

Post(w, h, kex_key, key) ==
    LET session == workers[w].session IN
    /\ Arrive(workers[w].idx, h, kex_key, KeepSession(session), key)
    /\ workers' = [workers EXCEPT ![w].pc = "waiting", ![w].hid = h,
                                  ![w].session = SessionWith(session, h, key)]
    /\ UNCHANGED <<sessions, session_keys, counter, results>>

PostFirst(w) ==
    /\ workers[w].pc = "establish"
    /\ Post(w, workers[w].hid, workers[w].idx, workers[w].idx)

PostCached(w) ==
    /\ workers[w].pc = "begin" /\ ~Resumed(w) /\ reuse_handshake
    /\ Post(w, Cached, workers[w].idx, workers[w].idx)

PostResumed(w) ==
    /\ workers[w].pc = "begin" /\ Resumed(w)
    /\ Post(w, workers[w].session.hid, None, workers[w].session.session_key)

\* The response arrives: any status but 200 is an error, and so is a body
\* that does not open under the session key.
Receive(w) ==
    /\ workers[w].pc = "waiting"
    /\ LET call == calls[workers[w].idx] IN
       /\ call.pc \in Statuses
       /\ Finish(w, IF call.pc = "200" /\ call.session_key = call.body_key THEN "ok" ELSE "error")
    /\ UNCHANGED serverVars

\* Mutant: a timed-out request is sent again, without end.
TimeoutRetries(w) ==
    /\ workers[w].pc = "waiting"
    /\ calls' = [calls EXCEPT ![workers[w].idx].pc = "accept"]
    /\ UNCHANGED <<sessions, session_keys, counter, workers, results>>

\* httpx raises: timeout, refused or reset connection.  The call may be lost,
\* still to start, running or finished.
Timeout(w) ==
    /\ workers[w].pc = "waiting"
    /\ Finish(w, "error")
    /\ UNCHANGED serverVars

WorkerStep(w) ==
    /\ \/ Claim(w) \/ Stop(w) \/ Handshake(w) \/ HandshakeFails(w)
       \/ ControlHandshake(w) \/ ControlPredict(w)
       \/ PostFirst(w) \/ PostCached(w) \/ PostResumed(w) \/ Receive(w) \/ Timeout(w)
    /\ UNCHANGED mode

-----------------------------------------------------------------------------
ServerStep(c) == HandlerStep(c) /\ UNCHANGED <<mode, counter, workers, results>>
NetworkStep(c) == Lose(c) /\ UNCHANGED <<mode, counter, workers, results>>

AllStopped == \A w \in Workers : workers[w].pc = "stopped"
Quiescent == AllStopped /\ \A c \in Calls : calls[c].pc \notin Running
CellOver == Quiescent /\ UNCHANGED vars

Next ==
    \/ \E w \in Workers : WorkerStep(w)
    \/ \E c \in Calls : ServerStep(c) \/ NetworkStep(c)
    \/ CellOver

Spec == Init /\ [][Next]_vars

\* The event loop runs every worker, and the 30 s timeout of the client bounds
\* every wait; the threadpool runs every call that reached the server.
FairSpec ==
    /\ Spec
    /\ \A w \in Workers : WF_vars(WorkerStep(w))
    /\ \A c \in Calls : WF_vars(ServerStep(c))

-----------------------------------------------------------------------------
(***************************************************************************)
(* Properties.                                                             *)
(***************************************************************************)
\* The variables have their types, and a session never runs below zero
\* requests left.
TypeOK ==
    /\ ServerTypeOK /\ mode \in Modes
    /\ counter \in 0..n_requests
    /\ workers \in [Workers -> [pc: {"loop", "begin", "handshake", "predict", "establish", "waiting", "stopped"},
                                idx: Calls \cup {None}, hid: Hids \cup {None},
                                session: Session \cup {None}]]
    /\ results \in Seq([idx: Calls, outcome: {"ok", "error"}])

\* Without reuse_handshake, every request a client sends is accepted for what
\* it is: no 404 for a live session, no 400 for the wrong key, no KeyError in
\* sign, however requests are lost or outlive the client that gave up on them.
NeverRefused ==
    ~reuse_handshake => \A c \in Calls : calls[c].pc \notin Refusals

\* Without reuse_handshake, a kept session key never outlives its handshake:
\* the handler drops the key first.
KeyWithHandshake ==
    ~reuse_handshake => \A h \in Hids : session_keys[h] # None => h \in sessions

CallsOf(h) == {c \in Calls : calls[c].hid = h}

\* One key exchange serves at most requests_per_handshake requests, and only
\* the last of them tells the server to forget the session.
SessionBudget ==
    ~reuse_handshake =>
        \A h \in Hids :
            /\ Cardinality(CallsOf(h)) <= requests_per_handshake
            /\ \A c, d \in CallsOf(h) : ~calls[c].keep_session => d <= c

\* What client and server keep of a session stays in step: the handshake is
\* there for as long as a key of it is kept, and the client's count of the
\* requests left is the one the server is told, also while two workers'
\* calls overlap, or a call outlives the client that gave up on it.
SessionsInStep == TypeOK /\ KeyWithHandshake /\ SessionBudget

Failed(c) == \E i \in DOMAIN results : results[i] = [idx |-> c, outcome |-> "error"]

\* When the cell is over and every call has ended, the server still holds a
\* handshake only if one of its transactions failed or its session was cut
\* short by the end of the cell.
NothingLeaks ==
    (Quiescent /\ ~reuse_handshake) =>
        \A h \in sessions :
            \/ \E c \in CallsOf(h) \cup {h} : Failed(c)
            \/ Cardinality(CallsOf(h)) < requests_per_handshake

\* Every request index gets exactly one row, whatever fails.
EachRequestRecorded ==
    /\ \A i, j \in DOMAIN results : results[i].idx = results[j].idx => i = j
    /\ AllStopped => {results[i].idx : i \in DOMAIN results} = Calls

\* The cell ends.
CellCompletes == <>AllStopped

=============================================================================
