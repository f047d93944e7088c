---------------------------- MODULE SweepCellProofs ----------------------------
(***************************************************************************)
(* The safety properties of SweepCell for any number of workers and        *)
(* requests, every session length and every mode.                          *)
(*                                                                         *)
(* CellInv is the inductive invariant.  Its point is ownership: an index   *)
(* belongs to one worker from Claim to its row, and an established session *)
(* to one worker, which sends its next request only after the last one was *)
(* answered 200; so at most the last call of a handshake is still on its   *)
(* way, and only that one can make the server forget the handshake.        *)
(***************************************************************************)
EXTENDS SweepCell, FiniteSetTheorems, SequenceTheorems, TLAPS

Busy(w) == workers[w].pc \notin {"loop", "stopped"}
Sent(c) == calls[c].pc # "unsent"
Kept(c) == calls[c].pc = "200" /\ calls[c].keep_session

\* Every index taken belongs to one worker until its row is there.
WorkerInv ==
    /\ \A w \in Workers : Busy(w) => workers[w].idx \in Calls /\ workers[w].idx < counter
    /\ \A v, w \in Workers : Busy(v) /\ Busy(w) /\ workers[v].idx = workers[w].idx => v = w
    /\ \A w \in Workers : workers[w].pc = "stopped" => counter = n_requests
    /\ \A w \in Workers :
          IF unprotected THEN workers[w].pc \notin {"begin", "establish", "waiting"}
          ELSE workers[w].pc \notin {"handshake", "predict"}
    /\ \A w \in Workers : workers[w].pc \in {"begin", "establish"} /\ workers[w].session # None
                             => workers[w].session.requests_left > 0
    /\ \A w \in Workers : ~resuming => workers[w].session = None

\* A row is of an index taken, and no worker has that index any more.
RowsInv ==
    /\ \A i, j \in DOMAIN results : results[i].idx = results[j].idx => i = j
    /\ \A i \in DOMAIN results :
          /\ results[i].idx < counter
          /\ \A w \in Workers : Busy(w) => workers[w].idx # results[i].idx
          /\ (~unprotected /\ results[i].outcome = "ok") => calls[results[i].idx].pc = "200"
    /\ \A c \in Calls : c < counter =>
          \/ \E i \in DOMAIN results : results[i].idx = c
          \/ \E w \in Workers : Busy(w) /\ workers[w].idx = c

\* The calls of a handshake, one after the other.
CallInv(c) ==
    LET call == calls[c]
        h == call.hid
    IN  /\ Sent(c) => /\ c < counter
                      /\ h \in Calls /\ h <= c /\ calls[h].hid = h
                      /\ call.body_key = h /\ call.kex_key \in {None, h}
        /\ ~Sent(c) => h = None
        /\ call.pc = "accept" => call.kex_key = h
        /\ call.pc \in Running => h \in sessions
        /\ call.pc = "resume" => session_keys[h] = h
        /\ call.pc \in {"keep", "decrypt", "sign", "pop", "forget"} => call.session_key = h
        /\ call.pc \in {"decrypt", "sign"} /\ call.keep_session => session_keys[h] = h
        /\ call.pc = "keep" => call.keep_session
        /\ call.pc \in {"pop", "forget"} => ~call.keep_session
        /\ call.pc = "forget" => session_keys[h] = None
        /\ call.pc = "200" /\ ~call.keep_session => h \notin sessions
        /\ call.pc \notin Refusals
        /\ \A d \in Calls : Sent(c) /\ calls[d].hid = h /\ c < d => Kept(c)

\* What the server keeps of a handshake, and how often it was used.
HandshakeInv(h) ==
    /\ h \in sessions => h \in Calls /\ h < counter
    /\ session_keys[h] # None => h \in sessions /\ session_keys[h] = h
    /\ (h \in Calls /\ CallsOf(h) # {} /\ \A c \in CallsOf(h) : Kept(c)) =>
          h \in sessions /\ session_keys[h] = h
    /\ Cardinality(CallsOf(h)) <= requests_per_handshake
    /\ Cardinality(CallsOf(h)) = requests_per_handshake => \E c \in CallsOf(h) : ~calls[c].keep_session

\* Worker w alone goes on with handshake h.
OwnedBy(w, h) ==
    LET worker == workers[w]
        session == worker.session
    IN  /\ session.hid = h /\ session.session_key = h /\ calls[h].hid = h
        /\ Cardinality(CallsOf(h)) + session.requests_left = requests_per_handshake
        /\ worker.pc \in {"loop", "begin"} /\ session.requests_left > 0 =>
              \A c \in CallsOf(h) : Kept(c)
        /\ worker.pc = "begin" => \A c \in CallsOf(h) : c < worker.idx
        /\ worker.pc = "waiting" =>
              /\ calls[worker.idx].hid = h
              /\ calls[worker.idx].keep_session <=> session.requests_left > 0
              /\ \A c \in CallsOf(h) : c <= worker.idx
        /\ \A v \in Workers \ {w} : Resumed(v) => workers[v].session.hid # h

\* What a worker knows of the session it is in.
OwnerInv(w) ==
    LET worker == workers[w]
        session == worker.session
    IN  /\ worker.pc \in {"begin", "establish"} => ~Sent(worker.idx)
        /\ worker.pc = "waiting" => Sent(worker.idx)
        /\ worker.pc = "establish" => worker.hid = worker.idx /\ worker.idx \in sessions /\ ~Resumed(w)
        /\ session # None /\ session.session_key = None =>
              session.requests_left = requests_per_handshake /\ worker.pc \in {"begin", "establish"}
        /\ Resumed(w) => \E h \in Calls : OwnedBy(w, h)

SessionInv ==
    ~reuse_handshake =>
        /\ \A c \in Calls : CallInv(c)
        /\ \A h \in Hids : HandshakeInv(h)
        /\ \A w \in Workers : OwnerInv(w)

\* A call, a worker about to send one, and an established session has a
\* handshake; the controls send no calls.
SentInv ==
    /\ \A c \in Calls : Sent(c) => calls[c].hid \in Hids /\ ~unprotected
    /\ \A w \in Workers : workers[w].pc = "establish" => workers[w].hid \in Hids
    /\ \A w \in Workers : Resumed(w) => workers[w].session.hid \in Hids

CellInv == TypeOK /\ WorkerInv /\ RowsInv /\ SentInv /\ SessionInv

-----------------------------------------------------------------------------
(***************************************************************************)
(* Types.                                                                  *)
(***************************************************************************)
PCs == {"loop", "begin", "handshake", "predict", "establish", "waiting", "stopped"}

LEMMA ConstantFacts ==
    /\ n_requests \in Nat /\ Calls = 0..(n_requests - 1) /\ Keys = Calls
    /\ Calls \subseteq Hids /\ Calls \subseteq Nat
    /\ None \notin Calls /\ None \notin Keys /\ None \notin Hids /\ None \notin Session
    /\ Cached \notin Calls
  BY CellAssumption, NoneAssumption, SessionAssumption

LEMMA ModeFacts ==
    ASSUME TypeOK
    PROVE  /\ requests_per_handshake \in Nat \ {0} /\ reuse_handshake \in BOOLEAN
           /\ mode.config_name \in {"protected", "control", "control_2rt"}
  BY CellAssumption DEF TypeOK, requests_per_handshake, reuse_handshake

LEMMA ModeFixed ==
    ASSUME UNCHANGED mode
    PROVE  UNCHANGED <<requests_per_handshake, reuse_handshake, unprotected, resuming>>
  BY DEF requests_per_handshake, reuse_handshake, unprotected, resuming

LEMMA WorkerFields ==
    ASSUME TypeOK, NEW w \in Workers
    PROVE  /\ workers[w].pc \in PCs /\ workers[w].idx \in Calls \cup {None}
           /\ workers[w].hid \in Hids \cup {None} /\ workers[w].session \in Session \cup {None}
           /\ DOMAIN workers = Workers
  BY DEF TypeOK, PCs

LEMMA SessionFields ==
    ASSUME TypeOK, NEW w \in Workers, workers[w].session # None
    PROVE  /\ workers[w].session \in Session
           /\ workers[w].session.requests_left \in Nat
           /\ workers[w].session.hid \in Hids \cup {None}
           /\ workers[w].session.session_key \in Keys \cup {None}
  BY WorkerFields DEF Session

LEMMA CallFields ==
    ASSUME TypeOK, NEW c \in Calls
    PROVE  /\ calls[c].pc \in {"unsent", "lost"} \cup Running \cup Statuses
           /\ calls[c].hid \in Hids \cup {None} /\ calls[c].kex_key \in Keys \cup {None}
           /\ calls[c].keep_session \in BOOLEAN
           /\ calls[c].body_key \in Keys \cup {None} /\ calls[c].session_key \in Keys \cup {None}
  BY DEF TypeOK, ServerTypeOK

LEMMA RowFields ==
    ASSUME TypeOK
    PROVE  /\ Len(results) \in Nat /\ DOMAIN results = 1..Len(results)
           /\ \A i \in DOMAIN results :
                 /\ results[i].idx \in Calls /\ results[i].outcome \in {"ok", "error"}
                 /\ results[i] = [idx |-> results[i].idx, outcome |-> results[i].outcome]
  <1> DEFINE Rows == [idx: Calls, outcome: {"ok", "error"}]
  <1>1. results \in Seq(Rows)
    BY DEF TypeOK
  <1>2. Len(results) \in Nat /\ DOMAIN results = 1..Len(results)
    BY <1>1
  <1>3. \A i \in DOMAIN results : results[i] \in Rows
    BY <1>1, <1>2, ElementOfSeq
  <1>4. QED
    BY <1>2, <1>3

\* A worker's state, written as a whole.
LEMMA WorkersUpdate ==
    ASSUME TypeOK, NEW w \in Workers, NEW pc \in PCs, NEW idx \in Calls \cup {None},
           NEW hid \in Hids \cup {None}, NEW session \in Session \cup {None},
           workers' = [workers EXCEPT ![w] =
               [pc |-> pc, idx |-> idx, hid |-> hid, session |-> session]]
    PROVE  /\ workers' \in [Workers -> [pc: PCs, idx: Calls \cup {None},
                                        hid: Hids \cup {None}, session: Session \cup {None}]]
           /\ workers'[w] = [pc |-> pc, idx |-> idx, hid |-> hid, session |-> session]
           /\ \A v \in Workers \ {w} : workers'[v] = workers[v]
  BY DEF TypeOK, PCs

LEMMA NewSessionType ==
    ASSUME TypeOK
    PROVE  /\ NewSession \in Session /\ NewSession.requests_left = requests_per_handshake
           /\ NewSession.session_key = None
  BY ModeFacts DEF NewSession, Session

-----------------------------------------------------------------------------
(***************************************************************************)
(* Indices and rows.  A worker step takes an index, keeps it, or leaves    *)
(* its row and lets it go.                                                 *)
(***************************************************************************)
TypedWorkers ==
    workers \in [Workers -> [pc: PCs, idx: Calls \cup {None},
                             hid: Hids \cup {None}, session: Session \cup {None}]]

Others(w) == \A v \in Workers \ {w} : workers'[v] = workers[v]

\* What is answered stays answered.
AnsweredStays == \A c \in Calls : calls[c].pc = "200" => calls'[c].pc = "200"

\* The pc and the session are possible in this mode.
PcInMode(pc) ==
    IF unprotected THEN pc \notin {"begin", "establish", "waiting"}
    ELSE pc \notin {"handshake", "predict"}
SessionToSpend(worker) ==
    /\ worker.pc \in {"begin", "establish"} /\ worker.session # None => worker.session.requests_left > 0
    /\ ~resuming => worker.session = None

LEMMA BusyFacts ==
    ASSUME TypeOK, WorkerInv, NEW w \in Workers, Busy(w)
    PROVE  /\ workers[w].idx \in Calls /\ workers[w].idx < counter
           /\ PcInMode(workers[w].pc) /\ SessionToSpend(workers[w])
  BY DEF WorkerInv, PcInMode, SessionToSpend

\* The index is kept.
LEMMA KeepIndex ==
    ASSUME TypeOK, WorkerInv, RowsInv, NEW w \in Workers, Busy(w), TypedWorkers', Others(w),
           Busy(w)', workers'[w].idx = workers[w].idx, PcInMode(workers'[w].pc),
           SessionToSpend(workers'[w]), UNCHANGED <<mode, counter, results>>,
           \A c \in Calls \ {workers[w].idx} : calls[c].pc = "200" => calls'[c].pc = "200"
    PROVE  WorkerInv' /\ RowsInv'
  <1>1. UNCHANGED <<unprotected, resuming>>
    BY ModeFixed
  <1>2. \A v \in Workers : (Busy(v)' <=> Busy(v)) /\ workers'[v].idx = workers[v].idx
    BY DEF Others, Busy
  <1>3. WorkerInv'
    BY <1>1, <1>2 DEF WorkerInv, Others, PcInMode, SessionToSpend, Busy
  <1>4. \A i \in DOMAIN results : results[i].idx \in Calls /\ results[i].idx # workers[w].idx
    BY RowFields DEF RowsInv
  <1>5. RowsInv'
    BY <1>1, <1>2, <1>4 DEF RowsInv
  <1>6. QED
    BY <1>3, <1>5

\* The worker that is not busy stays so.
LEMMA StayIdle ==
    ASSUME TypeOK, WorkerInv, RowsInv, AnsweredStays, UNCHANGED <<mode, counter, results>>,
           NEW w \in Workers, Others(w), TypedWorkers', ~Busy(w), ~Busy(w)',
           workers'[w].pc = "stopped" => counter = n_requests, SessionToSpend(workers'[w])
    PROVE  WorkerInv' /\ RowsInv'
  <1>1. UNCHANGED <<unprotected, resuming>>
    BY ModeFixed
  <1>2. \A v \in Workers : (Busy(v)' <=> Busy(v)) /\ (Busy(v) => workers'[v] = workers[v])
    BY DEF Others, Busy
  <1>3. WorkerInv'
    BY <1>1, <1>2 DEF WorkerInv, Others, Busy, SessionToSpend
  <1>4. \A i \in DOMAIN results : results[i].idx \in Calls
    BY RowFields
  <1>5. RowsInv'
    BY <1>1, <1>2, <1>4 DEF RowsInv, AnsweredStays
  <1>6. QED
    BY <1>3, <1>5

\* Nothing happens to the workers.
LEMMA ServerKeepsRows ==
    ASSUME TypeOK, WorkerInv, RowsInv, AnsweredStays, UNCHANGED <<mode, counter, workers, results>>
    PROVE  WorkerInv' /\ RowsInv'
  <1>1. UNCHANGED <<unprotected, resuming>>
    BY ModeFixed
  <1>2. \A i \in DOMAIN results : results[i].idx \in Calls
    BY RowFields
  <1>3. QED
    BY <1>1, <1>2 DEF WorkerInv, RowsInv, Busy, AnsweredStays

LEMMA TakeIndex ==
    ASSUME TypeOK, WorkerInv, RowsInv, AnsweredStays, UNCHANGED <<mode, results>>,
           NEW w \in Workers, Others(w), TypedWorkers', ~Busy(w), Busy(w)',
           counter < n_requests, counter' = counter + 1, workers'[w].idx = counter,
           PcInMode(workers'[w].pc), SessionToSpend(workers'[w])
    PROVE  WorkerInv' /\ RowsInv'
  <1>1. UNCHANGED <<unprotected, resuming>>
    BY ModeFixed
  <1>2. /\ counter \in Calls /\ counter \in Nat /\ Calls \subseteq Nat
    BY ConstantFacts DEF TypeOK
  <1>3. \A v \in Workers \ {w} : (Busy(v)' <=> Busy(v)) /\ workers'[v] = workers[v]
    BY DEF Others, Busy
  <1>4. ASSUME NEW v \in Workers, Busy(v)'
        PROVE  workers'[v].idx \in Calls /\ workers'[v].idx < counter'
    <2>1. CASE v = w
      BY <1>2, <2>1
    <2>2. CASE v # w
      <3>1. workers[v].idx \in Calls /\ workers[v].idx < counter /\ workers'[v] = workers[v]
        BY <1>3, <1>4, <2>2, BusyFacts
      <3>2. workers[v].idx < counter + 1
        <4>1. \A n \in Nat : n < counter => n < counter + 1
          BY <1>2
        <4>2. QED
          BY <1>2, <3>1, <4>1
      <3>3. QED
        BY <3>1, <3>2
    <2>3. QED
      BY <2>1, <2>2
  <1>5. \A u, v \in Workers : Busy(u)' /\ Busy(v)' /\ workers'[u].idx = workers'[v].idx => u = v
    BY <1>2, <1>3, BusyFacts DEF WorkerInv
  <1>6. \A v \in Workers : workers'[v].pc # "stopped"
    BY <1>2, <1>3 DEF WorkerInv, Busy
  <1>7. WorkerInv'
    BY <1>1, <1>3, <1>4, <1>5, <1>6 DEF WorkerInv, PcInMode, SessionToSpend
  <1>8. \A i \in DOMAIN results : results[i].idx \in Calls /\ results[i].idx < counter
    BY RowFields DEF RowsInv
  <1>9. \A c \in Calls : c < counter' => c < counter \/ c = counter
    BY <1>2
  <1>10. ASSUME NEW i \in DOMAIN results
         PROVE  /\ results[i].idx < counter'
                /\ \A v \in Workers : Busy(v)' => workers'[v].idx # results[i].idx
                /\ (~unprotected /\ results[i].outcome = "ok") => calls'[results[i].idx].pc = "200"
    <2>1. results[i].idx \in Nat /\ results[i].idx < counter
      BY <1>2, <1>8
    <2>2. \A v \in Workers : Busy(v)' => workers'[v].idx # results[i].idx
      BY <1>2, <1>3, <2>1 DEF RowsInv
    <2>3. QED
      BY <1>2, <1>8, <2>1, <2>2 DEF RowsInv, AnsweredStays
  <1>11. ASSUME NEW c \in Calls, c < counter'
         PROVE  \/ \E i \in DOMAIN results : results[i].idx = c
                \/ \E v \in Workers : Busy(v)' /\ workers'[v].idx = c
    <2>1. CASE c < counter
      BY <1>3, <2>1 DEF RowsInv
    <2>2. CASE c = counter
      BY <2>2
    <2>3. QED
      BY <1>9, <1>11, <2>1, <2>2
  <1>12. RowsInv'
    BY <1>1, <1>10, <1>11 DEF RowsInv
  <1>13. QED
    BY <1>7, <1>12

LEMMA LeaveRow ==
    ASSUME TypeOK, WorkerInv, RowsInv, UNCHANGED <<mode, calls>>, ServerTypeOK',
           NEW w \in Workers, Busy(w), NEW outcome \in {"ok", "error"}, Finish(w, outcome),
           ~unprotected /\ outcome = "ok" => calls[workers[w].idx].pc = "200"
    PROVE  /\ TypeOK' /\ WorkerInv' /\ RowsInv' /\ Others(w) /\ UNCHANGED counter
           /\ workers'[w] = Idle(SessionAfter(w, outcome))
  <1>1. UNCHANGED <<unprotected, resuming, counter>>
    BY ModeFixed DEF Finish
  <1>2. SessionAfter(w, outcome) \in Session \cup {None}
    BY WorkerFields DEF SessionAfter
  <1>3. TypedWorkers' /\ Others(w) /\ workers'[w] = Idle(SessionAfter(w, outcome))
    BY <1>2, WorkersUpdate DEF Finish, Idle, PCs, TypedWorkers, Others
  <1>4. ~Busy(w)' /\ workers'[w].pc = "loop"
    BY <1>3 DEF Busy, Idle
  <1>5. \A v \in Workers \ {w} : (Busy(v)' <=> Busy(v)) /\ workers'[v] = workers[v]
    BY <1>3 DEF Others, Busy
  <1>6. WorkerInv'
    <2>1. ~resuming => workers'[w].session = None
      BY <1>3 DEF WorkerInv, Idle, SessionAfter
    <2>2. QED
      BY <1>1, <1>4, <1>5, <2>1 DEF WorkerInv
  <1> DEFINE row == [idx |-> workers[w].idx, outcome |-> outcome]
             Rows == [idx: Calls, outcome: {"ok", "error"}]
  <1>7. /\ results \in Seq(Rows) /\ row \in Rows /\ results' = Append(results, row)
        /\ row.idx = workers[w].idx /\ row.outcome = outcome
    BY BusyFacts DEF TypeOK, Finish
  <1> HIDE DEF row, Rows
  <1>8. /\ results' \in Seq(Rows) /\ Len(results) \in Nat /\ Len(results') = Len(results) + 1
        /\ DOMAIN results = 1..Len(results) /\ DOMAIN results' = 1..(Len(results) + 1)
        /\ \A i \in 1..Len(results) : results'[i] = results[i]
        /\ results'[Len(results) + 1] = row
    BY <1>7, AppendProperties
  <1>9. TypeOK'
    BY <1>1, <1>3, <1>8 DEF TypeOK, TypedWorkers, PCs, Rows
  <1>10. \A i \in 1..Len(results) : results[i].idx \in Calls /\ results[i].idx < counter
                                     /\ results[i].idx # workers[w].idx
    BY <1>8, RowFields DEF RowsInv
  <1>11. \A i, j \in DOMAIN results' : results'[i].idx = results'[j].idx => i = j
    BY <1>7, <1>8, <1>10 DEF RowsInv
  <1>12. ASSUME NEW i \in DOMAIN results'
         PROVE  /\ results'[i].idx < counter
                /\ \A v \in Workers : Busy(v)' => workers'[v].idx # results'[i].idx
                /\ (~unprotected /\ results'[i].outcome = "ok") => calls'[results'[i].idx].pc = "200"
    <2>1. CASE i \in 1..Len(results)
      BY <1>4, <1>5, <1>8, <2>1 DEF RowsInv
    <2>2. CASE i = Len(results) + 1
      BY <1>4, <1>5, <1>7, <1>8, <2>2, BusyFacts DEF WorkerInv
    <2>3. QED
      BY <1>8, <1>12, <2>1, <2>2
  <1>13. ASSUME NEW c \in Calls, c < counter
         PROVE  \/ \E i \in DOMAIN results' : results'[i].idx = c
                \/ \E v \in Workers : Busy(v)' /\ workers'[v].idx = c
    <2>1. CASE \E i \in DOMAIN results : results[i].idx = c
      BY <1>8, <2>1
    <2>2. CASE \E v \in Workers : Busy(v) /\ workers[v].idx = c
      BY <1>5, <1>7, <1>8, <2>2
    <2>3. QED
      BY <1>13, <2>1, <2>2 DEF RowsInv
  <1>14. RowsInv'
    BY <1>1, <1>11, <1>12, <1>13 DEF RowsInv
  <1>15. QED
    BY <1>1, <1>3, <1>6, <1>9, <1>14

-----------------------------------------------------------------------------
(***************************************************************************)
(* What each step of a worker does to indices and rows.                    *)
(***************************************************************************)
Books == TypeOK /\ WorkerInv /\ RowsInv

LEMMA ClaimBooks ==
    ASSUME Books, NEW w \in Workers, Claim(w), UNCHANGED mode
    PROVE  /\ Books' /\ Others(w) /\ UNCHANGED serverVars
           /\ counter \in Calls /\ counter' = counter + 1
           /\ workers'[w] = [pc |-> FirstStep, idx |-> counter, hid |-> None,
                             session |-> NextSession(workers[w].session)]
  <1>1. TypeOK /\ WorkerInv /\ RowsInv /\ ~Busy(w) /\ counter < n_requests /\ counter' = counter + 1
    BY DEF Books, Claim, Busy
  <1>2. counter \in Calls /\ counter' \in 0..n_requests
    BY <1>1, ConstantFacts DEF TypeOK
  <1>3. FirstStep \in {"begin", "predict", "handshake"} /\ PcInMode(FirstStep)
    BY <1>1, ModeFacts DEF FirstStep, PcInMode, unprotected
  <1>4. NextSession(workers[w].session) \in Session \cup {None}
    BY <1>1, NewSessionType, WorkerFields DEF NextSession
  <1>5. /\ TypedWorkers' /\ Others(w)
        /\ workers'[w] = [pc |-> FirstStep, idx |-> counter, hid |-> None,
                          session |-> NextSession(workers[w].session)]
    BY <1>1, <1>2, <1>3, <1>4, WorkersUpdate DEF Claim, PCs, TypedWorkers, Others
  <1>6. SessionToSpend(workers'[w])
    <2>1. workers'[w].session = NextSession(workers[w].session)
      BY <1>5
    <2>2. CASE ~resuming
      BY <1>1, <2>1, <2>2 DEF NextSession, WorkerInv, SessionToSpend
    <2>3. CASE resuming /\ (workers[w].session = None \/ workers[w].session.requests_left <= 0)
      BY <1>1, <2>1, <2>3, NewSessionType, ModeFacts DEF NextSession, SessionToSpend
    <2>4. CASE resuming /\ workers[w].session # None /\ ~(workers[w].session.requests_left <= 0)
      BY <1>1, <2>1, <2>4, SessionFields DEF NextSession, SessionToSpend
    <2>5. QED
      BY <2>2, <2>3, <2>4
  <1>7. AnsweredStays /\ UNCHANGED <<serverVars, results>>
    BY DEF Claim, AnsweredStays, serverVars
  <1>8. Busy(w)' /\ workers'[w].idx = counter /\ PcInMode(workers'[w].pc)
    BY <1>3, <1>5 DEF Busy
  <1>9. WorkerInv' /\ RowsInv'
    BY <1>1, <1>5, <1>6, <1>7, <1>8, TakeIndex
  <1>10. TypeOK'
    BY <1>1, <1>2, <1>5, <1>7 DEF TypeOK, TypedWorkers, PCs, ServerTypeOK, serverVars
  <1>11. QED
    BY <1>1, <1>2, <1>5, <1>7, <1>9, <1>10 DEF Books

LEMMA StopBooks ==
    ASSUME Books, NEW w \in Workers, Stop(w), UNCHANGED mode
    PROVE  /\ Books' /\ Others(w) /\ UNCHANGED <<serverVars, counter>>
           /\ workers'[w].pc = "stopped" /\ workers'[w].session = workers[w].session
  <1>1. TypeOK /\ WorkerInv /\ RowsInv /\ ~Busy(w) /\ counter = n_requests
    BY ConstantFacts DEF Books, Stop, Busy, TypeOK
  <1>2. /\ TypedWorkers' /\ Others(w)
        /\ workers'[w].pc = "stopped" /\ workers'[w].session = workers[w].session
    BY <1>1 DEF Stop, TypeOK, PCs, TypedWorkers, Others
  <1>3. AnsweredStays /\ UNCHANGED <<serverVars, counter, results>>
    BY DEF Stop, AnsweredStays, serverVars
  <1>4. SessionToSpend(workers'[w]) /\ ~Busy(w)'
    BY <1>1, <1>2 DEF WorkerInv, SessionToSpend, Busy
  <1>5. WorkerInv' /\ RowsInv'
    BY <1>1, <1>2, <1>3, <1>4, StayIdle
  <1>6. TypeOK'
    BY <1>1, <1>2, <1>3 DEF TypeOK, TypedWorkers, PCs, ServerTypeOK, serverVars
  <1>7. QED
    BY <1>2, <1>3, <1>5, <1>6 DEF Books

LEMMA ServerTypeKept ==
    ASSUME TypeOK, UNCHANGED serverVars
    PROVE  ServerTypeOK' /\ UNCHANGED calls
  BY DEF TypeOK, ServerTypeOK, serverVars

\* ControlHandshake, ControlPredict, Receive and Timeout leave a row or go on.
LEMMA ControlBooks ==
    ASSUME Books, NEW w \in Workers, ControlHandshake(w) \/ ControlPredict(w), UNCHANGED mode
    PROVE  Books' /\ UNCHANGED <<serverVars, counter>> /\ unprotected
  <1>1. /\ TypeOK /\ WorkerInv /\ RowsInv /\ Busy(w) /\ UNCHANGED serverVars
        /\ workers[w].pc \in {"handshake", "predict"}
    BY DEF Books, Busy, ControlHandshake, ControlPredict
  <1>2. unprotected
    BY <1>1 DEF WorkerInv
  <1>3. CASE \E outcome \in {"ok", "error"} : Finish(w, outcome)
    BY <1>1, <1>2, <1>3, LeaveRow, ServerTypeKept DEF Books
  <1>4. CASE /\ workers' = [workers EXCEPT ![w].pc = "predict"]
             /\ UNCHANGED <<counter, results>>
    <2>1. /\ TypedWorkers' /\ Others(w) /\ workers'[w].pc = "predict"
          /\ workers'[w].idx = workers[w].idx /\ workers'[w].session = workers[w].session
      BY <1>1, <1>4 DEF TypeOK, PCs, TypedWorkers, Others
    <2>2. SessionToSpend(workers'[w]) /\ PcInMode(workers'[w].pc) /\ Busy(w)'
      BY <1>1, <1>2, <2>1 DEF WorkerInv, SessionToSpend, PcInMode, Busy
    <2>3. WorkerInv' /\ RowsInv'
      BY <1>1, <1>4, <2>1, <2>2, KeepIndex DEF serverVars
    <2>4. TypeOK'
      BY <1>1, <1>4, <2>1 DEF TypeOK, TypedWorkers, PCs, ServerTypeOK, serverVars
    <2>5. QED
      BY <1>1, <1>2, <1>4, <2>3, <2>4 DEF Books
  <1>5. QED
    BY <1>3, <1>4 DEF ControlHandshake, ControlPredict

LEMMA AnswerBooks ==
    ASSUME Books, NEW w \in Workers, Receive(w) \/ Timeout(w), UNCHANGED mode
    PROVE  /\ Books' /\ Others(w) /\ UNCHANGED <<serverVars, counter>>
           /\ workers[w].pc = "waiting" /\ ~unprotected
           /\ \E outcome \in {"ok", "error"} :
                 /\ outcome = "ok" => calls[workers[w].idx].pc = "200"
                 /\ workers'[w] = Idle(SessionAfter(w, outcome))
  <1>1. /\ TypeOK /\ WorkerInv /\ RowsInv /\ Busy(w) /\ UNCHANGED serverVars
        /\ workers[w].pc = "waiting"
    BY DEF Books, Busy, Receive, Timeout
  <1>2. ~unprotected
    BY <1>1 DEF WorkerInv
  <1>3. PICK outcome \in {"ok", "error"} :
            Finish(w, outcome) /\ (outcome = "ok" => calls[workers[w].idx].pc = "200")
    BY DEF Receive, Timeout
  <1>4. /\ Books' /\ Others(w) /\ UNCHANGED counter
        /\ workers'[w] = Idle(SessionAfter(w, outcome))
    BY <1>1, <1>3, LeaveRow, ServerTypeKept DEF Books
  <1>5. QED
    BY <1>1, <1>2, <1>3, <1>4

LEMMA HandshakeBooks ==
    ASSUME Books, NEW w \in Workers, Handshake(w), UNCHANGED mode
    PROVE  /\ Books' /\ Others(w) /\ UNCHANGED <<counter, calls, session_keys>>
           /\ workers[w].pc = "begin" /\ ~Resumed(w) /\ ~reuse_handshake /\ ~unprotected
           /\ sessions' = sessions \cup {workers[w].idx}
           /\ workers'[w] = [pc |-> "establish", idx |-> workers[w].idx, hid |-> workers[w].idx,
                             session |-> workers[w].session]
  <1>1. /\ TypeOK /\ WorkerInv /\ RowsInv /\ workers[w].pc = "begin" /\ Busy(w)
        /\ UNCHANGED <<counter, calls, session_keys, results>> /\ ~Resumed(w) /\ ~reuse_handshake
        /\ sessions' = sessions \cup {workers[w].idx}
    BY DEF Books, Busy, Handshake, new_handshake
  <1>2. workers[w].idx \in Calls /\ workers[w].idx \in Hids /\ ~unprotected
    BY <1>1, BusyFacts, ConstantFacts DEF PcInMode
  <1>3. /\ TypedWorkers' /\ Others(w)
        /\ workers'[w] = [pc |-> "establish", idx |-> workers[w].idx, hid |-> workers[w].idx,
                          session |-> workers[w].session]
    BY <1>1, <1>2 DEF Handshake, TypeOK, PCs, TypedWorkers, Others
  <1>4. SessionToSpend(workers'[w]) /\ PcInMode(workers'[w].pc) /\ Busy(w)'
    BY <1>1, <1>2, <1>3 DEF WorkerInv, SessionToSpend, PcInMode, Busy
  <1>5. WorkerInv' /\ RowsInv'
    BY <1>1, <1>3, <1>4, KeepIndex
  <1>6. TypeOK'
    BY <1>1, <1>2, <1>3 DEF TypeOK, TypedWorkers, PCs, ServerTypeOK
  <1>7. QED
    BY <1>1, <1>2, <1>3, <1>5, <1>6 DEF Books

LEMMA HandshakeFailsBooks ==
    ASSUME Books, NEW w \in Workers, HandshakeFails(w), UNCHANGED mode
    PROVE  /\ Books' /\ Others(w) /\ UNCHANGED <<counter, calls, session_keys>>
           /\ workers[w].pc = "begin" /\ ~Resumed(w) /\ ~reuse_handshake /\ ~unprotected
           /\ sessions' \in {sessions, sessions \cup {workers[w].idx}}
           /\ workers'[w] = Idle(None)
  <1>1. /\ TypeOK /\ WorkerInv /\ RowsInv /\ workers[w].pc = "begin" /\ Busy(w)
        /\ UNCHANGED <<counter, calls, session_keys>> /\ ~Resumed(w) /\ ~reuse_handshake
        /\ sessions' \in {sessions, sessions \cup {workers[w].idx}} /\ Finish(w, "error")
    BY DEF Books, Busy, HandshakeFails, new_handshake, Finish
  <1>2. workers[w].idx \in Calls /\ workers[w].idx \in Hids /\ ~unprotected
    BY <1>1, BusyFacts, ConstantFacts DEF PcInMode
  <1>3. ServerTypeOK'
    BY <1>1, <1>2 DEF TypeOK, ServerTypeOK
  <1>4. TypeOK' /\ WorkerInv' /\ RowsInv' /\ Others(w) /\ workers'[w] = Idle(SessionAfter(w, "error"))
    BY <1>1, <1>3, LeaveRow
  <1>5. QED
    BY <1>1, <1>2, <1>4 DEF Books, SessionAfter

\* A request goes out: PostFirst, PostCached and PostResumed.
Posted(w, idx, h, kex_key, key) ==
    LET old == workers[w].session
        call == calls'[idx]
        worker == workers'[w]
    IN  /\ idx \in Calls /\ idx < counter /\ ~unprotected
        /\ Others(w) /\ UNCHANGED <<counter, sessions, session_keys>>
        /\ worker.pc = "waiting" /\ worker.idx = idx
        /\ IF old = None THEN worker.session = None
           ELSE /\ worker.session # None /\ old.requests_left > 0
                /\ worker.session.requests_left = old.requests_left - 1
                /\ worker.session.hid = h /\ worker.session.session_key = key
        /\ \A c \in Calls \ {idx} : calls'[c] = calls[c]
        /\ call.pc = (IF kex_key # None THEN "accept" ELSE "resume")
        /\ call.hid = h /\ call.kex_key = kex_key /\ call.body_key = key
        /\ call.keep_session = KeepSession(old) /\ call.session_key = None

LEMMA PostBooks ==
    ASSUME Books, NEW w \in Workers, workers[w].pc \in {"begin", "establish"},
           NEW idx, idx = workers[w].idx,
           NEW h \in Hids, NEW kex_key \in Keys \cup {None}, NEW key \in Keys,
           Post(w, h, kex_key, key), UNCHANGED mode
    PROVE  Books' /\ Posted(w, idx, h, kex_key, key)
  <1> DEFINE old == workers[w].session
             new == SessionWith(old, h, key)
             call == [pc |-> IF kex_key # None THEN "accept" ELSE "resume", hid |-> h,
                      kex_key |-> kex_key, keep_session |-> KeepSession(old),
                      body_key |-> key, session_key |-> None]
  <1>1. TypeOK /\ WorkerInv /\ RowsInv /\ Busy(w) /\ UNCHANGED <<counter, sessions, session_keys, results>>
    BY DEF Books, Busy, Post
  <1>2. idx \in Calls /\ idx < counter /\ ~unprotected /\ SessionToSpend(workers[w])
    BY <1>1, BusyFacts DEF PcInMode
  <1>3. /\ old # None => /\ new = [requests_left |-> old.requests_left - 1, hid |-> h, session_key |-> key]
                         /\ new \in Session /\ new # None /\ old.requests_left > 0
        /\ old = None => new = None
    <2>1. CASE old = None
      BY <2>1 DEF SessionWith
    <2>2. CASE old # None
      <3>1. old.requests_left \in Nat /\ old.requests_left > 0
        BY <1>1, <1>2, <2>2, SessionFields DEF SessionToSpend
      <3>2. old.requests_left - 1 \in Nat
        BY <3>1
      <3>3. new = [requests_left |-> old.requests_left - 1, hid |-> h, session_key |-> key]
        BY <2>2 DEF SessionWith
      <3>4. new \in Session
        BY <3>2, <3>3 DEF Session
      <3>5. QED
        BY <2>2, <3>1, <3>3, <3>4, ConstantFacts
    <2>3. QED
      BY <2>1, <2>2
  <1>4. new \in Session \cup {None}
    BY <1>3
  <1>5. /\ TypedWorkers' /\ Others(w)
        /\ workers'[w] = [pc |-> "waiting", idx |-> idx, hid |-> h, session |-> new]
    BY <1>1, <1>2, <1>4 DEF Post, TypeOK, PCs, TypedWorkers, Others
  <1>6. calls' = [calls EXCEPT ![idx] = call]
    BY DEF Post, Arrive
  <1>7. call \in [pc: {"unsent", "lost"} \cup Running \cup Statuses,
                  hid: Hids \cup {None}, kex_key: Keys \cup {None}, keep_session: BOOLEAN,
                  body_key: Keys \cup {None}, session_key: Keys \cup {None}]
    BY DEF KeepSession, Running
  <1> HIDE DEF call
  <1>8. /\ ServerTypeOK' /\ calls'[idx] = call
        /\ \A c \in Calls \ {idx} : calls'[c] = calls[c]
    BY <1>1, <1>2, <1>6, <1>7 DEF TypeOK, ServerTypeOK
  <1>9. SessionToSpend(workers'[w]) /\ PcInMode(workers'[w].pc) /\ Busy(w)'
    BY <1>1, <1>2, <1>3, <1>5 DEF SessionToSpend, PcInMode, Busy
  <1>10. WorkerInv' /\ RowsInv'
    BY <1>1, <1>2, <1>5, <1>8, <1>9, KeepIndex
  <1>11. TypeOK'
    BY <1>1, <1>5, <1>8 DEF TypeOK, TypedWorkers, PCs
  <1>12. Books'
    BY <1>10, <1>11 DEF Books
  <1>13. /\ calls'[idx].pc = (IF kex_key # None THEN "accept" ELSE "resume")
         /\ calls'[idx].hid = h /\ calls'[idx].kex_key = kex_key /\ calls'[idx].body_key = key
         /\ calls'[idx].keep_session = KeepSession(old) /\ calls'[idx].session_key = None
    BY <1>8 DEF call
  <1>14. IF old = None THEN workers'[w].session = None
         ELSE /\ workers'[w].session # None /\ old.requests_left > 0
              /\ workers'[w].session.requests_left = old.requests_left - 1
              /\ workers'[w].session.hid = h /\ workers'[w].session.session_key = key
    BY <1>3, <1>5
  <1>15. QED
    BY <1>1, <1>2, <1>5, <1>8, <1>12, <1>13, <1>14 DEF Posted

-----------------------------------------------------------------------------
(***************************************************************************)
(* The server's steps.                                                     *)
(***************************************************************************)
\* A step of call c, or its loss, changes that call only.
LEMMA CallStepEffect ==
    ASSUME TypeOK, SentInv, NEW c \in Calls, HandlerStep(c) \/ Lose(c)
    PROVE  /\ ServerTypeOK' /\ Sent(c) /\ Sent(c)'
           /\ \A d \in Calls \ {c} : calls'[d] = calls[d]
           /\ calls[c].pc \in Running
           /\ calls'[c].hid = calls[c].hid /\ calls'[c].kex_key = calls[c].kex_key
           /\ calls'[c].keep_session = calls[c].keep_session
           /\ calls'[c].body_key = calls[c].body_key
  <1> DEFINE hid == calls[c].hid
             Type == [pc: {"unsent", "lost"} \cup Running \cup Statuses,
                      hid: Hids \cup {None}, kex_key: Keys \cup {None},
                      keep_session: BOOLEAN,
                      body_key: Keys \cup {None}, session_key: Keys \cup {None}]
  <1>1. calls \in [Calls -> Type] /\ calls[c] \in Type
    BY DEF TypeOK, ServerTypeOK
  <1>2. calls[c].pc \in Running /\ Sent(c)
    BY DEF HandlerStep, Accept, Keep, Resume, Decrypt, SignResponse, Pop, ForgetHandshake, Lose,
       Running, Sent
  <1>3. hid \in Hids /\ session_keys[hid] \in Keys \cup {None}
    BY <1>2 DEF SentInv, TypeOK, ServerTypeOK
  <1>4. ASSUME NEW pc \in {"lost"} \cup Running \cup Statuses, Goto(c, pc)
        PROVE  /\ calls' \in [Calls -> Type] /\ \A d \in Calls \ {c} : calls'[d] = calls[d]
               /\ calls'[c] = [calls[c] EXCEPT !.pc = pc] /\ calls'[c].pc = pc
               /\ calls'[c].hid = calls[c].hid /\ calls'[c].kex_key = calls[c].kex_key
               /\ calls'[c].keep_session = calls[c].keep_session
               /\ calls'[c].body_key = calls[c].body_key
    BY <1>1, <1>4 DEF Goto
  <1>5. ASSUME NEW pc \in {"lost"} \cup Running \cup Statuses, NEW key \in Keys \cup {None},
               GotoWith(c, pc, key)
        PROVE  /\ calls' \in [Calls -> Type] /\ \A d \in Calls \ {c} : calls'[d] = calls[d]
               /\ calls'[c].pc = pc
               /\ calls'[c].hid = calls[c].hid /\ calls'[c].kex_key = calls[c].kex_key
               /\ calls'[c].keep_session = calls[c].keep_session
               /\ calls'[c].body_key = calls[c].body_key
    BY <1>1, <1>5 DEF GotoWith
  <1>6. \/ \E pc \in {"lost"} \cup Running \cup Statuses : Goto(c, pc)
        \/ \E pc \in {"lost"} \cup Running \cup Statuses, key \in Keys \cup {None} :
              GotoWith(c, pc, key)
    <2>1. CASE Accept(c)
      BY <1>1, <2>1 DEF Accept, Running, Statuses, Refusals
    <2>2. CASE Resume(c)
      BY <1>3, <2>2 DEF Resume, Running, Statuses, Refusals
    <2>3. CASE Lose(c) \/ Keep(c) \/ Pop(c) \/ ForgetHandshake(c)
      BY <2>3 DEF Lose, Keep, Pop, ForgetHandshake, Running, Statuses, Refusals
    <2>4. CASE Decrypt(c) \/ SignResponse(c)
      BY <2>4 DEF Decrypt, SignResponse, Running, Statuses, Refusals
    <2>5. QED
      BY <2>1, <2>2, <2>3, <2>4 DEF HandlerStep
  <1>7. /\ calls' \in [Calls -> Type] /\ \A d \in Calls \ {c} : calls'[d] = calls[d]
        /\ calls'[c].pc \in {"lost"} \cup Running \cup Statuses
        /\ calls'[c].hid = calls[c].hid /\ calls'[c].kex_key = calls[c].kex_key
        /\ calls'[c].keep_session = calls[c].keep_session
        /\ calls'[c].body_key = calls[c].body_key
    BY <1>4, <1>5, <1>6
  <1>8. Sent(c)'
    BY <1>7 DEF Sent, Running, Statuses, Refusals
  <1>9. sessions' \subseteq Hids /\ session_keys' \in [Hids -> Keys \cup {None}]
    <2>1. CASE Keep(c)
      BY <1>1, <2>1 DEF Keep, TypeOK, ServerTypeOK
    <2>2. CASE Pop(c)
      BY <2>2 DEF Pop, TypeOK, ServerTypeOK
    <2>3. CASE ForgetHandshake(c)
      BY <2>3 DEF ForgetHandshake, TypeOK, ServerTypeOK
    <2>4. CASE Accept(c) \/ Resume(c) \/ Decrypt(c) \/ SignResponse(c) \/ Lose(c)
      BY <2>4 DEF Accept, Resume, Decrypt, SignResponse, Lose, TypeOK, ServerTypeOK
    <2>5. QED
      BY <2>1, <2>2, <2>3, <2>4 DEF HandlerStep
  <1>10. ServerTypeOK'
    BY <1>7, <1>9 DEF ServerTypeOK
  <1>11. QED
    BY <1>2, <1>7, <1>8, <1>10

LEMMA ServerBooks ==
    ASSUME Books, SentInv, NEW c \in Calls, HandlerStep(c) \/ Lose(c),
           UNCHANGED <<mode, counter, workers, results>>
    PROVE  Books' /\ SentInv'
  <1>1. /\ TypeOK /\ WorkerInv /\ RowsInv /\ ServerTypeOK' /\ Sent(c)
        /\ \A d \in Calls \ {c} : calls'[d] = calls[d]
        /\ calls[c].pc \in Running /\ calls'[c].hid = calls[c].hid
    BY CallStepEffect DEF Books
  <1>2. AnsweredStays
    BY <1>1 DEF AnsweredStays, Running
  <1>3. WorkerInv' /\ RowsInv'
    BY <1>1, <1>2, ServerKeepsRows
  <1>4. TypeOK'
    BY <1>1 DEF TypeOK
  <1>5. SentInv'
    BY <1>1, ModeFixed DEF SentInv, Sent, Resumed
  <1>6. QED
    BY <1>3, <1>4, <1>5 DEF Books

-----------------------------------------------------------------------------
(***************************************************************************)
(* Sessions.  First the steps that leave the server alone.                 *)
(***************************************************************************)
SessionParts ==
    /\ \A c \in Calls : CallInv(c)
    /\ \A h \in Hids : HandshakeInv(h)
    /\ \A w \in Workers : OwnerInv(w)

\* The calls of a handshake have been sent, its own first.
LEMMA CallsOfSent ==
    ASSUME TypeOK, SessionParts, NEW h \in Calls, NEW c \in CallsOf(h)
    PROVE  c \in Calls /\ Sent(c) /\ Sent(h) /\ calls[c].hid = h /\ calls[h].hid = h /\ c < counter
  <1>1. c \in Calls /\ calls[c].hid = h /\ h # None
    BY ConstantFacts DEF CallsOf
  <1>2. Sent(c) /\ CallInv(c) /\ CallInv(h)
    BY <1>1 DEF SessionParts, CallInv
  <1>3. calls[h].hid = h /\ c < counter
    BY <1>1, <1>2 DEF CallInv
  <1>4. QED
    BY <1>1, <1>2, <1>3 DEF CallInv

LEMMA ServerSideKept ==
    ASSUME TypeOK, SessionParts, UNCHANGED <<serverVars, mode>>, counter' \in Nat, counter <= counter'
    PROVE  /\ \A c \in Calls : CallInv(c)'
           /\ \A h \in Hids : HandshakeInv(h)'
           /\ \A h : CallsOf(h)' = CallsOf(h)
           /\ \A c \in Calls : (Sent(c)' <=> Sent(c)) /\ (Kept(c)' <=> Kept(c)) /\ calls'[c] = calls[c]
  <1>1. UNCHANGED <<sessions, session_keys, calls, requests_per_handshake>>
    BY ModeFixed DEF serverVars
  <1>2. /\ \A h : CallsOf(h)' = CallsOf(h)
        /\ \A c \in Calls : (Sent(c)' <=> Sent(c)) /\ (Kept(c)' <=> Kept(c)) /\ calls'[c] = calls[c]
    BY <1>1 DEF CallsOf, Sent, Kept
  <1>3. counter \in Nat /\ \A c \in Calls : c < counter => c < counter'
    <2>1. counter \in Nat /\ \A n \in Nat : n < counter => n < counter'
      BY ConstantFacts DEF TypeOK
    <2>2. QED
      BY <2>1, ConstantFacts
  <1>4. ASSUME NEW c \in Calls PROVE CallInv(c)'
    <2>1. CallInv(c)
      BY DEF SessionParts
    <2>2. QED
      BY <1>1, <1>2, <1>3, <2>1 DEF CallInv
  <1>5. ASSUME NEW h \in Hids PROVE HandshakeInv(h)'
    <2>1. HandshakeInv(h)
      BY DEF SessionParts
    <2>2. \A c \in CallsOf(h) : c \in Calls
      BY DEF CallsOf
    <2>3. QED
      BY <1>1, <1>2, <1>3, <2>1, <2>2 DEF HandshakeInv
  <1>6. QED
    BY <1>2, <1>4, <1>5

\* The other workers' sessions, when w keeps its own or gives it up.
LEMMA OtherOwnersGrow ==
    ASSUME TypeOK, SessionParts, UNCHANGED <<calls, mode>>, sessions \subseteq sessions',
           NEW w \in Workers, Others(w),
           Resumed(w)' => Resumed(w) /\ workers'[w].session = workers[w].session,
           NEW v \in Workers \ {w}
    PROVE  OwnerInv(v)'
  <1>1. UNCHANGED <<calls, requests_per_handshake>>
    BY ModeFixed
  <1>2. /\ \A h : CallsOf(h)' = CallsOf(h)
        /\ \A c : (Sent(c)' <=> Sent(c)) /\ (Kept(c)' <=> Kept(c))
    BY <1>1 DEF CallsOf, Sent, Kept
  <1>3. workers'[v] = workers[v] /\ (Resumed(v)' <=> Resumed(v))
    BY DEF Others, Resumed
  <1>4. \A u \in Workers : Resumed(u)' => Resumed(u) /\ workers'[u].session = workers[u].session
    BY DEF Others, Resumed
  <1>5. OwnerInv(v)
    BY DEF SessionParts
  <1>6. ASSUME NEW h \in Calls, OwnedBy(v, h) PROVE OwnedBy(v, h)'
    BY <1>1, <1>2, <1>3, <1>4, <1>6 DEF OwnedBy
  <1>7. Sent(workers[v].idx)' <=> Sent(workers[v].idx)
    BY <1>1, <1>3 DEF Sent
  <1>8. QED
    BY <1>1, <1>3, <1>5, <1>6, <1>7 DEF OwnerInv

LEMMA OtherOwners ==
    ASSUME TypeOK, SessionParts, UNCHANGED <<serverVars, mode>>, NEW w \in Workers, Others(w),
           Resumed(w)' => Resumed(w) /\ workers'[w].session = workers[w].session,
           NEW v \in Workers \ {w}
    PROVE  OwnerInv(v)'
  <1>1. UNCHANGED calls /\ sessions \subseteq sessions'
    BY DEF serverVars
  <1>2. QED
    BY <1>1, OtherOwnersGrow

\* A worker takes up its session again, or begins one without a key.
LEMMA ClaimSession ==
    ASSUME Books, NEW w \in Workers, Claim(w), UNCHANGED mode
    PROVE  /\ \/ workers'[w].session = workers[w].session
              \/ workers'[w].session = NewSession /\ resuming
           /\ Resumed(w)' => /\ Resumed(w) /\ workers'[w].session = workers[w].session
                             /\ workers[w].session.requests_left > 0
  <1>1. TypeOK /\ WorkerInv /\ workers'[w].session = NextSession(workers[w].session)
    <2>1. workers'[w] = [pc |-> FirstStep, idx |-> counter, hid |-> None,
                         session |-> NextSession(workers[w].session)]
      BY ClaimBooks
    <2>2. QED
      BY <2>1 DEF Books
  <1>2. \/ workers'[w].session = workers[w].session
        \/ workers'[w].session = NewSession /\ resuming
    BY <1>1 DEF NextSession
  <1>3. NewSession.session_key = None
    BY DEF NewSession
  <1>4. ASSUME Resumed(w)' PROVE Resumed(w) /\ workers'[w].session = workers[w].session
    BY <1>2, <1>3, <1>4 DEF Resumed
  <1>5. ASSUME Resumed(w)' PROVE workers[w].session.requests_left > 0
    <2>1. Resumed(w) /\ workers[w].session # None /\ resuming
      BY <1>1, <1>4, <1>5 DEF Resumed, WorkerInv
    <2>2. workers[w].session.requests_left \in Nat
      BY <1>1, <2>1, SessionFields
    <2>3. CASE workers[w].session.requests_left <= 0
      <3>1. workers'[w].session = NewSession
        BY <1>1, <2>1, <2>3 DEF NextSession
      <3>2. QED
        BY <1>3, <1>5, <3>1 DEF Resumed
    <2>4. QED
      BY <2>2, <2>3
  <1>6. QED
    BY <1>2, <1>4, <1>5

LEMMA ClaimKeeps ==
    ASSUME Books, SessionParts, NEW w \in Workers, Claim(w), UNCHANGED mode
    PROVE  SessionParts'
  <1>1. /\ TypeOK /\ WorkerInv /\ UNCHANGED serverVars /\ Others(w) /\ counter \in Calls
        /\ counter' = counter + 1 /\ workers[w].pc = "loop"
        /\ workers'[w] = [pc |-> FirstStep, idx |-> counter, hid |-> None,
                          session |-> NextSession(workers[w].session)]
    BY ClaimBooks DEF Books, Claim
  <1>2. counter' \in Nat /\ counter <= counter'
    BY <1>1 DEF TypeOK
  <1>3. /\ \A c \in Calls : CallInv(c)' /\ (Sent(c)' <=> Sent(c)) /\ (Kept(c)' <=> Kept(c))
        /\ \A h \in Hids : HandshakeInv(h)'
        /\ \A h : CallsOf(h)' = CallsOf(h)
    BY <1>1, <1>2, ServerSideKept
  <1>4. UNCHANGED requests_per_handshake
    BY ModeFixed
  <1>5. \/ workers'[w].session = workers[w].session
        \/ workers'[w].session = NewSession /\ resuming
    BY ClaimSession
  <1>6. Resumed(w)' => /\ Resumed(w) /\ workers'[w].session = workers[w].session
                       /\ workers[w].session.requests_left > 0
    BY ClaimSession
  <1>7. ASSUME NEW v \in Workers \ {w} PROVE OwnerInv(v)'
    BY <1>1, <1>6, OtherOwners
  <1>8. OwnerInv(w)'
    <2>1. workers'[w].pc = FirstStep /\ workers'[w].idx = counter
      BY <1>1
    <2>2. ~Sent(workers[w].idx)'
      <3>1. ~(counter < counter)
        BY <1>1, ConstantFacts
      <3>2. CallInv(counter)
        BY <1>1 DEF SessionParts
      <3>3. ~Sent(counter)
        BY <3>1, <3>2 DEF CallInv
      <3>4. QED
        BY <1>1, <2>1, <3>3 DEF Sent, serverVars
    <2>3. FirstStep \in {"begin", "handshake", "predict"} /\ (resuming => FirstStep = "begin")
      BY <1>1, ModeFacts DEF FirstStep, resuming, unprotected
    <2>4. OwnerInv(w)
      BY DEF SessionParts
    <2>5. workers'[w].session # None /\ workers'[w].session.session_key = None =>
             /\ workers'[w].session.requests_left = requests_per_handshake
             /\ workers'[w].pc \in {"begin", "establish"}
      BY <1>1, <1>5, <2>1, <2>3, <2>4, NewSessionType DEF OwnerInv
    <2>6. \A v \in Workers \ {w} : workers'[v] = workers[v] /\ (Resumed(v)' <=> Resumed(v))
      BY <1>1 DEF Others, Resumed
    <2>7. workers'[w].pc \in {"begin", "handshake", "predict"}
      BY <2>1, <2>3
    <2>8. ASSUME Resumed(w)' PROVE \E h \in Calls : OwnedBy(w, h)'
      <3>1. PICK h \in Calls : OwnedBy(w, h)
        BY <1>6, <2>4, <2>8 DEF OwnerInv
      <3>2. \A c \in CallsOf(h) : Kept(c) /\ c \in Calls /\ c < counter
        BY <1>1, <1>6, <2>8, <3>1, CallsOfSent DEF OwnedBy
      <3>3. workers'[w].session = workers[w].session /\ UNCHANGED calls
        BY <1>1, <1>6, <2>8 DEF serverVars
      <3>4. OwnedBy(w, h)'
        BY <1>3, <1>4, <2>1, <2>6, <2>7, <3>1, <3>2, <3>3 DEF OwnedBy
      <3>5. QED
        BY <3>4
    <2>9. QED
      BY <1>4, <2>2, <2>5, <2>7, <2>8 DEF OwnerInv
  <1>9. QED
    BY <1>3, <1>7, <1>8 DEF SessionParts

LEMMA StopKeeps ==
    ASSUME Books, SessionParts, NEW w \in Workers, Stop(w), UNCHANGED mode
    PROVE  SessionParts'
  <1>1. /\ TypeOK /\ UNCHANGED <<serverVars, counter>> /\ Others(w) /\ workers[w].pc = "loop"
        /\ workers'[w].pc = "stopped" /\ workers'[w].session = workers[w].session
    BY StopBooks DEF Books, Stop
  <1>2. counter' \in Nat /\ counter <= counter' /\ UNCHANGED requests_per_handshake
    BY <1>1, ModeFixed DEF TypeOK
  <1>3. /\ \A c \in Calls : CallInv(c)'
        /\ \A h \in Hids : HandshakeInv(h)'
        /\ \A h : CallsOf(h)' = CallsOf(h)
        /\ UNCHANGED calls
    BY <1>1, <1>2, ServerSideKept DEF serverVars
  <1>4. \A v \in Workers : (Resumed(v)' <=> Resumed(v)) /\ workers'[v].session = workers[v].session
    BY <1>1 DEF Others, Resumed
  <1>5. ASSUME NEW v \in Workers \ {w} PROVE OwnerInv(v)'
    BY <1>1, <1>4, OtherOwners
  <1>6. OwnerInv(w)
    BY DEF SessionParts
  <1>7. ASSUME NEW h \in Calls, OwnedBy(w, h) PROVE OwnedBy(w, h)'
    BY <1>1, <1>2, <1>3, <1>4, <1>7 DEF OwnedBy
  <1>8. OwnerInv(w)'
    BY <1>1, <1>4, <1>6, <1>7 DEF OwnerInv
  <1>9. QED
    BY <1>3, <1>5, <1>8 DEF SessionParts

\* The answer is there, or the client gives up.
LEMMA AnswerKeeps ==
    ASSUME Books, SessionParts, NEW w \in Workers, Receive(w) \/ Timeout(w), UNCHANGED mode
    PROVE  SessionParts'
  <1>1. /\ TypeOK /\ WorkerInv /\ UNCHANGED <<serverVars, counter>> /\ Others(w)
        /\ workers[w].pc = "waiting"
        /\ \E outcome \in {"ok", "error"} :
              /\ outcome = "ok" => calls[workers[w].idx].pc = "200"
              /\ workers'[w] = Idle(SessionAfter(w, outcome))
    BY AnswerBooks DEF Books
  <1>2. counter' \in Nat /\ counter <= counter' /\ UNCHANGED requests_per_handshake
    BY <1>1, ModeFixed DEF TypeOK
  <1>3. /\ \A c \in Calls : CallInv(c)' /\ (Kept(c)' <=> Kept(c))
        /\ \A h \in Hids : HandshakeInv(h)'
        /\ \A h : CallsOf(h)' = CallsOf(h)
        /\ UNCHANGED calls
    BY <1>1, <1>2, ServerSideKept DEF serverVars
  <1>4. /\ workers'[w].pc = "loop"
        /\ \/ workers'[w].session = None
           \/ workers'[w].session = workers[w].session /\ calls[workers[w].idx].pc = "200"
    BY <1>1 DEF Idle, SessionAfter
  <1>5. Resumed(w)' => Resumed(w) /\ workers'[w].session = workers[w].session
    BY <1>4 DEF Resumed
  <1>6. ASSUME NEW v \in Workers \ {w} PROVE OwnerInv(v)'
    BY <1>1, <1>5, OtherOwners
  <1>7. OwnerInv(w)
    BY DEF SessionParts
  <1>8. \A v \in Workers \ {w} : workers'[v] = workers[v] /\ (Resumed(v)' <=> Resumed(v))
    BY <1>1 DEF Others, Resumed
  <1>9. ASSUME Resumed(w)' PROVE \E h \in Calls : OwnedBy(w, h)'
    <2>1. /\ workers'[w].session = workers[w].session /\ calls[workers[w].idx].pc = "200"
      BY <1>4, <1>9 DEF Resumed
    <2>2. PICK h \in Calls : OwnedBy(w, h)
      BY <1>5, <1>7, <1>9 DEF OwnerInv
    <2>3. workers[w].idx \in Calls
      BY <1>1, BusyFacts DEF Busy
    <2>4. ASSUME workers[w].session.requests_left > 0, NEW c \in CallsOf(h) PROVE Kept(c)
      <3>1. Kept(workers[w].idx) /\ calls[workers[w].idx].hid = h /\ c <= workers[w].idx
        BY <1>1, <2>1, <2>2, <2>4 DEF OwnedBy, Kept
      <3>2. c \in Calls /\ calls[c].hid = h /\ Sent(c) /\ CallInv(c)
        BY <1>1, CallsOfSent DEF SessionParts
      <3>3. CASE c < workers[w].idx
        BY <2>3, <3>1, <3>2, <3>3 DEF CallInv
      <3>4. c < workers[w].idx \/ c = workers[w].idx
        BY <2>3, <3>1, <3>2, ConstantFacts
      <3>5. QED
        BY <3>1, <3>3, <3>4
    <2>5. \A c \in CallsOf(h) : c \in Calls
      BY DEF CallsOf
    <2>6. OwnedBy(w, h)'
      BY <1>2, <1>3, <1>4, <1>8, <2>1, <2>2, <2>4, <2>5 DEF OwnedBy
    <2>7. QED
      BY <2>6
  <1>10. OwnerInv(w)'
    BY <1>1, <1>4, <1>7, <1>9 DEF OwnerInv
  <1>11. QED
    BY <1>3, <1>6, <1>10 DEF SessionParts

\* The controls have no sessions.
LEMMA ControlKeeps ==
    ASSUME Books, SessionParts, NEW w \in Workers, ControlHandshake(w) \/ ControlPredict(w), UNCHANGED mode
    PROVE  SessionParts'
  <1>1. Books' /\ TypeOK /\ UNCHANGED <<serverVars, counter>> /\ unprotected
    BY ControlBooks DEF Books
  <1>2. counter' \in Nat /\ counter <= counter' /\ unprotected' /\ ~resuming'
    BY <1>1, ModeFixed DEF TypeOK, resuming
  <1>3. /\ \A c \in Calls : CallInv(c)'
        /\ \A h \in Hids : HandshakeInv(h)'
    BY <1>1, <1>2, ServerSideKept
  <1>4. \A v \in Workers : /\ workers'[v].pc \notin {"begin", "establish", "waiting"}
                            /\ workers'[v].session = None
    BY <1>1, <1>2 DEF Books, WorkerInv
  <1>5. \A v \in Workers : OwnerInv(v)'
    BY <1>4 DEF OwnerInv, Resumed
  <1>6. QED
    BY <1>3, <1>5 DEF SessionParts

-----------------------------------------------------------------------------
(***************************************************************************)
(* A handshake, named by an index whose call is not sent yet.              *)
(***************************************************************************)
LEMMA HandshakeAdded ==
    ASSUME TypeOK, SessionParts, NEW idx \in Calls, idx < counter, ~Sent(idx),
           UNCHANGED <<calls, session_keys, counter, mode>>,
           sessions' \in {sessions, sessions \cup {idx}}
    PROVE  /\ \A c \in Calls : CallInv(c)'
           /\ \A h \in Hids : HandshakeInv(h)'
  <1>1. UNCHANGED requests_per_handshake
    BY ModeFixed
  <1>2. /\ \A h : CallsOf(h)' = CallsOf(h)
        /\ \A c : (Sent(c)' <=> Sent(c)) /\ (Kept(c)' <=> Kept(c))
    BY DEF CallsOf, Sent, Kept
  <1>3. calls[idx].hid # idx
    <2>1. CallInv(idx)
      BY DEF SessionParts
    <2>2. calls[idx].hid = None
      BY <2>1 DEF CallInv
    <2>3. QED
      BY <2>2, ConstantFacts
  <1>4. ASSUME NEW c \in Calls PROVE CallInv(c)'
    <2>1. CallInv(c)
      BY DEF SessionParts
    <2>2. Sent(c) => calls[c].hid # idx
      BY <1>3, <2>1 DEF CallInv
    <2>3. calls[c].pc = "200" => Sent(c)
      BY DEF Sent
    <2>4. calls[c].pc = "200" /\ ~calls[c].keep_session => calls[c].hid \notin sessions'
      BY <2>1, <2>2, <2>3 DEF CallInv
    <2>5. calls[c].pc \in Running => calls[c].hid \in sessions'
      BY <2>1 DEF CallInv
    <2>6. QED
      BY <1>2, <2>1, <2>4, <2>5 DEF CallInv
  <1>5. ASSUME NEW h \in Hids PROVE HandshakeInv(h)'
    <2>1. HandshakeInv(h)
      BY DEF SessionParts
    <2>2. h \in sessions' => h \in Calls /\ h < counter
      BY <2>1 DEF HandshakeInv
    <2>3. QED
      BY <1>1, <1>2, <2>1, <2>2 DEF HandshakeInv
  <1>6. QED
    BY <1>4, <1>5

LEMMA HandshakeKeeps ==
    ASSUME Books, SessionParts, NEW w \in Workers, Handshake(w) \/ HandshakeFails(w), UNCHANGED mode
    PROVE  SessionParts'
  <1>1. /\ TypeOK /\ WorkerInv /\ Others(w) /\ UNCHANGED <<counter, calls, session_keys>>
        /\ workers[w].pc = "begin" /\ ~Resumed(w)
        /\ sessions' \in {sessions, sessions \cup {workers[w].idx}}
    BY HandshakeBooks, HandshakeFailsBooks DEF Books
  <1>2. \/ /\ sessions' = sessions \cup {workers[w].idx}
           /\ workers'[w] = [pc |-> "establish", idx |-> workers[w].idx, hid |-> workers[w].idx,
                             session |-> workers[w].session]
        \/ workers'[w] = Idle(None)
    BY HandshakeBooks, HandshakeFailsBooks
  <1>3. OwnerInv(w)
    BY DEF SessionParts
  <1>4. workers[w].idx \in Calls /\ workers[w].idx < counter /\ ~Sent(workers[w].idx)
    BY <1>1, <1>3, BusyFacts DEF Busy, OwnerInv
  <1>5. /\ \A c \in Calls : CallInv(c)'
        /\ \A h \in Hids : HandshakeInv(h)'
    BY <1>1, <1>4, HandshakeAdded
  <1>6. ~Resumed(w)'
    BY <1>1, <1>2 DEF Resumed, Idle
  <1>7. ASSUME NEW v \in Workers \ {w} PROVE OwnerInv(v)'
    BY <1>1, <1>6, OtherOwnersGrow
  <1>8. OwnerInv(w)'
    <2>1. CASE workers'[w] = Idle(None)
      BY <2>1 DEF OwnerInv, Idle, Resumed
    <2>2. CASE /\ sessions' = sessions \cup {workers[w].idx}
               /\ workers'[w] = [pc |-> "establish", idx |-> workers[w].idx, hid |-> workers[w].idx,
                                 session |-> workers[w].session]
      <3>1. /\ workers'[w].pc = "establish" /\ workers'[w].idx = workers[w].idx
            /\ workers'[w].hid = workers[w].idx /\ workers'[w].session = workers[w].session
        BY <2>2
      <3>2. ~Sent(workers[w].idx)'
        BY <1>1, <1>4, <3>1 DEF Sent
      <3>3. UNCHANGED requests_per_handshake
        BY ModeFixed
      <3>4. QED
        BY <1>3, <1>6, <2>2, <3>1, <3>2, <3>3 DEF OwnerInv
    <2>3. QED
      BY <1>2, <2>1, <2>2
  <1>9. QED
    BY <1>5, <1>7, <1>8 DEF SessionParts

-----------------------------------------------------------------------------
(***************************************************************************)
(* A request.                                                              *)
(***************************************************************************)
\* What a worker has before it sends a request in handshake h.
MayPost(w, h, kex_key) ==
    LET idx == workers[w].idx
        session == workers[w].session
    IN  /\ ~Sent(idx) /\ h \in sessions /\ h <= idx
        /\ h = idx \/ calls[h].hid = h
        /\ \A c \in CallsOf(h) : Kept(c) /\ c < idx
        /\ IF kex_key = None THEN session_keys[h] = h ELSE kex_key = h
        /\ IF session = None THEN CallsOf(h) = {}
           ELSE Cardinality(CallsOf(h)) + session.requests_left = requests_per_handshake
        /\ \A v \in Workers \ {w} : Resumed(v) => workers[v].session.hid # h

LEMMA CallsOfFinite ==
    ASSUME NEW h
    PROVE  IsFiniteSet(CallsOf(h)) /\ CallsOf(h) \subseteq Calls /\ Cardinality(CallsOf(h)) \in Nat
  <1>1. IsFiniteSet(Calls)
    BY ConstantFacts, FS_Interval
  <1>2. CallsOf(h) \subseteq Calls
    BY DEF CallsOf
  <1>3. QED
    BY <1>1, <1>2, FS_Subset, FS_CardinalityType

\* The request joins the calls of its handshake; nothing else changes.
LEMMA PostJoins ==
    ASSUME Books, SessionParts, NEW w \in Workers, workers[w].pc \in {"begin", "establish"},
           NEW idx, idx = workers[w].idx, NEW h \in Calls, NEW kex_key \in {None, h},
           MayPost(w, h, kex_key), Post(w, h, kex_key, h), UNCHANGED mode
    PROVE  /\ Posted(w, idx, h, kex_key, h) /\ calls[idx].hid = None
           /\ CallsOf(h)' = CallsOf(h) \cup {idx}
           /\ \A g \in Hids \ {h} : CallsOf(g)' = CallsOf(g)
           /\ \A g \in Hids : idx \notin CallsOf(g)
           /\ Cardinality(CallsOf(h))' = Cardinality(CallsOf(h)) + 1
           /\ \A c \in Calls \ {idx} :
                 (Sent(c)' <=> Sent(c)) /\ (Kept(c)' <=> Kept(c)) /\ calls'[c] = calls[c]
           /\ Sent(idx)' /\ ~Kept(idx)'
  <1>1. TypeOK /\ h \in Hids /\ h \in Keys /\ kex_key \in Keys \cup {None}
    BY ConstantFacts DEF Books
  <1>2. Posted(w, idx, h, kex_key, h)
    BY <1>1, PostBooks
  <1>3. idx \in Calls /\ calls'[idx].hid = h /\ \A c \in Calls \ {idx} : calls'[c] = calls[c]
    BY <1>2 DEF Posted
  <1>4. calls[idx].hid = None
    BY <1>3 DEF SessionParts, CallInv, MayPost
  <1>5. \A c \in Calls \ {idx} : (Sent(c)' <=> Sent(c)) /\ (Kept(c)' <=> Kept(c)) /\ calls'[c] = calls[c]
    BY <1>3 DEF Sent, Kept
  <1>6. \A g \in Hids : idx \notin CallsOf(g)
    BY <1>4, ConstantFacts DEF CallsOf
  <1>7. CallsOf(h)' = CallsOf(h) \cup {idx} /\ \A g \in Hids \ {h} : CallsOf(g)' = CallsOf(g)
    BY <1>3, <1>4, ConstantFacts DEF CallsOf
  <1>8. Cardinality(CallsOf(h))' = Cardinality(CallsOf(h)) + 1
    <2>1. IsFiniteSet(CallsOf(h)) /\ idx \notin CallsOf(h)
      BY <1>1, <1>6, CallsOfFinite
    <2>2. Cardinality(CallsOf(h) \cup {idx}) = Cardinality(CallsOf(h)) + 1
      BY <2>1, FS_AddElement
    <2>3. QED
      BY <1>7, <2>2
  <1>9. Sent(idx)' /\ ~Kept(idx)'
    BY <1>2 DEF Posted, Sent, Kept
  <1>10. QED
    BY <1>2, <1>4, <1>5, <1>6, <1>7, <1>8, <1>9

LEMMA PostCalls ==
    ASSUME Books, SessionParts, NEW w \in Workers, workers[w].pc \in {"begin", "establish"},
           NEW idx, idx = workers[w].idx, NEW h \in Calls, NEW kex_key \in {None, h},
           MayPost(w, h, kex_key), Post(w, h, kex_key, h), UNCHANGED mode
    PROVE  /\ \A c \in Calls : CallInv(c)'
           /\ \A g \in Hids : HandshakeInv(g)'
  <1> DEFINE session == workers[w].session
  <1>1. TypeOK /\ h \in Hids /\ h # None
    BY ConstantFacts DEF Books
  <1>2. /\ Posted(w, idx, h, kex_key, h) /\ calls[idx].hid = None
        /\ CallsOf(h)' = CallsOf(h) \cup {idx}
        /\ \A g \in Hids \ {h} : CallsOf(g)' = CallsOf(g)
        /\ \A g \in Hids : idx \notin CallsOf(g)
        /\ Cardinality(CallsOf(h))' = Cardinality(CallsOf(h)) + 1
        /\ \A c \in Calls \ {idx} :
              (Sent(c)' <=> Sent(c)) /\ (Kept(c)' <=> Kept(c)) /\ calls'[c] = calls[c]
        /\ Sent(idx)' /\ ~Kept(idx)'
    BY PostJoins
  <1>3. /\ idx \in Calls /\ idx \in Nat /\ idx < counter
        /\ UNCHANGED <<counter, sessions, session_keys, requests_per_handshake>>
        /\ session # None => session.requests_left > 0
    BY <1>2, ConstantFacts, ModeFixed DEF Posted
  <1>4. /\ calls'[idx].pc \in {"accept", "resume"}
        /\ calls'[idx].pc = "accept" <=> kex_key # None
        /\ calls'[idx].hid = h /\ calls'[idx].kex_key = kex_key /\ calls'[idx].body_key = h
        /\ calls'[idx].keep_session = KeepSession(session)
    BY <1>2 DEF Posted
  <1>5. CallInv(idx)'
    <2>1. ASSUME NEW d \in Calls, calls'[d].hid = h, idx < d PROVE FALSE
      <3>1. d \in CallsOf(h) \/ d = idx
        BY <1>2, <2>1 DEF CallsOf
      <3>2. d < idx \/ d = idx
        BY <3>1 DEF MayPost
      <3>3. QED
        BY <1>3, <2>1, <3>2, ConstantFacts
    <2>2. calls'[h].hid = h
      BY <1>2, <1>4 DEF MayPost
    <2>3. /\ h \in sessions' /\ h <= idx
          /\ kex_key = None => session_keys'[h] = h
          /\ kex_key # None => kex_key = h
      BY <1>3 DEF MayPost
    <2>4. calls'[idx].pc \notin Refusals
      BY <1>4 DEF Refusals
    <2>5. QED
      BY <1>1, <1>2, <1>3, <1>4, <2>1, <2>2, <2>3, <2>4 DEF CallInv
  <1>6. ASSUME NEW c \in Calls \ {idx} PROVE CallInv(c)'
    <2>1. CallInv(c)
      BY DEF SessionParts
    <2>2. Sent(c) => calls[c].hid \in Calls \ {idx} /\ calls'[calls[c].hid] = calls[calls[c].hid]
      BY <1>2, <1>3, <2>1, ConstantFacts DEF CallInv
    <2>3. ASSUME NEW d \in Calls, Sent(c), calls'[d].hid = calls[c].hid, c < d PROVE Kept(c)
      <3>1. CASE d = idx
        <4>1. c \in CallsOf(h)
          BY <1>4, <2>3, <3>1 DEF CallsOf
        <4>2. QED
          BY <4>1 DEF MayPost
      <3>2. CASE d # idx
        BY <1>2, <2>1, <2>3, <3>2 DEF CallInv
      <3>3. QED
        BY <3>1, <3>2
    <2>4. calls'[c] = calls[c] /\ (Sent(c)' <=> Sent(c)) /\ (Kept(c)' <=> Kept(c))
      BY <1>2
    <2>5. QED
      BY <1>3, <2>1, <2>2, <2>3, <2>4 DEF CallInv
  <1>7. ASSUME NEW g \in Hids \ {h} PROVE HandshakeInv(g)'
    <2>1. HandshakeInv(g)
      BY DEF SessionParts
    <2>2. \A c \in CallsOf(g) : c \in Calls \ {idx}
      BY <1>2 DEF CallsOf
    <2>3. CallsOf(g)' = CallsOf(g)
      BY <1>2
    <2>4. \A c \in CallsOf(g) : (Kept(c)' <=> Kept(c)) /\ calls'[c] = calls[c]
      BY <1>2, <2>2
    <2>5. QED
      BY <1>3, <2>1, <2>3, <2>4 DEF HandshakeInv
  <1>8. HandshakeInv(h)'
    <2>1. HandshakeInv(h) /\ requests_per_handshake \in Nat \ {0}
      BY <1>1, ModeFacts DEF SessionParts
    <2>2. /\ Cardinality(CallsOf(h)) + 1 <= requests_per_handshake
          /\ Cardinality(CallsOf(h)) + 1 = requests_per_handshake => ~KeepSession(session)
      <3>1. CASE session = None
        <4>1. Cardinality(CallsOf(h)) = 0
          BY <3>1, FS_EmptySet DEF MayPost
        <4>2. QED
          BY <2>1, <3>1, <4>1 DEF KeepSession
      <3>2. CASE session # None
        <4>1. session.requests_left \in Nat /\ session.requests_left > 0
          BY <1>1, <1>3, <3>2, SessionFields
        <4>2. Cardinality(CallsOf(h)) + session.requests_left = requests_per_handshake
          BY <3>2 DEF MayPost
        <4>3. Cardinality(CallsOf(h)) \in Nat
          BY CallsOfFinite
        <4>4. Cardinality(CallsOf(h)) + 1 <= requests_per_handshake
          BY <2>1, <4>1, <4>2, <4>3
        <4>5. Cardinality(CallsOf(h)) + 1 = requests_per_handshake => ~(session.requests_left > 1)
          BY <2>1, <4>1, <4>2, <4>3
        <4>6. QED
          BY <4>4, <4>5 DEF KeepSession
      <3>3. QED
        BY <3>1, <3>2
    <2>3. \E c \in CallsOf(h)' : ~Kept(c)'
      BY <1>2
    <2>4. ~KeepSession(session) => \E c \in CallsOf(h)' : ~calls'[c].keep_session
      BY <1>2, <1>4
    <2>5. QED
      BY <1>2, <1>3, <2>1, <2>2, <2>3, <2>4 DEF HandshakeInv
  <1>9. QED
    BY <1>5, <1>6, <1>7, <1>8

LEMMA PostOwners ==
    ASSUME Books, SessionParts, NEW w \in Workers, workers[w].pc \in {"begin", "establish"},
           NEW idx, idx = workers[w].idx, NEW h \in Calls, NEW kex_key \in {None, h},
           MayPost(w, h, kex_key), Post(w, h, kex_key, h), UNCHANGED mode
    PROVE  \A v \in Workers : OwnerInv(v)'
  <1> DEFINE session == workers[w].session
  <1>1. TypeOK /\ WorkerInv /\ h \in Hids /\ h # None
    BY ConstantFacts DEF Books
  <1>2. /\ Posted(w, idx, h, kex_key, h) /\ calls[idx].hid = None
        /\ CallsOf(h)' = CallsOf(h) \cup {idx}
        /\ \A g \in Hids \ {h} : CallsOf(g)' = CallsOf(g)
        /\ \A g \in Hids : idx \notin CallsOf(g)
        /\ Cardinality(CallsOf(h))' = Cardinality(CallsOf(h)) + 1
        /\ \A c \in Calls \ {idx} :
              (Sent(c)' <=> Sent(c)) /\ (Kept(c)' <=> Kept(c)) /\ calls'[c] = calls[c]
        /\ Sent(idx)' /\ ~Kept(idx)'
    BY PostJoins
  <1>3. /\ idx \in Calls /\ idx \in Nat /\ Others(w)
        /\ UNCHANGED <<counter, sessions, session_keys, requests_per_handshake>>
        /\ workers'[w].pc = "waiting" /\ workers'[w].idx = idx
        /\ calls'[idx].hid = h /\ calls'[idx].keep_session = KeepSession(session)
    BY <1>2, ConstantFacts, ModeFixed DEF Posted
  <1>4. IF session = None THEN workers'[w].session = None
        ELSE /\ workers'[w].session # None /\ session.requests_left > 0
             /\ workers'[w].session.requests_left = session.requests_left - 1
             /\ workers'[w].session.hid = h /\ workers'[w].session.session_key = h
    BY <1>2 DEF Posted
  <1>5. \A v \in Workers \ {w} :
           workers'[v] = workers[v] /\ (Resumed(v)' <=> Resumed(v)) /\ (Busy(v) => workers[v].idx \in Calls \ {idx})
    BY <1>1, <1>3, BusyFacts DEF Others, Resumed, Busy, WorkerInv
  <1>6. ASSUME NEW v \in Workers \ {w} PROVE OwnerInv(v)'
    <2>1. OwnerInv(v) /\ workers'[v] = workers[v] /\ (Resumed(v)' <=> Resumed(v))
      BY <1>5 DEF SessionParts
    <2>2. ASSUME Resumed(v) PROVE \E g \in Calls : OwnedBy(v, g)'
      <3>1. PICK g \in Calls : OwnedBy(v, g)
        BY <2>1, <2>2 DEF OwnerInv
      <3>2. g # h /\ g # idx /\ g \in Hids
        BY <1>2, <2>2, <3>1, ConstantFacts DEF OwnedBy, MayPost
      <3>3. CallsOf(g)' = CallsOf(g) /\ calls'[g] = calls[g]
        BY <1>2, <3>2
      <3>4. \A c \in CallsOf(g) : Kept(c)' <=> Kept(c)
        <4>1. \A c \in CallsOf(g) : c \in Calls \ {idx}
          BY <1>2, <3>2 DEF CallsOf
        <4>2. QED
          BY <1>2, <4>1
      <3>5. workers[v].pc = "waiting" => calls'[workers[v].idx] = calls[workers[v].idx]
        BY <1>2, <1>5 DEF Busy
      <3>6. ASSUME NEW u \in Workers \ {v}, Resumed(u)' PROVE workers'[u].session.hid # g
        <4>1. CASE u = w
          BY <1>4, <3>2, <3>6, <4>1 DEF Resumed
        <4>2. CASE u # w
          BY <1>5, <3>1, <3>6, <4>2 DEF OwnedBy
        <4>3. QED
          BY <4>1, <4>2
      <3>7. OwnedBy(v, g)'
        BY <1>3, <2>1, <3>1, <3>3, <3>4, <3>5, <3>6 DEF OwnedBy
      <3>8. QED
        BY <3>7
    <2>3. ASSUME workers[v].pc \in {"begin", "establish", "waiting"}
          PROVE  Sent(workers[v].idx)' <=> Sent(workers[v].idx)
      <3>1. calls'[workers'[v].idx] = calls[workers[v].idx]
        BY <1>2, <1>5, <2>1, <2>3 DEF Busy
      <3>2. QED
        BY <3>1 DEF Sent
    <2>4. QED
      BY <1>3, <2>1, <2>2, <2>3 DEF OwnerInv
  <1>7. OwnerInv(w)'
    <2>1. Sent(workers[w].idx)'
      BY <1>2, <1>3 DEF Sent
    <2>2. ASSUME Resumed(w)' PROVE OwnedBy(w, h)'
      <3>1. session # None
        BY <1>4, <2>2 DEF Resumed
      <3>2. /\ workers'[w].session.requests_left = session.requests_left - 1
            /\ workers'[w].session.hid = h /\ workers'[w].session.session_key = h
        BY <1>4, <3>1
      <3>3. session.requests_left \in Nat /\ Cardinality(CallsOf(h)) \in Nat
        BY <1>1, <3>1, SessionFields, CallsOfFinite
      <3>4. Cardinality(CallsOf(h)) + session.requests_left = requests_per_handshake
        BY <3>1 DEF MayPost
      <3>5. Cardinality(CallsOf(h))' + workers'[w].session.requests_left = requests_per_handshake
        BY <1>2, <3>2, <3>3, <3>4
      <3>6. calls'[idx].keep_session <=> workers'[w].session.requests_left > 0
        <4>1. KeepSession(session) <=> session.requests_left > 1
          BY <3>1 DEF KeepSession
        <4>2. session.requests_left > 1 <=> session.requests_left - 1 > 0
          BY <3>3
        <4>3. QED
          BY <1>3, <3>2, <4>1, <4>2
      <3>7. \A c \in CallsOf(h)' : c <= idx
        <4>1. \A c \in CallsOf(h) : c \in Calls /\ c < idx
          BY DEF MayPost, CallsOf
        <4>2. \A c \in CallsOf(h) : c <= idx
          BY <1>3, <4>1, ConstantFacts
        <4>3. QED
          BY <1>2, <1>3, <4>2
      <3>8. \A v \in Workers \ {w} : Resumed(v)' => workers'[v].session.hid # h
        BY <1>5 DEF MayPost
      <3>9. calls'[h].hid = h
        BY <1>2, <1>3 DEF MayPost
      <3>10. QED
        BY <1>3, <3>2, <3>5, <3>6, <3>7, <3>8, <3>9 DEF OwnedBy
    <2>3. workers'[w].session # None => workers'[w].session.session_key # None
      BY <1>1, <1>4
    <2>4. QED
      BY <1>3, <2>1, <2>2, <2>3 DEF OwnerInv
  <1>8. QED
    BY <1>6, <1>7

\* The first request of a handshake.
LEMMA FirstMayPost ==
    ASSUME Books, SessionParts, NEW w \in Workers, workers[w].pc = "establish"
    PROVE  workers[w].idx \in Calls /\ workers[w].hid = workers[w].idx /\ MayPost(w, workers[w].idx, workers[w].idx)
  <1> DEFINE idx == workers[w].idx
             session == workers[w].session
  <1>1. TypeOK /\ WorkerInv /\ OwnerInv(w)
    BY DEF Books, SessionParts
  <1>2. idx \in Calls /\ idx \in Nat /\ idx # None /\ CallInv(idx)
    BY <1>1, BusyFacts, ConstantFacts DEF Busy, SessionParts
  <1>3. ~Sent(idx) /\ workers[w].hid = idx /\ idx \in sessions /\ ~Resumed(w)
    BY <1>1 DEF OwnerInv
  <1>4. CallsOf(idx) = {} /\ calls[idx].hid # idx
    BY <1>1, <1>2, <1>3, CallsOfSent DEF CallInv
  <1>5. Cardinality(CallsOf(idx)) = 0
    BY <1>4, FS_EmptySet
  <1>6. session # None => Cardinality(CallsOf(idx)) + session.requests_left = requests_per_handshake
    BY <1>1, <1>3, <1>5, ModeFacts DEF OwnerInv, Resumed
  <1>7. \A v \in Workers \ {w} : Resumed(v) => workers[v].session.hid # idx
    <2>1. ASSUME NEW v \in Workers, Resumed(v) PROVE workers[v].session.hid # idx
      <3>1. PICK h \in Calls : OwnedBy(v, h)
        BY <2>1 DEF SessionParts, OwnerInv
      <3>2. QED
        BY <1>4, <3>1 DEF OwnedBy
    <2>2. QED
      BY <2>1
  <1>8. QED
    BY <1>2, <1>3, <1>4, <1>6, <1>7 DEF MayPost

\* A later one.
LEMMA ResumedMayPost ==
    ASSUME Books, SessionParts, NEW w \in Workers, workers[w].pc = "begin", Resumed(w)
    PROVE  \E h \in Calls : /\ workers[w].session.hid = h /\ workers[w].session.session_key = h
                            /\ MayPost(w, h, None)
  <1> DEFINE idx == workers[w].idx
             session == workers[w].session
  <1>1. TypeOK /\ WorkerInv /\ OwnerInv(w) /\ session # None
    BY DEF Books, SessionParts, Resumed
  <1>2. session.requests_left > 0
    BY <1>1 DEF WorkerInv
  <1>3. PICK h \in Calls : OwnedBy(w, h)
    BY <1>1 DEF OwnerInv
  <1>4. h \in CallsOf(h) /\ h \in Hids
    BY <1>3, ConstantFacts DEF OwnedBy, CallsOf
  <1>5. \A c \in CallsOf(h) : Kept(c) /\ c < idx
    BY <1>2, <1>3 DEF OwnedBy
  <1>6. h \in sessions /\ session_keys[h] = h
    <2>1. HandshakeInv(h)
      BY <1>4 DEF SessionParts
    <2>2. QED
      BY <1>4, <1>5, <2>1 DEF HandshakeInv
  <1>7. h <= idx
    <2>1. h < idx /\ h \in Nat /\ idx \in Calls
      BY <1>1, <1>4, <1>5, BusyFacts, ConstantFacts DEF Busy
    <2>2. idx \in Nat
      BY <2>1, ConstantFacts
    <2>3. QED
      BY <2>1, <2>2
  <1>8. ~Sent(idx)
    BY <1>1 DEF OwnerInv
  <1>9. MayPost(w, h, None)
    BY <1>1, <1>3, <1>5, <1>6, <1>7, <1>8 DEF MayPost, OwnedBy
  <1>10. QED
    BY <1>3, <1>9 DEF OwnedBy

LEMMA PostKeeps ==
    ASSUME Books, SessionParts, NEW w \in Workers, PostFirst(w) \/ PostResumed(w), UNCHANGED mode
    PROVE  SessionParts'
  <1>1. ASSUME NEW idx, idx = workers[w].idx, NEW h \in Calls, NEW kex_key \in {None, h},
               workers[w].pc \in {"begin", "establish"},
               MayPost(w, h, kex_key), Post(w, h, kex_key, h)
        PROVE  SessionParts'
    BY <1>1, PostCalls, PostOwners DEF SessionParts
  <1>2. CASE PostFirst(w)
    BY <1>1, <1>2, FirstMayPost DEF PostFirst
  <1>3. CASE PostResumed(w)
    BY <1>1, <1>3, ResumedMayPost DEF PostResumed
  <1>4. QED
    BY <1>2, <1>3

-----------------------------------------------------------------------------
(***************************************************************************)
(* A step of call c of handshake h.  The other calls of h are over.        *)
(***************************************************************************)
\* Where the step leads.
Advanced(c, h) ==
    LET call == calls'[c] IN
    /\ sessions' \subseteq sessions /\ sessions \ {h} \subseteq sessions'
    /\ \A g \in Hids \ {h} : session_keys'[g] = session_keys[g]
    /\ session_keys'[h] # None => h \in sessions' /\ session_keys'[h] = h
    /\ call.pc \in {"lost", "keep", "decrypt", "sign", "pop", "forget", "200", "500 predict"}
    /\ call.pc \in Running => h \in sessions' /\ call.session_key = h
    /\ call.pc \in {"decrypt", "sign", "200"} /\ call.keep_session => h \in sessions' /\ session_keys'[h] = h
    /\ call.pc = "keep" => call.keep_session
    /\ call.pc \in {"pop", "forget"} => ~call.keep_session
    /\ call.pc = "forget" => session_keys'[h] = None
    /\ call.pc = "200" /\ ~call.keep_session => h \notin sessions'

LEMMA CallAdvances ==
    ASSUME TypeOK, SentInv, SessionParts, NEW c \in Calls, HandlerStep(c) \/ Lose(c),
           NEW h, h = calls[c].hid
    PROVE  h \in Calls /\ h \in Hids /\ calls[h].hid = h /\ Advanced(c, h)
  <1>1. /\ Sent(c) /\ calls[c].pc \in Running /\ CallInv(c)
        /\ calls'[c].keep_session = calls[c].keep_session
    BY CallStepEffect DEF SessionParts
  <1>2. h \in Calls /\ h \in Hids /\ h # None /\ h \in sessions /\ calls[h].hid = h
        /\ calls[c].body_key = h
    BY <1>1, ConstantFacts DEF CallInv
  <1>3. session_keys[h] # None => session_keys[h] = h
    BY <1>2 DEF SessionParts, HandshakeInv
  <1>4. /\ calls[c].pc = "accept" => calls[c].kex_key = h
        /\ calls[c].pc = "resume" => session_keys[h] = h
        /\ calls[c].pc \in {"keep", "decrypt", "sign", "pop", "forget"} => calls[c].session_key = h
        /\ calls[c].pc \in {"decrypt", "sign"} /\ calls[c].keep_session => session_keys[h] = h
        /\ calls[c].pc = "keep" => calls[c].keep_session
        /\ calls[c].pc \in {"pop", "forget"} => ~calls[c].keep_session
        /\ calls[c].pc = "forget" => session_keys[h] = None
    BY <1>1 DEF CallInv
  <1> DEFINE Type == [pc: {"unsent", "lost"} \cup Running \cup Statuses,
                      hid: Hids \cup {None}, kex_key: Keys \cup {None},
                      keep_session: BOOLEAN,
                      body_key: Keys \cup {None}, session_key: Keys \cup {None}]
  <1>5. calls \in [Calls -> Type] /\ session_keys \in [Hids -> Keys \cup {None}]
    BY DEF TypeOK, ServerTypeOK
  <1>6. ASSUME NEW pc, Goto(c, pc)
        PROVE  calls'[c].pc = pc /\ calls'[c].session_key = calls[c].session_key
    BY <1>5, <1>6 DEF Goto
  <1>7. ASSUME NEW pc, NEW key, GotoWith(c, pc, key)
        PROVE  calls'[c].pc = pc /\ calls'[c].session_key = key
    BY <1>5, <1>7 DEF GotoWith
  <1> HIDE DEF Type
  <1>8. CASE Lose(c)
    <2>1. calls'[c].pc = "lost" /\ UNCHANGED <<sessions, session_keys>>
      BY <1>6, <1>8 DEF Lose
    <2>2. QED
      BY <1>2, <1>3, <2>1 DEF Advanced, Running
  <1>9. CASE Accept(c)
    <2>1. /\ calls'[c].pc = (IF calls[c].keep_session THEN "keep" ELSE "decrypt")
          /\ calls'[c].session_key = h /\ UNCHANGED <<sessions, session_keys>>
      BY <1>2, <1>4, <1>7, <1>9 DEF Accept
    <2>2. QED
      BY <1>1, <1>2, <1>3, <2>1 DEF Advanced, Running
  <1>10. CASE Keep(c)
    <2>1. /\ calls'[c].pc = "decrypt" /\ calls'[c].session_key = h /\ UNCHANGED sessions
          /\ session_keys' = [session_keys EXCEPT ![h] = h]
      BY <1>4, <1>6, <1>10 DEF Keep
    <2>2. session_keys'[h] = h /\ \A g \in Hids \ {h} : session_keys'[g] = session_keys[g]
      BY <1>2, <1>5, <2>1
    <2>3. QED
      BY <1>2, <2>1, <2>2 DEF Advanced, Running
  <1>11. CASE Resume(c)
    <2>1. calls'[c].pc = "decrypt" /\ calls'[c].session_key = h /\ UNCHANGED <<sessions, session_keys>>
          /\ session_keys[h] = h
      BY <1>2, <1>4, <1>7, <1>11 DEF Resume
    <2>2. QED
      BY <1>2, <2>1 DEF Advanced, Running
  <1>12. CASE Decrypt(c)
    <2>1. /\ calls'[c].pc \in {"sign", "500 predict"} /\ calls'[c].session_key = h
          /\ UNCHANGED <<sessions, session_keys>> /\ (calls[c].keep_session => session_keys[h] = h)
      BY <1>2, <1>4, <1>6, <1>12 DEF Decrypt
    <2>2. QED
      BY <1>1, <1>2, <1>3, <2>1 DEF Advanced, Running
  <1>13. CASE SignResponse(c)
    <2>1. /\ calls'[c].pc = (IF calls[c].keep_session THEN "200" ELSE "pop") /\ calls'[c].session_key = h
          /\ UNCHANGED <<sessions, session_keys>> /\ (calls[c].keep_session => session_keys[h] = h)
      BY <1>2, <1>4, <1>6, <1>13 DEF SignResponse
    <2>2. QED
      BY <1>1, <1>2, <1>3, <2>1 DEF Advanced, Running
  <1>14. CASE Pop(c)
    <2>1. /\ calls'[c].pc = "forget" /\ calls'[c].session_key = h /\ UNCHANGED sessions
          /\ session_keys' = [session_keys EXCEPT ![h] = None] /\ ~calls[c].keep_session
      BY <1>4, <1>6, <1>14 DEF Pop
    <2>2. session_keys'[h] = None /\ \A g \in Hids \ {h} : session_keys'[g] = session_keys[g]
      BY <1>2, <1>5, <2>1
    <2>3. QED
      BY <1>1, <1>2, <2>1, <2>2 DEF Advanced, Running
  <1>15. CASE ForgetHandshake(c)
    <2>1. /\ calls'[c].pc = "200" /\ sessions' = sessions \ {h} /\ UNCHANGED session_keys
          /\ session_keys[h] = None /\ ~calls[c].keep_session
      BY <1>4, <1>6, <1>15 DEF ForgetHandshake
    <2>2. QED
      BY <1>1, <1>2, <2>1 DEF Advanced, Running
  <1>16. QED
    BY <1>2, <1>8, <1>9, <1>10, <1>11, <1>12, <1>13, <1>14, <1>15 DEF HandlerStep

LEMMA ServerKeeps ==
    ASSUME Books, SentInv, SessionParts, NEW c \in Calls, HandlerStep(c) \/ Lose(c),
           UNCHANGED <<mode, counter, workers, results>>
    PROVE  SessionParts'
  <1>1. PICK h : h = calls[c].hid
    OBVIOUS
  <1>2. TypeOK /\ h \in Calls /\ h \in Hids /\ h # None /\ calls[h].hid = h /\ Advanced(c, h)
    BY <1>1, CallAdvances, ConstantFacts DEF Books
  <1>3. /\ Sent(c) /\ Sent(c)' /\ calls[c].pc \in Running
        /\ \A d \in Calls \ {c} : calls'[d] = calls[d]
        /\ calls'[c].hid = h /\ calls'[c].kex_key = calls[c].kex_key
        /\ calls'[c].keep_session = calls[c].keep_session
        /\ calls'[c].body_key = calls[c].body_key
    BY <1>1, <1>2, CallStepEffect
  <1>4. ~Kept(c)
    BY <1>3 DEF Kept, Running
  <1>5. /\ \A d \in Calls : (Sent(d)' <=> Sent(d)) /\ calls'[d].hid = calls[d].hid
                            /\ calls'[d].keep_session = calls[d].keep_session
        /\ \A d \in Calls \ {c} : Kept(d)' <=> Kept(d)
        /\ UNCHANGED requests_per_handshake
    BY <1>1, <1>3, ModeFixed DEF Sent, Kept
  <1>6. \A g : CallsOf(g)' = CallsOf(g)
    BY <1>5 DEF CallsOf
  <1>7. CallInv(c)
    BY DEF SessionParts
  <1>8. ASSUME NEW d \in Calls, calls[d].hid = h, c < d PROVE FALSE
    BY <1>1, <1>3, <1>4, <1>7, <1>8 DEF CallInv
  <1>9. ASSUME NEW d \in Calls \ {c}, calls[d].hid = h PROVE Kept(d)
    <2>1. Sent(d) /\ CallInv(d)
      BY <1>2, <1>9 DEF SessionParts, CallInv
    <2>2. d < c
      BY <1>8, <1>9, ConstantFacts
    <2>3. QED
      BY <1>1, <1>9, <2>1, <2>2 DEF CallInv
  <1>10. CallInv(c)'
    <2>1. c < counter /\ h <= c /\ calls[c].body_key = h /\ calls[c].kex_key \in {None, h}
      BY <1>1, <1>3, <1>7 DEF CallInv
    <2>2. calls'[h].hid = h /\ \A d \in Calls : ~(calls'[d].hid = h /\ c < d)
      BY <1>2, <1>5, <1>8
    <2>3. calls'[c].pc \notin Refusals /\ calls'[c].pc \notin {"accept", "resume"}
      BY <1>2 DEF Advanced, Refusals
    <2>4. /\ calls'[c].pc \in Running => h \in sessions'
          /\ calls'[c].pc \in {"keep", "decrypt", "sign", "pop", "forget"} => calls'[c].session_key = h
          /\ calls'[c].pc \in {"decrypt", "sign"} /\ calls'[c].keep_session => session_keys'[h] = h
          /\ calls'[c].pc = "keep" => calls'[c].keep_session
          /\ calls'[c].pc \in {"pop", "forget"} => ~calls'[c].keep_session
          /\ calls'[c].pc = "forget" => session_keys'[h] = None
          /\ calls'[c].pc = "200" /\ ~calls'[c].keep_session => h \notin sessions'
      BY <1>2 DEF Advanced, Running
    <2>5. QED
      BY <1>2, <1>3, <2>1, <2>2, <2>3, <2>4 DEF CallInv
  <1>11. ASSUME NEW d \in Calls \ {c} PROVE CallInv(d)'
    <2>1. CallInv(d) /\ calls'[d] = calls[d] /\ (Sent(d)' <=> Sent(d)) /\ (Kept(d)' <=> Kept(d))
      BY <1>3, <1>5 DEF SessionParts
    <2>2. CASE ~Sent(d)
      BY <2>1, <2>2 DEF CallInv, Sent, Running, Refusals
    <2>3. CASE Sent(d)
      <3>1. PICK g : g = calls[d].hid
        OBVIOUS
      <3>2. g \in Calls /\ g \in Hids /\ calls'[g].hid = calls[g].hid
        BY <1>5, <2>1, <2>3, <3>1, ConstantFacts DEF CallInv
      <3>3. CASE g = h
        <4>1. calls[d].pc = "200" /\ calls[d].keep_session /\ Kept(d)
          BY <1>9, <3>1, <3>3 DEF Kept
        <4>2. QED
          BY <1>5, <2>1, <3>1, <3>2, <4>1 DEF CallInv, Running, Refusals
      <3>4. CASE g # h
        <4>1. session_keys'[g] = session_keys[g] /\ (g \in sessions' <=> g \in sessions)
          BY <1>2, <3>2, <3>4 DEF Advanced
        <4>2. QED
          BY <1>5, <2>1, <3>1, <3>2, <4>1 DEF CallInv
      <3>5. QED
        BY <3>3, <3>4
    <2>4. QED
      BY <2>2, <2>3
  <1>12. ASSUME NEW g \in Hids PROVE HandshakeInv(g)'
    <2>1. HandshakeInv(g) /\ CallsOf(g)' = CallsOf(g) /\ CallsOf(g) \subseteq Calls
      BY <1>6 DEF SessionParts, CallsOf
    <2>2. g \in sessions' => g \in Calls /\ g < counter
      BY <1>2, <2>1 DEF HandshakeInv, Advanced
    <2>3. session_keys'[g] # None => g \in sessions' /\ session_keys'[g] = g
      BY <1>2, <2>1 DEF HandshakeInv, Advanced
    <2>4. (g \in Calls /\ CallsOf(g) # {} /\ \A d \in CallsOf(g) : Kept(d)') =>
             g \in sessions' /\ session_keys'[g] = g
      <3>1. CASE g = h
        <4>1. c \in CallsOf(h)
          BY <1>1 DEF CallsOf
        <4>2. Kept(c)' => h \in sessions' /\ session_keys'[h] = h
          BY <1>2 DEF Kept, Advanced
        <4>3. QED
          BY <3>1, <4>1, <4>2
      <3>2. CASE g # h
        <4>1. \A d \in CallsOf(g) : Kept(d)' <=> Kept(d)
          BY <1>1, <1>5, <3>2 DEF CallsOf
        <4>2. session_keys'[g] = session_keys[g] /\ (g \in sessions' <=> g \in sessions)
          BY <1>2, <3>2 DEF Advanced
        <4>3. QED
          BY <2>1, <4>1, <4>2 DEF HandshakeInv
      <3>3. QED
        BY <3>1, <3>2
    <2>5. \A d \in CallsOf(g) : calls'[d].keep_session = calls[d].keep_session
      BY <1>5, <2>1
    <2>6. QED
      BY <1>5, <2>1, <2>2, <2>3, <2>4, <2>5 DEF HandshakeInv
  <1>13. ASSUME NEW w \in Workers PROVE OwnerInv(w)'
    <2>1. OwnerInv(w) /\ (Resumed(w)' <=> Resumed(w)) /\ WorkerInv
      BY DEF SessionParts, Resumed, Books
    <2>2. workers[w].pc \in {"begin", "establish", "waiting"} => workers[w].idx \in Calls
      BY <1>2, <2>1, BusyFacts DEF Busy
    <2>3. workers[w].pc \in {"begin", "establish", "waiting"} =>
             (Sent(workers[w].idx)' <=> Sent(workers[w].idx))
      <3>1. ASSUME NEW i \in Calls, i = workers[w].idx
            PROVE  Sent(workers[w].idx)' <=> Sent(workers[w].idx)
        <4>1. (Sent(i)' <=> Sent(i)) /\ workers'[w].idx = i
          BY <1>5, <3>1
        <4>2. QED
          BY <3>1, <4>1 DEF Sent
      <3>2. QED
        BY <2>2, <3>1
    <2>4. Sent(h)
      BY <1>2 DEF SessionParts, CallInv
    <2>5. workers[w].pc = "establish" => workers[w].idx \in sessions'
      BY <1>2, <2>1, <2>4 DEF OwnerInv, Advanced
    <2>6. ASSUME NEW g \in Calls, OwnedBy(w, g) PROVE OwnedBy(w, g)'
      <3>1. \A d \in CallsOf(g) : Kept(d) => Kept(d)'
        BY <1>4, <1>5 DEF CallsOf
      <3>2. calls'[g].hid = calls[g].hid /\ CallsOf(g)' = CallsOf(g)
        BY <1>5, <1>6
      <3>3. workers[w].pc = "waiting" =>
               /\ calls'[workers[w].idx].hid = calls[workers[w].idx].hid
               /\ calls'[workers[w].idx].keep_session = calls[workers[w].idx].keep_session
        BY <1>5, <2>2
      <3>4. \A v \in Workers : Resumed(v)' <=> Resumed(v)
        BY DEF Resumed
      <3>5. QED
        BY <1>5, <2>6, <3>1, <3>2, <3>3, <3>4 DEF OwnedBy
    <2>7. QED
      BY <1>5, <2>1, <2>3, <2>5, <2>6 DEF OwnerInv
  <1>14. QED
    BY <1>10, <1>11, <1>12, <1>13 DEF SessionParts

-----------------------------------------------------------------------------
(***************************************************************************)
(* The invariant.                                                          *)
(***************************************************************************)
\* A worker that gives its session up or keeps it, while calls stay as they are.
LEMMA SameHandshakes ==
    ASSUME SentInv, UNCHANGED <<calls, mode>>, NEW w \in Workers, Others(w),
           Resumed(w)' => Resumed(w) /\ workers'[w].session = workers[w].session,
           workers'[w].pc = "establish" => workers'[w].hid \in Hids
    PROVE  SentInv'
  <1>1. \A v \in Workers : Resumed(v)' => Resumed(v) /\ workers'[v].session = workers[v].session
    BY DEF Others, Resumed
  <1>2. \A v \in Workers : workers'[v].pc = "establish" => workers'[v].hid \in Hids
    BY DEF Others, SentInv
  <1>3. (\A c \in Calls : Sent(c)' <=> Sent(c)) /\ UNCHANGED unprotected
    BY ModeFixed DEF Sent
  <1>4. QED
    BY <1>1, <1>2, <1>3 DEF SentInv

LEMMA PostSent ==
    ASSUME Books, SentInv, NEW w \in Workers, PostFirst(w) \/ PostCached(w) \/ PostResumed(w), UNCHANGED mode
    PROVE  Books' /\ SentInv'
  <1>1. TypeOK /\ workers[w].pc \in {"begin", "establish"} /\ WorkerInv
    BY DEF Books, PostFirst, PostCached, PostResumed
  <1>2. workers[w].idx \in Calls /\ workers[w].idx \in Keys
    BY <1>1, BusyFacts, ConstantFacts DEF Busy
  <1>3. \E h \in Hids, kex_key \in Keys \cup {None}, key \in Keys : Post(w, h, kex_key, key)
    <2>1. CASE PostFirst(w)
      BY <1>2, <2>1 DEF PostFirst, SentInv
    <2>2. CASE PostCached(w)
      BY <1>2, <2>2, CellAssumption DEF PostCached
    <2>3. CASE PostResumed(w)
      <3>1. Resumed(w) /\ workers[w].session.hid \in Hids /\ workers[w].session.session_key \in Keys
        BY <1>1, <2>3, SessionFields DEF PostResumed, SentInv, Resumed
      <3>2. QED
        BY <2>3, <3>1 DEF PostResumed
    <2>4. QED
      BY <2>1, <2>2, <2>3
  <1>4. PICK h \in Hids, kex_key \in Keys \cup {None}, key \in Keys : Post(w, h, kex_key, key)
    BY <1>3
  <1>5. Books' /\ Posted(w, workers[w].idx, h, kex_key, key)
    BY <1>1, <1>4, PostBooks
  <1>6. \A c \in Calls : Sent(c)' => calls'[c].hid \in Hids /\ ~unprotected'
    BY <1>5, ModeFixed DEF Posted, SentInv, Sent
  <1>7. \A v \in Workers : Resumed(v)' => workers'[v].session.hid \in Hids
    BY <1>5 DEF Posted, Others, SentInv, Resumed
  <1>8. \A v \in Workers : workers'[v].pc = "establish" => workers'[v].hid \in Hids
    BY <1>5 DEF Posted, Others, SentInv
  <1>9. QED
    BY <1>5, <1>6, <1>7, <1>8 DEF SentInv

LEMMA WorkerSent ==
    ASSUME Books, SentInv, NEW w \in Workers, WorkerStep(w)
    PROVE  Books' /\ SentInv'
  <1>1. UNCHANGED mode /\ TypeOK /\ WorkerInv
    BY DEF WorkerStep, Books
  <1>2. CASE Claim(w)
    <2>1. /\ Books' /\ Others(w) /\ UNCHANGED calls
      BY <1>1, <1>2, ClaimBooks DEF serverVars
    <2>2. workers'[w].pc # "establish"
      <3>1. workers'[w].pc = FirstStep
        <4>1. workers'[w] = [pc |-> FirstStep, idx |-> counter, hid |-> None,
                             session |-> NextSession(workers[w].session)]
          BY <1>1, <1>2, ClaimBooks
        <4>2. QED
          BY <4>1
      <3>2. QED
        BY <1>1, <3>1, ModeFacts DEF FirstStep
    <2>3. QED
      BY <1>1, <1>2, <2>1, <2>2, ClaimSession, SameHandshakes
  <1>3. CASE Stop(w)
    <2>1. /\ Books' /\ Others(w) /\ UNCHANGED calls /\ workers'[w].pc = "stopped"
          /\ workers'[w].session = workers[w].session
      BY <1>1, <1>3, StopBooks DEF serverVars
    <2>2. Resumed(w)' => Resumed(w)
      BY <2>1 DEF Resumed
    <2>3. QED
      BY <1>1, <2>1, <2>2, SameHandshakes
  <1>4. CASE ControlHandshake(w) \/ ControlPredict(w)
    <2>1. Books' /\ UNCHANGED calls /\ unprotected'
      BY <1>1, <1>4, ControlBooks, ModeFixed DEF serverVars
    <2>2. \A v \in Workers : workers'[v].pc # "establish" /\ workers'[v].session = None
      BY <2>1 DEF Books, WorkerInv, resuming
    <2>3. QED
      BY <1>1, <2>1, <2>2, ModeFixed DEF SentInv, Sent, Resumed
  <1>5. CASE Handshake(w)
    <2>1. /\ Books' /\ Others(w) /\ UNCHANGED calls /\ workers'[w].hid = workers[w].idx
          /\ workers'[w].session = workers[w].session /\ workers[w].pc = "begin"
      <3>1. /\ Books' /\ Others(w) /\ UNCHANGED calls /\ workers[w].pc = "begin"
            /\ workers'[w] = [pc |-> "establish", idx |-> workers[w].idx, hid |-> workers[w].idx,
                              session |-> workers[w].session]
        BY <1>1, <1>5, HandshakeBooks
      <3>2. QED
        BY <3>1
    <2>2. workers[w].idx \in Hids
      BY <1>1, <2>1, BusyFacts, ConstantFacts DEF Busy
    <2>3. Resumed(w)' => Resumed(w)
      BY <2>1 DEF Resumed
    <2>4. QED
      BY <1>1, <2>1, <2>2, <2>3, SameHandshakes
  <1>6. CASE HandshakeFails(w)
    <2>1. Books' /\ Others(w) /\ UNCHANGED calls /\ workers'[w] = Idle(None)
      BY <1>1, <1>6, HandshakeFailsBooks
    <2>2. ~Resumed(w)' /\ workers'[w].pc # "establish"
      BY <2>1 DEF Resumed, Idle
    <2>3. QED
      BY <1>1, <2>1, <2>2, SameHandshakes
  <1>7. CASE Receive(w) \/ Timeout(w)
    <2>1. /\ Books' /\ Others(w) /\ UNCHANGED calls
          /\ \E outcome \in {"ok", "error"} : workers'[w] = Idle(SessionAfter(w, outcome))
      BY <1>1, <1>7, AnswerBooks DEF serverVars
    <2>2. /\ workers'[w].pc # "establish"
          /\ Resumed(w)' => Resumed(w) /\ workers'[w].session = workers[w].session
      BY <2>1 DEF Resumed, Idle, SessionAfter
    <2>3. QED
      BY <1>1, <2>1, <2>2, SameHandshakes
  <1>8. CASE PostFirst(w) \/ PostCached(w) \/ PostResumed(w)
    BY <1>1, <1>8, PostSent
  <1>9. QED
    BY <1>2, <1>3, <1>4, <1>5, <1>6, <1>7, <1>8 DEF WorkerStep

LEMMA WorkerKeeps ==
    ASSUME Books, SentInv, SessionParts, ~reuse_handshake, NEW w \in Workers, WorkerStep(w)
    PROVE  SessionParts'
  <1>1. UNCHANGED mode /\ ~PostCached(w)
    BY DEF WorkerStep, PostCached
  <1>2. QED
    BY <1>1, ClaimKeeps, StopKeeps, ControlKeeps, HandshakeKeeps, AnswerKeeps, PostKeeps DEF WorkerStep

LEMMA CellInit == Init => CellInv
  <1> SUFFICES ASSUME Init PROVE CellInv
    OBVIOUS
  <1>1. /\ mode \in Modes /\ counter = 0 /\ results = <<>>
        /\ workers = [w \in Workers |-> Idle(None)]
        /\ sessions = (IF reuse_handshake /\ ~unprotected THEN {Cached} ELSE {})
        /\ session_keys = [h \in Hids |-> None] /\ calls = [c \in Calls |-> NotSent]
    BY DEF Init, ServerInit
  <1>2. /\ \A w \in Workers : /\ workers[w].pc = "loop" /\ workers[w].session = None
                              /\ ~Busy(w) /\ ~Resumed(w)
        /\ \A c \in Calls : calls[c].pc = "unsent" /\ calls[c].hid = None /\ ~Sent(c)
        /\ DOMAIN results = {} /\ \A h \in Hids : session_keys[h] = None
    BY <1>1 DEF Idle, NotSent, Busy, Resumed, Sent
  <1>3. TypeOK
    <2>1. ServerTypeOK
      BY <1>1, CellAssumption DEF ServerTypeOK, NotSent
    <2>2. counter \in 0..n_requests /\ results \in Seq([idx: Calls, outcome: {"ok", "error"}])
      BY <1>1, ConstantFacts
    <2>3. QED
      BY <1>1, <2>1, <2>2 DEF TypeOK, Idle
  <1>4. WorkerInv
    BY <1>2 DEF WorkerInv
  <1>5. RowsInv
    <2>1. \A c \in Calls : ~(c < counter)
      BY <1>1, ConstantFacts
    <2>2. QED
      BY <1>2, <2>1 DEF RowsInv
  <1>6. SentInv
    BY <1>2 DEF SentInv
  <1>7. ASSUME ~reuse_handshake PROVE SessionParts
    <2>1. \A c \in Calls : CallInv(c)
      BY <1>2 DEF CallInv, Running, Refusals
    <2>2. ASSUME NEW h \in Hids PROVE HandshakeInv(h)
      <3>1. CallsOf(h) = {} /\ sessions = {} /\ Cardinality({}) = 0
        BY <1>1, <1>2, <1>7, ConstantFacts, FS_EmptySet DEF CallsOf
      <3>2. QED
        BY <1>2, <1>3, <3>1, ModeFacts DEF HandshakeInv
    <2>3. \A w \in Workers : OwnerInv(w)
      BY <1>2 DEF OwnerInv
    <2>4. QED
      BY <2>1, <2>2, <2>3 DEF SessionParts
  <1>8. QED
    BY <1>3, <1>4, <1>5, <1>6, <1>7 DEF CellInv, SessionInv, SessionParts

LEMMA CellStep == CellInv /\ [Next]_vars => CellInv'
  <1> SUFFICES ASSUME CellInv, [Next]_vars PROVE CellInv'
    OBVIOUS
  <1>1. Books /\ SentInv /\ (~reuse_handshake => SessionParts)
    BY DEF CellInv, Books, SessionInv, SessionParts
  <1>2. ASSUME Books', SentInv', UNCHANGED mode, ~reuse_handshake => SessionParts'
        PROVE  CellInv'
    <2>1. reuse_handshake' = reuse_handshake
      BY <1>2, ModeFixed
    <2>2. QED
      BY <1>2, <2>1 DEF CellInv, Books, SessionInv, SessionParts
  <1>3. ASSUME NEW w \in Workers, WorkerStep(w) PROVE CellInv'
    <2>1. Books' /\ SentInv' /\ UNCHANGED mode
      BY <1>1, <1>3, WorkerSent DEF WorkerStep
    <2>2. ~reuse_handshake => SessionParts'
      BY <1>1, <1>3, WorkerKeeps
    <2>3. QED
      BY <1>2, <2>1, <2>2
  <1>4. ASSUME NEW c \in Calls, ServerStep(c) \/ NetworkStep(c) PROVE CellInv'
    <2>1. (HandlerStep(c) \/ Lose(c)) /\ UNCHANGED <<mode, counter, workers, results>>
      BY <1>4 DEF ServerStep, NetworkStep
    <2>2. Books' /\ SentInv'
      BY <1>1, <2>1, ServerBooks
    <2>3. ~reuse_handshake => SessionParts'
      BY <1>1, <2>1, ServerKeeps
    <2>4. QED
      BY <1>2, <2>1, <2>2, <2>3
  <1>5. CASE UNCHANGED vars
    <2>1. UNCHANGED <<sessions, session_keys, calls, mode, counter, workers, results>>
      BY <1>5 DEF vars, serverVars
    <2>2. TypeOK'
      BY <1>1, <2>1 DEF Books, TypeOK, ServerTypeOK
    <2>3. WorkerInv' /\ RowsInv'
      BY <1>1, <2>1, ServerKeepsRows DEF Books, AnsweredStays
    <2>4. SentInv'
      BY <1>1, <2>1, ModeFixed DEF SentInv, Sent, Resumed
    <2>5. ASSUME SessionParts PROVE SessionParts'
      <3>1. counter' \in Nat /\ counter <= counter' /\ UNCHANGED <<serverVars, mode, requests_per_handshake>>
        BY <1>1, <2>1, ModeFixed DEF Books, TypeOK, serverVars
      <3>2. /\ \A c \in Calls : CallInv(c)'
            /\ \A h \in Hids : HandshakeInv(h)'
            /\ \A h : CallsOf(h)' = CallsOf(h)
            /\ \A c : (Sent(c)' <=> Sent(c)) /\ (Kept(c)' <=> Kept(c))
            /\ \A w \in Workers : Resumed(w)' <=> Resumed(w)
        BY <1>1, <2>1, <2>5, <3>1, ServerSideKept DEF Books, Sent, Kept, Resumed
      <3>3. ASSUME NEW w \in Workers PROVE OwnerInv(w)'
        <4>1. OwnerInv(w)
          BY <2>5 DEF SessionParts
        <4>2. ASSUME NEW h \in Calls, OwnedBy(w, h) PROVE OwnedBy(w, h)'
          BY <2>1, <3>1, <3>2, <4>2 DEF OwnedBy
        <4>3. Sent(workers[w].idx)' <=> Sent(workers[w].idx)
          BY <2>1 DEF Sent
        <4>4. QED
          BY <2>1, <3>1, <3>2, <4>1, <4>2, <4>3 DEF OwnerInv
      <3>4. QED
        BY <3>2, <3>3 DEF SessionParts
    <2>6. QED
      BY <1>1, <1>2, <2>1, <2>2, <2>3, <2>4, <2>5 DEF Books
  <1>6. QED
    BY <1>3, <1>4, <1>5 DEF Next, CellOver

-----------------------------------------------------------------------------
(***************************************************************************)
(* The theorems.                                                           *)
(***************************************************************************)
\* The invariant behind them holds in every reachable state of a cell: an
\* index and an established session belong to one worker (run_sweep_cell,
\* ClientSession), and the calls of a handshake follow one another.
THEOREM OneOwner == Spec => []CellInv
  BY CellInit, CellStep, PTL DEF Spec

LEMMA InStep == CellInv => SessionsInStep
  <1> SUFFICES ASSUME CellInv PROVE SessionsInStep
    OBVIOUS
  <1>1. TypeOK /\ (~reuse_handshake => SessionParts)
    BY DEF CellInv, SessionInv, SessionParts
  <1>2. KeyWithHandshake
    BY <1>1 DEF KeyWithHandshake, SessionParts, HandshakeInv
  <1>3. ASSUME ~reuse_handshake, NEW h \in Hids
        PROVE  /\ Cardinality(CallsOf(h)) <= requests_per_handshake
               /\ \A c, d \in CallsOf(h) : ~calls[c].keep_session => d <= c
    <2>1. Cardinality(CallsOf(h)) <= requests_per_handshake
      BY <1>1, <1>3 DEF SessionParts, HandshakeInv
    <2>2. ASSUME NEW c \in CallsOf(h), NEW d \in CallsOf(h), ~calls[c].keep_session PROVE d <= c
      <3>1. /\ c \in Calls /\ d \in Calls /\ calls[c].hid = h /\ calls[d].hid = h /\ CallInv(c)
        BY <1>1, <1>3 DEF CallsOf, SessionParts
      <3>2. Sent(c)
        BY <3>1, ConstantFacts DEF CallInv
      <3>3. ~(c < d)
        BY <2>2, <3>1, <3>2 DEF CallInv, Kept
      <3>4. QED
        BY <3>1, <3>3, ConstantFacts
    <2>3. QED
      BY <2>1, <2>2
  <1>4. QED
    BY <1>1, <1>2, <1>3 DEF SessionsInStep, SessionBudget

\* What client and server keep of a resumed session stays in step
\* (ClientSession, session_keys and _sessions), however many workers share the
\* cell and however long a session is.
THEOREM StaysInStep == Spec => []SessionsInStep
  BY OneOwner, InStep, PTL

LEMMA NoneRefused == CellInv => NeverRefused
  BY DEF CellInv, SessionInv, CallInv, NeverRefused

\* secure_predict never answers a request of the cell with a 404, a 400 or a
\* KeyError of sign, whatever is lost or outlives its client.
THEOREM AllAccepted == Spec => []NeverRefused
  BY OneOwner, NoneRefused, PTL

\* When all workers have stopped, every index has its row.
LEMMA AllRecorded ==
    ASSUME CellInv, AllStopped, NEW c \in Calls
    PROVE  \E i \in DOMAIN results : results[i].idx = c
  <1>1. TypeOK /\ WorkerInv /\ RowsInv
    BY DEF CellInv
  <1>2. PICK w \in Workers : TRUE
    BY CellAssumption
  <1>3. counter = n_requests
    BY <1>1, <1>2 DEF AllStopped, WorkerInv
  <1>4. c < counter
    BY <1>3, ConstantFacts
  <1>5. \A v \in Workers : ~Busy(v)
    BY DEF AllStopped, Busy
  <1>6. QED
    BY <1>1, <1>4, <1>5 DEF RowsInv

LEMMA RowPerRequest == CellInv => EachRequestRecorded
  <1> SUFFICES ASSUME CellInv PROVE EachRequestRecorded
    OBVIOUS
  <1>1. \A i, j \in DOMAIN results : results[i].idx = results[j].idx => i = j
    BY DEF CellInv, RowsInv
  <1>2. \A i \in DOMAIN results : results[i].idx \in Calls
    BY RowFields DEF CellInv
  <1>3. AllStopped => \A c \in Calls : \E i \in DOMAIN results : results[i].idx = c
    BY AllRecorded
  <1>4. QED
    BY <1>1, <1>2, <1>3 DEF EachRequestRecorded

\* run_sweep_cell gives every request index exactly one row, for any number
\* of workers that share the counter, whatever fails.
THEOREM OneRowEach == Spec => []EachRequestRecorded
  BY OneOwner, RowPerRequest, PTL

LEMMA NoneLeaks == CellInv => NothingLeaks
  <1> SUFFICES ASSUME CellInv, Quiescent, ~reuse_handshake, NEW h \in sessions,
                      ~(\E c \in CallsOf(h) \cup {h} : Failed(c)),
                      ~(Cardinality(CallsOf(h)) < requests_per_handshake)
               PROVE  FALSE
    BY DEF NothingLeaks
  <1>1. TypeOK /\ RowsInv /\ SentInv /\ SessionParts /\ AllStopped
    BY DEF CellInv, SessionInv, SessionParts, Quiescent
  <1>2. h \in Hids /\ HandshakeInv(h)
    BY <1>1 DEF TypeOK, ServerTypeOK, SessionParts
  <1>3. Cardinality(CallsOf(h)) = requests_per_handshake
    BY <1>1, <1>2, ModeFacts, CallsOfFinite DEF HandshakeInv
  <1>4. PICK c \in CallsOf(h) : ~calls[c].keep_session
    BY <1>2, <1>3 DEF HandshakeInv
  <1>5. c \in Calls /\ calls[c].hid = h /\ CallInv(c)
    BY <1>1 DEF CallsOf, SessionParts
  <1>6. Sent(c) /\ ~unprotected
    BY <1>1, <1>2, <1>5, ConstantFacts DEF CallInv, SentInv
  <1>7. PICK i \in DOMAIN results : results[i].idx = c
    BY <1>1, <1>5, AllRecorded
  <1>8. results[i].outcome = "ok"
    <2>1. results[i].outcome \in {"ok", "error"} /\ results[i] = [idx |-> c, outcome |-> results[i].outcome]
      BY <1>1, <1>7, RowFields
    <2>2. results[i].outcome # "error"
      BY <1>7, <2>1 DEF Failed
    <2>3. QED
      BY <2>1, <2>2
  <1>9. calls[c].pc = "200"
    BY <1>1, <1>6, <1>7, <1>8 DEF RowsInv
  <1>10. QED
    BY <1>4, <1>5, <1>9 DEF CallInv

\* At the end of a cell the server (_sessions) holds no handshake whose session
\* was used up and whose transactions all succeeded.
THEOREM LeavesNothing == Spec => []NothingLeaks
  BY OneOwner, NoneLeaks, PTL

=============================================================================
