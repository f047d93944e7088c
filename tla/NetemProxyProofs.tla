--------------------------- MODULE NetemProxyProofs ---------------------------
(***************************************************************************)
(* The transfer through NetemProxy is faithful, for any number of          *)
(* connections, any sizes, delays and buffer limits.                       *)
(*                                                                         *)
(* ProxyInv is the inductive invariant.  The units of a direction are at   *)
(* all times consecutive runs: received, written and not flushed, queued   *)
(* item by item (the cuts say where one item ends), and not read yet.  A   *)
(* closed writer makes a gap between what was let through and what is      *)
(* queued, but lets nothing through any more, so what was received stays a *)
(* prefix.  Without a fault the first thing that ends in a connection is a *)
(* client that has its whole answer; EndsComplete keeps every later end    *)
(* (a None, a closed transport, a finished pump) after that one.           *)
(***************************************************************************)
EXTENDS NetemProxy, FiniteSetTheorems, SequenceTheorems, WellFoundedInduction, TLAPS

Items == [at: Nat, data: Seq(Nat)]
Pumps == [sent: Nat, inbuf: Seq(Nat), reader: {"read", "ended"}, queue: Seq(Items \cup {None}),
          task: {"get", "drain", "ended"}, out: Seq(Nat), got: Seq(Nat)]

Shape ==
    /\ now \in Nat /\ tx_free \in [Dirs -> Nat] /\ faults \in 0..MaxFaults
    /\ handle \in [Conns -> {"connecting", "piped", "refused", "done"}]
    /\ sock \in [Conns -> [Peers -> {"open", "closing", "eof", "error"}]]
    /\ peer \in [Conns -> [Peers -> {"open", "closed"}]]
    /\ pump \in [Conns -> [Dirs -> Pumps]]

\* The units after the a-th, up to the b-th.
Run(a, b) == [i \in 1..(b - a) |-> a + i]

\* The queue holds the units after the cut[0]-th, split at the cuts.
QueueRuns(queue, cut) ==
    \A i \in 1..Len(queue) :
        IF queue[i] = None THEN cut[i] = cut[i - 1]
        ELSE cut[i - 1] <= cut[i] /\ queue[i].data = Run(cut[i - 1], cut[i])

\* What was sent and not let through yet is queued or unread, in order; while
\* the writer is open, nothing is missing before it.
InTransit(queue, inbuf, sent, through, writer) ==
    \E cut \in [0..Len(queue) -> 0..sent] :
        /\ QueueRuns(queue, cut)
        /\ inbuf = Run(cut[Len(queue)], sent)
        /\ writer = "open" => through = cut[0]

\* The reader's None ends the queue until the task has met it.
NoneLast(reader, task, queue) ==
    /\ reader = "read" => \A i \in 1..Len(queue) : queue[i] # None
    /\ reader = "ended" /\ task # "ended" => \E i \in 1..Len(queue) : queue[i] = None

\* What was let through is a run from the first unit on.
LetThrough(got, out, sent) ==
    /\ got = Run(0, Len(got)) /\ out = Run(Len(got), Len(got) + Len(out))
    /\ Len(got) + Len(out) <= sent

PumpOK(p, size, writer) ==
    /\ p.sent <= size /\ NoneLast(p.reader, p.task, p.queue)
    /\ InTransit(p.queue, p.inbuf, p.sent, Len(p.got) + Len(p.out), writer)
    /\ LetThrough(p.got, p.out, p.sent)

PumpsOK == \A c \in Conns, d \in Dirs : PumpOK(pump[c][d], Size[c][d], sock[c][Dest(d)])

Complete(c) == \A d \in Dirs : Len(pump[c][d].got) = Size[c][d]

Ending(c) ==
    \/ \E p \in Peers : peer[c][p] = "closed" \/ sock[c][p] # "open"
    \/ \E d \in Dirs : pump[c][d].reader = "ended" \/ pump[c][d].task = "ended"
    \/ handle[c] = "done"

EndsComplete == faults = 0 => \A c \in Conns : Ending(c) => Complete(c)

ProxyInv == Shape /\ PumpsOK /\ EndsComplete

-----------------------------------------------------------------------------
\* A run, element by element, and what makes a sequence a run.
LEMMA RunProperties ==
    ASSUME NEW a \in Nat, NEW b \in Nat, a <= b
    PROVE  /\ Run(a, b) \in Seq(Nat) /\ Len(Run(a, b)) = b - a
           /\ \A i \in 1..(b - a) : Run(a, b)[i] = a + i
  <1>1. b - a \in Nat
    OBVIOUS
  <1>2. \A i \in 1..(b - a) : a + i \in Nat
    OBVIOUS
  <1>3. QED
    BY <1>1, <1>2 DEF Run

LEMMA RunIs ==
    ASSUME NEW a \in Nat, NEW b \in Nat, a <= b, NEW s \in Seq(Nat), Len(s) = b - a,
           \A i \in 1..Len(s) : s[i] = a + i
    PROVE  s = Run(a, b)
  <1>1. Run(a, b) \in Seq(Nat) /\ Len(Run(a, b)) = Len(s) /\ \A i \in 1..Len(s) : s[i] = Run(a, b)[i]
    BY RunProperties
  <1>2. QED
    BY <1>1, SeqEqual

\* Splitting, joining, extending and shortening runs.
LEMMA RunParts ==
    ASSUME NEW a \in Nat, NEW b \in Nat, a <= b, NEW n \in 0..(b - a)
    PROVE  /\ SubSeq(Run(a, b), 1, n) = Run(a, a + n)
           /\ SubSeq(Run(a, b), n + 1, b - a) = Run(a + n, b)
  <1>1. /\ Run(a, b) \in Seq(Nat) /\ Len(Run(a, b)) = b - a
        /\ \A i \in 1..(b - a) : Run(a, b)[i] = a + i
    BY RunProperties
  <1> DEFINE s == Run(a, b)
  <1> HIDE DEF s
  <1>2. SubSeq(s, 1, n) = Run(a, a + n)
    <2>1. /\ SubSeq(s, 1, n) \in Seq(Nat) /\ Len(SubSeq(s, 1, n)) = n
          /\ \A i \in 1..n : SubSeq(s, 1, n)[i] = s[i]
      BY <1>1, SubSeqProperties DEF s
    <2>2. \A i \in 1..n : s[i] = a + i
      BY <1>1 DEF s
    <2>3. a + n \in Nat /\ a <= a + n /\ n = (a + n) - a
      OBVIOUS
    <2>4. QED
      BY <2>1, <2>2, <2>3, RunIs
  <1>3. SubSeq(s, n + 1, b - a) = Run(a + n, b)
    <2>1. /\ SubSeq(s, n + 1, b - a) \in Seq(Nat) /\ Len(SubSeq(s, n + 1, b - a)) = (b - a) - n
          /\ \A i \in 1..((b - a) - n) : SubSeq(s, n + 1, b - a)[i] = s[n + i]
      BY <1>1 DEF s
    <2>2. \A i \in 1..((b - a) - n) : n + i \in 1..(b - a) /\ s[n + i] = (a + n) + i
      BY <1>1 DEF s
    <2>3. a + n \in Nat /\ a + n <= b /\ (b - a) - n = b - (a + n)
      OBVIOUS
    <2>4. QED
      BY <2>1, <2>2, <2>3, RunIs
  <1>4. QED
    BY <1>2, <1>3 DEF s

\* A run followed by the next one is a run.
LEMMA RunJoin ==
    ASSUME NEW a \in Nat, NEW b \in Nat, NEW c \in Nat, a <= b, b <= c
    PROVE  Run(a, b) \o Run(b, c) = Run(a, c)
  <1>1. /\ Run(a, b) \in Seq(Nat) /\ Len(Run(a, b)) = b - a
        /\ \A i \in 1..(b - a) : Run(a, b)[i] = a + i
    BY RunProperties
  <1>2. /\ Run(b, c) \in Seq(Nat) /\ Len(Run(b, c)) = c - b
        /\ \A i \in 1..(c - b) : Run(b, c)[i] = b + i
    BY RunProperties
  <1> DEFINE s == Run(a, b)  t == Run(b, c)
  <1> HIDE DEF s, t
  <1>3. /\ s \o t \in Seq(Nat) /\ Len(s \o t) = c - a
        /\ \A i \in 1..(c - a) : (s \o t)[i] = IF i <= b - a THEN s[i] ELSE t[i - (b - a)]
    <2>1. s \in Seq(Nat) /\ Len(s) = b - a /\ t \in Seq(Nat) /\ Len(t) = c - b
      BY <1>1, <1>2 DEF s, t
    <2>2. /\ s \o t \in Seq(Nat) /\ Len(s \o t) = Len(s) + Len(t)
          /\ \A i \in 1..(Len(s) + Len(t)) : (s \o t)[i] = IF i <= Len(s) THEN s[i] ELSE t[i - Len(s)]
      BY <2>1, ConcatProperties, Zenon
    <2>3. Len(s) + Len(t) = c - a
      BY <2>1
    <2>4. QED
      BY <2>1, <2>2, <2>3
  <1>4. \A i \in 1..(c - a) : (s \o t)[i] = a + i
    <2>1. SUFFICES ASSUME NEW i \in 1..(c - a) PROVE (s \o t)[i] = a + i
      OBVIOUS
    <2>2. CASE i <= b - a
      BY <1>1, <1>3, <2>2 DEF s
    <2>3. CASE ~(i <= b - a)
      <3>1. i - (b - a) \in 1..(c - b) /\ b + (i - (b - a)) = a + i
        BY <2>3
      <3>2. QED
        BY <1>2, <1>3, <2>3, <3>1 DEF t
    <2>4. QED
      BY <2>2, <2>3
  <1>5. PICK w \in Seq(Nat) : w = s \o t
    BY <1>3
  <1>6. w = Run(a, c)
    <2>1. Len(w) = c - a /\ \A i \in 1..(c - a) : w[i] = a + i
      BY <1>3, <1>4, <1>5, Zenon
    <2>2. a <= c /\ \A i \in 1..Len(w) : w[i] = a + i
      BY <2>1
    <2>3. QED
      BY <2>1, <2>2, RunIs
  <1>7. QED
    BY <1>5, <1>6 DEF s, t

\* The next unit extends a run at its end; taking its first leaves a run.
LEMMA RunGrows ==
    ASSUME NEW a \in Nat, NEW b \in Nat, a <= b
    PROVE  Append(Run(a, b), b + 1) = Run(a, b + 1)
  <1>1. /\ Run(a, b) \in Seq(Nat) /\ Len(Run(a, b)) = b - a
        /\ \A i \in 1..(b - a) : Run(a, b)[i] = a + i
    BY RunProperties
  <1> DEFINE s == Run(a, b)
  <1> HIDE DEF s
  <1>2. /\ Append(s, b + 1) \in Seq(Nat) /\ Len(Append(s, b + 1)) = (b - a) + 1
        /\ \A i \in 1..(b - a) : Append(s, b + 1)[i] = s[i]
        /\ Append(s, b + 1)[(b - a) + 1] = b + 1
    BY <1>1, AppendProperties DEF s
  <1>3. \A i \in 1..((b - a) + 1) : Append(s, b + 1)[i] = a + i
    BY <1>1, <1>2 DEF s
  <1>4. PICK w \in Seq(Nat) : w = Append(s, b + 1)
    BY <1>2
  <1>5. w = Run(a, b + 1)
    <2>1. Len(w) = (b - a) + 1 /\ \A i \in 1..((b - a) + 1) : w[i] = a + i
      BY <1>2, <1>3, <1>4, Zenon
    <2>2. /\ b + 1 \in Nat /\ a <= b + 1 /\ Len(w) = (b + 1) - a
          /\ \A i \in 1..Len(w) : w[i] = a + i
      BY <2>1
    <2>3. QED
      BY <2>2, RunIs
  <1>6. QED
    BY <1>4, <1>5 DEF s

LEMMA RunShrinks ==
    ASSUME NEW a \in Nat, NEW b \in Nat, a < b
    PROVE  Head(Run(a, b)) = a + 1 /\ Tail(Run(a, b)) = Run(a + 1, b)
  <1>1. /\ Run(a, b) \in Seq(Nat) /\ Len(Run(a, b)) = b - a
        /\ \A i \in 1..(b - a) : Run(a, b)[i] = a + i
    BY RunProperties
  <1> DEFINE s == Run(a, b)
  <1> HIDE DEF s
  <1>2. /\ Head(s) = s[1] /\ Tail(s) \in Seq(Nat) /\ Len(Tail(s)) = (b - a) - 1
        /\ \A i \in 1..((b - a) - 1) : Tail(s)[i] = s[i + 1]
    BY <1>1 DEF s
  <1>3. \A i \in 1..((b - a) - 1) : i + 1 \in 1..(b - a) /\ Tail(s)[i] = (a + 1) + i
    BY <1>1, <1>2 DEF s
  <1>4. Head(s) = a + 1
    BY <1>1, <1>2 DEF s
  <1>5. (b - a) - 1 = b - (a + 1) /\ a + 1 <= b /\ a + 1 \in Nat
    OBVIOUS
  <1>6. QED
    BY <1>2, <1>3, <1>4, <1>5, RunIs DEF s

-----------------------------------------------------------------------------
\* What the steps of a pump do to the units in it.
LEMMA TransitOnRead ==
    ASSUME NEW queue \in Seq(Items \cup {None}), NEW inbuf \in Seq(Nat), NEW sent \in Nat,
           NEW through, NEW w, InTransit(queue, inbuf, sent, through, w),
           NEW n \in Nat, 1 <= n, n <= Len(inbuf),
           NEW item \in Items, item.data = SubSeq(inbuf, 1, n)
    PROVE  InTransit(Append(queue, item), SubSeq(inbuf, n + 1, Len(inbuf)), sent, through, w)
  <1>1. PICK m \in Nat : m = Len(queue)
    OBVIOUS
  <1>2. PICK cut \in [0..m -> 0..sent] :
           /\ QueueRuns(queue, cut) /\ inbuf = Run(cut[m], sent) /\ (w = "open" => through = cut[0])
    BY <1>1 DEF InTransit
  <1>3. PICK a \in Nat : a = cut[m] /\ a <= sent
    BY <1>2
  <1>4. Len(inbuf) = sent - a
    BY <1>2, <1>3, RunProperties
  <1>5. n \in 0..(sent - a) /\ a + n \in 0..sent /\ a <= a + n
    BY <1>3, <1>4
  <1>6. SubSeq(inbuf, 1, n) = Run(a, a + n) /\ SubSeq(inbuf, n + 1, Len(inbuf)) = Run(a + n, sent)
    <2>1. /\ SubSeq(Run(a, sent), 1, n) = Run(a, a + n)
          /\ SubSeq(Run(a, sent), n + 1, sent - a) = Run(a + n, sent)
      BY <1>3, <1>5, RunParts
    <2>2. inbuf = Run(a, sent) /\ Len(inbuf) = sent - a
      BY <1>2, <1>3, <1>4
    <2>3. QED
      BY <2>1, <2>2, Zenon
  <1> DEFINE new == [i \in 0..(m + 1) |-> IF i <= m THEN cut[i] ELSE a + n]
             longer == Append(queue, item)
  <1>7. item # None
    BY ItemAssumption DEF Items
  <1>8. Len(longer) = m + 1 /\ longer[m + 1] = item /\ \A i \in 1..m : longer[i] = queue[i]
    BY <1>1, AppendProperties
  <1>9. /\ new \in [0..(m + 1) -> 0..sent] /\ new[m + 1] = a + n /\ new[0] = cut[0]
        /\ \A i \in 0..m : new[i] = cut[i]
    BY <1>2, <1>5
  <1> HIDE DEF new, longer
  <1>10. QueueRuns(longer, new)
    <2>1. SUFFICES ASSUME NEW i \in 1..(m + 1)
                   PROVE  IF longer[i] = None THEN new[i] = new[i - 1]
                          ELSE new[i - 1] <= new[i] /\ longer[i].data = Run(new[i - 1], new[i])
      BY <1>8 DEF QueueRuns
    <2>2. CASE i \in 1..m
      <3>1. i \in 0..m /\ i - 1 \in 0..m
        BY <2>2
      <3>2. QED
        BY <1>1, <1>2, <1>8, <1>9, <2>2, <3>1 DEF QueueRuns
    <2>3. CASE i = m + 1
      <3>1. new[i] = a + n /\ new[i - 1] = a /\ longer[i] = item
        BY <1>3, <1>8, <1>9, <2>3
      <3>2. QED
        BY <1>5, <1>6, <1>7, <3>1
    <2>4. QED
      BY <2>2, <2>3
  <1>11. InTransit(longer, Run(a + n, sent), sent, through, w)
    BY <1>2, <1>8, <1>9, <1>10 DEF InTransit
  <1>12. QED
    BY <1>6, <1>11 DEF longer

\* The reader's None adds no unit to the queue and ends it.
LEMMA TransitOnEnd ==
    ASSUME NEW queue \in Seq(Items \cup {None}), NEW inbuf, NEW sent \in Nat,
           NEW through, NEW w, InTransit(queue, inbuf, sent, through, w)
    PROVE  /\ InTransit(Append(queue, None), inbuf, sent, through, w)
           /\ \A task : NoneLast("ended", task, Append(queue, None))
  <1>1. PICK m \in Nat : m = Len(queue)
    OBVIOUS
  <1>2. PICK cut \in [0..m -> 0..sent] :
           /\ QueueRuns(queue, cut) /\ inbuf = Run(cut[m], sent) /\ (w = "open" => through = cut[0])
    BY <1>1 DEF InTransit
  <1> DEFINE new == [i \in 0..(m + 1) |-> IF i <= m THEN cut[i] ELSE cut[m]]
             longer == Append(queue, None)
  <1>3. Len(longer) = m + 1 /\ longer[m + 1] = None /\ \A i \in 1..m : longer[i] = queue[i]
    BY <1>1, AppendProperties
  <1>4. /\ new \in [0..(m + 1) -> 0..sent] /\ new[m + 1] = cut[m] /\ new[0] = cut[0]
        /\ \A i \in 0..m : new[i] = cut[i]
    BY <1>2
  <1> HIDE DEF new, longer
  <1>5. QueueRuns(longer, new)
    <2>1. SUFFICES ASSUME NEW i \in 1..(m + 1)
                   PROVE  IF longer[i] = None THEN new[i] = new[i - 1]
                          ELSE new[i - 1] <= new[i] /\ longer[i].data = Run(new[i - 1], new[i])
      BY <1>3 DEF QueueRuns
    <2>2. CASE i \in 1..m
      <3>1. i \in 0..m /\ i - 1 \in 0..m
        BY <2>2
      <3>2. QED
        BY <1>1, <1>2, <1>3, <1>4, <2>2, <3>1 DEF QueueRuns
    <2>3. CASE i = m + 1
      <3>1. new[i] = cut[m] /\ new[i - 1] = cut[m] /\ longer[i] = None
        BY <1>3, <1>4, <2>3
      <3>2. QED
        BY <3>1
    <2>4. QED
      BY <2>2, <2>3
  <1>6. InTransit(longer, inbuf, sent, through, w)
    BY <1>2, <1>3, <1>4, <1>5 DEF InTransit
  <1>7. m + 1 \in 1..Len(longer)
    BY <1>3
  <1>8. QED
    BY <1>3, <1>6, <1>7 DEF longer, NoneLast

\* The first item of the queue is the run up to the next cut.
HeadIsRun(queue, inbuf, sent, through, w) ==
    \E next \in Nat :
        /\ next <= sent /\ InTransit(Tail(queue), inbuf, sent, next, w)
        /\ w = "open" => through <= next /\ Head(queue).data = Run(through, next)

\* Delivering the first item moves the units up to the next cut.
LEMMA TransitOnDelivery ==
    ASSUME NEW queue \in Seq(Items \cup {None}), NEW inbuf, NEW sent \in Nat,
           NEW through \in Nat, NEW w, InTransit(queue, inbuf, sent, through, w),
           queue # <<>>, Head(queue) # None
    PROVE  HeadIsRun(queue, inbuf, sent, through, w)
  <1>1. PICK m \in Nat : m = Len(queue)
    OBVIOUS
  <1>2. PICK cut \in [0..m -> 0..sent] :
           /\ QueueRuns(queue, cut) /\ inbuf = Run(cut[m], sent) /\ (w = "open" => through = cut[0])
    BY <1>1 DEF InTransit
  <1> DEFINE new == [i \in 0..(m - 1) |-> cut[i + 1]]
             rest == Tail(queue)
  <1>3. /\ m > 0 /\ Len(rest) = m - 1 /\ Head(queue) = queue[1]
        /\ \A i \in 1..(m - 1) : rest[i] = queue[i + 1]
    BY <1>1
  <1>4. cut[0] <= cut[1] /\ queue[1].data = Run(cut[0], cut[1]) /\ cut[1] \in Nat /\ cut[1] <= sent
    <2>1. 1 \in 1..Len(queue) /\ 1 - 1 = 0 /\ 0 \in 0..m /\ 1 \in 0..m
      BY <1>1, <1>3
    <2>2. cut[0] <= cut[1] /\ queue[1].data = Run(cut[0], cut[1])
      BY <1>2, <1>3, <2>1 DEF QueueRuns
    <2>3. QED
      BY <1>2, <2>1, <2>2
  <1>5. /\ new \in [0..(m - 1) -> 0..sent] /\ new[m - 1] = cut[m] /\ new[0] = cut[1]
        /\ \A i \in 0..(m - 1) : new[i] = cut[i + 1]
    <2>1. \A i \in 0..(m - 1) : i + 1 \in 0..m
      BY <1>3
    <2>2. QED
      BY <1>2, <1>3, <2>1
  <1> HIDE DEF new, rest
  <1>6. QueueRuns(rest, new)
    <2>1. SUFFICES ASSUME NEW i \in 1..(m - 1)
                   PROVE  IF rest[i] = None THEN new[i] = new[i - 1]
                          ELSE new[i - 1] <= new[i] /\ rest[i].data = Run(new[i - 1], new[i])
      BY <1>3 DEF QueueRuns
    <2>2. i + 1 \in 1..Len(queue) /\ i \in 0..(m - 1) /\ i - 1 \in 0..(m - 1) /\ (i - 1) + 1 = i
          /\ (i + 1) - 1 = i
      BY <1>1
    <2>3. new[i] = cut[i + 1] /\ new[i - 1] = cut[i] /\ rest[i] = queue[i + 1]
      BY <1>3, <1>5, <2>2
    <2>4. IF queue[i + 1] = None THEN cut[i + 1] = cut[i]
          ELSE cut[i] <= cut[i + 1] /\ queue[i + 1].data = Run(cut[i], cut[i + 1])
      BY <1>2, <2>2 DEF QueueRuns
    <2>5. QED
      BY <2>3, <2>4
  <1>7. InTransit(rest, inbuf, sent, cut[1], w)
    BY <1>2, <1>3, <1>5, <1>6 DEF InTransit
  <1>8. w = "open" => through <= cut[1] /\ Head(queue).data = Run(through, cut[1])
    BY <1>2, <1>3, <1>4
  <1>9. QED
    BY <1>4, <1>7, <1>8 DEF rest, HeadIsRun

\* A unit sent joins the unread ones.
LEMMA TransitOnSend ==
    ASSUME NEW queue \in Seq(Items \cup {None}), NEW inbuf, NEW sent \in Nat,
           NEW through, NEW w, InTransit(queue, inbuf, sent, through, w)
    PROVE  InTransit(queue, Append(inbuf, sent + 1), sent + 1, through, w)
  <1>1. PICK m \in Nat : m = Len(queue)
    OBVIOUS
  <1>2. PICK cut \in [0..m -> 0..sent] :
           /\ QueueRuns(queue, cut) /\ inbuf = Run(cut[m], sent) /\ (w = "open" => through = cut[0])
    BY <1>1 DEF InTransit
  <1>3. cut[m] \in Nat /\ cut[m] <= sent
    BY <1>2
  <1>4. Append(inbuf, sent + 1) = Run(cut[m], sent + 1)
    BY <1>2, <1>3, RunGrows
  <1>5. cut \in [0..m -> 0..(sent + 1)]
    BY <1>2
  <1>6. QED
    BY <1>1, <1>2, <1>4, <1>5 DEF InTransit

\* A closed writer drops what is delivered to it; nothing is promised then.
LEMMA TransitWhenClosed ==
    ASSUME NEW queue, NEW inbuf, NEW sent, NEW through, NEW more, NEW w, NEW v,
           InTransit(queue, inbuf, sent, through, w), v # "open" \/ (v = w /\ more = through)
    PROVE  InTransit(queue, inbuf, sent, more, v)
  BY DEF InTransit

\* Neither a delivery nor a read moves the None from the end of the queue.
LEMMA NoneLastOnDelivery ==
    ASSUME NEW reader, NEW queue \in Seq(Items \cup {None}), NoneLast(reader, "get", queue),
           queue # <<>>, Head(queue) # None
    PROVE  NoneLast(reader, "drain", Tail(queue))
  <1>1. PICK m \in Nat : m = Len(queue)
    OBVIOUS
  <1> DEFINE rest == Tail(queue)
  <1>2. /\ m > 0 /\ Len(rest) = m - 1 /\ Head(queue) = queue[1]
        /\ \A i \in 1..(m - 1) : rest[i] = queue[i + 1]
    BY <1>1
  <1> HIDE DEF rest
  <1>3. ASSUME reader = "read", NEW i \in 1..(m - 1) PROVE rest[i] # None
    <2>1. i + 1 \in 1..Len(queue)
      BY <1>1
    <2>2. QED
      BY <1>2, <1>3, <2>1 DEF NoneLast
  <1>4. ASSUME reader = "ended" PROVE \E i \in 1..(m - 1) : rest[i] = None
    <2>1. PICK j \in 1..m : queue[j] = None
      BY <1>1, <1>4 DEF NoneLast
    <2>2. j # 1
      BY <1>2, <2>1
    <2>3. j - 1 \in 1..(m - 1) /\ (j - 1) + 1 = j
      BY <2>2
    <2>4. rest[j - 1] = None
      BY <1>2, <2>1, <2>3
    <2>5. QED
      BY <2>3, <2>4
  <1>5. NoneLast(reader, "drain", rest)
    BY <1>2, <1>3, <1>4 DEF NoneLast
  <1>6. QED
    BY <1>5 DEF rest

LEMMA NoneLastOnRead ==
    ASSUME NEW task, NEW queue \in Seq(Items \cup {None}), NoneLast("read", task, queue), NEW item \in Items
    PROVE  NoneLast("read", task, Append(queue, item))
  <1>1. PICK m \in Nat : m = Len(queue)
    OBVIOUS
  <1> DEFINE longer == Append(queue, item)
  <1>2. Len(longer) = m + 1 /\ longer[m + 1] = item /\ \A i \in 1..m : longer[i] = queue[i]
    BY <1>1, AppendProperties
  <1> HIDE DEF longer
  <1>3. item # None
    BY ItemAssumption DEF Items
  <1>4. \A i \in 1..m : queue[i] # None
    BY <1>1 DEF NoneLast
  <1>5. \A i \in 1..Len(longer) : longer[i] # None
    BY <1>2, <1>3, <1>4
  <1>6. NoneLast("read", task, longer)
    BY <1>5 DEF NoneLast
  <1>7. QED
    BY <1>6 DEF longer

\* A delivery to an open writer continues the run of what was let through.
LEMMA ThroughOnDelivery ==
    ASSUME NEW got \in Seq(Nat), NEW out \in Seq(Nat), NEW sent \in Nat, LetThrough(got, out, sent),
           NEW next \in Nat, next <= sent, Len(got) + Len(out) <= next,
           NEW data, data = Run(Len(got) + Len(out), next)
    PROVE  LetThrough(got, out \o data, sent) /\ Len(got) + Len(out \o data) = next
  <1>1. PICK g \in Nat : g = Len(got)
    OBVIOUS
  <1>2. PICK o \in Nat : o = g + Len(out) /\ g <= o
    BY <1>1
  <1>3. out \o data = Run(g, next) /\ g <= next
    <2>1. out = Run(g, o) /\ data = Run(o, next) /\ o <= next
      BY <1>1, <1>2 DEF LetThrough
    <2>2. g <= o /\ o <= next /\ g <= next
      BY <1>2, <2>1
    <2>3. Run(g, o) \o Run(o, next) = Run(g, next)
      BY <2>2, RunJoin, Zenon
    <2>4. QED
      BY <2>1, <2>2, <2>3, Zenon
  <1>4. Len(out \o data) = next - g
    BY <1>2, <1>3, RunProperties
  <1>5. g + Len(out \o data) = next
    BY <1>3, <1>4
  <1>6. QED
    BY <1>1, <1>3, <1>5 DEF LetThrough

\* A sum of lengths is a number.
LEMMA LengthSum ==
    ASSUME NEW s \in Seq(Nat), NEW t \in Seq(Nat)
    PROVE  Len(s) + Len(t) \in Nat
  OBVIOUS

\* A delivery as a whole: an open writer takes the item, a closed one drops it.
LEMMA DeliveryMoves ==
    ASSUME NEW queue \in Seq(Items \cup {None}), NEW inbuf, NEW sent \in Nat,
           NEW got \in Seq(Nat), NEW out \in Seq(Nat), NEW w, queue # <<>>, Head(queue) # None,
           InTransit(queue, inbuf, sent, Len(got) + Len(out), w), LetThrough(got, out, sent),
           NEW more, more = IF w = "open" THEN out \o Head(queue).data ELSE out
    PROVE  LetThrough(got, more, sent) /\ InTransit(Tail(queue), inbuf, sent, Len(got) + Len(more), w)
  <1>1. PICK through \in Nat : through = Len(got) + Len(out)
    BY LengthSum
  <1>2. PICK next \in Nat :
            /\ next <= sent /\ InTransit(Tail(queue), inbuf, sent, next, w)
            /\ w = "open" => through <= next /\ Head(queue).data = Run(through, next)
    <2>1. InTransit(queue, inbuf, sent, through, w)
      BY <1>1
    <2>2. HeadIsRun(queue, inbuf, sent, through, w)
      BY <2>1, TransitOnDelivery
    <2>3. QED
      BY <2>2 DEF HeadIsRun
  <1>3. CASE w = "open"
    <2>1. PICK data : data = Head(queue).data
      OBVIOUS
    <2>2. Len(got) + Len(out) <= next /\ data = Run(Len(got) + Len(out), next) /\ more = out \o data
      BY <1>1, <1>2, <1>3, <2>1
    <2>3. LetThrough(got, out \o data, sent) /\ Len(got) + Len(out \o data) = next
      BY <1>2, <2>2, ThroughOnDelivery
    <2>4. QED
      BY <1>2, <2>2, <2>3, Zenon
  <1>4. CASE w # "open"
    BY <1>2, <1>4, TransitWhenClosed, Zenon
  <1>5. QED
    BY <1>3, <1>4

\* A destination that has received as many units as there are has them all.
LEMMA ThroughAll ==
    ASSUME NEW got \in Seq(Nat), NEW out \in Seq(Nat), NEW sent \in Nat, LetThrough(got, out, sent),
           NEW size \in Nat, sent <= size, Len(got) >= size
    PROVE  Len(got) = size
  BY DEF LetThrough

\* A flush moves the first unit of the transport's buffer to the destination.
LEMMA ThroughOnFlush ==
    ASSUME NEW got \in Seq(Nat), NEW out \in Seq(Nat), NEW sent \in Nat, LetThrough(got, out, sent),
           out # <<>>
    PROVE  /\ LetThrough(Append(got, Head(out)), Tail(out), sent)
           /\ Len(Append(got, Head(out))) + Len(Tail(out)) = Len(got) + Len(out)
           /\ Len(Append(got, Head(out))) = Len(got) + 1
  <1>1. PICK g \in Nat : g = Len(got)
    OBVIOUS
  <1>2. PICK o \in Nat : o = g + Len(out) /\ g < o
    BY <1>1
  <1>3. out = Run(g, o) /\ got = Run(0, g)
    BY <1>1, <1>2 DEF LetThrough
  <1>4. o <= sent
    BY <1>1, <1>2 DEF LetThrough
  <1> DEFINE got2 == Append(got, Head(out))
             out2 == Tail(out)
  <1>5. Head(out) = g + 1 /\ out2 = Run(g + 1, o)
    BY <1>2, <1>3, RunShrinks
  <1>6. got2 = Run(0, g + 1)
    <2>1. got2 = Append(Run(0, g), g + 1)
      BY <1>3, <1>5
    <2>2. 0 \in Nat /\ 0 <= g
      OBVIOUS
    <2>3. Append(Run(0, g), g + 1) = Run(0, g + 1)
      BY <2>2, RunGrows
    <2>4. QED
      BY <2>1, <2>3, Zenon
  <1> HIDE DEF got2, out2
  <1>7. Len(got2) = g + 1
    <2>1. g + 1 \in Nat /\ 0 <= g + 1 /\ (g + 1) - 0 = g + 1
      OBVIOUS
    <2>2. QED
      BY <1>6, <2>1, RunProperties
  <1>8. Len(out2) = o - (g + 1)
    <2>1. g + 1 \in Nat /\ g + 1 <= o
      BY <1>2
    <2>2. QED
      BY <1>5, <2>1, RunProperties
  <1>9. Len(got2) + Len(out2) = o
    BY <1>2, <1>7, <1>8
  <1>10. LetThrough(got2, out2, sent)
    BY <1>4, <1>5, <1>6, <1>7, <1>9 DEF LetThrough
  <1>11. QED
    BY <1>1, <1>2, <1>7, <1>9, <1>10 DEF got2, out2

\* A transport that fails loses its buffer, never what was received.
LEMMA ThroughOnLoss ==
    ASSUME NEW got \in Seq(Nat), NEW out \in Seq(Nat), NEW sent \in Nat, LetThrough(got, out, sent)
    PROVE  LetThrough(got, <<>>, sent)
  <1>1. PICK g \in Nat : g = Len(got)
    OBVIOUS
  <1>2. g + Len(<<>>) = g /\ Run(g, g) = <<>> /\ g <= sent
    BY <1>1 DEF LetThrough, Run
  <1>3. QED
    BY <1>1, <1>2 DEF LetThrough

-----------------------------------------------------------------------------
\* A step of one pump leaves the others alone.
Others(c, d) == \A e \in Conns, f \in Dirs : (e # c \/ f # d) => pump'[e][f] = pump[e][f]
Pumping == pump' \in [Conns -> [Dirs -> Pumps]]

\* The fields of a pump.
LEMMA PumpTypes ==
    ASSUME Shape, NEW c \in Conns, NEW d \in Dirs
    PROVE  /\ pump[c] \in [Dirs -> Pumps] /\ pump[c][d] \in Pumps
           /\ pump[c][d].sent \in Nat /\ pump[c][d].inbuf \in Seq(Nat)
           /\ pump[c][d].reader \in {"read", "ended"} /\ pump[c][d].queue \in Seq(Items \cup {None})
           /\ pump[c][d].task \in {"get", "drain", "ended"}
           /\ pump[c][d].out \in Seq(Nat) /\ pump[c][d].got \in Seq(Nat)
  BY DEF Shape, Pumps

\* What EXCEPT ![c][d] does.
LEMMA PumpUpdate ==
    ASSUME Shape, NEW c \in Conns, NEW d \in Dirs, NEW q \in Pumps,
           pump' = [pump EXCEPT ![c] = [@ EXCEPT ![d] = q]]
    PROVE  Pumping /\ pump'[c][d] = q /\ Others(c, d)
  <1>1. pump \in [Conns -> [Dirs -> Pumps]] /\ pump[c] \in [Dirs -> Pumps]
    BY DEF Shape
  <1> DEFINE row == [pump[c] EXCEPT ![d] = q]
  <1>2. row \in [Dirs -> Pumps] /\ row[d] = q /\ \A f \in Dirs : f # d => row[f] = pump[c][f]
    BY <1>1
  <1> HIDE DEF row
  <1>3. pump' = [pump EXCEPT ![c] = row]
    BY DEF row
  <1>4. QED
    BY <1>1, <1>2, <1>3 DEF Pumping, Others

\* A release time is a time.
LEMMA BusyType ==
    ASSUME Shape, NEW d \in Dirs, NEW n \in Nat
    PROVE  BusyUntil(d, n) \in Nat
  <1>1. now \in Nat /\ tx_free[d] \in Nat /\ TxTime \in Nat
    BY NetemAssumption DEF Shape
  <1>2. Max({now, tx_free[d]}) \in {now, tx_free[d]}
    <2>1. \E x \in {now, tx_free[d]} : \A y \in {now, tx_free[d]} : x >= y
      BY <1>1
    <2>2. QED
      BY <2>1 DEF Max
  <1>3. Max({now, tx_free[d]}) \in Nat
    BY <1>1, <1>2
  <1>4. n * TxTime \in Nat
    BY <1>1
  <1>5. QED
    BY <1>3, <1>4 DEF BusyUntil

\* What a read does to its pump, with the item it queues as a witness.
LEMMA ReadFields ==
    ASSUME Shape, NEW c \in Conns, NEW d \in Dirs, Read(c, d)
    PROVE  \E n \in Nat, item \in Items, q \in Pumps :
              /\ 1 <= n /\ n <= Len(pump[c][d].inbuf) /\ item.data = SubSeq(pump[c][d].inbuf, 1, n)
              /\ Pumping /\ pump'[c][d] = q /\ Others(c, d)
              /\ q.queue = Append(pump[c][d].queue, item)
              /\ q.inbuf = SubSeq(pump[c][d].inbuf, n + 1, Len(pump[c][d].inbuf))
              /\ q.sent = pump[c][d].sent /\ q.reader = pump[c][d].reader /\ q.task = pump[c][d].task
              /\ q.out = pump[c][d].out /\ q.got = pump[c][d].got
              /\ tx_free' \in [Dirs -> Nat]
  <1>1. PICK n \in 1..Len(pump[c][d].inbuf) :
          /\ pump' = [pump EXCEPT
                 ![c][d].queue = Append(@, [at |-> BusyUntil(d, n) + Delay,
                                            data |-> SubSeq(pump[c][d].inbuf, 1, n)]),
                 ![c][d].inbuf = SubSeq(@, n + 1, Len(@))]
          /\ tx_free' = [tx_free EXCEPT ![d] = BusyUntil(d, n)]
    BY DEF Read
  <1>2. PICK p \in Pumps : p = pump[c][d]
    BY PumpTypes
  <1>3. p.inbuf \in Seq(Nat) /\ p.queue \in Seq(Items \cup {None}) /\ Len(p.inbuf) \in Nat
    BY DEF Pumps
  <1>4. n \in Nat /\ 1 <= n /\ n <= Len(p.inbuf)
    BY <1>2, <1>3
  <1>5. BusyUntil(d, n) \in Nat /\ Delay \in Nat
    BY <1>4, BusyType, NetemAssumption
  <1> DEFINE item == [at |-> BusyUntil(d, n) + Delay, data |-> SubSeq(p.inbuf, 1, n)]
             q == [p EXCEPT !.queue = Append(@, item), !.inbuf = SubSeq(@, n + 1, Len(@))]
  <1>6. item \in Items
    <2>1. SubSeq(p.inbuf, 1, n) \in Seq(Nat)
      BY <1>3, <1>4
    <2>2. QED
      BY <1>5, <2>1 DEF Items
  <1>7. pump' = [pump EXCEPT ![c] = [@ EXCEPT ![d] = q]]
    BY <1>1, <1>2 DEF Shape
  <1>8. item.data = SubSeq(p.inbuf, 1, n)
    OBVIOUS
  <1> HIDE DEF item
  <1>9. q \in Pumps
    <2>1. Append(p.queue, item) \in Seq(Items \cup {None}) /\ SubSeq(p.inbuf, n + 1, Len(p.inbuf)) \in Seq(Nat)
      BY <1>3, <1>4, <1>6
    <2>2. QED
      BY <2>1 DEF Pumps
  <1>10. /\ q.queue = Append(p.queue, item) /\ q.inbuf = SubSeq(p.inbuf, n + 1, Len(p.inbuf))
         /\ q.sent = p.sent /\ q.reader = p.reader /\ q.task = p.task /\ q.out = p.out /\ q.got = p.got
    BY DEF Pumps
  <1> HIDE DEF q
  <1>11. Pumping /\ pump'[c][d] = q /\ Others(c, d)
    BY <1>7, <1>9, PumpUpdate
  <1>12. tx_free' \in [Dirs -> Nat]
    BY <1>1, <1>5 DEF Shape
  <1>13. QED
    BY <1>2, <1>4, <1>6, <1>8, <1>9, <1>10, <1>11, <1>12

-----------------------------------------------------------------------------
\* No transport opens again, and what was received stays received.
SockCloses == \A c \in Conns, p \in Peers : sock'[c][p] = sock[c][p] \/ sock'[c][p] # "open"
GotGrows == \A c \in Conns, d \in Dirs :
    /\ Len(pump[c][d].got) \in Nat /\ Len(pump'[c][d].got) \in Nat
    /\ Len(pump'[c][d].got) >= Len(pump[c][d].got)

\* The other connections do not notice.
Elsewhere(c) ==
    \A e \in Conns : e # c =>
        /\ sock'[e] = sock[e] /\ peer'[e] = peer[e] /\ handle'[e] = handle[e]
        /\ \A d \in Dirs : pump'[e][d] = pump[e][d]

\* The two ends of a direction are the peers.
LEMMA DestPeer == \A d \in Dirs : Dest(d) \in Peers /\ Source(d) \in Peers
  BY DEF Dirs, Dest, Source, Peers

\* Closing the writer only weakens what is required of a pump.
LEMMA WriterCloses ==
    ASSUME NEW p, NEW size, NEW w, NEW v, PumpOK(p, size, w), v = w \/ v # "open"
    PROVE  PumpOK(p, size, v)
  <1>1. InTransit(p.queue, p.inbuf, p.sent, Len(p.got) + Len(p.out), v)
    BY TransitWhenClosed DEF PumpOK
  <1>2. QED
    BY <1>1 DEF PumpOK

\* One pump steps and keeps what it carries.
LEMMA OnePump ==
    ASSUME Shape, PumpsOK, SockCloses, NEW c \in Conns, NEW d \in Dirs, NEW q \in Pumps,
           Pumping, pump'[c][d] = q, Others(c, d), Len(q.got) >= Len(pump[c][d].got),
           PumpOK(q, Size[c][d], sock'[c][Dest(d)])
    PROVE  PumpsOK' /\ GotGrows
  <1>1. PumpsOK'
    <2>1. SUFFICES ASSUME NEW e \in Conns, NEW f \in Dirs
                   PROVE  PumpOK(pump'[e][f], Size[e][f], sock'[e][Dest(f)])
      BY DEF PumpsOK
    <2>2. CASE e = c /\ f = d
      BY <2>2
    <2>3. CASE e # c \/ f # d
      <3>1. pump'[e][f] = pump[e][f]
        BY <2>3 DEF Others
      <3>2. PumpOK(pump[e][f], Size[e][f], sock[e][Dest(f)])
        BY DEF PumpsOK
      <3>3. sock'[e][Dest(f)] = sock[e][Dest(f)] \/ sock'[e][Dest(f)] # "open"
        BY DestPeer DEF SockCloses
      <3>4. QED
        BY <3>1, <3>2, <3>3, WriterCloses
    <2>4. QED
      BY <2>2, <2>3
  <1>2. ASSUME NEW e \in Conns, NEW f \in Dirs
        PROVE  /\ Len(pump[e][f].got) \in Nat /\ Len(pump'[e][f].got) \in Nat
               /\ Len(pump'[e][f].got) >= Len(pump[e][f].got)
    <2>1. pump[e][f].got \in Seq(Nat) /\ q.got \in Seq(Nat)
      BY PumpTypes DEF Pumps
    <2>2. Len(pump[e][f].got) \in Nat /\ Len(q.got) \in Nat
      BY <2>1
    <2>3. CASE e = c /\ f = d
      BY <2>2, <2>3
    <2>4. CASE e # c \/ f # d
      <3>1. pump'[e][f] = pump[e][f]
        BY <2>4 DEF Others
      <3>2. QED
        BY <2>2, <3>1
    <2>5. QED
      BY <2>3, <2>4
  <1>3. QED
    BY <1>1, <1>2 DEF GotGrows

\* A step that touches no pump keeps them all.
LEMMA NoPump ==
    ASSUME Shape, PumpsOK, SockCloses, UNCHANGED pump
    PROVE  PumpsOK' /\ GotGrows
  <1>1. ASSUME NEW e \in Conns, NEW f \in Dirs
        PROVE  /\ PumpOK(pump'[e][f], Size[e][f], sock'[e][Dest(f)])
               /\ Len(pump[e][f].got) \in Nat /\ Len(pump'[e][f].got) >= Len(pump[e][f].got)
    <2>1. PumpOK(pump[e][f], Size[e][f], sock[e][Dest(f)])
      BY DEF PumpsOK
    <2>2. sock'[e][Dest(f)] = sock[e][Dest(f)] \/ sock'[e][Dest(f)] # "open"
      BY DestPeer DEF SockCloses
    <2>3. PumpOK(pump'[e][f], Size[e][f], sock'[e][Dest(f)])
      BY <2>1, <2>2, WriterCloses
    <2>4. pump[e][f].got \in Seq(Nat)
      BY PumpTypes
    <2>5. Len(pump[e][f].got) \in Nat
      BY <2>4
    <2>6. QED
      BY <2>3, <2>5
  <1>2. QED
    BY <1>1 DEF PumpsOK, GotGrows

\* A complete exchange stays complete.
LEMMA CompleteStays ==
    ASSUME Shape', PumpsOK', GotGrows, NEW c \in Conns, Complete(c)
    PROVE  Complete(c)'
  <1>1. SUFFICES ASSUME NEW d \in Dirs PROVE Len(pump'[c][d].got) = Size[c][d]
    BY DEF Complete
  <1>2. Len(pump[c][d].got) = Size[c][d] /\ Size[c][d] \in Nat
    BY NetemAssumption DEF Complete, Dirs
  <1>3. Len(pump'[c][d].got) \in Nat /\ Len(pump'[c][d].got) >= Size[c][d]
    BY <1>2 DEF GotGrows
  <1>4. pump'[c][d] \in Pumps /\ PumpOK(pump'[c][d], Size[c][d], sock'[c][Dest(d)])
    BY DEF Shape, PumpsOK
  <1>5. PICK p \in Pumps : p = pump'[c][d]
    BY <1>4
  <1>6. /\ p.sent \in Nat /\ p.out \in Seq(Nat) /\ p.got \in Seq(Nat)
    BY DEF Pumps
  <1>7. p.sent <= Size[c][d] /\ LetThrough(p.got, p.out, p.sent) /\ Len(p.got) >= Size[c][d]
    BY <1>3, <1>4, <1>5 DEF PumpOK
  <1>8. Len(p.got) = Size[c][d]
    BY <1>2, <1>6, <1>7, ThroughAll, Zenon
  <1>9. QED
    BY <1>5, <1>8

\* What each step has to show of the connection it belongs to.
Keeps(c) ==
    /\ Shape' /\ PumpsOK' /\ GotGrows /\ Elsewhere(c)
    /\ faults' = 0 => faults = 0 /\ (Ending(c)' => Ending(c) \/ Complete(c))

\* A step that keeps its own connection keeps the invariant.
LEMMA KeepsInv ==
    ASSUME ProxyInv, NEW c \in Conns, Keeps(c)
    PROVE  ProxyInv'
  <1>1. Shape' /\ PumpsOK' /\ GotGrows /\ Elsewhere(c)
    BY DEF Keeps
  <1>2. EndsComplete'
    <2>1. SUFFICES ASSUME faults' = 0, NEW e \in Conns, Ending(e)' PROVE Complete(e)'
      BY DEF EndsComplete
    <2>2. faults = 0
      BY <2>1 DEF Keeps
    <2>3. Ending(e) \/ Complete(e)
      <3>1. CASE e = c
        BY <2>1, <3>1 DEF Keeps
      <3>2. CASE e # c
        BY <1>1, <2>1, <3>2 DEF Elsewhere, Ending
      <3>3. QED
        BY <3>1, <3>2
    <2>4. Complete(e)
      BY <2>2, <2>3 DEF ProxyInv, EndsComplete
    <2>5. QED
      BY <1>1, <2>4, CompleteStays
  <1>3. QED
    BY <1>1, <1>2 DEF ProxyInv

-----------------------------------------------------------------------------
\* The steps of a pump.
LEMMA KeepsByPump ==
    ASSUME ProxyInv, NEW c \in Conns, NEW d \in Dirs, NEW q \in Pumps,
           Pumping, pump'[c][d] = q, Others(c, d), Len(q.got) >= Len(pump[c][d].got),
           UNCHANGED <<now, handle, sock, peer, faults>>, tx_free' \in [Dirs -> Nat],
           PumpOK(q, Size[c][d], sock[c][Dest(d)]),
           q.reader = pump[c][d].reader \/ Ending(c) \/ Complete(c),
           q.task = pump[c][d].task \/ q.task # "ended" \/ Ending(c) \/ Complete(c)
    PROVE  Keeps(c)
  <1>1. Shape /\ PumpsOK
    BY DEF ProxyInv
  <1>2. Shape'
    BY <1>1 DEF Shape, Pumping
  <1>3. SockCloses
    BY DEF SockCloses
  <1>4. PumpsOK' /\ GotGrows
    BY <1>1, <1>3, OnePump
  <1>5. Elsewhere(c)
    BY DEF Elsewhere, Others
  <1>6. Ending(c)' => Ending(c) \/ Complete(c)
    <2>1. SUFFICES ASSUME Ending(c)', ~Ending(c), ~Complete(c) PROVE FALSE
      OBVIOUS
    <2>2. PICK f \in Dirs : pump'[c][f].reader = "ended" \/ pump'[c][f].task = "ended"
      BY <2>1 DEF Ending
    <2>3. ~(pump[c][f].reader = "ended" \/ pump[c][f].task = "ended")
      BY <2>1 DEF Ending
    <2>4. f = d
      BY <2>2, <2>3 DEF Others
    <2>5. QED
      BY <2>1, <2>2, <2>3, <2>4
  <1>7. QED
    BY <1>2, <1>4, <1>5, <1>6 DEF Keeps

\* reader.read returns data: the item joins the queue.
LEMMA KeepsRead ==
    ASSUME ProxyInv, NEW c \in Conns, NEW d \in Dirs, Read(c, d)
    PROVE  Keeps(c)
  <1>1. Shape /\ PumpsOK
    BY DEF ProxyInv
  <1>2. PICK p \in Pumps : p = pump[c][d]
    BY <1>1, PumpTypes
  <1>3. PICK n \in Nat, item \in Items, q \in Pumps :
              /\ 1 <= n /\ n <= Len(p.inbuf) /\ item.data = SubSeq(p.inbuf, 1, n)
              /\ Pumping /\ pump'[c][d] = q /\ Others(c, d)
              /\ q.queue = Append(p.queue, item) /\ q.inbuf = SubSeq(p.inbuf, n + 1, Len(p.inbuf))
              /\ q.sent = p.sent /\ q.reader = p.reader /\ q.task = p.task
              /\ q.out = p.out /\ q.got = p.got
              /\ tx_free' \in [Dirs -> Nat]
    BY <1>1, <1>2, ReadFields
  <1>4. PICK w : w = sock[c][Dest(d)]
    OBVIOUS
  <1>5. PumpOK(p, Size[c][d], w) /\ p.reader = "read"
    BY <1>1, <1>2, <1>4 DEF PumpsOK, Read
  <1>6. p.queue \in Seq(Items \cup {None}) /\ p.inbuf \in Seq(Nat) /\ p.sent \in Nat /\ p.got \in Seq(Nat)
    BY DEF Pumps
  <1>7. InTransit(q.queue, q.inbuf, q.sent, Len(q.got) + Len(q.out), w)
    <2>1. InTransit(p.queue, p.inbuf, p.sent, Len(p.got) + Len(p.out), w)
      BY <1>5 DEF PumpOK
    <2>2. InTransit(Append(p.queue, item), SubSeq(p.inbuf, n + 1, Len(p.inbuf)), p.sent,
                    Len(p.got) + Len(p.out), w)
      BY <1>3, <1>6, <2>1, TransitOnRead
    <2>3. QED
      BY <1>3, <2>2, Zenon
  <1>8. NoneLast(q.reader, q.task, q.queue)
    <2>1. NoneLast("read", p.task, p.queue)
      BY <1>5 DEF PumpOK
    <2>2. NoneLast("read", p.task, Append(p.queue, item))
      BY <1>6, <2>1, NoneLastOnRead
    <2>3. QED
      BY <1>3, <1>5, <2>2, Zenon
  <1>9. PumpOK(q, Size[c][d], w)
    BY <1>3, <1>5, <1>7, <1>8 DEF PumpOK
  <1>10. Len(q.got) >= Len(p.got)
    BY <1>3, <1>6
  <1>11. UNCHANGED <<now, handle, sock, peer, faults>>
    BY DEF Read
  <1>12. QED
    BY <1>2, <1>3, <1>4, <1>9, <1>10, <1>11, KeepsByPump

\* reader.read returns b'' or raises: the None joins the queue.
LEMMA KeepsReadEnds ==
    ASSUME ProxyInv, NEW c \in Conns, NEW d \in Dirs, ReadEnds(c, d)
    PROVE  Keeps(c)
  <1>1. Shape /\ PumpsOK
    BY DEF ProxyInv
  <1>2. PICK p \in Pumps : p = pump[c][d]
    BY <1>1, PumpTypes
  <1>3. PICK w : w = sock[c][Dest(d)]
    OBVIOUS
  <1>4. PumpOK(p, Size[c][d], w)
    BY <1>1, <1>2, <1>3 DEF PumpsOK
  <1>5. p.queue \in Seq(Items \cup {None}) /\ p.sent \in Nat /\ p.got \in Seq(Nat)
    BY DEF Pumps
  <1> DEFINE q == [p EXCEPT !.reader = "ended", !.queue = Append(@, None)]
  <1>6. /\ q \in Pumps /\ q.queue = Append(p.queue, None) /\ q.reader = "ended" /\ q.inbuf = p.inbuf
        /\ q.sent = p.sent /\ q.task = p.task /\ q.out = p.out /\ q.got = p.got
    <2>1. Append(p.queue, None) \in Seq(Items \cup {None})
      BY <1>5
    <2>2. QED
      BY <2>1 DEF Pumps
  <1>7. pump' = [pump EXCEPT ![c] = [@ EXCEPT ![d] = q]]
    BY <1>1, <1>2 DEF ReadEnds, Shape
  <1> HIDE DEF q
  <1>8. Pumping /\ pump'[c][d] = q /\ Others(c, d)
    BY <1>1, <1>6, <1>7, PumpUpdate
  <1>9. PumpOK(q, Size[c][d], w)
    <2>1. InTransit(p.queue, p.inbuf, p.sent, Len(p.got) + Len(p.out), w)
      BY <1>4 DEF PumpOK
    <2>2. /\ InTransit(Append(p.queue, None), p.inbuf, p.sent, Len(p.got) + Len(p.out), w)
          /\ NoneLast("ended", p.task, Append(p.queue, None))
      BY <1>5, <2>1, TransitOnEnd
    <2>3. /\ InTransit(q.queue, q.inbuf, q.sent, Len(q.got) + Len(q.out), w)
          /\ NoneLast(q.reader, q.task, q.queue)
      BY <1>6, <2>2, Zenon
    <2>4. QED
      BY <1>4, <1>6, <2>3 DEF PumpOK
  <1>10. Len(q.got) >= Len(p.got)
    BY <1>5, <1>6
  <1>11. UNCHANGED <<now, tx_free, handle, sock, peer, faults>> /\ tx_free \in [Dirs -> Nat]
    BY <1>1 DEF ReadEnds, Shape
  <1>12. Ending(c)
    <2>1. AtEnd(c, d) /\ Source(d) \in Peers
      BY DestPeer DEF ReadEnds
    <2>2. sock[c][Source(d)] # "open" \/ peer[c][Source(d)] = "closed"
      BY <2>1 DEF AtEnd, Lost
    <2>3. QED
      BY <2>1, <2>2 DEF Ending
  <1>13. QED
    BY <1>2, <1>3, <1>6, <1>8, <1>9, <1>10, <1>11, <1>12, KeepsByPump

\* queue.get returns an item: it is written unless the writer is closing.
LEMMA KeepsDeliver ==
    ASSUME ProxyInv, NEW c \in Conns, NEW d \in Dirs, Deliver(c, d)
    PROVE  Keeps(c)
  <1>1. Shape /\ PumpsOK
    BY DEF ProxyInv
  <1>2. PICK p \in Pumps : p = pump[c][d]
    BY <1>1, PumpTypes
  <1>3. PICK w : w = sock[c][Dest(d)]
    OBVIOUS
  <1>4. PumpOK(p, Size[c][d], w)
    BY <1>1, <1>2, <1>3 DEF PumpsOK
  <1>5. /\ p.queue \in Seq(Items \cup {None}) /\ p.sent \in Nat /\ p.got \in Seq(Nat) /\ p.out \in Seq(Nat)
        /\ Len(p.got) \in Nat /\ Len(p.out) \in Nat
    BY DEF Pumps
  <1>6. p.task = "get" /\ p.queue # <<>> /\ Head(p.queue) # None
    BY <1>2 DEF Deliver, HeadDue
  <1>7. Head(p.queue) \in Items
    <2>1. Head(p.queue) \in Items \cup {None}
      BY <1>5, <1>6
    <2>2. QED
      BY <1>6, <2>1
  <1> DEFINE more == IF w = "open" THEN p.out \o Head(p.queue).data ELSE p.out
             q == [p EXCEPT !.out = more, !.queue = Tail(@), !.task = "drain"]
  <1>8. /\ q \in Pumps /\ q.queue = Tail(p.queue) /\ q.task = "drain" /\ q.out = more
        /\ q.inbuf = p.inbuf /\ q.sent = p.sent /\ q.reader = p.reader /\ q.got = p.got
    <2>1. Tail(p.queue) \in Seq(Items \cup {None})
      BY <1>5, <1>6
    <2>2. Head(p.queue).data \in Seq(Nat)
      BY <1>7 DEF Items
    <2>3. more \in Seq(Nat)
      BY <1>5, <2>2
    <2> HIDE DEF more
    <2>4. QED
      BY <2>1, <2>3 DEF Pumps
  <1>9. pump' = [pump EXCEPT ![c] = [@ EXCEPT ![d] = q]]
    BY <1>1, <1>2, <1>3 DEF Deliver, Shape
  <1> HIDE DEF q
  <1>10. Pumping /\ pump'[c][d] = q /\ Others(c, d)
    BY <1>1, <1>8, <1>9, PumpUpdate
  <1>11. PumpOK(q, Size[c][d], w)
    <2>1. /\ InTransit(p.queue, p.inbuf, p.sent, Len(p.got) + Len(p.out), w)
          /\ LetThrough(p.got, p.out, p.sent)
      BY <1>4 DEF PumpOK
    <2>4. NoneLast(p.reader, "drain", Tail(p.queue))
      <3>1. NoneLast(p.reader, "get", p.queue)
        BY <1>4, <1>6 DEF PumpOK
      <3>2. QED
        BY <1>5, <1>6, <3>1, NoneLastOnDelivery
    <2>5. LetThrough(p.got, more, p.sent) /\ InTransit(Tail(p.queue), p.inbuf, p.sent, Len(p.got) + Len(more), w)
      <3> HIDE DEF more
      <3>1. more = IF w = "open" THEN p.out \o Head(p.queue).data ELSE p.out
        BY DEF more
      <3>2. QED
        BY <1>5, <1>6, <2>1, <3>1, DeliveryMoves, Zenon
    <2> HIDE DEF more
    <2>6. /\ NoneLast(q.reader, q.task, q.queue) /\ LetThrough(q.got, q.out, q.sent)
          /\ InTransit(q.queue, q.inbuf, q.sent, Len(q.got) + Len(q.out), w)
      BY <1>8, <2>4, <2>5, Zenon
    <2>7. QED
      BY <1>4, <1>8, <2>6 DEF PumpOK
  <1>12. Len(q.got) >= Len(p.got)
    BY <1>5, <1>8
  <1>13. UNCHANGED <<now, tx_free, handle, sock, peer, faults>> /\ tx_free \in [Dirs -> Nat]
    BY <1>1 DEF Deliver, Shape
  <1>14. QED
    BY <1>2, <1>3, <1>8, <1>10, <1>11, <1>12, <1>13, KeepsByPump

\* writer.drain returns and the task waits for the next item.
LEMMA KeepsDrained ==
    ASSUME ProxyInv, NEW c \in Conns, NEW d \in Dirs, Drained(c, d)
    PROVE  Keeps(c)
  <1>1. Shape /\ PumpsOK
    BY DEF ProxyInv
  <1>2. PICK p \in Pumps : p = pump[c][d]
    BY <1>1, PumpTypes
  <1>3. PICK w : w = sock[c][Dest(d)]
    OBVIOUS
  <1>4. PumpOK(p, Size[c][d], w)
    BY <1>1, <1>2, <1>3 DEF PumpsOK
  <1> DEFINE q == [p EXCEPT !.task = "get"]
  <1>5. /\ q \in Pumps /\ q.queue = p.queue /\ q.task = "get" /\ q.out = p.out
        /\ q.inbuf = p.inbuf /\ q.sent = p.sent /\ q.reader = p.reader /\ q.got = p.got
        /\ p.task = "drain" /\ p.got \in Seq(Nat)
    BY <1>2 DEF Pumps, Drained
  <1>6. pump' = [pump EXCEPT ![c] = [@ EXCEPT ![d] = q]]
    BY <1>1, <1>2 DEF Drained, Shape
  <1> HIDE DEF q
  <1>7. Pumping /\ pump'[c][d] = q /\ Others(c, d)
    BY <1>1, <1>5, <1>6, PumpUpdate
  <1>8. PumpOK(q, Size[c][d], w)
    BY <1>4, <1>5 DEF PumpOK, NoneLast
  <1>9. Len(q.got) >= Len(p.got)
    BY <1>5
  <1>10. UNCHANGED <<now, tx_free, handle, sock, peer, faults>> /\ tx_free \in [Dirs -> Nat]
    BY <1>1 DEF Drained, Shape
  <1>11. QED
    BY <1>2, <1>3, <1>5, <1>7, <1>8, <1>9, <1>10, KeepsByPump

\* A peer sends its next unit.
LEMMA KeepsSend ==
    ASSUME ProxyInv, NEW c \in Conns, NEW d \in Dirs, Send(c, d)
    PROVE  Keeps(c)
  <1>1. Shape /\ PumpsOK
    BY DEF ProxyInv
  <1>2. PICK p \in Pumps : p = pump[c][d]
    BY <1>1, PumpTypes
  <1>3. PICK w : w = sock[c][Dest(d)]
    OBVIOUS
  <1>4. PumpOK(p, Size[c][d], w)
    BY <1>1, <1>2, <1>3 DEF PumpsOK
  <1>5. /\ p.queue \in Seq(Items \cup {None}) /\ p.sent \in Nat /\ p.inbuf \in Seq(Nat) /\ p.got \in Seq(Nat)
        /\ Len(p.got) \in Nat
    BY DEF Pumps
  <1>6. PICK size \in Nat : size = Size[c][d] /\ p.sent < size
    BY <1>2, NetemAssumption DEF Send, Dirs
  <1> DEFINE q == [p EXCEPT !.sent = @ + 1, !.inbuf = Append(@, p.sent + 1)]
  <1>7. /\ q \in Pumps /\ q.queue = p.queue /\ q.task = p.task /\ q.out = p.out
        /\ q.inbuf = Append(p.inbuf, p.sent + 1) /\ q.sent = p.sent + 1 /\ q.reader = p.reader /\ q.got = p.got
    <2>1. Append(p.inbuf, p.sent + 1) \in Seq(Nat) /\ p.sent + 1 \in Nat
      BY <1>5
    <2>2. QED
      BY <2>1 DEF Pumps
  <1>8. pump' = [pump EXCEPT ![c] = [@ EXCEPT ![d] = q]]
    BY <1>1, <1>2 DEF Send, Shape
  <1> HIDE DEF q
  <1>9. Pumping /\ pump'[c][d] = q /\ Others(c, d)
    BY <1>1, <1>7, <1>8, PumpUpdate
  <1>10. PumpOK(q, size, w)
    <2>1. InTransit(p.queue, p.inbuf, p.sent, Len(p.got) + Len(p.out), w)
      BY <1>4 DEF PumpOK
    <2>2. InTransit(p.queue, Append(p.inbuf, p.sent + 1), p.sent + 1, Len(p.got) + Len(p.out), w)
      BY <1>5, <2>1, TransitOnSend
    <2>3. InTransit(q.queue, q.inbuf, q.sent, Len(q.got) + Len(q.out), w)
      BY <1>7, <2>2, Zenon
    <2>4. LetThrough(p.got, p.out, p.sent + 1)
      <3>1. LetThrough(p.got, p.out, p.sent)
        BY <1>4 DEF PumpOK
      <3>2. PICK n \in Nat : n = Len(p.got) + Len(p.out)
        BY <1>5 DEF Pumps
      <3>3. n <= p.sent => n <= p.sent + 1
        BY <1>5
      <3>4. QED
        BY <3>1, <3>2, <3>3 DEF LetThrough
    <2>5. LetThrough(q.got, q.out, q.sent) /\ NoneLast(q.reader, q.task, q.queue)
      BY <1>4, <1>7, <2>4 DEF PumpOK
    <2>6. q.sent <= size
      BY <1>5, <1>6, <1>7
    <2>7. QED
      BY <2>3, <2>5, <2>6 DEF PumpOK
  <1>11. Len(q.got) >= Len(p.got)
    BY <1>5, <1>7
  <1>12. UNCHANGED <<now, tx_free, handle, sock, peer, faults>> /\ tx_free \in [Dirs -> Nat]
    BY <1>1 DEF Send, Shape
  <1>13. QED
    BY <1>2, <1>3, <1>6, <1>7, <1>9, <1>10, <1>11, <1>12, KeepsByPump

\* A transport is closed, lost or reset.
SocksOK(c) ==
    /\ sock' \in [Conns -> [Peers -> {"open", "closing", "eof", "error"}]]
    /\ SockCloses /\ \A e \in Conns : e # c => sock'[e] = sock[e]

\* A transport that moves on does not open again.
LEMMA SockUpdate ==
    ASSUME Shape, NEW c \in Conns, NEW p \in Peers, NEW v \in {"closing", "eof", "error"},
           sock' = [sock EXCEPT ![c][p] = v]
    PROVE  SocksOK(c)
  BY DEF Shape, SocksOK, SockCloses

LEMMA SockSame ==
    ASSUME Shape, NEW c \in Conns, sock' = sock
    PROVE  SocksOK(c)
  BY DEF Shape, SocksOK, SockCloses

\* close() on a transport of one connection.
LEMMA CloseSocks ==
    ASSUME Shape, NEW c \in Conns, NEW d \in Dirs, Close(c, d)
    PROVE  SocksOK(c)
  <1>1. Dest(d) \in Peers
    BY DestPeer
  <1>2. CASE sock[c][Dest(d)] # "open"
    <2>1. sock' = sock
      BY <1>2 DEF Close
    <2>2. QED
      BY <2>1, SockSame
  <1>3. CASE sock[c][Dest(d)] = "open"
    <2>1. PICK v \in {"closing", "eof"} : v = IF pump[c][d].out = <<>> THEN "eof" ELSE "closing"
      OBVIOUS
    <2>2. sock' = [sock EXCEPT ![c][Dest(d)] = v]
      BY <1>3, <2>1 DEF Close
    <2>3. QED
      BY <1>1, <2>2, SockUpdate
  <1>4. QED
    BY <1>2, <1>3

\* A step that only continues an end already under way.
LEMMA KeepsWhileEnding ==
    ASSUME ProxyInv, NEW c \in Conns, SocksOK(c), Ending(c) \/ Complete(c) \/ faults' # 0,
           UNCHANGED now, tx_free' = tx_free, faults' \in 0..MaxFaults,
           faults' = 0 => faults = 0,
           handle' \in [Conns -> {"connecting", "piped", "refused", "done"}],
           peer' \in [Conns -> [Peers -> {"open", "closed"}]],
           \A e \in Conns : e # c => handle'[e] = handle[e] /\ peer'[e] = peer[e],
           Pumping, PumpsOK' /\ GotGrows, \A e \in Conns : e # c => \A d \in Dirs : pump'[e][d] = pump[e][d]
    PROVE  Keeps(c)
  <1>1. Shape'
    BY DEF ProxyInv, Shape, SocksOK, Pumping
  <1>2. Elsewhere(c)
    BY DEF Elsewhere, SocksOK
  <1>3. QED
    BY <1>1, <1>2 DEF Keeps

\* The task meets the None or a lost writer, and closes its transport.
LEMMA KeepsDeliveryEnds ==
    ASSUME ProxyInv, NEW c \in Conns, NEW d \in Dirs, DeliveryEnds(c, d)
    PROVE  Keeps(c)
  <1>1. Shape /\ PumpsOK
    BY DEF ProxyInv
  <1>2. PICK p \in Pumps : p = pump[c][d]
    BY <1>1, PumpTypes
  <1>3. PumpOK(p, Size[c][d], sock[c][Dest(d)])
    BY <1>1, <1>2 DEF PumpsOK
  <1> DEFINE q == [p EXCEPT !.task = "ended"]
  <1>4. /\ q \in Pumps /\ q.queue = p.queue /\ q.task = "ended" /\ q.out = p.out
        /\ q.inbuf = p.inbuf /\ q.sent = p.sent /\ q.reader = p.reader /\ q.got = p.got
        /\ p.got \in Seq(Nat) /\ p.queue \in Seq(Items \cup {None}) /\ p.reader \in {"read", "ended"}
    BY DEF Pumps
  <1>5. pump' = [pump EXCEPT ![c] = [@ EXCEPT ![d] = q]]
    BY <1>1, <1>2 DEF DeliveryEnds, Shape
  <1> HIDE DEF q
  <1>6. Pumping /\ pump'[c][d] = q /\ Others(c, d)
    BY <1>1, <1>4, <1>5, PumpUpdate
  <1>7. SocksOK(c)
    BY <1>1, CloseSocks DEF DeliveryEnds
  <1>8. PumpOK(q, Size[c][d], sock'[c][Dest(d)])
    <2>1. PumpOK(q, Size[c][d], sock[c][Dest(d)])
      BY <1>3, <1>4 DEF PumpOK, NoneLast
    <2>2. sock'[c][Dest(d)] = sock[c][Dest(d)] \/ sock'[c][Dest(d)] # "open"
      BY <1>7, DestPeer DEF SocksOK, SockCloses
    <2>3. QED
      BY <2>1, <2>2, WriterCloses
  <1>9. Len(q.got) >= Len(p.got)
    BY <1>4
  <1>10. PumpsOK' /\ GotGrows
    BY <1>1, <1>2, <1>4, <1>6, <1>7, <1>8, <1>9, OnePump DEF SocksOK
  <1>11. Ending(c)
    <2>1. CASE HeadIsNone(c, d)
      <3>1. p.queue # <<>> /\ Head(p.queue) = None
        BY <1>2, <2>1 DEF HeadIsNone
      <3>2. 1 \in 1..Len(p.queue) /\ p.queue[1] = None
        BY <1>4, <3>1
      <3>3. p.reader # "read"
        BY <1>3, <3>2 DEF PumpOK, NoneLast
      <3>4. p.reader = "ended"
        BY <1>4, <3>3
      <3>5. QED
        BY <1>2, <3>4 DEF Ending
    <2>2. CASE Lost(c, Dest(d))
      BY <2>2, DestPeer DEF Lost, Ending
    <2>3. QED
      BY <2>1, <2>2 DEF DeliveryEnds
  <1>12. /\ UNCHANGED <<now, tx_free, handle, peer, faults>> /\ handle \in [Conns -> {"connecting", "piped", "refused", "done"}]
         /\ peer \in [Conns -> [Peers -> {"open", "closed"}]] /\ faults \in 0..MaxFaults
    BY <1>1 DEF DeliveryEnds, Shape
  <1>13. \A e \in Conns : e # c => \A f \in Dirs : pump'[e][f] = pump[e][f]
    BY <1>6 DEF Others
  <1>14. QED
    BY <1>6, <1>7, <1>10, <1>11, <1>12, <1>13, KeepsWhileEnding

\* A transport hands a unit to its peer, or finds the peer gone.
LEMMA KeepsFlush ==
    ASSUME ProxyInv, NEW c \in Conns, NEW d \in Dirs, Flush(c, d)
    PROVE  Keeps(c)
  <1>1. Shape /\ PumpsOK
    BY DEF ProxyInv
  <1>2. PICK p \in Pumps : p = pump[c][d]
    BY <1>1, PumpTypes
  <1>3. PICK w : w = sock[c][Dest(d)]
    OBVIOUS
  <1>4. PumpOK(p, Size[c][d], w) /\ p.out # <<>>
    BY <1>1, <1>2, <1>3 DEF PumpsOK, Flush
  <1>5. p.got \in Seq(Nat) /\ p.out \in Seq(Nat) /\ p.sent \in Nat /\ Dest(d) \in Peers
    BY DestPeer DEF Pumps
  <1>6. /\ UNCHANGED <<now, tx_free, handle, peer, faults>> /\ tx_free \in [Dirs -> Nat]
        /\ handle \in [Conns -> {"connecting", "piped", "refused", "done"}]
        /\ peer \in [Conns -> [Peers -> {"open", "closed"}]] /\ faults \in 0..MaxFaults
    BY <1>1 DEF Flush, Shape
  <1>7. LetThrough(p.got, p.out, p.sent) /\ InTransit(p.queue, p.inbuf, p.sent, Len(p.got) + Len(p.out), w)
    BY <1>4 DEF PumpOK
  <1>8. CASE peer[c][Dest(d)] = "open"
    <2> DEFINE q == [p EXCEPT !.got = Append(@, Head(p.out)), !.out = Tail(@)]
    <2>1. /\ q \in Pumps /\ q.queue = p.queue /\ q.task = p.task /\ q.out = Tail(p.out)
          /\ q.inbuf = p.inbuf /\ q.sent = p.sent /\ q.reader = p.reader /\ q.got = Append(p.got, Head(p.out))
      <3>1. Append(p.got, Head(p.out)) \in Seq(Nat) /\ Tail(p.out) \in Seq(Nat)
        BY <1>4, <1>5
      <3>2. QED
        BY <3>1 DEF Pumps
    <2>2. pump' = [pump EXCEPT ![c] = [@ EXCEPT ![d] = q]]
      BY <1>1, <1>2, <1>8 DEF Flush, Shape
    <2> HIDE DEF q
    <2>3. Pumping /\ pump'[c][d] = q /\ Others(c, d)
      BY <1>1, <2>1, <2>2, PumpUpdate
    <2>4. /\ LetThrough(Append(p.got, Head(p.out)), Tail(p.out), p.sent)
          /\ Len(Append(p.got, Head(p.out))) + Len(Tail(p.out)) = Len(p.got) + Len(p.out)
          /\ Len(Append(p.got, Head(p.out))) = Len(p.got) + 1
      BY <1>4, <1>5, <1>7, ThroughOnFlush
    <2>5. LetThrough(q.got, q.out, q.sent) /\ InTransit(q.queue, q.inbuf, q.sent, Len(q.got) + Len(q.out), w)
      <3>1. InTransit(p.queue, p.inbuf, p.sent, Len(Append(p.got, Head(p.out))) + Len(Tail(p.out)), w)
        BY <1>7, <2>4, Zenon
      <3>2. QED
        BY <2>1, <2>4, <3>1, Zenon
    <2>6. PumpOK(q, Size[c][d], w)
      BY <1>4, <2>1, <2>5 DEF PumpOK
    <2>7. Len(q.got) >= Len(p.got)
      <3>1. Len(q.got) = Len(p.got) + 1 /\ Len(p.got) \in Nat
        BY <1>5, <2>1, <2>4
      <3>2. QED
        BY <3>1
    <2>8. CASE sock' = sock
      BY <1>2, <1>3, <1>6, <2>1, <2>3, <2>6, <2>7, <2>8, KeepsByPump
    <2>9. CASE sock' # sock
      <3>1. sock[c][Dest(d)] = "closing" /\ sock' = [sock EXCEPT ![c][Dest(d)] = "eof"]
        BY <1>8, <2>9 DEF Flush
      <3>2. Ending(c)
        BY <1>5, <3>1 DEF Ending
      <3>3. SocksOK(c)
        BY <1>1, <1>5, <3>1, SockUpdate
      <3>4. sock'[c][Dest(d)] = w \/ sock'[c][Dest(d)] # "open"
        BY <1>3, <1>5, <3>3 DEF SocksOK, SockCloses
      <3>5. PumpOK(q, Size[c][d], sock'[c][Dest(d)])
        BY <2>6, <3>4, WriterCloses
      <3>6. PumpsOK' /\ GotGrows
        BY <1>1, <1>2, <2>1, <2>3, <2>7, <3>3, <3>5, OnePump DEF SocksOK
      <3>7. \A e \in Conns : e # c => \A f \in Dirs : pump'[e][f] = pump[e][f]
        BY <2>3 DEF Others
      <3>8. QED
        BY <1>6, <2>3, <3>2, <3>3, <3>6, <3>7, KeepsWhileEnding
    <2>10. QED
      BY <2>8, <2>9
  <1>9. CASE peer[c][Dest(d)] # "open"
    <2> DEFINE q == [p EXCEPT !.out = <<>>]
    <2>1. /\ q \in Pumps /\ q.queue = p.queue /\ q.task = p.task /\ q.out = <<>>
          /\ q.inbuf = p.inbuf /\ q.sent = p.sent /\ q.reader = p.reader /\ q.got = p.got
      <3>1. <<>> \in Seq(Nat)
        OBVIOUS
      <3>2. PICK none \in Seq(Nat) : none = <<>>
        BY <3>1, Zenon
      <3> DEFINE n == [p EXCEPT !.out = none]
      <3>3. /\ n \in Pumps /\ n.queue = p.queue /\ n.task = p.task /\ n.out = none
            /\ n.inbuf = p.inbuf /\ n.sent = p.sent /\ n.reader = p.reader /\ n.got = p.got
        BY <1>2 DEF Pumps
      <3>4. n = q
        BY <3>2, Zenon
      <3> HIDE DEF n, q
      <3>5. QED
        BY <3>2, <3>3, <3>4, Zenon
    <2>2. pump' = [pump EXCEPT ![c] = [@ EXCEPT ![d] = q]] /\ sock' = [sock EXCEPT ![c][Dest(d)] = "error"]
      BY <1>1, <1>2, <1>9 DEF Flush, Shape
    <2> HIDE DEF q
    <2>3. Pumping /\ pump'[c][d] = q /\ Others(c, d)
      BY <1>1, <2>1, <2>2, PumpUpdate
    <2>4. SocksOK(c)
      BY <1>1, <1>5, <2>2, SockUpdate
    <2>5. sock'[c][Dest(d)] = "error"
      BY <1>1, <1>5, <2>2 DEF Shape
    <2>6. PumpOK(q, Size[c][d], sock'[c][Dest(d)])
      <3>1. LetThrough(p.got, <<>>, p.sent)
        BY <1>5, <1>7, ThroughOnLoss
      <3>2. InTransit(p.queue, p.inbuf, p.sent, Len(p.got) + Len(q.out), "error")
        BY <1>7, TransitWhenClosed
      <3>3. /\ LetThrough(q.got, q.out, q.sent)
            /\ InTransit(q.queue, q.inbuf, q.sent, Len(q.got) + Len(q.out), sock'[c][Dest(d)])
        BY <2>1, <2>5, <3>1, <3>2, Zenon
      <3>4. QED
        BY <1>4, <2>1, <3>3 DEF PumpOK
    <2>7. Len(q.got) >= Len(p.got)
      BY <1>5, <2>1
    <2>8. PumpsOK' /\ GotGrows
      BY <1>1, <1>2, <2>1, <2>3, <2>4, <2>6, <2>7, OnePump DEF SocksOK
    <2>9. Ending(c)
      <3>1. peer[c][Dest(d)] = "closed"
        BY <1>5, <1>6, <1>9
      <3>2. QED
        BY <1>5, <3>1 DEF Ending
    <2>10. \A e \in Conns : e # c => \A f \in Dirs : pump'[e][f] = pump[e][f]
      BY <2>3 DEF Others
    <2>11. QED
      BY <1>6, <2>3, <2>4, <2>8, <2>9, <2>10, KeepsWhileEnding
  <1>10. QED
    BY <1>8, <1>9

\* The steps of the handler and of the peers.
LEMMA KeepsLeave ==
    ASSUME ProxyInv, NEW c \in Conns, NEW p \in Peers, Leave(c, p)
    PROVE  Keeps(c)
  <1>1. Shape /\ PumpsOK
    BY DEF ProxyInv
  <1>2. /\ UNCHANGED <<now, tx_free, handle, sock, pump, faults>> /\ peer' = [peer EXCEPT ![c][p] = "closed"]
        /\ handle \in [Conns -> {"connecting", "piped", "refused", "done"}] /\ faults \in 0..MaxFaults
        /\ peer' \in [Conns -> [Peers -> {"open", "closed"}]] /\ Pumping
        /\ \A e \in Conns : e # c => peer'[e] = peer[e]
    BY <1>1 DEF Leave, Shape, Pumping
  <1>3. SocksOK(c)
    BY <1>1, <1>2, SockSame
  <1>4. PumpsOK' /\ GotGrows
    BY <1>1, <1>2, <1>3, NoPump DEF SocksOK
  <1>5. Ending(c) \/ Complete(c)
    <2>1. CASE Lost(c, p)
      BY <2>1 DEF Lost, Ending
    <2>2. CASE RequestSeen(c) /\ Len(pump[c]["down"].got) = Size[c]["down"]
      BY <2>2 DEF RequestSeen, Complete, Dirs
    <2>3. QED
      BY <2>1, <2>2 DEF Leave
  <1>6. QED
    BY <1>2, <1>3, <1>4, <1>5, KeepsWhileEnding

\* A peer vanishes: a fault.
LEMMA KeepsVanish ==
    ASSUME ProxyInv, NEW c \in Conns, NEW p \in Peers, Vanish(c, p)
    PROVE  Keeps(c)
  <1>1. Shape /\ PumpsOK
    BY DEF ProxyInv
  <1>2. /\ UNCHANGED <<now, tx_free, handle, pump>> /\ peer' = [peer EXCEPT ![c][p] = "closed"]
        /\ handle \in [Conns -> {"connecting", "piped", "refused", "done"}]
        /\ peer' \in [Conns -> [Peers -> {"open", "closed"}]] /\ Pumping
        /\ \A e \in Conns : e # c => peer'[e] = peer[e]
    BY <1>1 DEF Vanish, Shape, Pumping
  <1>3. faults' \in 0..MaxFaults /\ faults' # 0
    BY <1>1, NetemAssumption DEF Vanish, Shape
  <1>4. SocksOK(c)
    <2>1. CASE sock' = sock
      BY <1>1, <2>1, SockSame
    <2>2. CASE sock' = [sock EXCEPT ![c][p] = "error"]
      BY <1>1, <2>2, SockUpdate
    <2>3. QED
      BY <2>1, <2>2 DEF Vanish
  <1>5. PumpsOK' /\ GotGrows
    BY <1>1, <1>2, <1>4, NoPump DEF SocksOK
  <1>6. QED
    BY <1>2, <1>3, <1>4, <1>5, KeepsWhileEnding

\* The server refuses the connection: a fault.
LEMMA KeepsRefuse ==
    ASSUME ProxyInv, NEW c \in Conns, Refuse(c)
    PROVE  Keeps(c)
  <1>1. Shape /\ PumpsOK
    BY DEF ProxyInv
  <1>2. /\ UNCHANGED <<now, tx_free, peer, pump>> /\ handle' = [handle EXCEPT ![c] = "refused"]
        /\ handle' \in [Conns -> {"connecting", "piped", "refused", "done"}]
        /\ peer \in [Conns -> [Peers -> {"open", "closed"}]] /\ Pumping
        /\ \A e \in Conns : e # c => handle'[e] = handle[e]
    BY <1>1 DEF Refuse, Shape, Pumping
  <1>3. faults' \in 0..MaxFaults /\ faults' # 0
    BY <1>1, NetemAssumption DEF Refuse, Shape
  <1>4. SocksOK(c)
    BY <1>1, CloseSocks DEF Refuse, Dirs
  <1>5. PumpsOK' /\ GotGrows
    BY <1>1, <1>2, <1>4, NoPump DEF SocksOK
  <1>6. QED
    BY <1>2, <1>3, <1>4, <1>5, KeepsWhileEnding

\* The handler connects, or finds both pumps ended.
LEMMA KeepsHandle ==
    ASSUME ProxyInv, NEW c \in Conns, Connect(c) \/ HandleEnds(c)
    PROVE  Keeps(c)
  <1>1. Shape /\ PumpsOK
    BY DEF ProxyInv
  <1>2. /\ UNCHANGED <<now, tx_free, sock, peer, pump, faults>>
        /\ handle' = [handle EXCEPT ![c] = handle'[c]] /\ handle'[c] \in {"piped", "done"}
    BY <1>1 DEF Connect, HandleEnds, Shape
  <1>3. Shape' /\ \A e \in Conns : e # c => handle'[e] = handle[e]
    BY <1>1, <1>2 DEF Shape
  <1>4. SockCloses /\ Elsewhere(c)
    BY <1>2, <1>3 DEF SockCloses, Elsewhere
  <1>5. PumpsOK' /\ GotGrows
    BY <1>1, <1>2, <1>4, NoPump
  <1>6. Ending(c)' => Ending(c)
    <2>1. CASE Connect(c)
      <3>1. handle'[c] = "piped"
        BY <1>1, <2>1 DEF Connect, Shape
      <3>2. QED
        BY <1>2, <3>1 DEF Ending
    <2>2. CASE HandleEnds(c)
      BY <2>2 DEF HandleEnds, Ending, Dirs
    <2>3. QED
      BY <2>1, <2>2
  <1>7. QED
    BY <1>2, <1>3, <1>4, <1>5, <1>6 DEF Keeps

\* No unit has been sent and no connection has ended.
LEMMA ProxyInit == Init => ProxyInv
  <1> SUFFICES ASSUME Init PROVE ProxyInv
    OBVIOUS
  <1>1. NewPump \in Pumps /\ Len(<<>>) = 0 /\ MaxFaults \in Nat
    BY NetemAssumption DEF NewPump, Pumps
  <1>2. Shape
    BY <1>1 DEF Init, Shape, Dirs
  <1>3. ASSUME NEW c \in Conns, NEW d \in Dirs
        PROVE  PumpOK(pump[c][d], Size[c][d], sock[c][Dest(d)])
    <2>1. pump[c][d] = NewPump
      BY DEF Init
    <2>2. Size[c][d] \in Nat
      BY NetemAssumption DEF Dirs
    <2>3. Run(0, 0) = <<>>
      BY DEF Run
    <2>4. LetThrough(<<>>, <<>>, 0) /\ NoneLast("read", "get", <<>>)
      BY <2>3 DEF LetThrough, NoneLast
    <2>5. \A w : InTransit(<<>>, <<>>, 0, 0, w)
      <3> DEFINE cut == [i \in 0..0 |-> 0]
      <3>1. cut \in [0..Len(<<>>) -> 0..0] /\ cut[0] = 0 /\ Len(<<>>) = 0
        OBVIOUS
      <3> HIDE DEF cut
      <3>2. QueueRuns(<<>>, cut)
        BY DEF QueueRuns
      <3>3. QED
        BY <2>3, <3>1, <3>2 DEF InTransit
    <2>6. /\ NewPump.sent = 0 /\ NewPump.inbuf = <<>> /\ NewPump.reader = "read" /\ NewPump.queue = <<>>
          /\ NewPump.task = "get" /\ NewPump.out = <<>> /\ NewPump.got = <<>>
          /\ Len(NewPump.got) + Len(NewPump.out) = 0
      BY DEF NewPump
    <2>7. QED
      BY <2>1, <2>2, <2>4, <2>5, <2>6 DEF PumpOK
  <1>4. ASSUME NEW c \in Conns PROVE ~Ending(c)
    BY DEF Init, Ending, NewPump
  <1>5. QED
    BY <1>2, <1>3, <1>4 DEF ProxyInv, PumpsOK, EndsComplete

\* Every action keeps the invariant of the connection it belongs to.
LEMMA ProxyStep == ProxyInv /\ [Next]_vars => ProxyInv'
  <1> SUFFICES ASSUME ProxyInv, [Next]_vars PROVE ProxyInv'
    OBVIOUS
  <1>1. CASE Tick \/ UNCHANGED vars
    <2>1. UNCHANGED <<tx_free, handle, sock, peer, pump, faults>> /\ now' \in Nat
      BY <1>1 DEF Tick, vars, ProxyInv, Shape
    <2>2. Shape'
      BY <2>1 DEF ProxyInv, Shape
    <2>3. PumpsOK' /\ EndsComplete'
      BY <2>1 DEF ProxyInv, PumpsOK, EndsComplete, Ending, Complete
    <2>4. QED
      BY <2>2, <2>3 DEF ProxyInv
  <1>2. ASSUME NEW c \in Conns, Connect(c) \/ Refuse(c) \/ HandleEnds(c)
        PROVE  ProxyInv'
    BY <1>2, KeepsRefuse, KeepsHandle, KeepsInv
  <1>3. ASSUME NEW c \in Conns, NEW d \in Dirs, PumpStep(c, d) \/ Send(c, d)
        PROVE  ProxyInv'
    BY <1>3, KeepsRead, KeepsReadEnds, KeepsDeliver, KeepsDrained, KeepsDeliveryEnds, KeepsFlush,
       KeepsSend, KeepsInv DEF PumpStep
  <1>4. ASSUME NEW c \in Conns, NEW p \in Peers, Leave(c, p) \/ Vanish(c, p)
        PROVE  ProxyInv'
    BY <1>4, KeepsLeave, KeepsVanish, KeepsInv
  <1>5. QED
    BY <1>1, <1>2, <1>3, <1>4 DEF Next

\* The queues hold runs of the units sent, closed writers lose only what they
\* have not been given yet, and without a fault nothing ends before the
\* exchange is complete (bench/netem_proxy.py:_pump and handle).
THEOREM Invariance == Spec => []ProxyInv
  BY ProxyInit, ProxyStep, PTL DEF Spec

\* Whatever fails, a destination has received a prefix of what the source sent,
\* and an exchange without a fault ends only when it is complete, for any
\* number of connections and any sizes, delays and buffer limits.
THEOREM Faithful == Spec => []TransferFaithful
  <1>1. ProxyInv => TransferFaithful
    <2> SUFFICES ASSUME ProxyInv PROVE TransferFaithful
      OBVIOUS
    <2>1. Shape /\ PumpsOK /\ EndsComplete
      BY DEF ProxyInv
    <2>2. TypeOK
      <3>1. ASSUME NEW c \in Conns, NEW d \in Dirs
            PROVE  /\ pump[c][d].sent \in 0..Size[c][d]
                   /\ pump[c][d].reader \in {"read", "ended"} /\ pump[c][d].task \in {"get", "drain", "ended"}
                   /\ pump[c][d].reader = "read" => None \notin ToSet(pump[c][d].queue)
                   /\ pump[c][d].reader = "ended" /\ pump[c][d].task # "ended" =>
                         None \in ToSet(pump[c][d].queue)
        <4>1. PICK p \in Pumps : p = pump[c][d]
          BY <2>1, PumpTypes
        <4>2. PumpOK(p, Size[c][d], sock[c][Dest(d)])
          BY <2>1, <4>1 DEF PumpsOK
        <4>3. p.sent \in 0..Size[c][d] /\ p.reader \in {"read", "ended"} /\ p.task \in {"get", "drain", "ended"}
          <5>1. Size[c][d] \in Nat
            BY NetemAssumption DEF Dirs
          <5>2. QED
            BY <4>2, <5>1 DEF PumpOK, Pumps
        <4>4. NoneLast(p.reader, p.task, p.queue)
          BY <4>2 DEF PumpOK
        <4>5. p.queue \in Seq(Items \cup {None})
          BY DEF Pumps
        <4>6. None \in ToSet(p.queue) <=> \E i \in 1..Len(p.queue) : p.queue[i] = None
          BY <4>5 DEF ToSet
        <4>7. QED
          BY <4>1, <4>3, <4>4, <4>6 DEF NoneLast
      <3>2. QED
        BY <2>1, <3>1 DEF Shape, TypeOK
    <2>3. InOrder
      <3>1. ASSUME NEW c \in Conns, NEW d \in Dirs
            PROVE  pump[c][d].got = [i \in 1..Len(pump[c][d].got) |-> i]
        <4>1. PICK got \in Seq(Nat) : got = pump[c][d].got
          BY <2>1, PumpTypes
        <4>2. got = Run(0, Len(got))
          BY <2>1, <4>1 DEF PumpsOK, PumpOK, LetThrough
        <4>3. Run(0, Len(got)) = [i \in 1..Len(got) |-> i]
          BY DEF Run
        <4>4. QED
          BY <4>1, <4>2, <4>3
      <3>2. QED
        BY <3>1 DEF InOrder
    <2>4. NothingCut
      BY <2>1 DEF EndsComplete, NothingCut, Ending, Complete
    <2>5. QED
      BY <2>2, <2>3, <2>4 DEF TransferFaithful
  <1>2. QED
    BY <1>1, Invariance, PTL

-----------------------------------------------------------------------------
(***************************************************************************)
(* Sums.  SumFunction folds over subsets of the domain; the table of all   *)
(* those partial sums exists because the domain is finite, and what holds  *)
(* of the sums is shown with a smallest set for which it would not.        *)
(***************************************************************************)
LEMMA Least ==
    ASSUME NEW T, T \subseteq Nat, T # {}
    PROVE  \E x \in T : \A y \in T : ~(y < x)
  <1>1. PICK x \in T : \A y \in T : ~(<<y, x>> \in OpToRel(<, Nat))
    BY NatLessThanWellFounded, WFMin
  <1>2. QED
    BY <1>1 DEF OpToRel

\* The element a fold takes next.
Taken(s) == CHOOSE x \in s : TRUE
Rest(s) == s \ {Taken(s)}
SumAt(table, f, s) == IF s = {} THEN 0 ELSE f[Taken(s)] + table[Rest(s)]
SumTable(table, f, S) == table = [s \in SUBSET S |-> SumAt(table, f, s)]

\* The table is right for the sets of at most n elements.
SumsUpTo(table, f, S, n) ==
    /\ table = [s \in SUBSET S |-> table[s]]
    /\ \A s \in SUBSET S : Cardinality(s) <= n => table[s] = SumAt(table, f, s)

LEMMA Subsets ==
    ASSUME NEW S, IsFiniteSet(S), NEW s \in SUBSET S
    PROVE  /\ IsFiniteSet(s) /\ Cardinality(s) \in Nat /\ Cardinality(s) <= Cardinality(S)
           /\ Cardinality(s) = 0 <=> s = {}
           /\ s # {} => /\ Taken(s) \in s /\ Rest(s) \in SUBSET S
                        /\ Cardinality(Rest(s)) = Cardinality(s) - 1
  <1>1. IsFiniteSet(s) /\ Cardinality(s) <= Cardinality(S)
    BY FS_Subset
  <1>2. Cardinality(s) \in Nat /\ (Cardinality(s) = 0 <=> s = {})
    BY <1>1, FS_CardinalityType, FS_EmptySet
  <1>3. s # {} => Taken(s) \in s
    BY DEF Taken
  <1>4. s # {} => Cardinality(Rest(s)) = Cardinality(s) - 1
    BY <1>1, <1>3, FS_RemoveElement DEF Rest
  <1>5. QED
    BY <1>1, <1>2, <1>3, <1>4 DEF Rest

LEMMA SumsExist ==
    ASSUME NEW f, NEW S, IsFiniteSet(S)
    PROVE  \A n \in Nat : \E table : SumsUpTo(table, f, S, n)
  <1> DEFINE T == {n \in Nat : ~ \E table : SumsUpTo(table, f, S, n)}
  <1>1. SUFFICES ASSUME T # {} PROVE FALSE
    OBVIOUS
  <1>2. PICK n \in T : \A m \in T : ~(m < n)
    BY <1>1, Least
  <1>3. CASE n = 0
    <2> DEFINE table == [s \in SUBSET S |-> 0]
    <2>1. table = [s \in SUBSET S |-> table[s]]
      OBVIOUS
    <2>2. \A s \in SUBSET S : Cardinality(s) <= 0 => table[s] = SumAt(table, f, s)
      BY Subsets DEF SumAt
    <2>3. QED
      BY <1>3, <2>1, <2>2 DEF SumsUpTo
  <1>4. CASE n # 0
    <2>1. PICK m \in Nat : n = m + 1
      BY <1>4
    <2>2. PICK old : SumsUpTo(old, f, S, m)
      BY <1>2, <2>1
    <2> DEFINE table == [s \in SUBSET S |-> IF Cardinality(s) <= m THEN old[s] ELSE SumAt(old, f, s)]
    <2>3. table = [s \in SUBSET S |-> table[s]]
      OBVIOUS
    <2>4. \A s \in SUBSET S : Cardinality(s) <= m => table[s] = old[s]
      OBVIOUS
    <2>5. \A s \in SUBSET S : table[s] = IF Cardinality(s) <= m THEN old[s] ELSE SumAt(old, f, s)
      OBVIOUS
    <2> HIDE DEF table
    <2>6. ASSUME NEW s \in SUBSET S, Cardinality(s) <= n PROVE table[s] = SumAt(table, f, s)
      <3>1. table[s] = SumAt(old, f, s)
        BY <2>2, <2>5, <2>6 DEF SumsUpTo
      <3>2. s # {} => Rest(s) \in SUBSET S /\ Cardinality(Rest(s)) <= m
        BY <2>1, <2>6, Subsets
      <3>3. QED
        BY <2>4, <3>1, <3>2 DEF SumAt
    <2>7. QED
      BY <2>3, <2>6 DEF SumsUpTo
  <1>5. QED
    BY <1>3, <1>4

\* SumFunction is the last entry of a table of partial sums.
Summed(table, f, S) ==
    SumFunction(f) = table[S] /\ \A s \in SUBSET S : table[s] = SumAt(table, f, s)

LEMMA SumIsLast ==
    ASSUME NEW S, IsFiniteSet(S), NEW f \in [S -> Nat]
    PROVE  \E table : Summed(table, f, S)
  <1> DEFINE table == CHOOSE t : SumTable(t, f, S)
  <1>1. DOMAIN f = S
    OBVIOUS
  <1>2. SumFunction(f) = table[S]
    BY <1>1 DEF SumFunction, SumFunctionOnSet, FoldFunctionOnSet, MapThenFoldSet, SumTable, SumAt, Taken, Rest
  <1>3. \E t : SumTable(t, f, S)
    <2>1. PICK t : SumsUpTo(t, f, S, Cardinality(S))
      BY SumsExist, FS_CardinalityType
    <2>2. \A s \in SUBSET S : t[s] = SumAt(t, f, s)
      BY <2>1, Subsets DEF SumsUpTo
    <2>3. [s \in SUBSET S |-> t[s]] = [s \in SUBSET S |-> SumAt(t, f, s)]
      BY <2>2
    <2>4. QED
      BY <2>1, <2>3 DEF SumsUpTo, SumTable
  <1>4. SumTable(table, f, S)
    BY <1>3
  <1> HIDE DEF table
  <1>5. \A s \in SUBSET S : table[s] = SumAt(table, f, s)
    <2> DEFINE other == [s \in SUBSET S |-> SumAt(table, f, s)]
    <2>1. table = other
      BY <1>4 DEF SumTable
    <2>2. \A s \in SUBSET S : other[s] = SumAt(table, f, s)
      OBVIOUS
    <2> HIDE DEF other
    <2>3. QED
      BY <2>1, <2>2
  <1>6. QED
    BY <1>2, <1>5 DEF Summed

LEMMA SumType ==
    ASSUME NEW S, IsFiniteSet(S), NEW f \in [S -> Nat]
    PROVE  /\ SumFunction(f) \in Nat
           /\ (\A x \in S : f[x] = 0) => SumFunction(f) = 0
  <1>1. PICK table : Summed(table, f, S)
    BY SumIsLast
  <1> DEFINE Good(s) == table[s] \in Nat /\ ((\A x \in S : f[x] = 0) => table[s] = 0)
             T == {Cardinality(s) : s \in {s \in SUBSET S : ~Good(s)}}
  <1>2. SUFFICES ASSUME T # {} PROVE FALSE
    BY <1>1 DEF Summed
  <1>3. T \subseteq Nat
    BY Subsets
  <1>4. PICK m \in T : \A k \in T : ~(k < m)
    BY <1>2, <1>3, Least
  <1>5. PICK s \in SUBSET S : m = Cardinality(s) /\ ~Good(s)
    OBVIOUS
  <1>6. table[s] = SumAt(table, f, s)
    BY <1>1 DEF Summed
  <1>7. s # {} => Good(Rest(s)) /\ Taken(s) \in S /\ f[Taken(s)] \in Nat
    <2> HAVE s # {}
    <2>1. Rest(s) \in SUBSET S /\ Cardinality(Rest(s)) < m /\ Taken(s) \in S
      BY <1>5, Subsets
    <2>2. QED
      BY <1>4, <2>1
  <1>8. QED
    BY <1>5, <1>6, <1>7 DEF SumAt

\* A sum grows by at most what one of its terms does, when no other grows.
LEMMA SumGrows ==
    ASSUME NEW S, IsFiniteSet(S), NEW f \in [S -> Nat], NEW g \in [S -> Nat], NEW c, NEW n \in Nat,
           \A x \in S : g[x] <= f[x] + (IF x = c THEN n ELSE 0)
    PROVE  SumFunction(g) <= SumFunction(f) + n
  <1>1. PICK F : Summed(F, f, S)
    BY SumIsLast
  <1>2. PICK G : Summed(G, g, S)
    BY SumIsLast
  <1> DEFINE Good(s) == F[s] \in Nat /\ G[s] \in Nat /\ G[s] <= F[s] + (IF c \in s THEN n ELSE 0)
             T == {Cardinality(s) : s \in {s \in SUBSET S : ~Good(s)}}
  <1>3. SUFFICES ASSUME T # {} PROVE FALSE
    BY <1>1, <1>2 DEF Summed
  <1>4. T \subseteq Nat
    BY Subsets
  <1>5. PICK m \in T : \A k \in T : ~(k < m)
    BY <1>3, <1>4, Least
  <1>6. PICK s \in SUBSET S : m = Cardinality(s) /\ ~Good(s)
    OBVIOUS
  <1>7. F[s] = SumAt(F, f, s) /\ G[s] = SumAt(G, g, s)
    BY <1>1, <1>2 DEF Summed
  <1>8. CASE s = {}
    BY <1>6, <1>7, <1>8 DEF SumAt
  <1>9. CASE s # {}
    <2>1. Rest(s) \in SUBSET S /\ Cardinality(Rest(s)) < m /\ Taken(s) \in s
      BY <1>6, <1>9, Subsets
    <2>2. Good(Rest(s))
      BY <1>5, <2>1
    <2>3. PICK x \in S : x = Taken(s) /\ x \in s
      BY <2>1
    <2>4. f[x] \in Nat /\ g[x] \in Nat /\ g[x] <= f[x] + (IF x = c THEN n ELSE 0)
      OBVIOUS
    <2>5. c \in s <=> c = x \/ c \in Rest(s)
      BY <2>3 DEF Rest
    <2>6. c = x => c \notin Rest(s)
      BY <2>3 DEF Rest
    <2>7. F[s] = f[x] + F[Rest(s)] /\ G[s] = g[x] + G[Rest(s)]
      BY <1>7, <1>9, <2>3 DEF SumAt
    <2>8. QED
      BY <1>6, <2>2, <2>4, <2>5, <2>6, <2>7
  <1>10. QED
    BY <1>8, <1>9

-----------------------------------------------------------------------------
(***************************************************************************)
(* The shared bottleneck.  The units a direction has read, all connections *)
(* together, fit into the time for which its bottleneck has been reserved. *)
(* A time t that is not past yet bounds what can have been let through by  *)
(* then: there are numbers, one per connection, that neither the units let *)
(* through nor those queued for release by t exceed, and that together     *)
(* take no longer than t minus the propagation delay.                      *)
(***************************************************************************)
Through(p) == Len(p.got) + Len(p.out)

Below(queue, bound, t) ==
    \A i \in 1..Len(queue) : queue[i] # None /\ queue[i].at <= t =>
        \A j \in 1..Len(queue[i].data) : queue[i].data[j] <= bound

Within(p, bound, t) == Through(p) <= bound /\ Below(p.queue, bound, t)

\* Units read from each connection.
Volume(d) == [c \in Conns |-> pump[c][d].sent - Len(pump[c][d].inbuf)]

FitsBy(d, t) ==
    \E f \in [Conns -> Nat] :
        /\ \A c \in Conns : Within(pump[c][d], f[c], t)
        /\ SumFunction(f) = 0 \/ SumFunction(f) * TxTime + Delay <= t

SharedBy(d) ==
    /\ Volume(d) \in [Conns -> Nat] /\ SumFunction(Volume(d)) * TxTime <= tx_free[d]
    /\ \A t \in Nat : t >= now =>
          FitsBy(d, t) /\ \A c \in Conns : Within(pump[c][d], Volume(d)[c], t)

SharedInv == \A d \in Dirs : SharedBy(d)

\* A step of a pump that reads nothing keeps every bound.
Moves(p, q) ==
    /\ q.sent - Len(q.inbuf) = p.sent - Len(p.inbuf)
    /\ \A bound \in Nat, t \in Nat : t >= now /\ Within(p, bound, t) => Within(q, bound, t)

LEMMA SharedByMoves ==
    ASSUME Shape, SharedInv, now' \in Nat, now <= now', tx_free' = tx_free,
           \A c \in Conns, d \in Dirs : Moves(pump[c][d], pump'[c][d])
    PROVE  SharedInv'
  <1> SUFFICES ASSUME NEW d \in Dirs PROVE SharedBy(d)'
    BY DEF SharedInv
  <1>1. SharedBy(d) /\ now \in Nat
    BY DEF SharedInv, Shape
  <1>2. Volume(d)' = Volume(d)
    BY DEF Volume, Moves
  <1>3. \A t \in Nat : t >= now' => t >= now
    BY <1>1
  <1>4. ASSUME NEW t \in Nat, t >= now'
        PROVE  FitsBy(d, t)' /\ \A c \in Conns : Within(pump'[c][d], Volume(d)[c], t)
    <2>1. t >= now /\ FitsBy(d, t) /\ \A c \in Conns : Within(pump[c][d], Volume(d)[c], t)
      BY <1>1, <1>3, <1>4 DEF SharedBy
    <2>2. Volume(d) \in [Conns -> Nat]
      BY <1>1 DEF SharedBy
    <2>3. \A c \in Conns : Within(pump'[c][d], Volume(d)[c], t)
      BY <2>1, <2>2 DEF Moves
    <2>4. PICK f \in [Conns -> Nat] :
              /\ \A c \in Conns : Within(pump[c][d], f[c], t)
              /\ SumFunction(f) = 0 \/ SumFunction(f) * TxTime + Delay <= t
      BY <2>1 DEF FitsBy
    <2>5. \A c \in Conns : Within(pump'[c][d], f[c], t)
      BY <2>1, <2>4 DEF Moves
    <2>6. FitsBy(d, t)'
      BY <2>4, <2>5 DEF FitsBy
    <2>7. QED
      BY <2>3, <2>6
  <1>5. (\A t \in Nat : t >= now => FitsBy(d, t) /\ \A c \in Conns : Within(pump[c][d], Volume(d)[c], t))'
    BY <1>2, <1>4
  <1>6. QED
    BY <1>1, <1>2, <1>5 DEF SharedBy

LEMMA StandingMoves == \A p : Moves(p, p)
  BY DEF Moves

\* What is let through together with the items that wait only shrinks.
LEMMA FewerMoves ==
    ASSUME NEW p \in Pumps, NEW q \in Pumps,
           q.sent - Len(q.inbuf) = p.sent - Len(p.inbuf), Through(q) <= Through(p),
           \A i \in 1..Len(q.queue) : q.queue[i] # None =>
               \E k \in 1..Len(p.queue) : q.queue[i] = p.queue[k]
    PROVE  Moves(p, q)
  <1>1. Through(p) \in Nat /\ Through(q) \in Nat
    BY DEF Pumps, Through
  <1>2. ASSUME NEW bound \in Nat, NEW t \in Nat, Within(p, bound, t)
        PROVE  Within(q, bound, t)
    <2>1. Through(q) <= bound
      BY <1>1, <1>2 DEF Within, Below
    <2>2. ASSUME NEW i \in 1..Len(q.queue), q.queue[i] # None, q.queue[i].at <= t
          PROVE  \A j \in 1..Len(q.queue[i].data) : q.queue[i].data[j] <= bound
      <3>1. PICK k \in 1..Len(p.queue) : q.queue[i] = p.queue[k]
        BY <2>2
      <3>2. QED
        BY <1>2, <2>2, <3>1 DEF Within, Below
    <2>3. QED
      BY <2>1, <2>2 DEF Within, Below
  <1>3. QED
    BY <1>2 DEF Moves

\* An item whose time has come was counted when it was queued.
LEMMA DeliveryMovesOn ==
    ASSUME ProxyInv, NEW c \in Conns, NEW d \in Dirs, Deliver(c, d)
    PROVE  Moves(pump[c][d], pump'[c][d]) /\ Others(c, d)
  <1>1. Shape /\ PumpsOK
    BY DEF ProxyInv
  <1>2. PICK p \in Pumps : p = pump[c][d]
    BY <1>1, PumpTypes
  <1>3. PICK w : w = sock[c][Dest(d)]
    OBVIOUS
  <1>4. /\ p.queue \in Seq(Items \cup {None}) /\ p.sent \in Nat /\ p.got \in Seq(Nat) /\ p.out \in Seq(Nat)
        /\ Len(p.got) \in Nat /\ Len(p.out) \in Nat /\ p.inbuf \in Seq(Nat) /\ Len(p.queue) \in Nat
    BY DEF Pumps
  <1>5. p.queue # <<>> /\ Head(p.queue) # None /\ Head(p.queue).at <= now
    BY <1>2 DEF Deliver, HeadDue
  <1>6. PICK item \in Items : item = Head(p.queue) /\ item = p.queue[1] /\ 1 \in 1..Len(p.queue)
    <2>1. Head(p.queue) \in Items \cup {None} /\ Head(p.queue) = p.queue[1]
      BY <1>4, <1>5
    <2>2. QED
      BY <1>4, <1>5, <2>1
  <1> DEFINE more == IF w = "open" THEN p.out \o item.data ELSE p.out
             q == [p EXCEPT !.out = more, !.queue = Tail(@), !.task = "drain"]
  <1>7. Tail(p.queue) \in Seq(Items \cup {None}) /\ item.data \in Seq(Nat) /\ more \in Seq(Nat)
    BY <1>4, <1>5, <1>6 DEF Items
  <1>8. pump' = [pump EXCEPT ![c] = [@ EXCEPT ![d] = q]]
    BY <1>1, <1>2, <1>3, <1>6 DEF Deliver, Shape
  <1> HIDE DEF more
  <1>9. /\ q \in Pumps /\ q.queue = Tail(p.queue) /\ q.out = more
        /\ q.inbuf = p.inbuf /\ q.sent = p.sent /\ q.got = p.got
    BY <1>7 DEF Pumps
  <1> HIDE DEF q
  <1>10. pump'[c][d] = q /\ Others(c, d)
    BY <1>1, <1>8, <1>9, PumpUpdate
  <1>11. ASSUME NEW bound \in Nat, NEW t \in Nat, t >= now, Within(p, bound, t)
         PROVE  Within(q, bound, t)
    <2>1. now \in Nat /\ item.at \in Nat /\ item.at <= t
      BY <1>1, <1>5, <1>6, <1>11 DEF Shape, Items
    <2>2. \A j \in 1..Len(item.data) : item.data[j] <= bound
      BY <1>5, <1>6, <1>11, <2>1 DEF Within, Below
    <2>3. Through(q) <= bound
      <3>1. CASE w = "open"
        <4>1. InTransit(p.queue, p.inbuf, p.sent, Through(p), w)
          BY <1>1, <1>2, <1>3 DEF PumpsOK, PumpOK, Through
        <4>2. Through(p) \in Nat
          BY <1>4, LengthSum, Zenon DEF Through
        <4>3. HeadIsRun(p.queue, p.inbuf, p.sent, Through(p), w)
          BY <1>4, <1>5, <4>1, <4>2, TransitOnDelivery
        <4>4. PICK next \in Nat : Through(p) <= next /\ item.data = Run(Through(p), next)
          BY <1>6, <3>1, <4>3 DEF HeadIsRun
        <4>5. Len(item.data) = next - Through(p) /\ \A i \in 1..(next - Through(p)) : item.data[i] = Through(p) + i
          BY <4>2, <4>4, RunProperties
        <4>6. Through(q) = Through(p) + Len(item.data)
          <5>1. Len(more) = Len(p.out) + Len(item.data)
            BY <1>4, <1>7, <3>1, ConcatProperties DEF more
          <5>2. Len(item.data) \in Nat
            BY <1>7
          <5>3. Through(q) = Len(p.got) + (Len(p.out) + Len(item.data))
            BY <1>9, <5>1, Zenon DEF Through
          <5>4. PICK x \in Nat, y \in Nat, z \in Nat : x = Len(p.got) /\ y = Len(p.out) /\ z = Len(item.data)
            BY <1>4, <5>2, Zenon
          <5>5. x + (y + z) = (x + y) + z
            OBVIOUS
          <5>6. QED
            BY <5>3, <5>4, <5>5, Zenon DEF Through
        <4>7. Through(p) <= bound
          BY <1>11 DEF Within, Below
        <4>8. CASE next = Through(p)
          BY <4>2, <4>5, <4>6, <4>7, <4>8
        <4>9. CASE next # Through(p)
          <5>1. next - Through(p) \in 1..Len(item.data)
            BY <4>2, <4>4, <4>5, <4>9
          <5>2. next <= bound
            BY <2>2, <4>2, <4>5, <5>1
          <5>3. QED
            BY <4>2, <4>5, <4>6, <5>2
        <4>10. QED
          BY <4>8, <4>9
      <3>2. CASE w # "open"
        <4>1. Through(q) = Through(p)
          BY <1>9, <3>2 DEF more, Through
        <4>2. QED
          BY <1>11, <4>1 DEF Within, Below
      <3>3. QED
        BY <3>1, <3>2
    <2>4. ASSUME NEW i \in 1..Len(q.queue), q.queue[i] # None, q.queue[i].at <= t
          PROVE  \A j \in 1..Len(q.queue[i].data) : q.queue[i].data[j] <= bound
      <3>1. i + 1 \in 1..Len(p.queue) /\ q.queue[i] = p.queue[i + 1]
        BY <1>4, <1>5, <1>9
      <3>2. QED
        BY <1>11, <2>4, <3>1 DEF Within, Below
    <2>5. QED
      BY <2>3, <2>4 DEF Within, Below
  <1>12. QED
    BY <1>2, <1>9, <1>10, <1>11 DEF Moves

\* Products are monotone.
LEMMA Scaled ==
    ASSUME NEW x \in Nat, NEW y \in Nat, NEW k \in Nat, x <= y
    PROVE  x * k <= y * k /\ x * k \in Nat /\ y * k \in Nat
  <1>1. PICK z \in Nat : y = x + z
    <2>1. y - x \in Nat /\ y = x + (y - x)
      OBVIOUS
    <2>2. QED
      BY <2>1
  <1>2. y * k = x * k + z * k /\ z * k \in Nat /\ x * k \in Nat
    BY <1>1
  <1>3. QED
    BY <1>2

\* A read reserves the bottleneck for the units it takes, after all others.
LEMMA ReadReserves ==
    ASSUME ProxyInv, NEW c \in Conns, NEW d \in Dirs, Read(c, d)
    PROVE  \E n \in Nat, item \in Items :
              /\ 1 <= n /\ n <= Len(pump[c][d].inbuf) /\ item.data = SubSeq(pump[c][d].inbuf, 1, n)
              /\ item.at = BusyUntil(d, n) + Delay
              /\ pump'[c][d].queue = Append(pump[c][d].queue, item)
              /\ pump'[c][d].inbuf = SubSeq(pump[c][d].inbuf, n + 1, Len(pump[c][d].inbuf))
              /\ pump'[c][d].sent = pump[c][d].sent
              /\ pump'[c][d].out = pump[c][d].out /\ pump'[c][d].got = pump[c][d].got
              /\ pump'[c][d] \in Pumps /\ Others(c, d)
              /\ tx_free' = [tx_free EXCEPT ![d] = BusyUntil(d, n)]
  <1>a. Shape
    BY DEF ProxyInv
  <1>1. PICK n \in 1..Len(pump[c][d].inbuf) :
          /\ pump' = [pump EXCEPT
                 ![c][d].queue = Append(@, [at |-> BusyUntil(d, n) + Delay,
                                            data |-> SubSeq(pump[c][d].inbuf, 1, n)]),
                 ![c][d].inbuf = SubSeq(@, n + 1, Len(@))]
          /\ tx_free' = [tx_free EXCEPT ![d] = BusyUntil(d, n)]
    BY DEF Read
  <1>2. PICK p \in Pumps : p = pump[c][d]
    BY <1>a, PumpTypes
  <1>3. p.inbuf \in Seq(Nat) /\ p.queue \in Seq(Items \cup {None}) /\ Len(p.inbuf) \in Nat
    BY DEF Pumps
  <1>4. n \in Nat /\ 1 <= n /\ n <= Len(p.inbuf)
    BY <1>2, <1>3
  <1>5. BusyUntil(d, n) \in Nat /\ Delay \in Nat
    BY <1>a, <1>4, BusyType, NetemAssumption
  <1> DEFINE item == [at |-> BusyUntil(d, n) + Delay, data |-> SubSeq(p.inbuf, 1, n)]
             q == [p EXCEPT !.queue = Append(@, item), !.inbuf = SubSeq(@, n + 1, Len(@))]
  <1>6. item \in Items
    <2>1. SubSeq(p.inbuf, 1, n) \in Seq(Nat)
      BY <1>3, <1>4
    <2>2. QED
      BY <1>5, <2>1 DEF Items
  <1>7. pump' = [pump EXCEPT ![c] = [@ EXCEPT ![d] = q]]
    BY <1>a, <1>1, <1>2 DEF Shape
  <1>8. item.data = SubSeq(p.inbuf, 1, n) /\ item.at = BusyUntil(d, n) + Delay
    OBVIOUS
  <1> HIDE DEF item
  <1>9. q \in Pumps
    <2>1. Append(p.queue, item) \in Seq(Items \cup {None}) /\ SubSeq(p.inbuf, n + 1, Len(p.inbuf)) \in Seq(Nat)
      BY <1>3, <1>4, <1>6
    <2>2. QED
      BY <2>1 DEF Pumps
  <1>10. /\ q.queue = Append(p.queue, item) /\ q.inbuf = SubSeq(p.inbuf, n + 1, Len(p.inbuf))
         /\ q.sent = p.sent /\ q.out = p.out /\ q.got = p.got
    BY DEF Pumps
  <1> HIDE DEF q
  <1>11. pump'[c][d] = q /\ Others(c, d)
    BY <1>a, <1>7, <1>9, PumpUpdate
  <1>12. QED
    BY <1>1, <1>2, <1>4, <1>6, <1>8, <1>9, <1>10, <1>11

LEMMA BusyAfter ==
    ASSUME Shape, NEW d \in Dirs, NEW n \in Nat
    PROVE  /\ BusyUntil(d, n) \in Nat /\ now <= BusyUntil(d, n)
           /\ tx_free[d] + n * TxTime <= BusyUntil(d, n)
  <1>1. now \in Nat /\ tx_free[d] \in Nat /\ TxTime \in Nat
    BY NetemAssumption DEF Shape
  <1>2. /\ Max({now, tx_free[d]}) \in {now, tx_free[d]}
        /\ \A y \in {now, tx_free[d]} : Max({now, tx_free[d]}) >= y
    <2>1. \E x \in {now, tx_free[d]} : \A y \in {now, tx_free[d]} : x >= y
      BY <1>1
    <2>2. QED
      BY <2>1 DEF Max
  <1>3. PICK x \in Nat : x = Max({now, tx_free[d]}) /\ x >= now /\ x >= tx_free[d]
    BY <1>1, <1>2
  <1>4. PICK y \in Nat : y = n * TxTime
    BY <1>1
  <1>5. BusyUntil(d, n) = x + y
    BY <1>3, <1>4 DEF BusyUntil
  <1>6. QED
    BY <1>1, <1>3, <1>4, <1>5

\* The units a read takes follow those read before.
LEMMA UnitsRead ==
    ASSUME NEW queue \in Seq(Items \cup {None}), NEW inbuf \in Seq(Nat), NEW sent \in Nat,
           NEW through, NEW w, InTransit(queue, inbuf, sent, through, w),
           NEW n \in Nat, 1 <= n, n <= Len(inbuf)
    PROVE  /\ sent - Len(SubSeq(inbuf, n + 1, Len(inbuf))) = (sent - Len(inbuf)) + n
           /\ \A j \in 1..Len(SubSeq(inbuf, 1, n)) : SubSeq(inbuf, 1, n)[j] <= (sent - Len(inbuf)) + n
  <1>1. PICK a \in Nat : a <= sent /\ inbuf = Run(a, sent)
    <2>1. PICK cut \in [0..Len(queue) -> 0..sent] : inbuf = Run(cut[Len(queue)], sent)
      BY DEF InTransit
    <2>2. Len(queue) \in 0..Len(queue)
      OBVIOUS
    <2>3. PICK a : a = cut[Len(queue)]
      OBVIOUS
    <2>4. a \in Nat /\ a <= sent
      <3>1. a \in 0..sent
        BY <2>2, <2>3
      <3>2. QED
        BY <3>1
    <2>5. inbuf = Run(a, sent)
      BY <2>1, <2>3, Zenon
    <2>6. QED
      BY <2>4, <2>5, Zenon
  <1>2. Len(inbuf) = sent - a /\ \A i \in 1..(sent - a) : inbuf[i] = a + i
    BY <1>1, RunProperties
  <1>3. Len(SubSeq(inbuf, n + 1, Len(inbuf))) = Len(inbuf) - n
    OBVIOUS
  <1>4. Len(SubSeq(inbuf, 1, n)) = n /\ \A j \in 1..n : SubSeq(inbuf, 1, n)[j] = inbuf[j]
    OBVIOUS
  <1>5. QED
    BY <1>1, <1>2, <1>3, <1>4

LEMMA BelowOnAppend ==
    ASSUME NEW queue \in Seq(Items \cup {None}), NEW item \in Items, NEW bound \in Nat, NEW t \in Nat,
           Below(queue, bound, t), t < item.at \/ \A j \in 1..Len(item.data) : item.data[j] <= bound
    PROVE  Below(Append(queue, item), bound, t)
  <1>1. /\ Len(Append(queue, item)) = Len(queue) + 1 /\ Append(queue, item)[Len(queue) + 1] = item
        /\ \A i \in 1..Len(queue) : Append(queue, item)[i] = queue[i]
    BY AppendProperties
  <1>2. item.at \in Nat
    BY DEF Items
  <1>3. \A i \in 1..(Len(queue) + 1) : i \in 1..Len(queue) \/ i = Len(queue) + 1
    OBVIOUS
  <1>4. QED
    BY <1>1, <1>2, <1>3 DEF Below

LEMMA BelowMore ==
    ASSUME NEW queue \in Seq(Items \cup {None}), NEW bound \in Nat, NEW more \in Nat, bound <= more,
           NEW t \in Nat, Below(queue, bound, t)
    PROVE  Below(queue, more, t)
  <1>1. ASSUME NEW i \in 1..Len(queue), queue[i] # None, NEW j \in 1..Len(queue[i].data)
        PROVE  queue[i].data[j] \in Nat
    <2>1. queue[i] \in Items
      BY <1>1
    <2>2. QED
      BY <1>1, <2>1 DEF Items
  <1>2. QED
    BY <1>1 DEF Below

\* What the read queues is bounded by the units read, all connections
\* together, and these by the time it reserves.
LEMMA SharedOnRead ==
    ASSUME ProxyInv, SharedInv, NEW c \in Conns, NEW d \in Dirs, Read(c, d)
    PROVE  SharedInv'
  <1>1. Shape /\ PumpsOK /\ now \in Nat /\ now' = now
    BY DEF ProxyInv, Shape, Read
  <1>2. PICK n \in Nat, item \in Items :
              /\ 1 <= n /\ n <= Len(pump[c][d].inbuf) /\ item.data = SubSeq(pump[c][d].inbuf, 1, n)
              /\ item.at = BusyUntil(d, n) + Delay
              /\ pump'[c][d].queue = Append(pump[c][d].queue, item)
              /\ pump'[c][d].inbuf = SubSeq(pump[c][d].inbuf, n + 1, Len(pump[c][d].inbuf))
              /\ pump'[c][d].sent = pump[c][d].sent
              /\ pump'[c][d].out = pump[c][d].out /\ pump'[c][d].got = pump[c][d].got
              /\ pump'[c][d] \in Pumps /\ Others(c, d)
              /\ tx_free' = [tx_free EXCEPT ![d] = BusyUntil(d, n)]
    BY ReadReserves
  <1>3. PICK p \in Pumps, q \in Pumps : p = pump[c][d] /\ q = pump'[c][d]
    BY <1>1, <1>2, PumpTypes
  <1>4. /\ p.inbuf \in Seq(Nat) /\ p.sent \in Nat /\ Len(p.inbuf) \in Nat /\ Len(p.queue) \in Nat
        /\ p.queue \in Seq(Items \cup {None}) /\ Through(p) \in Nat
    <2>1. p.got \in Seq(Nat) /\ p.out \in Seq(Nat)
      BY DEF Pumps
    <2>2. Through(p) \in Nat
      BY <2>1, LengthSum, Zenon DEF Through
    <2>3. QED
      BY <2>2 DEF Pumps
  <1> DEFINE vol == p.sent - Len(p.inbuf)
  <1>5. SharedBy(d) /\ Volume(d)[c] = vol /\ vol \in Nat
    <2>1. SharedBy(d)
      BY DEF SharedInv
    <2>2. Volume(d)[c] = vol
      BY <1>3 DEF Volume
    <2>3. QED
      BY <2>1, <2>2 DEF SharedBy
  <1>6. PICK inbuf \in Seq(Nat), sent \in Nat, queue \in Seq(Items \cup {None}) :
            inbuf = p.inbuf /\ sent = p.sent /\ queue = p.queue
    BY <1>4
  \* The units the read takes follow those read before.
  <1>7. /\ q.sent - Len(q.inbuf) = vol + n
        /\ \A j \in 1..Len(item.data) : item.data[j] <= vol + n
    <2>1. InTransit(queue, inbuf, sent, Len(p.got) + Len(p.out), sock[c][Dest(d)])
      BY <1>1, <1>3, <1>6 DEF PumpsOK, PumpOK
    <2>2. n <= Len(inbuf) /\ item.data = SubSeq(inbuf, 1, n) /\ q.inbuf = SubSeq(inbuf, n + 1, Len(inbuf))
      BY <1>2, <1>3, <1>6
    <2>3. /\ sent - Len(SubSeq(inbuf, n + 1, Len(inbuf))) = (sent - Len(inbuf)) + n
          /\ \A j \in 1..Len(SubSeq(inbuf, 1, n)) : SubSeq(inbuf, 1, n)[j] <= (sent - Len(inbuf)) + n
      BY <1>2, <2>1, <2>2, UnitsRead
    <2>4. q.sent = sent /\ vol = sent - Len(inbuf)
      BY <1>2, <1>3, <1>6
    <2> HIDE DEF vol
    <2>5. QED
      BY <2>2, <2>3, <2>4, Zenon
  <1> HIDE DEF vol
  <1>8. \A e \in Dirs : e # d => SharedBy(e)'
    <2> TAKE e \in Dirs
    <2> HAVE e # d
    <2>1. \A x \in Conns : pump'[x][e] = pump[x][e]
      BY <1>2 DEF Others
    <2>2. tx_free'[e] = tx_free[e]
      BY <1>1, <1>2 DEF Shape
    <2>3. Volume(e)' = Volume(e)
      BY <2>1 DEF Volume
    <2>4. \A t : FitsBy(e, t)' <=> FitsBy(e, t)
      BY <2>1 DEF FitsBy
    <2>5. SharedBy(e)
      BY DEF SharedInv
    <2>6. QED
      BY <1>1, <2>1, <2>2, <2>3, <2>4, <2>5 DEF SharedBy
  \* Bounds of the state before hold of the pumps after, for a time before
  \* the release of the new item or for a bound that covers it.
  <1>9. ASSUME NEW bound \in Nat, NEW t \in Nat, Within(p, bound, t), t < item.at \/ vol + n <= bound
        PROVE  Within(q, bound, t)
    <2>1. Through(q) = Through(p) /\ q.queue = Append(queue, item)
      BY <1>2, <1>3, <1>6 DEF Through
    <2>2. Below(queue, bound, t) /\ Through(p) <= bound
      BY <1>6, <1>9 DEF Within
    <2>3. t < item.at \/ \A j \in 1..Len(item.data) : item.data[j] <= bound
      <3>1. \A j \in 1..Len(item.data) : item.data[j] \in Nat
        BY DEF Items
      <3>2. vol + n \in Nat /\ \A j \in 1..Len(item.data) : item.data[j] <= vol + n
        BY <1>5, <1>7
      <3>3. CASE vol + n <= bound
        <4>1. PICK m \in Nat : m = vol + n
          BY <3>2
        <4>2. \A j \in 1..Len(item.data) : item.data[j] <= bound
          BY <3>1, <3>2, <3>3, <4>1
        <4>3. QED
          BY <4>2
      <3>4. QED
        BY <1>9, <3>3
    <2>4. Below(Append(queue, item), bound, t)
      BY <2>2, <2>3, BelowOnAppend
    <2>5. QED
      BY <2>1, <2>2, <2>4 DEF Within
  <1>10. \A x \in Conns : x # c => pump'[x][d] = pump[x][d]
    BY <1>2 DEF Others
  <1>11. /\ Volume(d)' \in [Conns -> Nat] /\ Volume(d)'[c] = vol + n
         /\ \A x \in Conns : x # c => Volume(d)'[x] = Volume(d)[x]
    <2>1. \A x \in Conns : Volume(d)'[x] = IF x = c THEN vol + n ELSE Volume(d)[x]
      BY <1>3, <1>7, <1>10 DEF Volume
    <2>2. Volume(d) \in [Conns -> Nat] /\ vol + n \in Nat
      BY <1>2, <1>5 DEF SharedBy
    <2>3. Volume(d)' = [x \in Conns |-> Volume(d)'[x]]
      BY DEF Volume
    <2>4. QED
      BY <2>1, <2>2, <2>3
  <1>12. tx_free'[d] = BusyUntil(d, n) /\ tx_free'[d] \in Nat
    BY <1>1, <1>2, BusyAfter DEF Shape
  <1>13. SumFunction(Volume(d)') \in Nat /\ SumFunction(Volume(d)') * TxTime <= tx_free'[d]
    <2>1. IsFiniteSet(Conns) /\ TxTime \in Nat
      BY NetemAssumption
    <2>2. PICK f \in [Conns -> Nat], g \in [Conns -> Nat] : f = Volume(d) /\ g = Volume(d)'
      BY <1>5, <1>11 DEF SharedBy
    <2>3. SumFunction(f) \in Nat /\ SumFunction(g) \in Nat
      BY <2>1, SumType
    <2>4. SumFunction(g) <= SumFunction(f) + n
      <3>1. \A x \in Conns : g[x] <= f[x] + (IF x = c THEN n ELSE 0)
        BY <1>5, <1>11, <2>2
      <3>2. QED
        BY <2>1, <3>1, SumGrows
    <2>5. PICK x \in Nat, y \in Nat : x = SumFunction(f) /\ y = SumFunction(g)
      BY <2>3
    <2>6. y * TxTime <= (x + n) * TxTime
      BY <2>1, <2>4, <2>5, Scaled
    <2>7. (x + n) * TxTime = x * TxTime + n * TxTime
      BY <2>1
    <2>8. x * TxTime <= tx_free[d]
      BY <1>5, <2>2, <2>5 DEF SharedBy
    <2>9. PICK w \in Nat : w = n * TxTime
      BY <2>1
    <2>10. tx_free[d] + w <= BusyUntil(d, n) /\ tx_free[d] \in Nat /\ BusyUntil(d, n) \in Nat
      BY <1>1, <2>9, BusyAfter DEF Shape
    <2>11. y * TxTime <= BusyUntil(d, n)
      <3>1. x * TxTime \in Nat /\ y * TxTime \in Nat
        BY <2>1
      <3>2. QED
        BY <2>6, <2>7, <2>8, <2>9, <2>10, <3>1
    <2>12. QED
      BY <1>12, <2>2, <2>3, <2>5, <2>11
  <1>14. ASSUME NEW t \in Nat, t >= now
         PROVE  \A x \in Conns : Within(pump'[x][d], Volume(d)'[x], t)
    <2> TAKE x \in Conns
    <2>1. Within(pump[x][d], Volume(d)[x], t)
      BY <1>5, <1>14 DEF SharedBy
    <2>2. CASE x # c
      BY <1>10, <1>11, <2>1, <2>2
    <2>3. CASE x = c
      <3>1. Within(p, vol, t)
        BY <1>3, <1>5, <2>1, <2>3
      <3>2. Within(p, vol + n, t)
        <4>1. Below(queue, vol, t) /\ Through(p) <= vol
          BY <1>6, <3>1 DEF Within
        <4>2. vol + n \in Nat /\ vol <= vol + n
          BY <1>5
        <4>3. Below(queue, vol + n, t)
          BY <1>5, <4>1, <4>2, BelowMore
        <4>4. QED
          BY <1>4, <1>5, <1>6, <4>1, <4>2, <4>3 DEF Within
      <3>3. vol + n \in Nat /\ vol + n <= vol + n
        BY <1>5
      <3>4. QED
        BY <1>3, <1>9, <1>11, <2>3, <3>2, <3>3
    <2>4. QED
      BY <2>2, <2>3
  <1>15. ASSUME NEW t \in Nat, t >= now PROVE FitsBy(d, t)'
    <2>1. CASE t < item.at
      <3>1. PICK f \in [Conns -> Nat] :
                /\ \A x \in Conns : Within(pump[x][d], f[x], t)
                /\ SumFunction(f) = 0 \/ SumFunction(f) * TxTime + Delay <= t
        BY <1>5, <1>15 DEF SharedBy, FitsBy
      <3>2. \A x \in Conns : Within(pump'[x][d], f[x], t)
        BY <1>3, <1>9, <1>10, <2>1, <3>1
      <3>3. QED
        BY <3>1, <3>2 DEF FitsBy
    <2>2. CASE ~(t < item.at)
      <3>1. \A x \in Conns : Within(pump'[x][d], Volume(d)'[x], t)
        BY <1>14, <1>15
      <3>2. SumFunction(Volume(d)') * TxTime + Delay <= t
        <4>1. Delay \in Nat /\ TxTime \in Nat
          BY NetemAssumption
        <4>2. SumFunction(Volume(d)') * TxTime \in Nat
          BY <1>13, <4>1
        <4>3. item.at = tx_free'[d] + Delay
          BY <1>2, <1>12
        <4>4. QED
          BY <1>12, <1>13, <2>2, <4>1, <4>2, <4>3
      <3>3. QED
        BY <1>11, <3>1, <3>2 DEF FitsBy
    <2>3. QED
      BY <2>1, <2>2
  <1>16. SharedBy(d)'
    BY <1>1, <1>11, <1>13, <1>14, <1>15 DEF SharedBy
  <1>17. QED
    BY <1>8, <1>16 DEF SharedInv

\* The other steps of a pump read nothing and let nothing through.
LEMMA PumpMovesOn ==
    ASSUME ProxyInv, NEW c \in Conns, NEW d \in Dirs,
           ReadEnds(c, d) \/ Drained(c, d) \/ DeliveryEnds(c, d) \/ Flush(c, d) \/ Send(c, d)
    PROVE  Moves(pump[c][d], pump'[c][d]) /\ Others(c, d)
  <1>1. Shape
    BY DEF ProxyInv
  <1>2. PICK p \in Pumps : p = pump[c][d]
    BY <1>1, PumpTypes
  <1>3. /\ p.queue \in Seq(Items \cup {None}) /\ p.sent \in Nat /\ p.inbuf \in Seq(Nat)
        /\ p.got \in Seq(Nat) /\ p.out \in Seq(Nat) /\ Len(p.got) \in Nat /\ Len(p.out) \in Nat
    BY DEF Pumps
  <1>4. Through(p) \in Nat
    BY <1>3, LengthSum, Zenon DEF Through
  <1>5. \A i \in 1..Len(p.queue) : \E k \in 1..Len(p.queue) : p.queue[i] = p.queue[k]
    OBVIOUS
  <1>6. CASE ReadEnds(c, d)
    <2> DEFINE q == [p EXCEPT !.reader = "ended", !.queue = Append(@, None)]
    <2>1. Append(p.queue, None) \in Seq(Items \cup {None})
      BY <1>3
    <2>2. /\ q \in Pumps /\ q.queue = Append(p.queue, None) /\ q.inbuf = p.inbuf /\ q.sent = p.sent
          /\ q.out = p.out /\ q.got = p.got
      BY <2>1 DEF Pumps
    <2>3. pump' = [pump EXCEPT ![c] = [@ EXCEPT ![d] = q]]
      BY <1>1, <1>2, <1>6 DEF ReadEnds, Shape
    <2> HIDE DEF q
    <2>4. pump'[c][d] = q /\ Others(c, d)
      BY <1>1, <2>2, <2>3, PumpUpdate
    <2>5. Through(q) <= Through(p)
      BY <1>4, <2>2 DEF Through
    <2>6. ASSUME NEW i \in 1..Len(q.queue), q.queue[i] # None
          PROVE  \E k \in 1..Len(p.queue) : q.queue[i] = p.queue[k]
      <3>1. PICK queue \in Seq(Items \cup {None}) : queue = p.queue
        BY <1>3
      <3>2. /\ Len(Append(queue, None)) = Len(queue) + 1 /\ Append(queue, None)[Len(queue) + 1] = None
            /\ \A k \in 1..Len(queue) : Append(queue, None)[k] = queue[k]
        BY AppendProperties
      <3>3. q.queue = Append(queue, None)
        BY <2>2, <3>1
      <3>4. i \in 1..Len(queue)
        BY <2>6, <3>2, <3>3
      <3>5. QED
        BY <3>1, <3>2, <3>3, <3>4
    <2>7. q.sent - Len(q.inbuf) = p.sent - Len(p.inbuf)
      BY <2>2
    <2>8. Moves(p, q)
      BY <2>2, <2>5, <2>6, <2>7, FewerMoves
    <2>9. QED
      BY <1>2, <2>4, <2>8
  <1>7. ASSUME NEW task \in {"get", "ended"}, pump' = [pump EXCEPT ![c][d].task = task]
        PROVE  Moves(pump[c][d], pump'[c][d]) /\ Others(c, d)
    <2> DEFINE q == [p EXCEPT !.task = task]
    <2>1. /\ q \in Pumps /\ q.queue = p.queue /\ q.inbuf = p.inbuf /\ q.sent = p.sent
          /\ q.out = p.out /\ q.got = p.got
      BY DEF Pumps
    <2>2. pump' = [pump EXCEPT ![c] = [@ EXCEPT ![d] = q]]
      BY <1>1, <1>2, <1>7 DEF Shape
    <2> HIDE DEF q
    <2>3. pump'[c][d] = q /\ Others(c, d)
      BY <1>1, <2>1, <2>2, PumpUpdate
    <2>4. Through(q) <= Through(p)
      BY <1>4, <2>1 DEF Through
    <2>5. Moves(p, q)
      BY <1>5, <2>1, <2>4, FewerMoves
    <2>6. QED
      BY <1>2, <2>3, <2>5
  <1>8. CASE Drained(c, d) \/ DeliveryEnds(c, d)
    BY <1>7, <1>8 DEF Drained, DeliveryEnds
  <1>9. CASE Flush(c, d) /\ peer[c][Dest(d)] = "open"
    <2> DEFINE q == [p EXCEPT !.got = Append(@, Head(p.out)), !.out = Tail(@)]
    <2>1. p.out # <<>>
      BY <1>2, <1>9 DEF Flush
    <2>2. Append(p.got, Head(p.out)) \in Seq(Nat) /\ Tail(p.out) \in Seq(Nat)
      BY <1>3, <2>1
    <2>3. /\ q \in Pumps /\ q.queue = p.queue /\ q.inbuf = p.inbuf /\ q.sent = p.sent
          /\ q.out = Tail(p.out) /\ q.got = Append(p.got, Head(p.out))
      BY <2>2 DEF Pumps
    <2>4. pump' = [pump EXCEPT ![c] = [@ EXCEPT ![d] = q]]
      BY <1>1, <1>2, <1>9 DEF Flush, Shape
    <2> HIDE DEF q
    <2>5. pump'[c][d] = q /\ Others(c, d)
      BY <1>1, <2>3, <2>4, PumpUpdate
    <2>6. Through(q) = Through(p)
      <3>1. PICK x \in Nat, y \in Nat : x = Len(p.got) /\ y = Len(p.out)
        BY <1>3
      <3>2. Len(Append(p.got, Head(p.out))) = x + 1 /\ Len(Tail(p.out)) = y - 1
        BY <1>3, <2>1, <3>1
      <3>3. (x + 1) + (y - 1) = x + y
        OBVIOUS
      <3>4. QED
        BY <2>3, <3>1, <3>2, <3>3, Zenon DEF Through
    <2>7. Through(q) <= Through(p)
      BY <1>4, <2>6
    <2>8. Moves(p, q)
      BY <1>5, <2>3, <2>7, FewerMoves
    <2>9. QED
      BY <1>2, <2>5, <2>8
  <1>10. CASE Flush(c, d) /\ peer[c][Dest(d)] # "open"
    <2>a. <<>> \in Seq(Nat) /\ Len(<<>>) = 0
      OBVIOUS
    <2>1. PICK none \in Seq(Nat) : none = <<>> /\ Len(none) = 0
      BY <2>a, Zenon
    <2> DEFINE q == [p EXCEPT !.out = none]
    <2>2. /\ q \in Pumps /\ q.queue = p.queue /\ q.inbuf = p.inbuf /\ q.sent = p.sent
          /\ q.out = none /\ q.got = p.got
      BY DEF Pumps
    <2>3. pump' = [pump EXCEPT ![c][d].out = none]
      BY <1>10, <2>1, Zenon DEF Flush
    <2>4. pump' = [pump EXCEPT ![c] = [@ EXCEPT ![d] = q]]
      BY <1>1, <1>2, <2>3 DEF Shape
    <2> HIDE DEF q
    <2>5. pump'[c][d] = q /\ Others(c, d)
      BY <1>1, <2>2, <2>4, PumpUpdate
    <2>6. Through(q) <= Through(p)
      <3>1. PICK x \in Nat, y \in Nat : x = Len(p.got) /\ y = Len(p.out)
        BY <1>3
      <3>2. Through(q) = x + 0 /\ Through(p) = x + y
        BY <2>1, <2>2, <3>1, Zenon DEF Through
      <3>3. QED
        BY <3>2
    <2>7. Moves(p, q)
      BY <1>5, <2>2, <2>6, FewerMoves
    <2>8. QED
      BY <1>2, <2>5, <2>7
  <1>11. CASE Send(c, d)
    <2> DEFINE q == [p EXCEPT !.sent = @ + 1, !.inbuf = Append(@, p.sent + 1)]
    <2>1. Append(p.inbuf, p.sent + 1) \in Seq(Nat) /\ p.sent + 1 \in Nat
      BY <1>3
    <2>2. /\ q \in Pumps /\ q.queue = p.queue /\ q.inbuf = Append(p.inbuf, p.sent + 1)
          /\ q.sent = p.sent + 1 /\ q.out = p.out /\ q.got = p.got
      BY <2>1 DEF Pumps
    <2>3. pump' = [pump EXCEPT ![c] = [@ EXCEPT ![d] = q]]
      BY <1>1, <1>2, <1>11 DEF Send, Shape
    <2> HIDE DEF q
    <2>4. pump'[c][d] = q /\ Others(c, d)
      BY <1>1, <2>2, <2>3, PumpUpdate
    <2>5. Through(q) <= Through(p)
      BY <1>4, <2>2 DEF Through
    <2>6. q.sent - Len(q.inbuf) = p.sent - Len(p.inbuf)
      <3>1. PICK x \in Nat, y \in Nat : x = p.sent /\ y = Len(p.inbuf)
        BY <1>3
      <3>2. Len(Append(p.inbuf, p.sent + 1)) = y + 1
        BY <1>3, <3>1
      <3>3. (x + 1) - (y + 1) = x - y
        OBVIOUS
      <3>4. QED
        BY <2>2, <3>1, <3>2, <3>3, Zenon
    <2>7. Moves(p, q)
      BY <1>5, <2>2, <2>5, <2>6, FewerMoves
    <2>8. QED
      BY <1>2, <2>4, <2>7
  <1>12. QED
    BY <1>6, <1>8, <1>9, <1>10, <1>11

LEMMA SharedInit == Init => SharedInv
  <1> SUFFICES ASSUME Init, NEW d \in Dirs PROVE SharedBy(d)
    BY DEF SharedInv
  <1>1. now = 0 /\ tx_free[d] = 0 /\ \A c \in Conns : pump[c][d] = NewPump
    BY DEF Init
  <1>2. /\ NewPump.sent = 0 /\ NewPump.inbuf = <<>> /\ NewPump.queue = <<>> /\ NewPump.out = <<>>
        /\ NewPump.got = <<>> /\ Len(<<>>) = 0
    BY DEF NewPump
  <1> DEFINE zero == [c \in Conns |-> 0]
  <1>3. Volume(d) = zero /\ zero \in [Conns -> Nat] /\ \A c \in Conns : zero[c] = 0
    BY <1>1, <1>2 DEF Volume
  <1> HIDE DEF zero
  <1>4. SumFunction(zero) = 0
    BY <1>3, SumType, NetemAssumption
  <1>5. \A t \in Nat : Within(NewPump, 0, t)
    BY <1>2 DEF Within, Below, Through
  <1>6. \A t \in Nat, c \in Conns : Within(pump[c][d], zero[c], t)
    BY <1>1, <1>3, <1>5
  <1>7. \A t \in Nat : FitsBy(d, t)
    BY <1>3, <1>4, <1>6 DEF FitsBy
  <1>8. SumFunction(Volume(d)) * TxTime <= tx_free[d]
    <2>1. TxTime \in Nat
      BY NetemAssumption
    <2>2. 0 * TxTime <= 0
      BY <2>1
    <2>3. QED
      BY <1>1, <1>3, <1>4, <2>2
  <1>9. QED
    BY <1>3, <1>6, <1>7, <1>8 DEF SharedBy

LEMMA SharedStep == ProxyInv /\ SharedInv /\ [Next]_vars => SharedInv'
  <1> SUFFICES ASSUME ProxyInv, SharedInv, [Next]_vars PROVE SharedInv'
    OBVIOUS
  <1>1. Shape /\ now \in Nat
    BY DEF ProxyInv, Shape
  <1>2. CASE pump' = pump /\ tx_free' = tx_free /\ now' \in Nat /\ now <= now'
    BY <1>1, <1>2, StandingMoves, SharedByMoves
  <1>3. ASSUME NEW c \in Conns, NEW d \in Dirs, PumpStep(c, d) \/ Send(c, d)
        PROVE  SharedInv'
    <2>1. CASE Read(c, d)
      BY <2>1, SharedOnRead
    <2>2. CASE ~Read(c, d)
      <3>1. \/ Deliver(c, d) \/ ReadEnds(c, d) \/ Drained(c, d) \/ DeliveryEnds(c, d) \/ Flush(c, d)
            \/ Send(c, d)
        BY <1>3, <2>2 DEF PumpStep
      <3>2. Moves(pump[c][d], pump'[c][d]) /\ Others(c, d)
        BY <3>1, DeliveryMovesOn, PumpMovesOn
      <3>3. \A e \in Conns, f \in Dirs : Moves(pump[e][f], pump'[e][f])
        BY <3>2, StandingMoves DEF Others
      <3>4. tx_free' = tx_free /\ now' = now
        <4>1. Deliver(c, d) => UNCHANGED <<now, tx_free>>
          BY Zenon DEF Deliver
        <4>2. ReadEnds(c, d) \/ Drained(c, d) => UNCHANGED <<now, tx_free>>
          BY Zenon DEF ReadEnds, Drained
        <4>3. DeliveryEnds(c, d) => UNCHANGED <<now, tx_free>>
          BY Zenon DEF DeliveryEnds
        <4>4. Flush(c, d) => UNCHANGED <<now, tx_free>>
          BY Zenon DEF Flush
        <4>5. Send(c, d) => UNCHANGED <<now, tx_free>>
          BY Zenon DEF Send
        <4>6. QED
          BY <3>1, <4>1, <4>2, <4>3, <4>4, <4>5, Zenon
      <3>5. now' \in Nat /\ now <= now'
        BY <1>1, <3>4
      <3>6. QED
        BY <1>1, <3>3, <3>4, <3>5, SharedByMoves
    <2>3. QED
      BY <2>1, <2>2
  <1>4. CASE Tick \/ UNCHANGED vars
    BY <1>1, <1>2, <1>4 DEF Tick, vars
  <1>5. ASSUME NEW c \in Conns, Connect(c) \/ Refuse(c) \/ HandleEnds(c)
        PROVE  SharedInv'
    BY <1>1, <1>2, <1>5 DEF Connect, Refuse, HandleEnds
  <1>6. ASSUME NEW c \in Conns, NEW p \in Peers, Leave(c, p) \/ Vanish(c, p)
        PROVE  SharedInv'
    BY <1>1, <1>2, <1>6 DEF Leave, Vanish
  <1>7. QED
    BY <1>3, <1>4, <1>5, <1>6 DEF Next

\* The connections of a direction together never get more through than the
\* bandwidth of the one bottleneck they share allows, one propagation delay
\* late, for any number of connections and any sizes, however their reads and
\* deliveries interleave and whatever fails (bench/netem_proxy.py:Link).
THEOREM BandwidthKept == Spec => []BottleneckShared
  <1>1. ProxyInv /\ SharedInv => BottleneckShared
    <2> SUFFICES ASSUME ProxyInv, SharedInv, NEW d \in Dirs
                 PROVE  Passed(d) > 0 => Passed(d) * TxTime <= now - Delay
      BY DEF BottleneckShared
    <2>1. Shape /\ now \in Nat /\ TxTime \in Nat /\ Delay \in Nat /\ IsFiniteSet(Conns)
      BY NetemAssumption DEF ProxyInv, Shape
    <2>2. FitsBy(d, now)
      BY <2>1 DEF SharedInv, SharedBy
    <2>3. PICK f \in [Conns -> Nat] :
              /\ \A c \in Conns : Within(pump[c][d], f[c], now)
              /\ SumFunction(f) = 0 \/ SumFunction(f) * TxTime + Delay <= now
      BY <2>2 DEF FitsBy
    <2> DEFINE g == [c \in Conns |-> Len(pump[c][d].out) + Len(pump[c][d].got)]
    <2>4. ASSUME NEW c \in Conns PROVE g[c] \in Nat /\ g[c] <= f[c] + 0
      <3>1. pump[c][d].out \in Seq(Nat) /\ pump[c][d].got \in Seq(Nat)
        BY <2>1, PumpTypes
      <3>2. PICK x \in Nat, y \in Nat : x = Len(pump[c][d].out) /\ y = Len(pump[c][d].got)
        BY <3>1
      <3>3. y + x <= f[c]
        BY <2>3, <3>2 DEF Within, Through
      <3>4. g[c] = x + y /\ f[c] \in Nat
        BY <3>2
      <3> HIDE DEF g
      <3>5. QED
        BY <3>3, <3>4
    <2>5. g \in [Conns -> Nat] /\ Passed(d) = SumFunction(g)
      BY <2>4 DEF Passed
    <2> HIDE DEF g
    <2>6. SumFunction(g) <= SumFunction(f) + 0
      <3>1. PICK z \in Nat : z = 0
        OBVIOUS
      <3>2. \A x \in Conns : g[x] <= f[x] + (IF x = None THEN z ELSE 0)
        BY <2>4, <3>1
      <3>3. SumFunction(g) <= SumFunction(f) + z
        BY <2>1, <2>5, <3>2, SumGrows
      <3>4. QED
        BY <3>1, <3>3
    <2>7. PICK x \in Nat, y \in Nat : x = SumFunction(f) /\ y = SumFunction(g)
      BY <2>1, <2>5, SumType
    <2>8. y <= x
      BY <2>6, <2>7
    <2>9. ASSUME y > 0 PROVE y * TxTime <= now - Delay
      <3>1. x * TxTime + Delay <= now
        BY <2>3, <2>7, <2>8, <2>9
      <3>2. y * TxTime <= x * TxTime /\ x * TxTime \in Nat /\ y * TxTime \in Nat
        BY <2>1, <2>8, Scaled
      <3>3. QED
        BY <2>1, <3>1, <3>2
    <2>10. QED
      BY <2>5, <2>7, <2>9
  <1>2. QED
    BY <1>1, ProxyInit, ProxyStep, SharedInit, SharedStep, PTL DEF Spec

=============================================================================
