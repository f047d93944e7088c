------------------------------ MODULE NetemProxy ------------------------------
(***************************************************************************)
(* bench/netem_proxy.py: the TCP proxy that puts a propagation delay and a *)
(* shared bottleneck between the load generator and a server.  A           *)
(* connection has a pump per direction: a reader that stamps what it reads *)
(* with its release time, a queue, and a task that delivers the queue.     *)
(* Closing a pump's writer closes the transport the other pump reads from. *)
(* Data are numbered units, each of which occupies the bottleneck for      *)
(* TxTime ticks of the clock.                                              *)
(***************************************************************************)
EXTENDS Integers, SequencesExt

CONSTANTS None,
          Conns,       \* the connections the proxy accepts
          Size,        \* Size[c][d]: units of request ("up") and answer ("down")
          TxTime,      \* len * 8 / bw of a unit
          Delay,       \* one-way propagation delay
          HighWater,   \* units a transport buffers before drain() waits
          Horizon,     \* bound: the clock idles no further than this
          MaxFaults    \* bound: refused connections, and peers that vanish

ASSUME NetemAssumption ==
    /\ IsFiniteSet(Conns) /\ Size \in [Conns -> [{"up", "down"} -> Nat]]
    /\ {TxTime, Delay, HighWater, Horizon, MaxFaults} \subseteq Nat
\* The end mark of a queue is none of its items.
ASSUME ItemAssumption == None \notin [at: Nat, data: Seq(Nat)]

VARIABLES now,      \* time.monotonic()
          tx_free,  \* tx_free[d]: when the bottleneck of a direction is idle
          handle,   \* handle[c]: where the connection's handler is
          sock,     \* sock[c][p]: the proxy's transport to a peer
          peer,     \* peer[c][p]: whether the peer has closed its end
          pump,     \* pump[c][d]: units sent, received by the proxy and not
                    \* read (inbuf), queued with their release time, written
                    \* and not flushed (out), and received (got)
          faults

vars == <<now, tx_free, handle, sock, peer, pump, faults>>

Dirs == {"up", "down"}
Peers == {"client", "server"}
Source(d) == IF d = "up" THEN "client" ELSE "server"
Dest(d) == IF d = "up" THEN "server" ELSE "client"

\* The state in which _pump starts
NewPump == [sent |-> 0, inbuf |-> <<>>, reader |-> "read", queue |-> <<>>, task |-> "get",
            out |-> <<>>, got |-> <<>>]

Init ==
    /\ now = 0 /\ tx_free = [d \in Dirs |-> 0] /\ faults = 0
    /\ handle = [c \in Conns |-> "connecting"]
    /\ sock = [c \in Conns |-> [p \in Peers |-> "open"]]
    /\ peer = [c \in Conns |-> [p \in Peers |-> "open"]]
    /\ pump = [c \in Conns |-> [d \in Dirs |-> NewPump]]

\* Mutant: every read finds the bottleneck idle.
BusyUntilOwn(d, n) == now + n * TxTime

\* Link.release_time: queued behind whatever is already in flight
BusyUntil(d, n) == Max({now, tx_free[d]}) + n * TxTime

HeadDue(c, d) == LET q == pump[c][d].queue IN q # <<>> /\ Head(q) # None /\ Head(q).at <= now
HeadWaits(c, d) == LET q == pump[c][d].queue IN q # <<>> /\ Head(q) # None /\ Head(q).at > now
HeadIsNone(c, d) == LET q == pump[c][d].queue IN q # <<>> /\ Head(q) = None

Tick == /\ now < Horizon \/ \E c \in Conns, d \in Dirs : HeadWaits(c, d)
        /\ now' = now + 1
        /\ UNCHANGED <<tx_free, handle, sock, peer, pump, faults>>

\* The transport is gone: its reader has seen EOF or an exception.
Lost(c, p) == sock[c][p] \in {"eof", "error"}

\* Mutant: the writer is left open.
CloseSkipped(c, d) == UNCHANGED sock

\* writer.close(): what is buffered is still flushed, nothing more is read.
Close(c, d) ==
    sock' = IF sock[c][Dest(d)] # "open" THEN sock
            ELSE [sock EXCEPT ![c][Dest(d)] = IF pump[c][d].out = <<>> THEN "eof" ELSE "closing"]

\* read() returns some of what has arrived.
Read(c, d) ==
    /\ handle[c] = "piped" /\ pump[c][d].reader = "read" /\ sock[c][Source(d)] # "error"
    /\ \E n \in 1..Len(pump[c][d].inbuf) :
          /\ pump' = [pump EXCEPT
                 ![c][d].queue = Append(@, [at |-> BusyUntil(d, n) + Delay,
                                            data |-> SubSeq(pump[c][d].inbuf, 1, n)]),
                 ![c][d].inbuf = SubSeq(@, n + 1, Len(@))]
          /\ tx_free' = [tx_free EXCEPT ![d] = BusyUntil(d, n)]
    /\ UNCHANGED <<now, handle, sock, peer, faults>>

\* Mutant: a read that finds nothing is taken for the end.
AtEndWhenIdle(c, d) == pump[c][d].inbuf = <<>>

\* read() returns b"" or raises.
AtEnd(c, d) ==
    \/ sock[c][Source(d)] = "error"
    \/ pump[c][d].inbuf = <<>> /\ (peer[c][Source(d)] = "closed" \/ Lost(c, Source(d)))

\* The finally clause puts None.
ReadEnds(c, d) ==
    /\ handle[c] = "piped" /\ pump[c][d].reader = "read" /\ AtEnd(c, d)
    /\ pump' = [pump EXCEPT ![c][d].reader = "ended", ![c][d].queue = Append(@, None)]
    /\ UNCHANGED <<now, tx_free, handle, sock, peer, faults>>

\* The next item, once its time has come; a closed transport drops it.
Deliver(c, d) ==
    /\ pump[c][d].task = "get" /\ HeadDue(c, d)
    /\ pump' = [pump EXCEPT
           ![c][d].out = IF sock[c][Dest(d)] = "open" THEN @ \o Head(pump[c][d].queue).data ELSE @,
           ![c][d].queue = Tail(@), ![c][d].task = "drain"]
    /\ UNCHANGED <<now, tx_free, handle, sock, peer, faults>>

Drained(c, d) ==
    /\ pump[c][d].task = "drain" /\ ~Lost(c, Dest(d)) /\ Len(pump[c][d].out) <= HighWater
    /\ pump' = [pump EXCEPT ![c][d].task = "get"]
    /\ UNCHANGED <<now, tx_free, handle, sock, peer, faults>>

\* None is reached, or drain() raises; the writer is closed either way.
DeliveryEnds(c, d) ==
    /\ \/ pump[c][d].task = "get" /\ HeadIsNone(c, d)
       \/ pump[c][d].task = "drain" /\ Lost(c, Dest(d))
    /\ pump' = [pump EXCEPT ![c][d].task = "ended"]
    /\ Close(c, d)
    /\ UNCHANGED <<now, tx_free, handle, peer, faults>>

\* The event loop hands a unit to the peer, or finds that it is gone.
Flush(c, d) ==
    /\ pump[c][d].out # <<>> /\ ~Lost(c, Dest(d))
    /\ IF peer[c][Dest(d)] = "open"
       THEN /\ pump' = [pump EXCEPT ![c][d].got = Append(@, Head(pump[c][d].out)), ![c][d].out = Tail(@)]
            /\ sock' = IF sock[c][Dest(d)] = "closing" /\ Len(pump[c][d].out) = 1
                       THEN [sock EXCEPT ![c][Dest(d)] = "eof"] ELSE sock
       ELSE /\ sock' = [sock EXCEPT ![c][Dest(d)] = "error"]
            /\ pump' = [pump EXCEPT ![c][d].out = <<>>]
    /\ UNCHANGED <<now, tx_free, handle, peer, faults>>

\* handle: upstream answers, and the two pumps are gathered.
Connect(c) ==
    /\ handle[c] = "connecting"
    /\ handle' = [handle EXCEPT ![c] = "piped"]
    /\ UNCHANGED <<now, tx_free, sock, peer, pump, faults>>

\* open_connection fails: the client's transport is closed.
Refuse(c) ==
    /\ handle[c] = "connecting" /\ faults < MaxFaults
    /\ handle' = [handle EXCEPT ![c] = "refused"]
    /\ Close(c, "down")
    /\ faults' = faults + 1
    /\ UNCHANGED <<now, tx_free, peer, pump>>

HandleEnds(c) ==
    /\ handle[c] = "piped"
    /\ \A d \in Dirs : pump[c][d].reader = "ended" /\ pump[c][d].task = "ended"
    /\ handle' = [handle EXCEPT ![c] = "done"]
    /\ UNCHANGED <<now, tx_free, sock, peer, pump, faults>>

\* The server answers a request that it has completely received.
RequestSeen(c) == Len(pump[c]["up"].got) = Size[c]["up"]

Send(c, d) ==
    /\ handle[c] = "piped" /\ peer[c][Source(d)] = "open" /\ sock[c][Source(d)] = "open"
    /\ pump[c][d].sent < Size[c][d] /\ (d = "down" => RequestSeen(c))
    /\ pump' = [pump EXCEPT ![c][d].sent = @ + 1, ![c][d].inbuf = Append(@, pump[c][d].sent + 1)]
    /\ UNCHANGED <<now, tx_free, handle, sock, peer, faults>>

\* The client closes once it has its answer; a peer whose connection has
\* been closed closes its own end.
Leave(c, p) ==
    /\ peer[c][p] = "open"
    /\ \/ Lost(c, p)
       \/ p = "client" /\ RequestSeen(c) /\ Len(pump[c]["down"].got) = Size[c]["down"]
    /\ peer' = [peer EXCEPT ![c][p] = "closed"]
    /\ UNCHANGED <<now, tx_free, handle, sock, pump, faults>>

\* A peer closes early, or vanishes and its connection is reset.
Vanish(c, p) ==
    /\ peer[c][p] = "open" /\ handle[c] = "piped" /\ faults < MaxFaults
    /\ peer' = [peer EXCEPT ![c][p] = "closed"]
    /\ \/ UNCHANGED sock
       \/ ~Lost(c, p) /\ sock' = [sock EXCEPT ![c][p] = "error"]
    /\ faults' = faults + 1
    /\ UNCHANGED <<now, tx_free, handle, pump>>

PumpStep(c, d) == Read(c, d) \/ ReadEnds(c, d) \/ Deliver(c, d) \/ Drained(c, d)
                  \/ DeliveryEnds(c, d) \/ Flush(c, d)

Next == \/ Tick
        \/ \E c \in Conns : Connect(c) \/ Refuse(c) \/ HandleEnds(c)
        \/ \E c \in Conns, d \in Dirs : PumpStep(c, d) \/ Send(c, d)
        \/ \E c \in Conns, p \in Peers : Leave(c, p) \/ Vanish(c, p)

\* The event loop runs every task and callback that is ready, the clock
\* advances, a client sends its request and a server its answer.
Fairness ==
    /\ WF_vars(Tick)
    /\ \A c \in Conns :
          /\ WF_vars(Connect(c)) /\ WF_vars(HandleEnds(c)) /\ WF_vars(Leave(c, "client"))
          /\ \A d \in Dirs : WF_vars(PumpStep(c, d)) /\ WF_vars(Send(c, d))

Spec == Init /\ [][Next]_vars
FairSpec == Spec /\ Fairness

---------------------------------------------------------------------------

\* The types, and None as the last item exactly of a pump whose reader ended.
TypeOK ==
    /\ now \in Nat /\ tx_free \in [Dirs -> Nat] /\ faults \in 0..MaxFaults
    /\ handle \in [Conns -> {"connecting", "piped", "refused", "done"}]
    /\ \A c \in Conns :
          /\ sock[c] \in [Peers -> {"open", "closing", "eof", "error"}]
          /\ peer[c] \in [Peers -> {"open", "closed"}]
          /\ \A d \in Dirs :
                /\ pump[c][d].sent \in 0..Size[c][d]
                /\ pump[c][d].reader \in {"read", "ended"} /\ pump[c][d].task \in {"get", "drain", "ended"}
                /\ pump[c][d].reader = "read" => None \notin ToSet(pump[c][d].queue)
                /\ pump[c][d].reader = "ended" /\ pump[c][d].task # "ended" =>
                      None \in ToSet(pump[c][d].queue)

\* What a destination receives is what the source sent, in order and without
\* a gap, whatever fails meanwhile (netem_proxy.py:15, "Bytes are released
\* strictly in order per direction").
InOrder == \A c \in Conns, d \in Dirs : pump[c][d].got = [i \in 1..Len(pump[c][d].got) |-> i]

\* Units of a direction that the proxy has let through
Passed(d) == SumFunction([c \in Conns |-> Len(pump[c][d].out) + Len(pump[c][d].got)])

\* All connections of a direction share one bottleneck: together they never
\* get more through than its bandwidth allows, one propagation delay late
\* (netem_proxy.py:11, "shared by all connections through the proxy").
BottleneckShared == \A d \in Dirs : Passed(d) > 0 => Passed(d) * TxTime <= now - Delay

\* Without a fault, an exchange that has ended was complete: closing one
\* direction never cuts the other one short ("HTTP semantics are untouched").
NothingCut ==
    faults = 0 => \A c \in Conns : handle[c] = "done" =>
        \A d \in Dirs : Len(pump[c][d].got) = Size[c][d]

\* An exchange through the proxy arrives as it was sent: in order, without a
\* gap and, unless an end of it failed, to the last unit.
TransferFaithful == TypeOK /\ InOrder /\ NothingCut

\* A connection ends, in both directions, whichever side ends it and however:
\* gather waits for both pumps, and each is woken by what the other closes.
ConnectionEnds == \A c \in Conns : <>(handle[c] \in {"refused", "done"})

===============================================================================
