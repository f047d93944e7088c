------------------------------- MODULE LiveDemo -------------------------------
(***************************************************************************)
(* webapp/demo_transaction.py:run_streaming_transaction_live, the          *)
(* dashboard's own streaming client: it injects the chosen attack into the *)
(* records as they arrive, verifies them with the functions the benchmark  *)
(* client uses, and yields events that say of every chunk shown whether a  *)
(* signature covers it.                                                    *)
(*                                                                         *)
(* The loop runs in one task: a step reads one SSE line or processes one   *)
(* of the records the attack made of it, whose events go to the consumer   *)
(* before the next record is processed.                                    *)
(***************************************************************************)
EXTENDS StreamAttacks

CONSTANTS MaxChunks,  \* bound on the length of a stream
          Intervals   \* checkpoint_interval, 0 for None

ASSUME LiveDemoAssumption == MaxChunks \in Nat /\ Intervals \subseteq Nat

Reasons == {"signature invalid", "AEAD tag failed", "out of order", "expected checkpoint missing",
            "checkpoint signature does not match the chain", "terminal record", "truncated"}
\* None is no reason for a failure, no text and no verdict.
ASSUME ReasonAssumption == None \notin Reasons /\ None \notin Seq(Nat) /\ None \notin BOOLEAN

STREAM_ATTACKS == {None, "tamper_ciphertext", "tamper_signature", "drop", "reorder", "duplicate",
                   "truncate", "strip_checkpoints"}

VARIABLES
    args,     \* arguments of the call, and the length of the server's stream
    next,     \* number of the next line of the response
    held,     \* state["held"]
    todo,     \* records of batch not processed yet
    client,   \* the rest of state, the metrics and the events yielded
    fed,      \* history: the chunks and the terminal record given to process
    phase     \* "reading", then "summary" or "error"

liveVars == <<args, next, held, todo, client, fed, phase>>

strategy == args.strategy
enforced == IF args.enforce_schedule THEN args.checkpoint_interval ELSE 0
server == Captured(Hid, strategy, args.checkpoint_interval, args.length)
lines == server.chunks \o <<server.final, DoneEvent(Len(server.chunks))>>

\* shown are the chunk events, covered the chunks the last "covered" event
\* speaks for.
LiveInit ==
    /\ args \in [strategy: StrategyNames, checkpoint_interval: Intervals, attack: STREAM_ATTACKS,
                 attack_index: 0..MaxChunks, enforce_schedule: BOOLEAN, length: 0..MaxChunks]
    /\ next = 1 /\ held = None /\ todo = <<>> /\ phase = "reading"
    /\ fed = [chunks |-> <<>>, final |-> None]
    /\ client = [expected |-> 0, pending |-> 0, failed |-> None, terminal |-> FALSE,
                 chain_state |-> NewChainState, n_chunks |-> 0, stream_fully_verified |-> None,
                 max_unverified_chunks |-> 0, rejected_at_chunk |-> None,
                 shown |-> <<>>, covered |-> 0]

-----------------------------------------------------------------------------
(***************************************************************************)
(* process: verify one record.                                             *)
(***************************************************************************)
AtEnd == -1  \* "end", the index of a terminal record

\* Mutant: a later failure replaces an earlier one and a success clears it.
failLatest(c, ok, reason, index) ==
    [c EXCEPT !.failed = IF ok THEN None ELSE reason, !.rejected_at_chunk = IF ok THEN None ELSE index]

\* fail keeps the first reason, and where it was found.
fail(c, ok, reason, index) ==
    IF c.failed = None /\ ~ok THEN [c EXCEPT !.failed = reason, !.rejected_at_chunk = index] ELSE c

ShownChunk(record, aead_ok, status) ==
    [index |-> record.n, text |-> IF aead_ok THEN record.env.text ELSE None, status |-> status]

ProcessPerChunk(c, record) ==
    LET r == verify_per_chunk(record, c.expected)
        ok == r.signature_valid /\ r.aead_ok /\ r.in_order
        reason == CASE ~r.signature_valid -> "signature invalid"
                    [] r.signature_valid /\ ~r.aead_ok -> "AEAD tag failed"
                    [] OTHER -> "out of order"
        checked == fail(c, ok, reason, record.n)
    IN  [checked EXCEPT
            !.expected = @ + 1, !.n_chunks = @ + 1,
            !.shown = Append(@, ShownChunk(record, r.aead_ok,
                          IF ok /\ checked.failed = None THEN "verified" ELSE "rejected"))]

ProcessChainChunk(c, record) ==
    LET chain == ChainAbsorb(c.chain_state, record)
        r == verify_hash_chain_chunk(record, chain, enforced)
        ok == r.aead_ok /\ ~r.checkpoint_missing /\ (r.checkpoint => r.checkpoint_valid)
        reason == CASE ~r.aead_ok -> "AEAD tag failed"
                    [] r.aead_ok /\ r.checkpoint_missing -> "expected checkpoint missing"
                    [] OTHER -> "checkpoint signature does not match the chain"
        checked == fail(c, ok, reason, record.n)
        covers == r.checkpoint /\ r.checkpoint_valid /\ checked.failed = None
    IN  [checked EXCEPT
            !.chain_state = chain, !.n_chunks = @ + 1,
            !.pending = IF covers THEN 0 ELSE @ + 1,
            !.max_unverified_chunks = Max({@, c.pending + 1}),
            !.shown = Append(@, ShownChunk(record, r.aead_ok,
                          IF checked.failed # None THEN "rejected" ELSE "pending")),
            !.covered = IF covers THEN record.n + 1 ELSE @]

Verified(failed, ok) == failed = None

ProcessFinal(c, record) ==
    LET buffered == verify_buffer_and_sign_final(record)
        ok == CASE record.kind = "final_buffered" -> buffered.signature_valid /\ buffered.aead_ok
                [] record.kind = "final_per_chunk" -> verify_per_chunk_final(record, c.expected)
                [] OTHER -> verify_hash_chain_final(record, c.chain_state)
        checked == fail(c, ok, "terminal record", AtEnd)
        verified == Verified(checked.failed, ok)
    IN  [checked EXCEPT
            !.terminal = TRUE, !.stream_fully_verified = verified,
            !.covered = IF verified THEN c.n_chunks ELSE @]

process(c, record) ==
    CASE record.kind = "chunk" /\ strategy = "per_chunk" -> ProcessPerChunk(c, record)
      [] record.kind = "chunk" /\ strategy # "per_chunk" -> ProcessChainChunk(c, record)
      [] OTHER -> ProcessFinal(c, record)

-----------------------------------------------------------------------------
(***************************************************************************)
(* The attack on the record just read.                                     *)
(***************************************************************************)
Target(record) == record.kind = "chunk" /\ record.n = args.attack_index
Final(record) == record.kind \in {"final_buffered", "final_per_chunk", "final_chain"}

\* _flip of the field an attack is aimed at
FlipCiphertext(record) == [record EXCEPT !.env.key = NoKey]
FlipSignature(record) == [record EXCEPT !.signature.signer = NoKey]

batch(record) ==
    LET attack == args.attack
    IN  CASE attack = "tamper_ciphertext"
                /\ (Target(record) \/ (strategy = "buffer_and_sign" /\ Final(record)))
                -> <<FlipCiphertext(record)>>
          [] attack = "tamper_signature" /\ record.signature # None
                /\ (Target(record) \/ (strategy # "per_chunk" /\ Final(record)))
                -> <<FlipSignature(record)>>
          [] attack \in {"drop", "reorder"} /\ Target(record) -> <<>>
          [] attack = "duplicate" /\ Target(record) -> <<record, record>>
          [] attack = "reorder" /\ ~Target(record) /\ held # None /\ record.kind = "chunk"
                -> <<record, held>>
          [] attack = "strip_checkpoints" /\ strategy = "hash_chain" /\ record.kind = "chunk"
                /\ record.signature # None
                -> <<Strip(record)>>
          [] OTHER -> <<record>>

\* The connection is cut after the target, or before buffer_and_sign's only record.
CutBefore(record) ==
    args.attack = "truncate" /\ strategy = "buffer_and_sign" /\ Final(record)
CutAfter(record) == args.attack = "truncate" /\ Target(record)

\* A line without a kind, the trailing "done", is skipped.
ReadLine ==
    /\ phase = "reading" /\ todo = <<>> /\ next <= Len(lines)
    /\ LET record == lines[next]
       IN  /\ todo' = IF CutBefore(record) \/ record.kind = "done" THEN <<>> ELSE batch(record)
           /\ held' = CASE args.attack = "reorder" /\ Target(record) -> record
                        [] args.attack = "reorder" /\ ~Target(record) /\ record.kind = "chunk" -> None
                        [] OTHER -> held
           /\ next' = IF CutBefore(record) \/ CutAfter(record) THEN Len(lines) + 1 ELSE next + 1
    /\ UNCHANGED <<args, client, fed, phase>>

feed(f, record) ==
    IF record.kind = "chunk" THEN [f EXCEPT !.chunks = Append(@, record)] ELSE [f EXCEPT !.final = record]

ProcessRecord ==
    /\ phase = "reading" /\ todo # <<>>
    /\ client' = process(client, Head(todo))
    /\ fed' = feed(fed, Head(todo))
    /\ todo' = Tail(todo)
    /\ UNCHANGED <<args, next, held, phase>>

\* Mutant: a stream without its terminal record keeps the verdict it has.
TruncatedVerdictKept(c) == c.stream_fully_verified

TruncatedVerdict(c) == FALSE

\* After the loop: the verdict of a stream without terminal record, the summary.
EndOfStream ==
    /\ phase = "reading" /\ todo = <<>> /\ next > Len(lines)
    /\ client' = IF client.terminal THEN client
                 ELSE [client EXCEPT !.stream_fully_verified = TruncatedVerdict(client),
                                     !.failed = IF @ = None THEN "truncated" ELSE @]
    /\ phase' = "summary"
    /\ UNCHANGED <<args, next, held, todo, fed>>

\* httpx raises out of the loop: an error event and no verdict.
ReadError ==
    /\ phase = "reading" /\ todo = <<>> /\ next <= Len(lines)
    /\ phase' = "error"
    /\ UNCHANGED <<args, next, held, todo, client, fed>>

LiveFinished == phase # "reading" /\ UNCHANGED liveVars

-----------------------------------------------------------------------------
(***************************************************************************)
(* Properties.                                                             *)
(***************************************************************************)
\* The events of a transaction, and what they count, fit together.
LiveTypeOK ==
    /\ next \in 1..(Len(lines) + 1) /\ phase \in {"reading", "summary", "error"}
    /\ client.n_chunks = Len(fed.chunks) /\ Len(client.shown) = client.n_chunks
    /\ client.covered \in 0..client.n_chunks
    /\ client.stream_fully_verified \in {None, TRUE, FALSE}
    /\ client.terminal => client.stream_fully_verified = (client.failed = None)
    /\ client.rejected_at_chunk # None => client.failed # None

\* The demo's client and the experiments' replay_through_client, two separate
\* implementations of the client's check, agree on every stream: on the
\* verdict and on the chunk where a stream is first rejected.
AgreesWithReplay ==
    (phase = "summary" /\ strategy # "buffer_and_sign") =>
        LET replay == replay_through_client(strategy, enforced, fed.chunks, fed.final)
            rejected == {i \in 1..Len(client.shown) : client.shown[i].status = "rejected"}
        IN  /\ client.stream_fully_verified = (replay.pos = None)
            /\ replay.pos # None =>
                  replay.pos = IF rejected = {} THEN Len(fed.chunks) ELSE Min(rejected) - 1

\* What the page marks as covered or verified is the genuine text, in place.
MarkedIsGenuine ==
    /\ \A i \in 1..Len(client.shown) :
          (i <= client.covered \/ client.shown[i].status = "verified") => client.shown[i].text = <<i>>
    /\ client.stream_fully_verified = TRUE => client.n_chunks = Len(server.chunks)

\* The demo accepts a stream exactly if the attack left it as it was; stripped
\* checkpoints alone pass, and only with the schedule not enforced.
AttackNoticed ==
    phase = "summary" =>
        (client.stream_fully_verified = TRUE
            <=> \/ fed = server
                \/ args.attack = "strip_checkpoints" /\ enforced = 0)

=============================================================================
