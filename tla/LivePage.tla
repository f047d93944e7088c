------------------------------ MODULE LivePage ------------------------------
(***************************************************************************)
(* consume of views/live_demo.py: the page that turns the events of        *)
(* LiveDemo into marked text, counters and a banner.  The generator and    *)
(* its consumer run in one task, so the page has followed every event of a *)
(* record when the next one is processed.                                  *)
(***************************************************************************)
EXTENDS LiveDemo

VARIABLE page  \* tokens, live and the banner shown last
pageVars == <<liveVars, page>>

PageInit ==
    /\ LiveInit
    /\ page = [tokens |-> <<>>, chunks |-> 0, pending |-> 0, max_pending |-> 0, banner |-> None]

Shown(tokens, text, status) ==
    IF text \in {None, <<>>} THEN tokens ELSE Append(tokens, [text |-> text, status |-> status])

\* Every pending token gets the status given.
Marked(tokens, status) ==
    [i \in DOMAIN tokens |->
        IF tokens[i].status = "pending" THEN [tokens[i] EXCEPT !.status = status] ELSE tokens[i]]

OnChunk(p, text, status) ==
    LET pending == IF status = "pending" THEN p.pending + 1 ELSE p.pending
    IN  [p EXCEPT !.chunks = @ + 1, !.tokens = Shown(@, text, status),
                  !.pending = pending, !.max_pending = Max({@, pending}),
                  !.banner = IF status = "rejected" THEN "rejected" ELSE @]

OnCovered(p) == [p EXCEPT !.tokens = Marked(@, "verified"), !.pending = 0]

OnFinal(p, verified, text) ==
    LET tokens == Shown(p.tokens, text, IF verified THEN "verified" ELSE "rejected")
    IN  IF verified
        THEN [p EXCEPT !.tokens = tokens, !.banner = "verified"]
        ELSE [p EXCEPT !.tokens = Marked(tokens, "rejected"), !.banner = "failed"]

FinalText(record) ==
    IF record.kind = "final_buffered" /\ verify_buffer_and_sign_final(record).aead_ok
    THEN record.env.text ELSE None

\* The events of one record, which left the client as given: a "chunk" and, at
\* a checkpoint that covers it, a "covered"; or a "final", after a "covered"
\* if the stream is verified.
consume(p, after, record) ==
    IF record.kind = "chunk"
    THEN LET shown == Last(after.shown)
             chunk == OnChunk(p, shown.text, shown.status)
         IN  IF strategy = "hash_chain" /\ after.pending = 0 THEN OnCovered(chunk) ELSE chunk
    ELSE LET verified == after.stream_fully_verified
         IN  OnFinal(IF verified THEN OnCovered(p) ELSE p, verified, FinalText(record))

PageWaits == ReadLine /\ UNCHANGED page
PageFollows == ProcessRecord /\ page' = consume(page, client', Head(todo))
PageEnds ==
    /\ EndOfStream
    /\ page' = IF client.terminal THEN page ELSE OnFinal(page, FALSE, None)
PageFails == ReadError /\ page' = [page EXCEPT !.banner = "request failed"]

PageNext == PageWaits \/ PageFollows \/ PageEnds \/ PageFails \/ (LiveFinished /\ UNCHANGED page)
PageSpec == PageInit /\ [][PageNext]_pageVars

-----------------------------------------------------------------------------
Pending == {i \in DOMAIN page.tokens : page.tokens[i].status = "pending"}

\* The text marked as verified is the genuine text from its beginning, with
\* nothing missing and nothing foreign in between, and text once rejected is
\* followed by no verified text.  While the stream runs the counter is the
\* number of tokens still pending, and never above the interval the client
\* enforces; at its end none is left, and the banner is the verdict.
TokensTrue ==
    LET tokens == page.tokens
    IN  /\ \A i \in DOMAIN tokens : tokens[i].status = "verified" =>
              /\ tokens[i].text = IF strategy = "buffer_and_sign" THEN [j \in 1..args.length |-> j] ELSE <<i>>
              /\ \A j \in 1..i : tokens[j].status = "verified"
        /\ client.stream_fully_verified # FALSE => page.pending = Cardinality(Pending)
        /\ strategy = "hash_chain" /\ enforced > 0 => page.max_pending <= enforced
        /\ phase = "summary" =>
              /\ Pending = {}
              /\ page.banner = IF client.stream_fully_verified THEN "verified" ELSE "failed"

\* What the page shows of a transaction is true of it: the counts, the chunks
\* it marks, and the verdict, which is negative exactly if the attack changed
\* something the client checks.
PageIsTrue == LiveTypeOK /\ MarkedIsGenuine /\ AttackNoticed /\ TokensTrue

=============================================================================
