--------------------------- MODULE VerifiedDelivery ---------------------------
(***************************************************************************)
(* What signing a stream promises, whatever the strategy.  A sender        *)
(* releases chunks and completes the text; a receiver relies on a growing  *)
(* prefix of what was released, gives all of it up if a check fails, and   *)
(* accepts only a complete text, all of it.  The wire, its faults and the  *)
(* signatures are not part of the promise: StreamDelivery shows that the   *)
(* streaming transaction keeps it.                                         *)
(***************************************************************************)
EXTENDS Naturals, Sequences, SequencesExt

VARIABLES released,  \* the chunks the sender stands by, in order
          complete,  \* the sender has ended the text
          relied,    \* the chunks the receiver takes for the sender's
          sound,     \* no failed check has withdrawn relied
          verdict    \* "open", then "accepted" or "rejected"

vars == <<released, complete, relied, sound, verdict>>

Init ==
    /\ released = <<>> /\ complete = FALSE
    /\ relied = <<>> /\ sound = TRUE /\ verdict = "open"

\* At most one chunk at a time.
ReleaseOne == IsPrefix(released, released') /\ Len(released') <= Len(released) + 1

Release == ~complete /\ ReleaseOne /\ UNCHANGED <<complete, relied, sound, verdict>>

\* The last chunk may come with the end of the text.
Complete == ~complete /\ complete' = TRUE /\ ReleaseOne /\ UNCHANGED <<relied, sound, verdict>>

Rely ==
    /\ verdict = "open" /\ sound
    /\ IsPrefix(relied, relied') /\ IsPrefix(relied', released)
    /\ UNCHANGED <<released, complete, sound, verdict>>

Withdraw ==
    /\ verdict = "open" /\ sound
    /\ sound' = FALSE /\ relied' = <<>>
    /\ UNCHANGED <<released, complete, verdict>>

\* Acceptance rests on the end of the text alone: a check that fails after it
\* withdraws relied and does not stop an accepting receiver.
Accept ==
    /\ verdict = "open" /\ complete
    /\ verdict' = "accepted" /\ relied' = released
    /\ UNCHANGED <<released, complete, sound>>

Reject ==
    /\ verdict = "open"
    /\ verdict' = "rejected"
    /\ UNCHANGED <<released, complete, relied, sound>>

Next == Release \/ Complete \/ Rely \/ Withdraw \/ Accept \/ Reject

Spec == Init /\ [][Next]_vars

=============================================================================
