---------------------------- MODULE AttackProofs ----------------------------
(***************************************************************************)
(* Proofs about MitmTrials, AttackCampaign, LiveDemo and LivePage, for     *)
(* streams of every length, every checkpoint interval, every attack and    *)
(* every position.                                                         *)
(*                                                                         *)
(* Sent and Closing say what a captured stream consists of.  From them it  *)
(* follows when replay_through_client notices that a chunk is out of its   *)
(* place, of another session or without its checkpoint, and how many it    *)
(* has shown by then (Struck); so does what every draw of every attack     *)
(* leads to (Noticed).  TrialInv carries that to the counts and rows.      *)
(*                                                                         *)
(* The second half is about the live demo, whose attack works record by    *)
(* record: LiveInv relates its client and page to the chunks received.     *)
(***************************************************************************)
EXTENDS MitmTrials, LivePage, FiniteSetTheorems, SequenceTheorems, WellFoundedInduction, TLAPS

-----------------------------------------------------------------------------
(***************************************************************************)
(* Least and greatest elements, and multiples of the interval.             *)
(***************************************************************************)
LEMMA Least ==
    ASSUME NEW T, T \subseteq Nat, T # {}
    PROVE  Min(T) \in T /\ \A y \in T : Min(T) <= y
  <1>1. PICK x \in T : \A y \in T : ~(<<y, x>> \in OpToRel(<, Nat))
    BY NatLessThanWellFounded, WFMin
  <1>2. \A y \in T : ~(y < x)
    BY <1>1 DEF OpToRel
  <1>3. \A y \in T : x <= y
    BY <1>2
  <1>4. QED
    BY <1>3 DEF Min

LEMMA Greatest ==
    ASSUME NEW b \in Nat, NEW T, T \subseteq 0..b, T # {}
    PROVE  Max(T) \in T /\ \A y \in T : Max(T) >= y
  <1> DEFINE U == {b - x : x \in T}
  <1>1. U \subseteq Nat /\ U # {}
    <2>1. \A x \in T : b - x \in Nat
      OBVIOUS
    <2>2. PICK x : x \in T
      OBVIOUS
    <2>3. b - x \in U
      BY <2>2
    <2>4. QED
      BY <2>1, <2>3
  <1>2. PICK u \in U : \A w \in U : u <= w
    BY <1>1, Least
  <1>3. PICK x \in T : u = b - x
    OBVIOUS
  <1>4. \A y \in T : x >= y
    BY <1>2, <1>3
  <1>5. QED
    BY <1>4 DEF Max

LEMMA NotNegative ==
    ASSUME NEW x \in Int
    PROVE  Max({0, x}) \in Nat /\ (x <= 0 => Max({0, x}) = 0)
  <1>1. \E z \in {0, x} : \A y \in {0, x} : z >= y
    OBVIOUS
  <1>2. Max({0, x}) \in {0, x} /\ \A y \in {0, x} : Max({0, x}) >= y
    BY <1>1 DEF Max
  <1>3. QED
    BY <1>2

LEMMA DivMod ==
    ASSUME NEW a \in Nat, NEW d \in Nat, d > 0
    PROVE  a = d * (a \div d) + (a % d) /\ a \div d \in Nat /\ a % d \in 0..(d - 1)
  OBVIOUS

LEMMA ModUnique ==
    ASSUME NEW a \in Nat, NEW d \in Nat, d > 0, NEW q \in Nat, NEW r \in 0..(d - 1), a = d * q + r
    PROVE  a % d = r
  <1> DEFINE x == a \div d
             y == a % d
  <1>1. x \in Nat /\ y \in 0..(d - 1) /\ d * x + y = d * q + r
    BY DivMod
  <1> HIDE DEF x, y
  <1>2. CASE x = q
    BY <1>1, <1>2 DEF y
  <1>3. CASE x < q
    <2>1. d * (q - x) >= d
      BY <1>1, <1>3
    <2>2. d * (q - x) = d * q - d * x
      BY <1>1
    <2>3. QED
      BY <1>1, <2>1, <2>2
  <1>4. CASE x > q
    <2>1. d * (x - q) >= d
      BY <1>1, <1>4
    <2>2. d * (x - q) = d * x - d * q
      BY <1>1
    <2>3. QED
      BY <1>1, <2>1, <2>2
  <1>5. QED
    BY <1>1, <1>2, <1>3, <1>4

\* The last multiple of d up to a is less than d below a.
LEMMA LastMultiple ==
    ASSUME NEW a \in Nat, NEW d \in Nat, d > 0
    PROVE  \E b \in 0..a : b % d = 0 /\ a - b < d
  <1> DEFINE q == a \div d
             r == a % d
             p == d * q
  <1>1. q \in Nat /\ r \in 0..(d - 1) /\ a = p + r
    BY DivMod
  <1>2. p \in Nat /\ p = d * q + 0 /\ 0 \in 0..(d - 1)
    BY <1>1
  <1>3. p % d = 0
    BY <1>1, <1>2, ModUnique
  <1> HIDE DEF p, q, r
  <1>4. p \in 0..a /\ a - p < d
    BY <1>1, <1>2
  <1>5. QED
    BY <1>3, <1>4

-----------------------------------------------------------------------------
(***************************************************************************)
(* Captured streams.  The i-th chunk of a session is the same whatever the *)
(* length of the stream.                                                   *)
(***************************************************************************)
Strategies == {"per_chunk", "hash_chain"}
Sessions == {Hid, Other}

Env(h, j) == aead_encrypt(h, j, <<j>>)
Hash(h, j) == [gen |-> genesis_hash(h).gen, links |-> [i \in 1..j |-> [index |-> i - 1, env |-> Env(h, i)]]]
Checkpoint(h, j) == Sign(h, checkpoint_message(stream_context(h), j - 1, Hash(h, j)))

\* The j-th chunk that session h sends.
Sent(h, s, k, j) ==
    IF s = "per_chunk"
    THEN ChunkRow(j - 1, Env(h, j), None, Sign(h, chunk_message(stream_context(h), j - 1, Env(h, j))))
    ELSE ChunkRow(j - 1, Env(h, j), Hash(h, j), IF k > 0 /\ j % k = 0 THEN Checkpoint(h, j) ELSE None)

\* The terminal record of a stream of len chunks.
Closing(h, s, len) ==
    IF s = "per_chunk" THEN PerChunkFinal(len, Sign(h, end_message(stream_context(h), len)))
    ELSE ChainFinal(len, Hash(h, len), Sign(h, final_chain_message(stream_context(h), len, Hash(h, len))))

LEMMA TextsAre ==
    ASSUME NEW len \in Nat
    PROVE  Len(Texts(len)) = len /\ \A i \in 1..len : Texts(len)[i] = <<i>>
  BY DEF Texts

LEMMA CapturedIs ==
    ASSUME NEW h \in Sessions, NEW s \in Strategies, NEW k \in Nat, NEW len \in Nat
    PROVE  /\ Captured(h, s, k, len).chunks = [j \in 1..len |-> Sent(h, s, k, j)]
           /\ Captured(h, s, k, len).final = Closing(h, s, len)
  <1>1. ASSUME NEW i \in 0..len PROVE ChainOf(h, Texts(len), i) = Hash(h, i)
    <2>1. ASSUME NEW j \in 1..i PROVE Link(h, Texts(len), j) = [index |-> j - 1, env |-> Env(h, j)]
      <3>1. j \in 1..len
        OBVIOUS
      <3>2. Texts(len)[j] = <<j>>
        BY <3>1, TextsAre
      <3>3. QED
        BY <3>2, Zenon DEF Link, Env
    <2>2. QED
      BY <2>1 DEF ChainOf, Hash
  <1>2. ASSUME NEW j \in 1..len PROVE CapturedChunk(h, s, k, Texts(len), j) = Sent(h, s, k, j)
    <2>1. Texts(len)[j] = <<j>>
      BY TextsAre
    <2>2. aead_encrypt(h, j, Texts(len)[j]) = Env(h, j)
      BY <2>1, Zenon DEF Env
    <2>3. ChainOf(h, Texts(len), j) = Hash(h, j)
      <3>1. j \in 0..len
        OBVIOUS
      <3>2. QED
        BY <1>1, <3>1
    <2>4. QED
      BY <2>2, <2>3 DEF CapturedChunk, Sent, Checkpoint
  <1>3. CapturedFinal(h, s, Texts(len), [i \in 1..len |-> i]) = Closing(h, s, len)
    <2>1. ChainOf(h, Texts(len), len) = Hash(h, len) /\ Len(Texts(len)) = len
      BY <1>1, TextsAre
    <2>2. QED
      BY <2>1 DEF CapturedFinal, Closing, Strategies
  <1>4. s # "buffer_and_sign"
    BY DEF Strategies
  <1>5. QED
    BY <1>2, <1>3, <1>4 DEF Captured

LEMMA EnvIs ==
    ASSUME NEW h \in Sessions, NEW j \in Nat
    PROVE  /\ Env(h, j) \in Envelopes /\ Env(h, j).key = h /\ Env(h, j).text = <<j>>
           /\ \A g, i : Env(g, i) = Env(h, j) => g = h /\ i = j
  <1>1. <<j>> \in Seq(Nat)
    OBVIOUS
  <1>2. QED
    BY <1>1 DEF Env, aead_encrypt, Envelopes, Sessions

LEMMA HashIs ==
    ASSUME NEW h \in Sessions, NEW j \in Nat
    PROVE  Hash(h, j) \in Hashes
  <1>1. \A i \in 1..j : [index |-> i - 1, env |-> Env(h, i)] \in [index: Nat, env: Envelopes]
    BY EnvIs
  <1>2. [i \in 1..j |-> [index |-> i - 1, env |-> Env(h, i)]] \in Seq([index: Nat, env: Envelopes])
    <2> DEFINE L(i) == [index |-> i - 1, env |-> Env(h, i)]
               S == [index: Nat, env: Envelopes]
    <2>1. \A i \in 1..j : L(i) \in S
      BY <1>1
    <2> HIDE DEF L, S
    <2>2. [i \in 1..j |-> L(i)] \in Seq(S)
      BY <2>1
    <2>3. QED
      BY <2>2 DEF L, S
  <1>3. genesis_hash(h).gen \in {genesis_hash(Hid).gen, genesis_hash(Other).gen}
    BY DEF Sessions
  <1>4. QED
    BY <1>2, <1>3 DEF Hash, Hashes

LEMMA CheckpointIs ==
    ASSUME NEW h \in Sessions, NEW j \in Nat \ {0}
    PROVE  Checkpoint(h, j) # None
  <1>1. Hash(h, j) \in Hashes /\ j - 1 \in Nat
    BY HashIs
  <1> DEFINE hash == Hash(h, j)
             msg == checkpoint_message(stream_context(h), j - 1, hash)
  <1> HIDE DEF hash
  <1>2. <<hash>> \in Seq(Hashes)
    BY <1>1 DEF hash
  <1>3. msg \in Messages
    BY <1>1, <1>2 DEF checkpoint_message, Message, Messages, Sessions
  <1> HIDE DEF msg
  <1>4. Sign(h, msg) \in Signatures
    BY <1>3 DEF Sign, Signatures, Sessions
  <1>5. QED
    BY <1>4, NoneAssumption DEF Checkpoint, msg, hash

LEMMA ClosingIs ==
    ASSUME NEW h \in Sessions, NEW s \in Strategies, NEW len \in Nat
    PROVE  Closing(h, s, len) # None
  <1>1. stream_context(h) \in {stream_context(Hid), stream_context(Other)} /\ h \in {Hid, Other, NoKey}
    BY DEF Sessions
  <1>2. Sign(h, end_message(stream_context(h), len)) \in Signatures
    <2>1. <<>> \in Seq(Envelopes)
      OBVIOUS
    <2>2. end_message(stream_context(h), len) \in Messages
      BY <1>1, <2>1 DEF end_message, Message, Messages
    <2>3. QED
      BY <1>1, <2>2 DEF Sign, Signatures
  <1>3. PICK hash \in Hashes : hash = Hash(h, len)
    BY HashIs
  <1>4. Sign(h, final_chain_message(stream_context(h), len, hash)) \in Signatures
    <2>1. <<hash>> \in Seq(Hashes)
      OBVIOUS
    <2>2. final_chain_message(stream_context(h), len, hash) \in Messages
      BY <1>1, <2>1 DEF final_chain_message, Message, Messages
    <2>3. QED
      BY <1>1, <2>2 DEF Sign, Signatures
  <1>5. Closing(h, s, len) \in Records
    BY <1>2, <1>3, <1>4 DEF Closing, PerChunkFinal, ChainFinal, Record, Records
  <1>6. QED
    BY <1>5, NoneAssumption

\* Of a chunk sent only these matter.
LEMMA SentIs ==
    ASSUME NEW h \in Sessions, NEW s \in Strategies, NEW k \in Nat, NEW j \in Nat \ {0}
    PROVE  /\ Sent(h, s, k, j).n = j - 1 /\ Sent(h, s, k, j).env = Env(h, j)
           /\ s = "per_chunk" => Sent(h, s, k, j).signature = Sign(h, chunk_message(stream_context(h), j - 1, Env(h, j)))
           /\ s = "hash_chain" =>
                Sent(h, s, k, j).signature = IF k > 0 /\ j % k = 0 THEN Checkpoint(h, j) ELSE None
  BY DEF Sent, ChunkRow, Record

-----------------------------------------------------------------------------
(***************************************************************************)
(* What the experiments' client does with a sequence of chunks.            *)
(***************************************************************************)
\* The first i chunks are the session's own, in their places.
InPlace(c, i) == \A x \in 1..i : c[x].n = x - 1 /\ c[x].env = Env(Hid, x)

LEMMA ChainInPlace ==
    ASSUME NEW c, NEW i \in Nat
    PROVE  (ChainAfter(c, i).running_hash = Hash(Hid, i)) <=> InPlace(c, i)
  <1> DEFINE links == [x \in 1..i |-> [index |-> c[x].n, env |-> c[x].env]]
             own == [x \in 1..i |-> [index |-> x - 1, env |-> Env(Hid, x)]]
  <1>1. (ChainAfter(c, i).running_hash = Hash(Hid, i)) <=> links = own
    BY DEF ChainAfter, Hash
  <1>2. links = own <=> \A x \in 1..i : links[x] = own[x]
    OBVIOUS
  <1>3. ASSUME NEW x \in 1..i
        PROVE  links[x] = own[x] <=> (c[x].n = x - 1 /\ c[x].env = Env(Hid, x))
    <2>1. links[x] = [index |-> c[x].n, env |-> c[x].env] /\ own[x] = [index |-> x - 1, env |-> Env(Hid, x)]
      OBVIOUS
    <2> HIDE DEF links, own
    <2>2. QED
      BY <2>1
  <1> HIDE DEF links, own
  <1>4. QED
    BY <1>1, <1>2, <1>3 DEF InPlace

LEMMA PerChunkRejects ==
    ASSUME NEW c, NEW i \in Nat \ {0}, NEW kk, NEW k \in Nat, NEW h \in Sessions, NEW j \in Nat \ {0},
           c[i] = Sent(h, "per_chunk", k, j)
    PROVE  Rejects("per_chunk", kk, c, i) <=> ~(h = Hid /\ j = i)
  <1> DEFINE r == c[i]
             env == Env(h, j)
  <1>1. /\ r.n = j - 1 /\ r.env = env /\ env.key = h
        /\ r.signature = Sign(h, chunk_message(stream_context(h), j - 1, env))
    <2>1. "per_chunk" \in Strategies
      BY DEF Strategies
    <2>2. env.key = h
      BY EnvIs
    <2>3. PICK x : x = Sent(h, "per_chunk", k, j)
      OBVIOUS
    <2>4. /\ x.n = j - 1 /\ x.env = Env(h, j)
          /\ x.signature = Sign(h, chunk_message(stream_context(h), j - 1, Env(h, j)))
      BY <2>1, <2>3, SentIs, Zenon
    <2>5. r = x
      BY <2>3, Zenon
    <2>6. QED
      BY <2>2, <2>4, <2>5, Zenon
  <1>2. Rejects("per_chunk", kk, c, i) <=>
            ~(/\ r.n = i - 1 /\ r.signature = Sign(Hid, chunk_message(ctx, r.n, r.env))
              /\ r.env.key = Hid)
    BY DEF Rejects, verify_per_chunk, Verify, Decrypts
  <1> HIDE DEF r, env
  <1>3. Sign(h, chunk_message(stream_context(h), j - 1, env)) = Sign(Hid, chunk_message(ctx, j - 1, env)) <=> h = Hid
    BY DEF Sign, ctx
  <1>4. QED
    BY <1>1, <1>2, <1>3

LEMMA ChainRejects ==
    ASSUME NEW c, NEW i \in Nat \ {0}, NEW kk \in Nat
    PROVE  Rejects("hash_chain", kk, c, i) <=>
              \/ c[i].env.key # Hid
              \/ kk > 0 /\ i % kk = 0 /\ c[i].signature = None
              \/ /\ c[i].signature # None
                 /\ c[i].signature # Sign(Hid, checkpoint_message(ctx, c[i].n, ChainAfter(c, i).running_hash))
  <1>1. ChainAfter(c, i).n_absorbed = i
    BY DEF ChainAfter
  <1>2. QED
    BY <1>1 DEF Rejects, verify_hash_chain_chunk, Verify, Decrypts

\* Chunks in their places are not rejected, signed as the session signs them.
LEMMA OwnPasses ==
    ASSUME NEW c, NEW s \in Strategies, NEW k \in Nat, NEW i \in Nat \ {0},
           \A x \in 1..i : c[x] = Sent(Hid, s, k, x)
    PROVE  ~Rejects(s, k, c, i) /\ InPlace(c, i)
  <1>1. Hid \in Sessions /\ c[i] = Sent(Hid, s, k, i)
    BY DEF Sessions
  <1>2. InPlace(c, i)
    BY <1>1, SentIs DEF InPlace
  <1>3. CASE s = "per_chunk"
    BY <1>1, <1>2, <1>3, PerChunkRejects
  <1>4. CASE s = "hash_chain"
    <2>1. ChainAfter(c, i).running_hash = Hash(Hid, i)
      BY <1>2, ChainInPlace
    <2>2. /\ c[i].env.key = Hid /\ c[i].n = i - 1
          /\ c[i].signature = IF k > 0 /\ i % k = 0 THEN Checkpoint(Hid, i) ELSE None
      BY <1>1, <1>4, SentIs, EnvIs
    <2>3. Checkpoint(Hid, i) # None
      BY <1>1, CheckpointIs
    <2>4. Checkpoint(Hid, i) = Sign(Hid, checkpoint_message(ctx, i - 1, Hash(Hid, i)))
      BY DEF Checkpoint, ctx
    <2>5. QED
      BY <1>2, <1>4, <2>1, <2>2, <2>3, <2>4, ChainRejects
  <1>5. QED
    BY <1>3, <1>4 DEF Strategies

LEMMA PerChunkEnds ==
    ASSUME NEW c, Len(c) \in Nat, NEW g \in Sessions, NEW len \in Nat
    PROVE  FinalVerifies("per_chunk", c, Closing(g, "per_chunk", len)) <=> g = Hid /\ Len(c) = len
  <1> DEFINE r == Closing(g, "per_chunk", len)
  <1>1. r # None
    BY ClosingIs DEF Strategies
  <1>2. r.n = len /\ r.signature = Sign(g, end_message(stream_context(g), len))
    BY DEF Closing, PerChunkFinal, Record
  <1>3. FinalVerifies("per_chunk", c, r) <=> r.signature = Sign(Hid, end_message(ctx, r.n)) /\ r.n = Len(c)
    BY <1>1 DEF FinalVerifies, verify_per_chunk_final, Verify
  <1> HIDE DEF r
  <1>4. Sign(g, end_message(stream_context(g), len)) = Sign(Hid, end_message(ctx, len)) <=> g = Hid
    BY DEF Sign, ctx
  <1>5. FinalVerifies("per_chunk", c, r) <=> g = Hid /\ Len(c) = len
    BY <1>2, <1>3, <1>4
  <1>6. QED
    BY <1>5 DEF r

LEMMA ChainEnds ==
    ASSUME NEW c, Len(c) \in Nat, NEW g \in Sessions, NEW len \in Nat
    PROVE  FinalVerifies("hash_chain", c, Closing(g, "hash_chain", len))
              <=> g = Hid /\ Len(c) = len /\ InPlace(c, len)
  <1> DEFINE r == Closing(g, "hash_chain", len)
             state == ChainAfter(c, Len(c))
             hash == Hash(g, len)
  <1>1. r # None
    BY ClosingIs DEF Strategies
  <1>2. /\ r.n = len /\ r.chain = hash
        /\ r.signature = Sign(g, final_chain_message(stream_context(g), len, hash))
    BY DEF Closing, ChainFinal, Record
  <1>3. FinalVerifies("hash_chain", c, r) <=>
            /\ r.chain = state.running_hash /\ r.n = state.n_absorbed
            /\ r.signature = Sign(Hid, final_chain_message(ctx, state.n_absorbed, state.running_hash))
    BY <1>1 DEF FinalVerifies, verify_hash_chain_final, Verify
  <1>4. state.n_absorbed = Len(c) /\ (state.running_hash = Hash(Hid, Len(c)) <=> InPlace(c, Len(c)))
    BY ChainInPlace DEF ChainAfter
  <1> HIDE DEF r, state, hash
  <1>5. Sign(g, final_chain_message(stream_context(g), len, hash)) = Sign(Hid, final_chain_message(ctx, len, hash))
          <=> g = Hid
    BY DEF Sign, ctx
  <1>6. FinalVerifies("hash_chain", c, r) <=> g = Hid /\ Len(c) = len /\ state.running_hash = hash
    BY <1>2, <1>3, <1>4, <1>5
  <1>7. FinalVerifies("hash_chain", c, r) <=> g = Hid /\ Len(c) = len /\ InPlace(c, len)
    BY <1>4, <1>6 DEF hash
  <1>8. QED
    BY <1>7 DEF r

-----------------------------------------------------------------------------
\* Accepted, or rejected at a chunk before which none was rejected.
LEMMA Replayed ==
    ASSUME NEW s, NEW k, NEW c, Len(c) \in Nat, NEW final, NEW result,
           result = replay_through_client(s, k, c, final)
    PROVE  /\ ((\A i \in 1..Len(c) : ~Rejects(s, k, c, i)) /\ FinalVerifies(s, c, final)) => result.pos = None
           /\ ~((\A i \in 1..Len(c) : ~Rejects(s, k, c, i)) /\ FinalVerifies(s, c, final)) =>
                /\ result.pos \in 0..Len(c) /\ result.pos # None
                /\ \A i \in 1..result.pos : ~Rejects(s, k, c, i)
                /\ result.pos = Len(c) \/ (result.pos < Len(c) /\ Rejects(s, k, c, result.pos + 1))
                /\ result.covered = Covered(s, c, result.pos)
  <1> DEFINE bad == {i \in 1..Len(c) : Rejects(s, k, c, i)}
             pos == IF bad # {} THEN Min(bad) - 1 ELSE Len(c)
  <1>1. result = IF bad = {} /\ FinalVerifies(s, c, final)
                 THEN [pos |-> None, covered |-> Len(c)]
                 ELSE [pos |-> pos, covered |-> Covered(s, c, pos)]
    BY DEF replay_through_client
  <1>2. bad = {} <=> \A i \in 1..Len(c) : ~Rejects(s, k, c, i)
    OBVIOUS
  <1>3. /\ pos \in 0..Len(c) /\ \A i \in 1..pos : i \notin bad
        /\ pos = Len(c) \/ (pos < Len(c) /\ pos + 1 \in bad)
    <2>1. CASE bad = {}
      BY <2>1
    <2>2. CASE bad # {}
      <3>1. bad \subseteq Nat /\ bad \subseteq 1..Len(c)
        OBVIOUS
      <3>2. Min(bad) \in bad /\ \A y \in bad : Min(bad) <= y
        BY <2>2, <3>1, Least
      <3>3. pos = Min(bad) - 1
        BY <2>2
      <3> HIDE DEF pos, bad
      <3>4. PICK m \in 1..Len(c) : m = Min(bad) /\ m \in bad /\ \A y \in bad : m <= y
        BY <3>1, <3>2
      <3>5. pos = m - 1 /\ pos + 1 = m /\ pos \in 0..Len(c) /\ pos < Len(c)
        BY <3>3, <3>4
      <3>6. \A i \in 1..pos : i \notin bad
        BY <3>4, <3>5
      <3>7. QED
        BY <3>4, <3>5, <3>6
    <2>3. QED
      BY <2>1, <2>2
  <1>4. pos # None
    BY <1>3, NoneAssumption
  <1>5. \A i \in 1..Len(c) : i \in bad <=> Rejects(s, k, c, i)
    OBVIOUS
  <1> HIDE DEF bad, pos
  <1>6. CASE bad = {} /\ FinalVerifies(s, c, final)
    BY <1>1, <1>2, <1>6
  <1>7. CASE ~(bad = {} /\ FinalVerifies(s, c, final))
    <2>1. result.pos = pos /\ result.covered = Covered(s, c, pos)
      BY <1>1, <1>7
    <2>2. \A i \in 1..pos : ~Rejects(s, k, c, i)
      BY <1>3, <1>5
    <2>3. pos < Len(c) /\ pos + 1 \in bad => Rejects(s, k, c, pos + 1)
      BY <1>3, <1>5
    <2>4. QED
      BY <1>2, <1>3, <1>4, <1>7, <2>1, <2>2, <2>3
  <1>8. QED
    BY <1>6, <1>7

\* Chunks shown without a signature: none, or fewer than the interval.
LEMMA CoveredGap ==
    ASSUME NEW s \in Strategies, NEW k \in Nat, NEW c, NEW pos \in Nat,
           \A i \in 1..pos : ~Rejects(s, k, c, i)
    PROVE  /\ pos - Covered(s, c, pos) \in Nat
           /\ s = "per_chunk" => pos - Covered(s, c, pos) = 0
           /\ k > 0 => pos - Covered(s, c, pos) < k
  <1>1. CASE s = "per_chunk"
    BY <1>1 DEF Covered
  <1>2. CASE s = "hash_chain"
    <2> DEFINE S == {0} \cup {i \in 1..pos : c[i].signature # None}
    <2>1. Covered(s, c, pos) = Max(S) /\ S \subseteq 0..pos /\ S # {}
      BY <1>2 DEF Covered
    <2>2. Max(S) \in S /\ \A y \in S : Max(S) >= y
      BY <2>1, Greatest
    <2>3. Max(S) \in 0..pos
      BY <2>1, <2>2
    <2>4. ASSUME k > 0 PROVE pos - Max(S) < k
      <3>1. PICK b \in 0..pos : b % k = 0 /\ pos - b < k
        BY <2>4, LastMultiple
      <3>2. b \in S
        <4>1. CASE b = 0
          BY <4>1
        <4>2. CASE b # 0
          <5>1. b \in 1..pos /\ b \in Nat \ {0}
            BY <4>2
          <5>2. ~Rejects("hash_chain", k, c, b)
            BY <1>2, <5>1
          <5>3. c[b].signature # None
            BY <2>4, <3>1, <5>1, <5>2, ChainRejects
          <5>4. QED
            BY <5>1, <5>3
        <4>3. QED
          BY <4>1, <4>2
      <3>3. QED
        BY <2>2, <2>3, <3>1, <3>2
    <2>5. QED
      BY <1>2, <2>1, <2>3, <2>4
  <1>3. QED
    BY <1>1, <1>2 DEF Strategies

-----------------------------------------------------------------------------
(***************************************************************************)
(* When an attack is noticed, and how much has been shown by then.         *)
(***************************************************************************)
Struck(s, k, c, final, first) ==
    LET result == replay_through_client(s, k, c, final)
    IN  /\ result.pos \in 0..Len(c) /\ result.pos # None
        /\ result.pos - result.covered \in Nat
        /\ s = "per_chunk" => result.pos <= first /\ result.pos - result.covered = 0
        /\ k > 0 => result.pos - result.covered < k

LEMMA StruckIf ==
    ASSUME NEW s \in Strategies, NEW k \in Nat, NEW c, Len(c) \in Nat, NEW final, NEW first \in Nat,
           (\E i \in 1..Len(c) : Rejects(s, k, c, i)) \/ ~FinalVerifies(s, c, final),
           s = "per_chunk" => (first < Len(c) /\ Rejects(s, k, c, first + 1)) \/ Len(c) <= first
    PROVE  Struck(s, k, c, final, first)
  <1>1. PICK result : result = replay_through_client(s, k, c, final)
    OBVIOUS
  <1>2. /\ result.pos \in 0..Len(c) /\ result.pos # None
        /\ \A i \in 1..result.pos : ~Rejects(s, k, c, i)
        /\ result.covered = Covered(s, c, result.pos)
    BY <1>1, Replayed
  <1>3. PICK pos \in 0..Len(c) : pos = result.pos
    BY <1>2
  <1>4. /\ pos - Covered(s, c, pos) \in Nat
        /\ s = "per_chunk" => pos - Covered(s, c, pos) = 0
        /\ k > 0 => pos - Covered(s, c, pos) < k
    BY <1>2, <1>3, CoveredGap, SMTT(30)
  <1>5. s = "per_chunk" => pos <= first
    <2>1. \A i \in 1..pos : ~Rejects(s, k, c, i)
      BY <1>2, <1>3
    <2>2. pos > first => first + 1 \in 1..pos
      OBVIOUS
    <2>3. QED
      BY <2>1, <2>2
  <1>6. QED
    BY <1>1, <1>2, <1>3, <1>4, <1>5 DEF Struck

\* A chunk of another session, or one of this session's out of its place.
LEMMA StrikesAt ==
    ASSUME NEW s \in Strategies, NEW k \in Nat, NEW kk \in Nat, NEW c, Len(c) \in Nat,
           NEW i \in 1..Len(c), NEW h \in Sessions, NEW j \in Nat \ {0}, c[i] = Sent(h, s, k, j),
           h # Hid \/ j # i, NEW g \in Sessions, NEW len \in Nat
    PROVE  Struck(s, kk, c, Closing(g, s, len), i - 1)
  <1>1. i \in Nat \ {0} /\ i - 1 \in Nat /\ (i - 1) + 1 = i /\ i - 1 < Len(c)
    OBVIOUS
  <1>2. CASE s = "per_chunk"
    <2>1. Rejects(s, kk, c, i)
      BY <1>1, <1>2, PerChunkRejects
    <2>2. QED
      BY <1>1, <2>1, StruckIf
  <1>3. CASE s = "hash_chain"
    <2>1. ~InPlace(c, Len(c))
      <3>1. c[i].n = j - 1 /\ c[i].env = Env(h, j)
        BY SentIs
      <3>2. c[i].env = Env(Hid, i) => h = Hid /\ j = i
        <4>1. Hid \in Sessions /\ i \in Nat
          BY DEF Sessions
        <4>2. Env(h, j) = Env(Hid, i) => h = Hid /\ j = i
          BY <4>1, EnvIs
        <4>3. QED
          BY <3>1, <4>2
      <3>3. QED
        BY <3>2 DEF InPlace
    <2>2. ~FinalVerifies(s, c, Closing(g, s, len))
      BY <1>3, <2>1, ChainEnds
    <2>3. QED
      BY <1>1, <1>3, <2>2, StruckIf
  <1>4. QED
    BY <1>2, <1>3 DEF Strategies

\* A terminal record that is missing, another session's or of another length.
LEMMA StrikesAtEnd ==
    ASSUME NEW s \in Strategies, NEW k \in Nat, NEW c, Len(c) \in Nat, NEW final,
           final = None \/ \E g \in Sessions, len \in Nat : final = Closing(g, s, len) /\ (g # Hid \/ len # Len(c))
    PROVE  ~FinalVerifies(s, c, final) /\ Struck(s, k, c, final, Len(c))
  <1>1. ~FinalVerifies(s, c, final)
    <2>1. CASE final = None
      BY <2>1 DEF FinalVerifies
    <2>2. ASSUME NEW g \in Sessions, NEW len \in Nat, final = Closing(g, s, len), g # Hid \/ len # Len(c)
          PROVE  ~FinalVerifies(s, c, final)
      BY <2>2, PerChunkEnds, ChainEnds DEF Strategies
    <2>3. QED
      BY <2>1, <2>2
  <1>2. QED
    BY <1>1, StruckIf

\* The changes made to a sequence.
LEMMA Removed ==
    ASSUME NEW S, NEW seq \in Seq(S), NEW i \in 1..Len(seq)
    PROVE  /\ RemoveAt(seq, i) \in Seq(S) /\ Len(RemoveAt(seq, i)) = Len(seq) - 1
           /\ \A x \in 1..(Len(seq) - 1) : RemoveAt(seq, i)[x] = IF x < i THEN seq[x] ELSE seq[x + 1]
  <1> DEFINE a == SubSeq(seq, 1, i - 1)
             b == SubSeq(seq, i + 1, Len(seq))
  <1>1. a \in Seq(S) /\ Len(a) = i - 1 /\ \A x \in 1..(i - 1) : a[x] = seq[x]
    BY SubSeqProperties
  <1>2. b \in Seq(S) /\ Len(b) = Len(seq) - i /\ \A x \in 1..(Len(seq) - i) : b[x] = seq[i + x]
    BY SubSeqProperties
  <1> HIDE DEF a, b
  <1>3. /\ a \o b \in Seq(S) /\ Len(a \o b) = Len(a) + Len(b)
        /\ \A x \in 1..Len(a) + Len(b) : (a \o b)[x] = IF x <= Len(a) THEN a[x] ELSE b[x - Len(a)]
    BY <1>1, <1>2, ConcatProperties
  <1>4. Len(a) + Len(b) = Len(seq) - 1
    BY <1>1, <1>2
  <1>5. ASSUME NEW x \in 1..(Len(seq) - 1)
        PROVE  (a \o b)[x] = IF x < i THEN seq[x] ELSE seq[x + 1]
    <2>1. CASE x < i
      BY <1>1, <1>3, <1>4, <2>1
    <2>2. CASE ~(x < i)
      <3>1. x - (i - 1) \in 1..(Len(seq) - i) /\ i + (x - (i - 1)) = x + 1
        BY <2>2
      <3>2. QED
        BY <1>1, <1>2, <1>3, <1>4, <2>2, <3>1
    <2>3. QED
      BY <2>1, <2>2
  <1>6. RemoveAt(seq, i) = a \o b
    BY DEF RemoveAt, a, b
  <1>7. QED
    BY <1>3, <1>4, <1>5, <1>6

LEMMA Inserted ==
    ASSUME NEW S, NEW seq \in Seq(S), NEW i \in 1..Len(seq), NEW p, p = i + 1, NEW e \in S
    PROVE  Len(InsertAt(seq, p, e)) = Len(seq) + 1 /\ InsertAt(seq, p, e)[p] = e
  <1> DEFINE a == SubSeq(seq, 1, i)
             b == SubSeq(seq, i + 1, Len(seq))
             d == a \o <<e>>
  <1>1. a \in Seq(S) /\ Len(a) = i
    BY SubSeqProperties
  <1>2. b \in Seq(S) /\ Len(b) = Len(seq) - i
    BY SubSeqProperties
  <1>3. d \in Seq(S) /\ Len(d) = i + 1 /\ d[i + 1] = e
    <2> HIDE DEF a
    <2>1. d = Append(a, e) /\ Len(a) = i
      BY <1>1
    <2> HIDE DEF d
    <2>2. QED
      BY <1>1, <2>1, AppendProperties
  <1>4. InsertAt(seq, i + 1, e) = d \o b
    <2>1. (i + 1) - 1 = i
      OBVIOUS
    <2>2. QED
      BY <2>1, Zenon DEF InsertAt, a, b, d
  <1> HIDE DEF a, b, d
  <1>5. /\ Len(d \o b) = Len(d) + Len(b)
        /\ \A x \in 1..Len(d) + Len(b) : (d \o b)[x] = IF x <= Len(d) THEN d[x] ELSE b[x - Len(d)]
    BY <1>2, <1>3, ConcatProperties
  <1>6. Len(d) + Len(b) = Len(seq) + 1 /\ i + 1 \in 1..(Len(seq) + 1)
    BY <1>2, <1>3
  <1>7. Len(d \o b) = Len(seq) + 1 /\ (d \o b)[i + 1] = e
    BY <1>3, <1>5, <1>6
  <1>8. QED
    BY <1>4, <1>7, Zenon

LEMMA InsertedIn ==
    ASSUME NEW S, NEW seq \in Seq(S), NEW i \in 1..Len(seq), NEW e \in S
    PROVE  InsertAt(seq, i + 1, e) \in Seq(S)
  <1>1. InsertAt(seq, i + 1, e) = (SubSeq(seq, 1, i) \o <<e>>) \o SubSeq(seq, i + 1, Len(seq))
    <2>1. (i + 1) - 1 = i
      OBVIOUS
    <2>2. QED
      BY <2>1, Zenon DEF InsertAt
  <1>2. PICK x \in Seq(S), y \in Seq(S), z \in Seq(S) :
            x = SubSeq(seq, 1, i) /\ y = <<e>> /\ z = SubSeq(seq, i + 1, Len(seq))
    <2>1. SubSeq(seq, 1, i) \in Seq(S)
      BY SubSeqProperties
    <2>2. SubSeq(seq, i + 1, Len(seq)) \in Seq(S)
      BY SubSeqProperties
    <2>3. <<e>> \in Seq(S)
      OBVIOUS
    <2>4. QED
      BY <2>1, <2>2, <2>3, Zenon
  <1>3. (x \o y) \o z \in Seq(S)
    BY ConcatProperties
  <1>4. QED
    BY <1>1, <1>2, <1>3, Zenon

LEMMA Swapped ==
    ASSUME NEW S, NEW seq \in Seq(S), NEW i \in 1..(Len(seq) - 1)
    PROVE  /\ Swap(seq, i) \in Seq(S) /\ Len(Swap(seq, i)) = Len(seq)
           /\ \A x \in 1..Len(seq) :
                 Swap(seq, i)[x] = IF x = i THEN seq[i + 1] ELSE IF x = i + 1 THEN seq[i] ELSE seq[x]
  BY DEF Swap

LEMMA Replaced ==
    ASSUME NEW S, NEW seq \in Seq(S), NEW i \in 1..Len(seq), NEW e \in S
    PROVE  /\ [seq EXCEPT ![i] = e] \in Seq(S) /\ Len([seq EXCEPT ![i] = e]) = Len(seq)
           /\ [seq EXCEPT ![i] = e][i] = e
  OBVIOUS

\* The chunks of a session's stream.
Own(h, s, k, len) == [j \in 1..len |-> Sent(h, s, k, j)]
Chunks(s, k) == {Sent(h, s, k, j) : h \in Sessions, j \in Nat \ {0}}

LEMMA OwnIs ==
    ASSUME NEW h \in Sessions, NEW s, NEW k, NEW len \in Nat
    PROVE  /\ Own(h, s, k, len) \in Seq(Chunks(s, k)) /\ Len(Own(h, s, k, len)) = len
           /\ \A x \in 1..len : Own(h, s, k, len)[x] = Sent(h, s, k, x) /\ Sent(h, s, k, x) \in Chunks(s, k)
  <1>1. \A x \in 1..len : Sent(h, s, k, x) \in Chunks(s, k)
    BY DEF Chunks
  <1>2. QED
    BY <1>1 DEF Own

-----------------------------------------------------------------------------
(***************************************************************************)
(* The attacks of the campaign.                                            *)
(***************************************************************************)
\* A chunk is missing.
LEMMA DropStrikes ==
    ASSUME NEW s \in Strategies, NEW k \in Nat, NEW kk \in Nat, NEW len \in Nat, NEW i \in 1..len
    PROVE  LET c == RemoveAt(Own(Hid, s, k, len), i)
           IN  Len(c) = len - 1 /\ Struck(s, kk, c, Closing(Hid, s, len), i - 1)
  <1>1. PICK own \in Seq(Chunks(s, k)) :
            own = Own(Hid, s, k, len) /\ Len(own) = len /\ \A x \in 1..len : own[x] = Sent(Hid, s, k, x)
    BY OwnIs DEF Sessions
  <1> DEFINE c == RemoveAt(own, i)
  <1>2. /\ Len(c) = len - 1 /\ Len(c) \in Nat
        /\ \A x \in 1..(len - 1) : c[x] = IF x < i THEN own[x] ELSE own[x + 1]
    <2>1. i \in 1..Len(own) /\ len - 1 \in Nat /\ Len(own) = len
      BY <1>1
    <2>2. /\ Len(c) = Len(own) - 1
          /\ \A x \in 1..(Len(own) - 1) : c[x] = IF x < i THEN own[x] ELSE own[x + 1]
      BY <2>1, Removed
    <2> HIDE DEF c
    <2>3. QED
      BY <2>1, <2>2
  <1> HIDE DEF c
  <1>3. Hid \in Sessions /\ len - 1 \in Nat
    BY DEF Sessions
  <1>4. CASE i < len
    <2>1. i \in 1..Len(c) /\ c[i] = Sent(Hid, s, k, i + 1) /\ i + 1 \in Nat \ {0} /\ i + 1 # i
      BY <1>1, <1>2, <1>4
    <2>2. Struck(s, kk, c, Closing(Hid, s, len), i - 1)
      BY <1>2, <1>3, <2>1, StrikesAt
    <2>3. QED
      BY <1>1, <1>2, <2>2 DEF c
  <1>5. CASE i = len
    <2>1. len # Len(c) /\ i - 1 = Len(c)
      BY <1>2, <1>5
    <2>2. Struck(s, kk, c, Closing(Hid, s, len), Len(c))
      BY <1>2, <1>3, <2>1, StrikesAtEnd
    <2>3. QED
      BY <1>1, <1>2, <2>1, <2>2 DEF c
  <1>6. QED
    BY <1>4, <1>5

\* Two neighbours are exchanged.
LEMMA ReorderStrikes ==
    ASSUME NEW s \in Strategies, NEW k \in Nat, NEW kk \in Nat, NEW len \in Nat, NEW i \in 1..(len - 1)
    PROVE  LET c == Swap(Own(Hid, s, k, len), i)
           IN  Len(c) = len /\ Struck(s, kk, c, Closing(Hid, s, len), i - 1)
  <1>1. PICK own \in Seq(Chunks(s, k)) :
            own = Own(Hid, s, k, len) /\ Len(own) = len /\ \A x \in 1..len : own[x] = Sent(Hid, s, k, x)
    BY OwnIs DEF Sessions
  <1> DEFINE c == Swap(own, i)
  <1>2. Len(c) = len /\ c[i] = own[i + 1]
    <2>1. i \in 1..(Len(own) - 1) /\ i \in 1..Len(own) /\ Len(own) = len
      BY <1>1
    <2>2. c \in Seq(Chunks(s, k)) /\ Len(c) = Len(own) /\ c[i] = own[i + 1]
      BY <2>1, Swapped, SMTT(30)
    <2>3. QED
      BY <2>1, <2>2, Zenon
  <1> HIDE DEF c
  <1>3. Hid \in Sessions /\ i \in 1..Len(c) /\ c[i] = Sent(Hid, s, k, i + 1) /\ i + 1 \in Nat \ {0} /\ i + 1 # i
    BY <1>1, <1>2 DEF Sessions
  <1>4. Struck(s, kk, c, Closing(Hid, s, len), i - 1)
    BY <1>2, <1>3, StrikesAt
  <1>5. QED
    BY <1>1, <1>2, <1>4 DEF c

\* A chunk arrives twice.
LEMMA DuplicateStrikes ==
    ASSUME NEW s \in Strategies, NEW k \in Nat, NEW kk \in Nat, NEW len \in Nat, NEW i \in 1..len
    PROVE  LET c == InsertAt(Own(Hid, s, k, len), i + 1, Own(Hid, s, k, len)[i])
           IN  Len(c) = len + 1 /\ Struck(s, kk, c, Closing(Hid, s, len), i)
  <1>1. PICK own \in Seq(Chunks(s, k)) :
            own = Own(Hid, s, k, len) /\ Len(own) = len /\ \A x \in 1..len : own[x] = Sent(Hid, s, k, x)
    BY OwnIs DEF Sessions
  <1>2. own[i] \in Chunks(s, k)
    BY <1>1, ElementOfSeq
  <1> DEFINE c == InsertAt(own, i + 1, own[i])
  <1>3. Len(c) = len + 1 /\ Len(c) \in Nat /\ c[i + 1] = own[i]
    <2>1. i \in 1..Len(own) /\ len + 1 \in Nat /\ Len(own) = len
      BY <1>1
    <2>2. PICK e \in Chunks(s, k), p \in Nat : e = own[i] /\ p = i + 1
      BY <1>2
    <2> DEFINE d == InsertAt(own, p, e)
    <2>3. Len(d) = Len(own) + 1 /\ d[p] = e
      BY <2>1, <2>2, Inserted, SMTT(30)
    <2>4. d = c
      BY <2>2, Zenon
    <2> HIDE DEF c, d
    <2>5. QED
      BY <2>1, <2>2, <2>3, <2>4
  <1> HIDE DEF c
  <1>4. Hid \in Sessions /\ i + 1 \in 1..Len(c) /\ c[i + 1] = Sent(Hid, s, k, i) /\ i \in Nat \ {0} /\ i # i + 1
    BY <1>1, <1>3 DEF Sessions
  <1>5. Struck(s, kk, c, Closing(Hid, s, len), i)
    <2>1. PICK j \in 1..Len(c) : j = i + 1 /\ j - 1 = i
      BY <1>4
    <2>2. c[j] = Sent(Hid, s, k, i) /\ i # j
      BY <1>4, <2>1
    <2>3. Struck(s, kk, c, Closing(Hid, s, len), j - 1)
      BY <1>3, <1>4, <2>2, StrikesAt
    <2>4. QED
      BY <2>1, <2>3
  <1>6. QED
    BY <1>1, <1>3, <1>5 DEF c

\* A chunk of another session takes the place of one.
LEMMA ReplayStrikes ==
    ASSUME NEW s \in Strategies, NEW k \in Nat, NEW kk \in Nat, NEW len \in Nat, NEW i \in 1..len,
           NEW j \in Nat \ {0}
    PROVE  LET c == [Own(Hid, s, k, len) EXCEPT ![i] = Sent(Other, s, k, j)]
           IN  /\ Len(c) = len /\ c[i] = Sent(Other, s, k, j)
               /\ Struck(s, kk, c, Closing(Hid, s, len), i - 1)
  <1>1. PICK own \in Seq(Chunks(s, k)) : own = Own(Hid, s, k, len) /\ Len(own) = len
    BY OwnIs DEF Sessions
  <1>2. PICK e \in Chunks(s, k) : e = Sent(Other, s, k, j)
    BY DEF Chunks, Sessions
  <1> DEFINE c == [own EXCEPT ![i] = e]
  <1>3. Len(c) = len /\ c[i] = e
    BY <1>1, Replaced
  <1> HIDE DEF c
  <1>4. Hid \in Sessions /\ Other \in Sessions /\ Other # Hid /\ i \in 1..Len(c)
    BY <1>3, DistinctIds DEF Sessions
  <1>5. Struck(s, kk, c, Closing(Hid, s, len), i - 1)
    BY <1>2, <1>3, <1>4, StrikesAt
  <1>6. QED
    BY <1>1, <1>2, <1>3, <1>5 DEF c

\* The stream is cut after a chunk.
LEMMA TruncateStrikes ==
    ASSUME NEW s \in Strategies, NEW k \in Nat, NEW kk \in Nat, NEW len \in Nat, NEW i \in 1..len
    PROVE  LET c == SubSeq(Own(Hid, s, k, len), 1, i)
           IN  /\ Len(c) = i /\ \A x \in 1..i : c[x] = Sent(Hid, s, k, x)
               /\ Struck(s, kk, c, None, i)
  <1>1. PICK own \in Seq(Chunks(s, k)) :
            own = Own(Hid, s, k, len) /\ Len(own) = len /\ \A x \in 1..len : own[x] = Sent(Hid, s, k, x)
    BY OwnIs DEF Sessions
  <1> DEFINE c == SubSeq(own, 1, i)
  <1>2. Len(c) = i /\ Len(c) \in Nat /\ \A x \in 1..i : c[x] = own[x]
    BY <1>1
  <1> HIDE DEF c
  <1>3. Struck(s, kk, c, None, Len(c))
    BY <1>2, StrikesAtEnd
  <1>4. QED
    BY <1>1, <1>2, <1>3 DEF c

\* A whole stream of another session.
LEMMA SessionStrikes ==
    ASSUME NEW s \in Strategies, NEW k \in Nat, NEW kk \in Nat, NEW len \in Nat
    PROVE  Struck(s, kk, Own(Other, s, k, len), Closing(Other, s, len), 0)
  <1>1. PICK own \in Seq(Chunks(s, k)) :
            own = Own(Other, s, k, len) /\ Len(own) = len /\ \A x \in 1..len : own[x] = Sent(Other, s, k, x)
    BY OwnIs DEF Sessions
  <1>2. Other \in Sessions /\ Other # Hid
    BY DistinctIds DEF Sessions
  <1>3. CASE len = 0
    BY <1>1, <1>2, <1>3, StrikesAtEnd
  <1>4. CASE len # 0
    <2>1. 1 \in 1..Len(own) /\ 1 \in Nat \ {0} /\ own[1] = Sent(Other, s, k, 1) /\ 1 - 1 = 0
      BY <1>1, <1>4
    <2>2. QED
      BY <1>1, <1>2, <2>1, StrikesAt
  <1>5. QED
    BY <1>3, <1>4

\* A scheduled checkpoint is missing.
LEMMA StripStrikes ==
    ASSUME NEW k \in Nat \ {0}, NEW c, Len(c) \in Nat, NEW final, NEW i \in 1..Len(c), i % k = 0,
           c[i].signature = None, NEW first \in Nat
    PROVE  Struck("hash_chain", k, c, final, first)
  <1>1. Rejects("hash_chain", k, c, i)
    BY ChainRejects
  <1>2. "hash_chain" \in Strategies
    BY DEF Strategies
  <1>3. QED
    BY <1>1, <1>2, StruckIf

Adaptive == {"checkpoint_strip", "checkpoint_strip_v2client", "checkpoint_move", "drop_before_ckpt",
             "drop_after_ckpt", "reorder_across"}
Static == {"drop", "reorder", "duplicate", "replay", "truncate", "session_replay"}

To(c, final, first) == [chunks |-> c, final |-> final, first |-> first]
SignedAt(c) == {i \in 1..Len(c) : c[i].signature # None}

\* The outcomes of the draws.
LEMMA StaticOutcomes ==
    ASSUME NEW s, NEW cap, NEW donor, NEW name \in Static, NEW m \in mutate(name, s, cap, donor)
    PROVE  \/ name = "drop" /\ \E i \in 1..Len(cap.chunks) : m = To(RemoveAt(cap.chunks, i), cap.final, i - 1)
           \/ name = "reorder" /\ \E i \in 1..(Len(cap.chunks) - 1) : m = To(Swap(cap.chunks, i), cap.final, i - 1)
           \/ name = "duplicate" /\ \E i \in 1..Len(cap.chunks) :
                m = To(InsertAt(cap.chunks, i + 1, cap.chunks[i]), cap.final, i)
           \/ name = "replay" /\ \E i \in 1..Min({Len(cap.chunks), Len(donor.chunks)}) :
                m = To([cap.chunks EXCEPT ![i] = donor.chunks[i]], cap.final, i - 1)
           \/ name = "truncate" /\ \E i \in 1..Len(cap.chunks) : m = To(SubSeq(cap.chunks, 1, i), None, i)
           \/ name = "session_replay" /\ m = To(donor.chunks, donor.final, 0)
  <1>1. CASE name = "drop"
    BY <1>1 DEF mutate, To
  <1>2. CASE name = "reorder"
    BY <1>2 DEF mutate, To
  <1>3. CASE name = "duplicate"
    BY <1>3 DEF mutate, To
  <1>4. CASE name = "replay"
    BY <1>4 DEF mutate, To
  <1>5. CASE name = "truncate"
    BY <1>5 DEF mutate, To
  <1>6. CASE name = "session_replay"
    BY <1>6 DEF mutate, To
  <1>7. QED
    BY <1>1, <1>2, <1>3, <1>4, <1>5, <1>6 DEF Static

\* What an attack on the checkpoints of c makes of the stream.
AdaptiveOutcome(name, c, len, final, m) ==
    \/ m = None
    \/ /\ name \in {"checkpoint_strip", "checkpoint_strip_v2client"} /\ SignedAt(c) # {}
       /\ m = To([i \in 1..len |-> Strip(c[i])], final,
                 Min(SignedAt(c)) - 1)
    \/ name = "checkpoint_move" /\ \E j \in SignedAt(c) :
         /\ j \in 1..(len - 1)
         /\ m = To([c EXCEPT ![j] = Strip(c[j]),
                                      ![j + 1].signature = c[j].signature], final, j - 1)
    \/ name = "drop_before_ckpt" /\ \E j \in 2..len :
         m = To(RemoveAt(c, j - 1), final, j - 2)
    \/ name = "drop_after_ckpt" /\ \E j \in 1..(len - 1) :
         m = To(RemoveAt(c, j + 1), final, j)
    \/ name = "reorder_across" /\ \E j \in 1..(len - 1) :
         m = To(Swap(c, j), final, j - 1)

LEMMA AdaptiveOutcomes ==
    ASSUME NEW s, NEW cap, NEW donor, NEW name \in Adaptive, NEW m \in mutate(name, s, cap, donor)
    PROVE  AdaptiveOutcome(name, cap.chunks, Len(cap.chunks), cap.final, m)
  <1>1. CASE name \in {"checkpoint_strip", "checkpoint_strip_v2client"}
    BY <1>1 DEF mutate, To, SignedAt, AdaptiveOutcome
  <1>2. CASE name = "checkpoint_move"
    BY <1>2 DEF mutate, To, SignedAt, AdaptiveOutcome
  <1>3. CASE name = "drop_before_ckpt"
    BY <1>3 DEF mutate, To, SignedAt, AdaptiveOutcome
  <1>4. CASE name = "drop_after_ckpt"
    BY <1>4 DEF mutate, To, SignedAt, AdaptiveOutcome
  <1>5. CASE name = "reorder_across"
    BY <1>5 DEF mutate, To, SignedAt, AdaptiveOutcome
  <1>6. QED
    BY <1>1, <1>2, <1>3, <1>4, <1>5 DEF Adaptive

\* Strip takes the signature and leaves the rest.
LEMMA StripIs ==
    ASSUME NEW h, NEW s, NEW k, NEW j
    PROVE  LET r == Sent(h, s, k, j) IN
           Strip(r).signature = None /\ Strip(r).n = r.n /\ Strip(r).env = r.env
  <1>1. ASSUME NEW num, NEW env, NEW hash, NEW sig
        PROVE  LET r == ChunkRow(num, env, hash, sig) IN
               Strip(r).signature = None /\ Strip(r).n = r.n /\ Strip(r).env = r.env
    BY DEF ChunkRow, Record, Strip
  <1>2. \E num, env, hash, sig : Sent(h, s, k, j) = ChunkRow(num, env, hash, sig)
    BY Zenon DEF Sent
  <1>3. QED
    BY <1>1, <1>2, Zenon

\* Stripped of its checkpoints a stream is accepted by the client that does
\* not enforce the schedule: nothing is out of place and nothing is signed.
LEMMA StripPasses ==
    ASSUME NEW k \in Nat, NEW len \in Nat, NEW c, Len(c) = len,
           \A x \in 1..len : c[x] = Strip(Sent(Hid, "hash_chain", k, x))
    PROVE  /\ replay_through_client("hash_chain", 0, c, Closing(Hid, "hash_chain", len)).pos = None
           /\ \A x \in 1..len : c[x].signature = None
  <1>1. Hid \in Sessions /\ "hash_chain" \in Strategies
    BY DEF Sessions, Strategies
  <1>2. ASSUME NEW x \in 1..len
        PROVE  c[x].signature = None /\ c[x].n = x - 1 /\ c[x].env = Env(Hid, x) /\ c[x].env.key = Hid
    <2>1. Sent(Hid, "hash_chain", k, x).n = x - 1 /\ Sent(Hid, "hash_chain", k, x).env = Env(Hid, x)
      BY <1>1, SentIs
    <2>2. /\ c[x].n = Sent(Hid, "hash_chain", k, x).n /\ c[x].env = Sent(Hid, "hash_chain", k, x).env
          /\ c[x].signature = None
      BY StripIs
    <2>3. Env(Hid, x).key = Hid
      BY <1>1, EnvIs
    <2>4. QED
      BY <2>1, <2>2, <2>3
  <1>3. InPlace(c, len)
    BY <1>2 DEF InPlace
  <1>4. \A x \in 1..Len(c) : ~Rejects("hash_chain", 0, c, x)
    BY <1>2, ChainRejects
  <1>5. FinalVerifies("hash_chain", c, Closing(Hid, "hash_chain", len))
    BY <1>1, <1>3, ChainEnds
  <1>6. QED
    BY <1>2, <1>4, <1>5, Replayed

\* A stream as it was sent is accepted.
LEMMA GenuinePasses ==
    ASSUME NEW s \in Strategies, NEW k \in Nat, NEW len \in Nat
    PROVE  replay_through_client(s, k, Own(Hid, s, k, len), Closing(Hid, s, len)).pos = None
  <1>1. PICK c : c = Own(Hid, s, k, len) /\ Len(c) = len /\ \A x \in 1..len : c[x] = Sent(Hid, s, k, x)
    <2>1. /\ Len(Own(Hid, s, k, len)) = len
          /\ \A x \in 1..len : Own(Hid, s, k, len)[x] = Sent(Hid, s, k, x)
      BY OwnIs DEF Sessions
    <2>2. QED
      BY <2>1, Zenon
  <1>2. \A x \in 1..len : ~Rejects(s, k, c, x) /\ InPlace(c, x)
    <2> TAKE x \in 1..len
    <2>1. x \in Nat \ {0} /\ \A y \in 1..x : c[y] = Sent(Hid, s, k, y)
      BY <1>1
    <2>2. QED
      BY <2>1, OwnPasses
  <1>3. InPlace(c, len)
    BY <1>2 DEF InPlace
  <1>4. FinalVerifies(s, c, Closing(Hid, s, len))
    BY <1>1, <1>3, PerChunkEnds, ChainEnds DEF Strategies, Sessions
  <1>5. QED
    BY <1>1, <1>2, <1>4, Replayed

\* What each attack leads to, whatever is drawn: the attack does not apply, or
\* it is noticed; the client without the schedule does not notice the strip.
Noticed(s, k, name, m) ==
    /\ Len(m.chunks) \in Nat /\ m.first \in Nat
    /\ IF name = "checkpoint_strip_v2client"
       THEN replay_through_client(s, 0, m.chunks, m.final).pos = None
       ELSE Struck(s, k, m.chunks, m.final, m.first)

LEMMA NoticedIf ==
    ASSUME NEW s, NEW k, NEW name, name # "checkpoint_strip_v2client", NEW c, NEW final, NEW first \in Nat,
           Len(c) \in Nat, Struck(s, k, c, final, first), NEW m, m = To(c, final, first)
    PROVE  Noticed(s, k, name, m)
  <1>1. m.chunks = c /\ m.final = final /\ m.first = first
    BY DEF To
  <1>2. QED
    BY <1>1, Zenon DEF Noticed

LEMMA StaticNoticed ==
    ASSUME NEW s \in Strategies, NEW k \in Nat, NEW len \in Nat, NEW dlen \in Nat,
           NEW name \in Static, NEW cap, NEW donor,
           cap.chunks = Own(Hid, s, k, len), cap.final = Closing(Hid, s, len),
           donor.chunks = Own(Other, s, k, dlen), donor.final = Closing(Other, s, dlen),
           NEW m \in mutate(name, s, cap, donor)
    PROVE  Noticed(s, k, name, m)
  <1>1. name # "checkpoint_strip_v2client"
    BY DEF Static
  <1>2. PICK own, other : own = Own(Hid, s, k, len) /\ other = Own(Other, s, k, dlen)
    OBVIOUS
  <1>3. /\ Len(own) = len /\ Len(other) = dlen
        /\ \A x \in 1..dlen : other[x] = Sent(Other, s, k, x)
    <2>1. Len(Own(Hid, s, k, len)) = len
      BY OwnIs DEF Sessions
    <2>2. /\ Len(Own(Other, s, k, dlen)) = dlen
          /\ \A x \in 1..dlen : Own(Other, s, k, dlen)[x] = Sent(Other, s, k, x)
      BY OwnIs DEF Sessions
    <2>3. QED
      BY <1>2, <2>1, <2>2, Zenon
  <1>4. \/ \E i \in 1..len : m = To(RemoveAt(own, i), Closing(Hid, s, len), i - 1)
        \/ \E i \in 1..(len - 1) : m = To(Swap(own, i), Closing(Hid, s, len), i - 1)
        \/ \E i \in 1..len : m = To(InsertAt(own, i + 1, own[i]), Closing(Hid, s, len), i)
        \/ \E i \in 1..Min({len, dlen}) : m = To([own EXCEPT ![i] = other[i]], Closing(Hid, s, len), i - 1)
        \/ \E i \in 1..len : m = To(SubSeq(own, 1, i), None, i)
        \/ m = To(other, Closing(Other, s, dlen), 0)
    BY <1>2, <1>3, StaticOutcomes, Zenon
  <1>5. ASSUME NEW i \in 1..len, m = To(RemoveAt(own, i), Closing(Hid, s, len), i - 1)
        PROVE  Noticed(s, k, name, m)
    <2>1. Len(RemoveAt(own, i)) = len - 1 /\ Struck(s, k, RemoveAt(own, i), Closing(Hid, s, len), i - 1)
      BY <1>2, DropStrikes, Zenon
    <2>2. len - 1 \in Nat /\ i - 1 \in Nat
      OBVIOUS
    <2>3. Len(RemoveAt(own, i)) \in Nat
      BY <2>1, <2>2, Zenon
    <2>4. QED
      BY <1>1, <1>5, <2>1, <2>2, <2>3, NoticedIf, Zenon
  <1>6. ASSUME NEW i \in 1..(len - 1), m = To(Swap(own, i), Closing(Hid, s, len), i - 1)
        PROVE  Noticed(s, k, name, m)
    <2>1. Len(Swap(own, i)) = len /\ Struck(s, k, Swap(own, i), Closing(Hid, s, len), i - 1)
      BY <1>2, ReorderStrikes, ZenonT(30)
    <2>2. i - 1 \in Nat
      OBVIOUS
    <2>3. Len(Swap(own, i)) \in Nat
      BY <2>1, Zenon
    <2>4. QED
      BY <1>1, <1>6, <2>1, <2>2, <2>3, NoticedIf, Zenon
  <1>7. ASSUME NEW i \in 1..len, m = To(InsertAt(own, i + 1, own[i]), Closing(Hid, s, len), i)
        PROVE  Noticed(s, k, name, m)
    <2>1. /\ Len(InsertAt(own, i + 1, own[i])) = len + 1
          /\ Struck(s, k, InsertAt(own, i + 1, own[i]), Closing(Hid, s, len), i)
      BY <1>2, DuplicateStrikes, Zenon
    <2>2. len + 1 \in Nat /\ i \in Nat
      OBVIOUS
    <2>3. Len(InsertAt(own, i + 1, own[i])) \in Nat
      BY <2>1, <2>2, Zenon
    <2>4. QED
      BY <1>1, <1>7, <2>1, <2>2, <2>3, NoticedIf, Zenon
  <1>8. ASSUME NEW i \in 1..Min({len, dlen}), m = To([own EXCEPT ![i] = other[i]], Closing(Hid, s, len), i - 1)
        PROVE  Noticed(s, k, name, m)
    <2>1. Min({len, dlen}) \in Nat /\ Min({len, dlen}) <= len /\ Min({len, dlen}) <= dlen
      <3>1. {len, dlen} \subseteq Nat /\ {len, dlen} # {}
        OBVIOUS
      <3>2. QED
        BY <3>1, Least
    <2>2. i \in 1..len /\ i \in 1..dlen /\ i \in Nat \ {0} /\ i - 1 \in Nat
      BY <2>1
    <2>3. other[i] = Sent(Other, s, k, i)
      BY <1>3, <2>2, Zenon
    <2>4. PICK e : e = Sent(Other, s, k, i)
      OBVIOUS
    <2>5. /\ Len([own EXCEPT ![i] = e]) = len
          /\ Struck(s, k, [own EXCEPT ![i] = e], Closing(Hid, s, len), i - 1)
      <3>1. LET c == [Own(Hid, s, k, len) EXCEPT ![i] = Sent(Other, s, k, i)]
            IN  /\ Len(c) = len /\ c[i] = Sent(Other, s, k, i)
                /\ Struck(s, k, c, Closing(Hid, s, len), i - 1)
        BY <2>2, ReplayStrikes, Zenon
      <3>2. QED
        BY <1>2, <2>4, <3>1, Zenon
    <2>6. Len([own EXCEPT ![i] = e]) \in Nat
      BY <2>5, Zenon
    <2>7. m = To([own EXCEPT ![i] = e], Closing(Hid, s, len), i - 1)
      BY <1>8, <2>3, <2>4, Zenon
    <2>8. QED
      BY <1>1, <2>2, <2>5, <2>6, <2>7, NoticedIf, Zenon
  <1>9. ASSUME NEW i \in 1..len, m = To(SubSeq(own, 1, i), None, i)
        PROVE  Noticed(s, k, name, m)
    <2>1. Len(SubSeq(own, 1, i)) = i /\ Struck(s, k, SubSeq(own, 1, i), None, i)
      <3>1. LET c == SubSeq(Own(Hid, s, k, len), 1, i)
            IN  /\ Len(c) = i /\ \A x \in 1..i : c[x] = Sent(Hid, s, k, x)
                /\ Struck(s, k, c, None, i)
        BY TruncateStrikes, Zenon
      <3>2. QED
        BY <1>2, <3>1, Zenon
    <2>2. i \in Nat
      OBVIOUS
    <2>3. Len(SubSeq(own, 1, i)) \in Nat
      BY <2>1, <2>2, Zenon
    <2>4. QED
      BY <1>1, <1>9, <2>1, <2>2, <2>3, NoticedIf, Zenon
  <1>10. CASE m = To(other, Closing(Other, s, dlen), 0)
    <2>1. Struck(s, k, other, Closing(Other, s, dlen), 0) /\ Len(other) \in Nat
      BY <1>2, <1>3, SessionStrikes, Zenon
    <2>2. 0 \in Nat
      OBVIOUS
    <2>3. QED
      BY <1>1, <1>10, <2>1, <2>2, NoticedIf, Zenon
  <1>11. QED
    BY <1>4, <1>5, <1>6, <1>7, <1>8, <1>9, <1>10, Zenon

LEMMA AdaptiveNoticed ==
    ASSUME NEW k \in Nat \ {0}, NEW len \in Nat, NEW name \in Adaptive, NEW cap, NEW donor,
           cap.chunks = Own(Hid, "hash_chain", k, len), cap.final = Closing(Hid, "hash_chain", len),
           NEW m \in mutate(name, "hash_chain", cap, donor)
    PROVE  m = None \/ Noticed("hash_chain", k, name, m)
  <1>1. PICK s, own, closing : s = "hash_chain" /\ own = Own(Hid, s, k, len) /\ closing = Closing(Hid, s, len)
    OBVIOUS
  <1>2. Hid \in Sessions /\ s \in Strategies /\ k \in Nat
    BY <1>1 DEF Sessions, Strategies
  <1>3. Len(own) = len /\ \A x \in 1..len : own[x] = Sent(Hid, s, k, x)
    <2>1. Len(Own(Hid, s, k, len)) = len /\ \A x \in 1..len : Own(Hid, s, k, len)[x] = Sent(Hid, s, k, x)
      BY <1>2, OwnIs
    <2>2. QED
      BY <1>1, <2>1, Zenon
  <1>4. \/ m = None
        \/ /\ name \in {"checkpoint_strip", "checkpoint_strip_v2client"} /\ SignedAt(own) # {}
           /\ m = To([i \in 1..len |-> Strip(own[i])], closing, Min(SignedAt(own)) - 1)
        \/ name = "checkpoint_move" /\ \E j \in SignedAt(own) :
             /\ j \in 1..(len - 1)
             /\ m = To([own EXCEPT ![j] = Strip(own[j]), ![j + 1].signature = own[j].signature], closing, j - 1)
        \/ name = "drop_before_ckpt" /\ \E j \in 2..len : m = To(RemoveAt(own, j - 1), closing, j - 2)
        \/ name = "drop_after_ckpt" /\ \E j \in 1..(len - 1) : m = To(RemoveAt(own, j + 1), closing, j)
        \/ name = "reorder_across" /\ \E j \in 1..(len - 1) : m = To(Swap(own, j), closing, j - 1)
    <2>1. cap.chunks = own /\ cap.final = closing /\ m \in mutate(name, s, cap, donor) /\ Len(own) = len
      BY <1>1, <1>3, Zenon
    <2>2. AdaptiveOutcome(name, cap.chunks, Len(cap.chunks), cap.final, m)
      BY <2>1, AdaptiveOutcomes, Zenon
    <2>3. AdaptiveOutcome(name, own, len, closing, m)
      BY <2>1, <2>2, Zenon
    <2>4. QED
      BY <2>3, Zenon DEF AdaptiveOutcome
  \* A signed chunk is one at a multiple of the interval.
  <1>5. ASSUME NEW j \in SignedAt(own)
        PROVE  j \in 1..len /\ j % k = 0
    <2>1. j \in 1..len /\ own[j].signature # None /\ own[j] = Sent(Hid, s, k, j) /\ j \in Nat \ {0}
      BY <1>3 DEF SignedAt
    <2>2. Sent(Hid, s, k, j).signature = IF k > 0 /\ j % k = 0 THEN Checkpoint(Hid, j) ELSE None
      BY <1>1, <1>2, <2>1, SentIs
    <2>3. QED
      BY <2>1, <2>2
  \* A chunk is missing.
  <1>6. ASSUME name # "checkpoint_strip_v2client", NEW i \in 1..len, m = To(RemoveAt(own, i), closing, i - 1)
        PROVE  Noticed(s, k, name, m)
    <2>1. Len(RemoveAt(own, i)) = len - 1 /\ Struck(s, k, RemoveAt(own, i), closing, i - 1)
      BY <1>1, <1>2, DropStrikes, ZenonT(30)
    <2>2. len - 1 \in Nat /\ i - 1 \in Nat
      OBVIOUS
    <2>3. Len(RemoveAt(own, i)) \in Nat
      BY <2>1, <2>2, Zenon
    <2>4. QED
      BY <1>6, <2>1, <2>2, <2>3, NoticedIf, Zenon
  <1>7. ASSUME name \in {"checkpoint_strip", "checkpoint_strip_v2client"}, SignedAt(own) # {},
               m = To([i \in 1..len |-> Strip(own[i])], closing, Min(SignedAt(own)) - 1)
        PROVE  Noticed(s, k, name, m)
    <2> DEFINE c == [i \in 1..len |-> Strip(own[i])]
    <2>1. Len(c) = len /\ \A x \in 1..len : c[x] = Strip(own[x])
      OBVIOUS
    <2> HIDE DEF c
    <2>2. \A x \in 1..len : c[x] = Strip(Sent(Hid, "hash_chain", k, x))
      BY <1>1, <1>3, <2>1, Zenon
    <2>3. /\ replay_through_client("hash_chain", 0, c, Closing(Hid, "hash_chain", len)).pos = None
          /\ \A x \in 1..len : c[x].signature = None
      BY <1>2, <2>1, <2>2, StripPasses, ZenonT(30)
    <2>4. PICK j \in SignedAt(own) : j = Min(SignedAt(own))
      <3>1. SignedAt(own) \subseteq Nat
        BY DEF SignedAt
      <3>2. Min(SignedAt(own)) \in SignedAt(own)
        BY <1>7, <3>1, Least
      <3>3. QED
        BY <3>2, Zenon
    <2>5. j \in 1..Len(c) /\ j % k = 0 /\ c[j].signature = None /\ j - 1 \in Nat /\ Len(c) \in Nat
      <3>1. j \in 1..len /\ j % k = 0
        BY <1>5
      <3>2. QED
        BY <2>1, <2>3, <3>1
    <2>6. Struck("hash_chain", k, c, closing, j - 1)
      BY <2>5, StripStrikes, Zenon
    <2>7. m = To(c, closing, j - 1)
      BY <1>7, <2>4, Zenon DEF c
    <2>8. m.chunks = c /\ m.final = closing /\ m.first = j - 1
      BY <2>7 DEF To
    <2>9. QED
      BY <1>1, <2>3, <2>5, <2>6, <2>8, Zenon DEF Noticed
  <1>8. ASSUME name = "checkpoint_move", NEW j \in SignedAt(own), j \in 1..(len - 1),
               m = To([own EXCEPT ![j] = Strip(own[j]), ![j + 1].signature = own[j].signature], closing, j - 1)
        PROVE  Noticed(s, k, name, m)
    <2> DEFINE c == [own EXCEPT ![j] = Strip(own[j]), ![j + 1].signature = own[j].signature]
    <2>1. own \in Seq(Chunks(s, k))
      <3>1. Own(Hid, s, k, len) \in Seq(Chunks(s, k))
        BY <1>2, OwnIs
      <3>2. QED
        BY <1>1, <3>1, Zenon
    <2>2. Len(c) = len /\ c[j] = Strip(own[j])
      <3>1. PICK d, e : d = Strip(own[j]) /\ e = own[j].signature
        OBVIOUS
      <3>2. j \in 1..len /\ j + 1 \in 1..len /\ j # j + 1
        BY <1>8
      <3>3. DOMAIN own = 1..len
        BY <1>3, <2>1
      <3>4. c = [own EXCEPT ![j] = d, ![j + 1].signature = e]
        BY <3>1, Zenon
      <3>5. DOMAIN c = 1..len /\ c[j] = d
        <4>1. DOMAIN [own EXCEPT ![j] = d, ![j + 1].signature = e] = 1..len
          BY <3>3
        <4>2. [own EXCEPT ![j] = d, ![j + 1].signature = e][j] = d
          BY <3>2, <3>3
        <4>3. QED
          BY <3>4, <4>1, <4>2, Zenon
      <3> HIDE DEF c
      <3>6. Len(c) = len
        BY <3>5
      <3>7. QED
        BY <3>1, <3>5, <3>6, Zenon
    <2> HIDE DEF c
    <2>3. j \in 1..len /\ j % k = 0 /\ j - 1 \in Nat
      BY <1>5
    <2>4. c[j].signature = None
      <3>1. own[j] = Sent(Hid, s, k, j)
        BY <1>3, <2>3, Zenon
      <3>2. QED
        BY <2>2, <3>1, StripIs, Zenon
    <2>5. Struck("hash_chain", k, c, closing, j - 1)
      BY <2>2, <2>3, <2>4, StripStrikes, Zenon
    <2>6. m = To(c, closing, j - 1) /\ name # "checkpoint_strip_v2client" /\ Len(c) \in Nat
      BY <1>8, <2>2 DEF c
    <2>7. QED
      BY <1>1, <2>3, <2>5, <2>6, NoticedIf, Zenon
  <1>9. ASSUME name = "drop_before_ckpt", NEW j \in 2..len, m = To(RemoveAt(own, j - 1), closing, j - 2)
        PROVE  Noticed(s, k, name, m)
    <2>1. PICK i \in 1..len : i = j - 1 /\ i - 1 = j - 2
      OBVIOUS
    <2>2. m = To(RemoveAt(own, i), closing, i - 1) /\ name # "checkpoint_strip_v2client"
      BY <1>9, <2>1
    <2>3. QED
      BY <1>6, <2>2
  <1>10. ASSUME name = "drop_after_ckpt", NEW j \in 1..(len - 1), m = To(RemoveAt(own, j + 1), closing, j)
         PROVE  Noticed(s, k, name, m)
    <2>1. PICK i \in 1..len : i = j + 1 /\ i - 1 = j
      OBVIOUS
    <2>2. m = To(RemoveAt(own, i), closing, i - 1) /\ name # "checkpoint_strip_v2client"
      BY <1>10, <2>1
    <2>3. QED
      BY <1>6, <2>2
  <1>11. ASSUME name = "reorder_across", NEW j \in 1..(len - 1), m = To(Swap(own, j), closing, j - 1)
         PROVE  Noticed(s, k, name, m)
    <2>1. Len(Swap(own, j)) = len /\ Struck(s, k, Swap(own, j), closing, j - 1)
      BY <1>1, <1>2, ReorderStrikes, ZenonT(30)
    <2>2. j - 1 \in Nat /\ name # "checkpoint_strip_v2client"
      BY <1>11
    <2>3. Len(Swap(own, j)) \in Nat
      BY <2>1, Zenon
    <2>4. QED
      BY <1>11, <2>1, <2>2, <2>3, NoticedIf, Zenon
  <1>12. m = None \/ Noticed(s, k, name, m)
    BY <1>4, <1>7, <1>8, <1>9, <1>10, <1>11, Zenon
  <1>13. QED
    BY <1>1, <1>12, Zenon

\* Every attack of the campaign, on any stream and whatever is drawn.
LEMMA EveryOutcome ==
    ASSUME NEW s \in Strategies, NEW k \in Nat, NEW len \in Nat, NEW dlen \in Nat,
           NEW name \in Static \cup Adaptive, name \in Adaptive => s = "hash_chain" /\ k > 0,
           NEW m \in mutate(name, s, Captured(Hid, s, k, len), Captured(Other, s, k, dlen))
    PROVE  m = None \/ Noticed(s, k, name, m)
  <1>1. /\ Captured(Hid, s, k, len).chunks = Own(Hid, s, k, len)
        /\ Captured(Hid, s, k, len).final = Closing(Hid, s, len)
    BY CapturedIs, ZenonT(30) DEF Own, Sessions
  <1>2. /\ Captured(Other, s, k, dlen).chunks = Own(Other, s, k, dlen)
        /\ Captured(Other, s, k, dlen).final = Closing(Other, s, dlen)
    BY CapturedIs, Zenon DEF Own, Sessions
  <1>3. CASE name \in Static
    BY <1>1, <1>2, <1>3, StaticNoticed, Zenon
  <1>4. CASE name \in Adaptive
    <2>1. s = "hash_chain" /\ k \in Nat \ {0}
      BY <1>4
    <2>2. QED
      BY <1>1, <1>4, <2>1, AdaptiveNoticed, Zenon
  <1>5. QED
    BY <1>3, <1>4

-----------------------------------------------------------------------------
(***************************************************************************)
(* The campaign: what the counts and the row last reported are worth.      *)
(***************************************************************************)
Weak == "checkpoint_strip_v2client"

\* The trials of the attack under way have been counted right.
CountsInv ==
    /\ at \notin 1..Len(attacks) => NoCounts
    /\ at \in 1..Len(attacks) => det = IF attack = Weak THEN 0 ELSE n
    /\ cell.strategy = "per_chunk" => exposures \subseteq {0} /\ unverified \subseteq {0}
    /\ (at \in 1..Len(attacks) /\ cell.k > 0 /\ attack # Weak) => \A u \in unverified : u < cell.k

RowInv == EveryAttackDetected /\ PerChunkExposesNothing /\ UnverifiedBelowInterval

CampaignInv == TypeOK /\ CountsInv /\ RowInv

LEMMA CellIs ==
    ASSUME cell \in Cells
    PROVE  cell.strategy \in Strategies /\ cell.k \in Nat
  BY CampaignAssumption DEF Strategies

\* Two tables of six, one after the other, and one alone.
LEMMA Tables ==
    ASSUME NEW S, NEW x \in Seq(S), NEW y \in Seq(S), Len(x) = 6, Len(y) = 6
    PROVE  /\ Len(x \o y) = 12 /\ \A i \in 1..12 : (x \o y)[i] \in S
           /\ x \o <<>> = x
  <1>1. PICK z \in Seq(S) : z = x \o y /\ Len(z) = 12
    <2>1. x \o y \in Seq(S) /\ Len(x \o y) = Len(x) + Len(y)
      BY ConcatProperties
    <2>2. Len(x) + Len(y) = 12
      OBVIOUS
    <2>3. QED
      BY <2>1, <2>2, Zenon
  <1>2. \A i \in 1..12 : z[i] \in S
    BY <1>1
  <1>3. x \o <<>> = x
    BY ConcatEmptySeq
  <1>4. QED
    BY <1>1, <1>2, <1>3

\* The table of attacks.
AttackTable(table) ==
    /\ Len(table) \in Nat /\ Len(table) > 0
    /\ \A i \in 1..Len(table) :
          /\ table[i] \in Static \cup Adaptive
          /\ table[i] \in Adaptive => cell.strategy = "hash_chain" /\ cell.k > 0

LEMMA AttackIs == AttackTable(attacks)
  <1>1. /\ STATIC \in Seq(Static) /\ Len(STATIC) = 6
        /\ \A i \in 1..6 : STATIC[i] \in Static /\ STATIC[i] \notin Adaptive
    BY DEF STATIC, Static, Adaptive
  <1>2. ADAPTIVE \in Seq(Adaptive) /\ Len(ADAPTIVE) = 6 /\ \A i \in 1..6 : ADAPTIVE[i] \in Adaptive
    BY DEF ADAPTIVE, Adaptive
  <1>3. PICK S : S = Static \cup Adaptive
    OBVIOUS
  <1>4. STATIC \in Seq(S) /\ ADAPTIVE \in Seq(S)
    BY <1>1, <1>2, <1>3
  <1>5. /\ Len(STATIC \o ADAPTIVE) = 12 /\ \A i \in 1..12 : (STATIC \o ADAPTIVE)[i] \in S
        /\ STATIC \o <<>> = STATIC
    BY <1>1, <1>2, <1>4, Tables, ZenonT(30)
  <1>6. CASE cell.strategy = "hash_chain" /\ cell.k > 0
    <2>1. PICK table : table = STATIC \o ADAPTIVE
      OBVIOUS
    <2>2. Len(table) = 12 /\ \A i \in 1..12 : table[i] \in S
      BY <1>5, <2>1, Zenon
    <2>3. AttackTable(table)
      BY <1>3, <1>6, <2>2 DEF AttackTable
    <2>4. attacks = table
      BY <1>6, <2>1, Zenon DEF attacks
    <2>5. QED
      BY <2>3, <2>4, Zenon
  <1>7. CASE ~(cell.strategy = "hash_chain" /\ cell.k > 0)
    <2>1. AttackTable(STATIC)
      BY <1>1 DEF AttackTable
    <2>2. attacks = STATIC
      BY <1>5, <1>7, Zenon DEF attacks
    <2>3. QED
      BY <2>1, <2>2, Zenon
  <1>8. QED
    BY <1>6, <1>7

\* A trial that is judged is counted right.
LEMMA JudgedCounts ==
    ASSUME CampaignInv, at \in 1..Len(attacks), MoreTries,
           NEW m, NEW result, Noticed(cell.strategy, cell.k, attack, m),
           result = replay_through_client(cell.strategy, IF attack = Weak THEN 0 ELSE cell.k, m.chunks, m.final),
           Judged(m, result)
    PROVE  /\ n' = n + 1 /\ det' = (IF attack = Weak THEN 0 ELSE n + 1) /\ det' \in 0..n' /\ mid' \in 0..det'
           /\ exposures' \subseteq Nat /\ unverified' \subseteq Nat
           /\ cell.strategy = "per_chunk" => exposures' \subseteq {0} /\ unverified' \subseteq {0}
           /\ (cell.k > 0 /\ attack # Weak) => \A u \in unverified' : u < cell.k
  <1>1. /\ n \in Nat /\ det \in 0..n /\ mid \in 0..det /\ exposures \subseteq Nat /\ unverified \subseteq Nat
        /\ cell \in Cells /\ det = IF attack = Weak THEN 0 ELSE n
        /\ cell.strategy = "per_chunk" => exposures \subseteq {0} /\ unverified \subseteq {0}
        /\ (cell.k > 0 /\ attack # Weak) => \A u \in unverified : u < cell.k
    BY CampaignAssumption DEF CampaignInv, TypeOK, CountsInv
  <1>2. n' = n + 1
    BY DEF Judged
  <1>3. PICK size \in Nat, first \in Nat : size = Len(m.chunks) /\ first = m.first
    BY DEF Noticed
  <1>4. CASE attack = Weak
    <2>1. result.pos = None
      BY <1>4 DEF Noticed, Weak
    <2>2. attack \in Adaptive
      BY <1>4 DEF Weak, Adaptive
    <2>3. cell.strategy # "per_chunk"
      BY <2>2, AttackIs DEF attack, AttackTable
    <2>4. det' = det /\ mid' = mid /\ exposures' = exposures /\ unverified' = unverified \cup {size}
      BY <1>3, <1>4, <2>1 DEF Judged, Weak
    <2>5. QED
      BY <1>1, <1>2, <1>4, <2>3, <2>4
  <1>5. CASE attack # Weak
    <2>1. result = replay_through_client(cell.strategy, cell.k, m.chunks, m.final)
      BY <1>5
    <2>2. Struck(cell.strategy, cell.k, m.chunks, m.final, m.first)
      BY <1>5 DEF Noticed, Weak
    <2>3. /\ result.pos \in 0..size /\ result.pos # None
          /\ result.pos - result.covered \in Nat
          /\ cell.strategy = "per_chunk" => result.pos <= first /\ result.pos - result.covered = 0
          /\ cell.k > 0 => result.pos - result.covered < cell.k
      BY <1>3, <2>1, <2>2 DEF Struck
    <2>4. PICK pos \in 0..size, gap \in Nat : pos = result.pos /\ gap = result.pos - result.covered
      BY <2>3
    <2>5. /\ pos # None
          /\ cell.strategy = "per_chunk" => pos <= first /\ gap = 0
          /\ cell.k > 0 => gap < cell.k
      BY <2>3, <2>4
    <2>6. pos - first \in Int
      OBVIOUS
    <2>7. PICK shown \in Nat : shown = Max({0, pos - first}) /\ (pos - first <= 0 => shown = 0)
      BY <2>6, NotNegative
    <2>8. /\ det' = det + 1 /\ mid' = (IF pos < size THEN mid + 1 ELSE mid)
          /\ exposures' = exposures \cup {shown} /\ unverified' = unverified \cup {gap}
      BY <1>3, <2>4, <2>5, <2>7 DEF Judged
    <2>9. cell.strategy = "per_chunk" => shown = 0 /\ gap = 0
      BY <2>5, <2>7
    <2>10. /\ det' = n + 1 /\ det' \in 0..n' /\ mid' \in 0..det'
      BY <1>1, <1>2, <1>5, <2>8
    <2>11. /\ exposures' \subseteq Nat /\ unverified' \subseteq Nat
           /\ cell.strategy = "per_chunk" => exposures' \subseteq {0} /\ unverified' \subseteq {0}
      BY <1>1, <2>8, <2>9
    <2>12. (cell.k > 0 /\ attack # Weak) => \A u \in unverified' : u < cell.k
      BY <1>1, <2>5, <2>8
    <2>13. QED
      BY <1>2, <1>5, <2>10, <2>11, <2>12
  <1>6. QED
    BY <1>4, <1>5

LEMMA CampaignInit ==
    ASSUME Init
    PROVE  CampaignInv
  <1>1. cell \in Cells /\ at = 0 /\ NoCounts /\ row = None /\ outcome = "running"
    BY DEF Init
  <1>2. TypeOK
    BY <1>1, AttackIs, CampaignAssumption DEF TypeOK, NoCounts, AttackTable
  <1>3. CountsInv
    BY <1>1 DEF CountsInv, NoCounts
  <1>4. QED
    BY <1>1, <1>2, <1>3 DEF CampaignInv, RowInv, EveryAttackDetected, PerChunkExposesNothing, UnverifiedBelowInterval

\* What a step that leaves the cell alone leaves alone with it.
LEMMA SameTable ==
    ASSUME cell' = cell
    PROVE  attacks' = attacks /\ (at' = at => attack' = attack)
  BY DEF attacks, attack

\* No genuine stream is rejected.
LEMMA BaselineKeeps ==
    ASSUME CampaignInv, Baseline
    PROVE  CampaignInv'
  <1>1. /\ cell \in Cells /\ at = 0 /\ NoCounts /\ TypeOK
        /\ cell.strategy \in Strategies /\ cell.k \in Nat
    <2>1. at = 0 /\ cell \in Cells /\ TypeOK /\ CountsInv
      BY DEF Baseline, CampaignInv, TypeOK
    <2>2. QED
      BY <2>1, CellIs DEF CountsInv
  <1> DEFINE rejected == {len \in PoolLengths :
               LET cap == Captured(Hid, cell.strategy, cell.k, len)
               IN  replay_through_client(cell.strategy, cell.k, cap.chunks, cap.final).pos # None}
  <1>2. rejected = {}
    <2> SUFFICES ASSUME NEW len \in PoolLengths
                 PROVE  LET cap == Captured(Hid, cell.strategy, cell.k, len)
                        IN  replay_through_client(cell.strategy, cell.k, cap.chunks, cap.final).pos = None
      OBVIOUS
    <2>1. len \in Nat
      BY CampaignAssumption
    <2>2. PICK s \in Strategies, k \in Nat : s = cell.strategy /\ k = cell.k
      BY <1>1
    <2>3. Captured(Hid, s, k, len).chunks = Own(Hid, s, k, len) /\ Captured(Hid, s, k, len).final = Closing(Hid, s, len)
      BY <2>1, CapturedIs, Zenon DEF Own, Sessions
    <2>4. replay_through_client(s, k, Own(Hid, s, k, len), Closing(Hid, s, len)).pos = None
      BY <2>1, GenuinePasses
    <2>5. QED
      BY <2>2, <2>3, <2>4, Zenon
  <1>3. row' = Row("benign", Cardinality(PoolLengths), 0)
    <2>1. Cardinality({}) = 0
      BY FS_EmptySet
    <2>2. row' = Row("benign", Cardinality(PoolLengths), Cardinality(rejected))
      BY DEF Baseline
    <2> HIDE DEF rejected
    <2>3. QED
      BY <1>2, <2>1, <2>2, Zenon
  <1>4. row'.attack = "benign" /\ row'.detected = 0 /\ row'.exposure_chunks = {} /\ row'.unverified_at_detection = {}
    BY <1>1, <1>3 DEF Row, NoCounts
  <1>5. cell' = cell /\ at' = 1 /\ outcome' = outcome /\ NoCounts'
    BY <1>1 DEF Baseline, counts, NoCounts
  <1>6. TypeOK'
    <2>1. attacks' = attacks
      BY <1>5, SameTable
    <2>2. QED
      BY <1>1, <1>5, <2>1, AttackIs, CampaignAssumption DEF TypeOK, NoCounts, AttackTable
  <1>7. CountsInv'
    BY <1>5 DEF CountsInv, NoCounts
  <1>8. RowInv'
    BY <1>4 DEF RowInv, EveryAttackDetected, PerChunkExposesNothing, UnverifiedBelowInterval
  <1>9. QED
    BY <1>6, <1>7, <1>8 DEF CampaignInv

LEMMA TryKeeps ==
    ASSUME CampaignInv, NEW len \in PoolLengths, NEW donor_len \in PoolLengths, Try(len, donor_len)
    PROVE  CampaignInv'
  <1>1. /\ cell \in Cells /\ at \in 1..Len(attacks) /\ TypeOK /\ CountsInv /\ RowInv /\ MoreTries
        /\ tries' = tries + 1 /\ cell' = cell /\ at' = at /\ row' = row
    BY DEF CampaignInv, TypeOK, Try, CountTry
  <1>2. cell.strategy \in Strategies /\ cell.k \in Nat /\ len \in Nat /\ donor_len \in Nat
    BY <1>1, CellIs, CampaignAssumption
  <1>3. attacks' = attacks /\ attack' = attack
    BY <1>1, SameTable
  <1>4. RowInv'
    BY <1>1 DEF RowInv, EveryAttackDetected, PerChunkExposesNothing, UnverifiedBelowInterval
  <1>5. /\ n \in 0..Trials /\ tries \in n..(5 * Trials) /\ n < Trials /\ tries < 5 * Trials
        /\ Trials \in Nat /\ outcome \in {"running", "returned", "raised"}
    BY <1>1, CampaignAssumption DEF TypeOK, MoreTries
  <1> DEFINE s == cell.strategy
             cap == Captured(Hid, s, cell.k, len)
             donor == Captured(Other, s, cell.k, donor_len)
             checked_k == IF attack = Weak THEN 0 ELSE cell.k
  <1>6. CASE UNCHANGED <<n, det, mid, exposures, unverified>> /\ outcome' \in {outcome, "raised"}
    <2>1. TypeOK'
      BY <1>1, <1>3, <1>5, <1>6 DEF TypeOK
    <2>2. CountsInv'
      BY <1>1, <1>3, <1>6 DEF CountsInv
    <2>3. QED
      BY <1>4, <2>1, <2>2 DEF CampaignInv
  <1>7. ASSUME NEW m \in mutate(attack, s, cap, donor), m # None,
               Judged(m, replay_through_client(s, checked_k, m.chunks, m.final)), outcome' = outcome
        PROVE  CampaignInv'
    <2>1. attack \in Static \cup Adaptive /\ (attack \in Adaptive => s = "hash_chain" /\ cell.k > 0)
      BY <1>1, AttackIs DEF attack, AttackTable
    <2>2. Noticed(s, cell.k, attack, m)
      BY <1>2, <1>7, <2>1, EveryOutcome, Zenon
    <2>3. /\ n' = n + 1 /\ det' = (IF attack = Weak THEN 0 ELSE n + 1) /\ det' \in 0..n' /\ mid' \in 0..det'
          /\ exposures' \subseteq Nat /\ unverified' \subseteq Nat
          /\ cell.strategy = "per_chunk" => exposures' \subseteq {0} /\ unverified' \subseteq {0}
          /\ (cell.k > 0 /\ attack # Weak) => \A u \in unverified' : u < cell.k
      BY <1>1, <1>7, <2>2, JudgedCounts, Zenon
    <2>4. TypeOK'
      BY <1>1, <1>3, <1>5, <1>7, <2>3 DEF TypeOK
    <2>5. CountsInv'
      BY <1>1, <1>3, <2>3 DEF CountsInv
    <2>6. QED
      BY <1>4, <2>4, <2>5 DEF CampaignInv
  <1>8. \/ outcome' = "raised" /\ UNCHANGED <<n, det, mid, exposures, unverified>>
        \/ /\ \E m \in mutate(attack, s, cap, donor) :
                \/ UNCHANGED <<n, det, mid, exposures, unverified>>
                \/ m # None /\ Judged(m, replay_through_client(s, checked_k, m.chunks, m.final))
           /\ outcome' = outcome
    BY Zenon DEF Try, Weak
  <1>9. QED
    BY <1>6, <1>7, <1>8

LEMMA NextAttackKeeps ==
    ASSUME CampaignInv, NextAttack
    PROVE  CampaignInv'
  <1>1. /\ cell \in Cells /\ at \in 1..Len(attacks) /\ TypeOK /\ CountsInv
        /\ cell' = cell /\ at' = at + 1 /\ outcome' = outcome /\ NoCounts' /\ row' = Row(attack, n, det)
    BY DEF CampaignInv, TypeOK, NextAttack, NoCounts
  <1>2. attacks' = attacks
    BY <1>1, SameTable
  <1>3. TypeOK'
    BY <1>1, <1>2, AttackIs, CampaignAssumption DEF TypeOK, NoCounts, AttackTable
  <1>4. CountsInv'
    BY <1>1 DEF CountsInv, NoCounts
  <1>5. /\ row'.attack = attack /\ row'.detected = det /\ row'.n = n
        /\ row'.exposure_chunks = exposures /\ row'.unverified_at_detection = unverified
    BY <1>1 DEF Row
  <1>6. attack # "benign"
    BY <1>1, AttackIs DEF attack, AttackTable, Static, Adaptive
  <1>7. EveryAttackDetected'
    BY <1>1, <1>5, <1>6 DEF EveryAttackDetected, CountsInv, Weak
  <1>8. PerChunkExposesNothing' /\ UnverifiedBelowInterval'
    BY <1>1, <1>5 DEF PerChunkExposesNothing, UnverifiedBelowInterval, CountsInv, Weak
  <1>9. QED
    BY <1>3, <1>4, <1>7, <1>8 DEF CampaignInv, RowInv

\* A step after which the cell, the attack, the counts and the row are the same.
LEMMA SameKeeps ==
    ASSUME CampaignInv, UNCHANGED <<cell, at, counts, row>>, outcome' \in {outcome, "returned"}
    PROVE  CampaignInv'
  <1>1. attacks' = attacks /\ attack' = attack
    BY SameTable
  <1>2. TypeOK'
    BY <1>1 DEF CampaignInv, TypeOK, counts
  <1>3. CountsInv'
    BY <1>1 DEF CampaignInv, CountsInv, counts, NoCounts
  <1>4. RowInv'
    BY DEF CampaignInv, RowInv, EveryAttackDetected, PerChunkExposesNothing, UnverifiedBelowInterval
  <1>5. QED
    BY <1>2, <1>3, <1>4 DEF CampaignInv

LEMMA CampaignNext ==
    ASSUME CampaignInv, [Next]_vars
    PROVE  CampaignInv'
  <1>1. CASE Baseline
    BY <1>1, BaselineKeeps
  <1>2. CASE NextAttack
    BY <1>2, NextAttackKeeps
  <1>3. CASE Return \/ Finished \/ UNCHANGED vars
    BY <1>3, SameKeeps DEF Return, Finished, vars
  <1>4. ASSUME NEW len \in PoolLengths, NEW donor_len \in PoolLengths, Try(len, donor_len)
        PROVE  CampaignInv'
    BY <1>4, TryKeeps
  <1>5. QED
    BY <1>1, <1>2, <1>3, <1>4 DEF Next

-----------------------------------------------------------------------------
(***************************************************************************)
(* The experiment: every attack in the middle of the stream.               *)
(***************************************************************************)
\* How often a number of valid trials of an attack are noticed mid-stream.
MidAs(name, total, count) ==
    /\ count \in Nat
    /\ name = "truncate" => count = 0
    /\ name # "truncate" /\ cell.strategy = "per_chunk" => count = total
    /\ name # "truncate" /\ cell.strategy = "hash_chain" /\ cell.k = 0 =>
          count = IF name = "replay" THEN total ELSE 0

\* Chunks of the session itself that carry no checkpoint are not rejected.
LEMMA Unsigned ==
    ASSUME NEW c, NEW S, S = {Sent(Hid, "hash_chain", 0, j) : j \in Nat \ {0}}, c \in Seq(S)
    PROVE  \A i \in 1..Len(c) : ~Rejects("hash_chain", 0, c, i)
  <1> TAKE i \in 1..Len(c)
  <1>1. i \in Nat \ {0} /\ c[i] \in S
    OBVIOUS
  <1>2. PICK j \in Nat \ {0} : c[i] = Sent(Hid, "hash_chain", 0, j)
    BY <1>1
  <1>3. Hid \in Sessions /\ "hash_chain" \in Strategies /\ 0 \in Nat /\ ~(0 > 0) /\ j \in Nat
    BY DEF Sessions, Strategies
  <1>4. c[i].env = Env(Hid, j) /\ c[i].signature = None
    <2>1. /\ Sent(Hid, "hash_chain", 0, j).env = Env(Hid, j)
          /\ Sent(Hid, "hash_chain", 0, j).signature = IF 0 > 0 /\ j % 0 = 0 THEN Checkpoint(Hid, j) ELSE None
      BY <1>3, SentIs, Zenon
    <2>2. QED
      BY <1>2, <1>3, <2>1
  <1>5. Env(Hid, j).key = Hid
    BY <1>3, EnvIs
  <1>6. QED
    BY <1>1, <1>3, <1>4, <1>5, ChainRejects

\* Noticed only when the stream is over.
LEMMA Late ==
    ASSUME NEW s, NEW k, NEW c, Len(c) \in Nat, NEW final, NEW first, Struck(s, k, c, final, first),
           \A i \in 1..Len(c) : ~Rejects(s, k, c, i)
    PROVE  replay_through_client(s, k, c, final).pos = Len(c)
  <1>1. PICK result : result = replay_through_client(s, k, c, final)
    OBVIOUS
  <1>2. result.pos \in 0..Len(c) /\ result.pos # None
    BY <1>1, Zenon DEF Struck
  <1>3. result.pos = Len(c) \/ (result.pos < Len(c) /\ Rejects(s, k, c, result.pos + 1))
    BY <1>1, <1>2, Replayed
  <1>4. PICK pos \in 0..Len(c) : pos = result.pos
    BY <1>2
  <1>5. pos < Len(c) => pos + 1 \in 1..Len(c)
    OBVIOUS
  <1>6. QED
    BY <1>1, <1>3, <1>4, <1>5

\* Noticed before a chunk that is rejected.
LEMMA Early ==
    ASSUME NEW s, NEW k, NEW c, Len(c) \in Nat, NEW final, NEW i \in 1..Len(c), Rejects(s, k, c, i)
    PROVE  LET pos == replay_through_client(s, k, c, final).pos IN pos # None /\ pos \in Nat /\ pos < Len(c)
  <1>1. PICK result : result = replay_through_client(s, k, c, final)
    OBVIOUS
  <1>2. /\ result.pos \in 0..Len(c) /\ result.pos # None
        /\ \A x \in 1..result.pos : ~Rejects(s, k, c, x)
    BY <1>1, Replayed
  <1>3. PICK pos \in 0..Len(c) : pos = result.pos
    BY <1>2
  <1>4. ~(i \in 1..pos)
    BY <1>2, <1>3
  <1>5. pos < Len(c)
    BY <1>4
  <1>6. QED
    BY <1>1, <1>2, <1>3, <1>5

\* What becomes of the middle of a stream.
\* The chunks and the terminal record, and where the client notices.
Judgement(name, k, c, final) ==
    LET pos == replay_through_client(cell.strategy, k, c, final).pos
    IN  /\ pos # None
        /\ MidAs(name, 1, IF pos < Len(c) THEN 1 ELSE 0)

LEMMA Judge ==
    ASSUME NEW s \in Strategies, NEW k \in Nat, NEW c, NEW size \in Nat, Len(c) = size, NEW final, NEW first \in Nat,
           NEW name, name \notin {"replay", "truncate"}, first < size,
           s = cell.strategy, k = cell.k, Struck(s, k, c, final, first),
           s = "hash_chain" /\ k = 0 => c \in Seq({Sent(Hid, "hash_chain", 0, j) : j \in Nat \ {0}})
    PROVE  Judgement(name, k, c, final)
  <1>1. PICK pos \in 0..size : pos = replay_through_client(s, k, c, final).pos /\ pos # None
    BY Zenon DEF Struck
  <1>2. s = "per_chunk" => pos <= first
    BY <1>1, Zenon DEF Struck
  <1>3. s = "hash_chain" /\ k = 0 => pos = size
    <2>1. ASSUME s = "hash_chain", k = 0
          PROVE  pos = size
      <3>1. \A i \in 1..Len(c) : ~Rejects(s, k, c, i)
        BY <2>1, Unsigned, Zenon
      <3>2. QED
        <4>1. Len(c) \in Nat
          OBVIOUS
        <4>2. replay_through_client(s, k, c, final).pos = Len(c)
          BY <3>1, <4>1, Late
        <4>3. QED
          BY <1>1, <4>2
    <2>2. QED
      BY <2>1
  <1>4. MidAs(name, 1, IF pos < size THEN 1 ELSE 0)
    BY <1>2, <1>3 DEF MidAs
  <1>5. QED
    BY <1>1, <1>4, Zenon DEF Judgement

Made(c, final) == [chunks |-> c, final |-> final]

\* The attacks of the table, on a stream of len chunks with its middle at mi.
MitmOutcome(name, own, final, foreign, len, mi, m) ==
    /\ name = "drop" => m = Made(RemoveAt(own, mi), final)
    /\ name = "reorder" => m = Made(Swap(own, mi), final)
    /\ name = "duplicate" => m = Made(InsertAt(own, mi + 1, own[mi]), final)
    /\ name = "replay" => m = Made([own EXCEPT ![mi] = foreign[Min({mi, Len(foreign)})]], final)
    /\ name = "truncate" => m = Made(SubSeq(own, 1, Max({1, (2 * len) \div 3})), None)

LEMMA MitmOutcomes ==
    ASSUME NEW name \in {"drop", "reorder", "duplicate", "replay", "truncate"}, NEW cap, NEW foreign
    PROVE  MitmOutcome(name, cap.chunks, cap.final, foreign, Len(cap.chunks), Len(cap.chunks) \div 2 + 1,
                       _mutate(name, cap, foreign))
  BY DEF _mutate, Made, Middle, MitmOutcome

LEMMA MiddleIs ==
    ASSUME NEW len \in Nat, len >= 3
    PROVE  /\ len \div 2 + 1 \in 1..len /\ len \div 2 + 1 < len
           /\ Max({1, (2 * len) \div 3}) \in 1..len
  <1>1. PICK q \in Nat : q = len \div 2 /\ 2 * q <= len
    BY DivMod
  <1>2. PICK r \in Nat : r = (2 * len) \div 3 /\ 3 * r <= 2 * len
    BY DivMod
  <1>3. q + 1 \in 1..len /\ q + 1 < len /\ r <= len
    BY <1>1, <1>2
  <1>4. Max({1, r}) \in {1, r} /\ Max({1, r}) >= 1
    <2>1. {1, r} \subseteq 0..(r + 1) /\ {1, r} # {} /\ r + 1 \in Nat /\ 1 \in {1, r}
      OBVIOUS
    <2>2. QED
      BY <2>1, Greatest
  <1>5. Max({1, r}) \in 1..len
    BY <1>3, <1>4
  <1>6. QED
    BY <1>1, <1>2, <1>3, <1>5

LEMMA OwnOfSession ==
    ASSUME NEW s, NEW k, NEW len \in Nat
    PROVE  Own(Hid, s, k, len) \in Seq({Sent(Hid, s, k, j) : j \in Nat \ {0}})
  <1>1. \A x \in 1..len : Sent(Hid, s, k, x) \in {Sent(Hid, s, k, j) : j \in Nat \ {0}}
    OBVIOUS
  <1>2. QED
    BY <1>1 DEF Own

\* The cell, the stream of the trial and the stream to replay from.
CellOf(s, k) == s = cell.strategy /\ k = cell.k
StreamOf(cap, s, k, len) == cap.chunks = Own(Hid, s, k, len) /\ cap.final = Closing(Hid, s, len)
DonorFor(name, foreign, s, k) == name = "replay" => \E flen \in Nat \ {0} : foreign = Own(Other, s, k, flen)

\* Whatever the attack, every trial is noticed, and where the strategy says.
LEMMA TrialJudged ==
    ASSUME NEW s \in Strategies, NEW k \in Nat, CellOf(s, k), NEW len \in Nat, len >= 3,
           NEW cap, StreamOf(cap, s, k, len),
           NEW name \in {"drop", "reorder", "duplicate", "replay", "truncate"}, NEW foreign,
           DonorFor(name, foreign, s, k)
    PROVE  LET m == _mutate(name, cap, foreign) IN Judgement(name, k, m.chunks, m.final)
  <1>1. PICK own, closing : own = Own(Hid, s, k, len) /\ closing = Closing(Hid, s, len)
    OBVIOUS
  <1>2. PICK S : S = {Sent(Hid, s, k, j) : j \in Nat \ {0}}
    OBVIOUS
  <1>3. Len(own) = len /\ own \in Seq(S)
    <2>1. Len(Own(Hid, s, k, len)) = len
      BY OwnIs DEF Sessions
    <2>2. Own(Hid, s, k, len) \in Seq({Sent(Hid, s, k, j) : j \in Nat \ {0}})
      BY OwnOfSession
    <2>3. QED
      BY <1>1, <1>2, <2>1, <2>2, Zenon
  <1>4. PICK mi \in 1..len : mi = len \div 2 + 1 /\ mi < len
    BY MiddleIs
  <1>5. PICK m : m = _mutate(name, cap, foreign) /\ MitmOutcome(name, own, closing, foreign, len, mi, m)
    <2>1. cap.chunks = own /\ cap.final = closing /\ len = Len(cap.chunks)
      BY <1>1, <1>3, Zenon DEF StreamOf
    <2>2. MitmOutcome(name, cap.chunks, cap.final, foreign, Len(cap.chunks), Len(cap.chunks) \div 2 + 1,
                      _mutate(name, cap, foreign))
      BY MitmOutcomes
    <2>3. QED
      BY <1>4, <2>1, <2>2, Zenon
  <1>6. \A c, final : Made(c, final).chunks = c /\ Made(c, final).final = final
    BY DEF Made
  <1>7. Hid \in Sessions /\ mi - 1 \in Nat /\ mi \in Nat
    BY DEF Sessions
  <1>8. ASSUME NEW c \in Seq(S), NEW size \in Nat, Len(c) = size, NEW first \in Nat, first < size,
               name \notin {"replay", "truncate"}, Struck(s, k, c, closing, first)
        PROVE  Judgement(name, k, c, closing)
    <2>1. s = "hash_chain" /\ k = 0 => c \in Seq({Sent(Hid, "hash_chain", 0, j) : j \in Nat \ {0}})
      BY <1>2, <1>8, Zenon
    <2>2. QED
      BY <1>8, <2>1, Judge DEF CellOf
  <1>9. CASE name = "drop"
    <2>1. Len(RemoveAt(own, mi)) = len - 1 /\ Struck(s, k, RemoveAt(own, mi), closing, mi - 1)
      BY <1>1, DropStrikes, Zenon
    <2>2. RemoveAt(own, mi) \in Seq(S)
      BY <1>3, Removed
    <2>3. len - 1 \in Nat /\ mi - 1 < len - 1
      BY <1>4
    <2>4. name \notin {"replay", "truncate"}
      BY <1>9
    <2>5. Judgement(name, k, RemoveAt(own, mi), closing)
      BY <1>7, <1>8, <2>1, <2>2, <2>3, <2>4, Zenon
    <2>6. m = Made(RemoveAt(own, mi), closing)
      BY <1>5, <1>9, Zenon DEF MitmOutcome
    <2>7. QED
      BY <1>5, <1>6, <2>5, <2>6, Zenon
  <1>10. CASE name = "reorder"
    <2>1. mi \in 1..(len - 1) /\ mi - 1 < len
      BY <1>4
    <2>2. Len(Swap(own, mi)) = len /\ Struck(s, k, Swap(own, mi), closing, mi - 1)
      BY <1>1, <2>1, ReorderStrikes, ZenonT(30)
    <2>3. Swap(own, mi) \in Seq(S)
      BY <1>3, <2>1, Swapped
    <2>4. name \notin {"replay", "truncate"}
      BY <1>10
    <2>5. Judgement(name, k, Swap(own, mi), closing)
      BY <1>7, <1>8, <2>1, <2>2, <2>3, <2>4, Zenon
    <2>6. m = Made(Swap(own, mi), closing)
      BY <1>5, <1>10, Zenon DEF MitmOutcome
    <2>7. QED
      BY <1>5, <1>6, <2>5, <2>6, Zenon
  <1>11. CASE name = "duplicate"
    <2>1. /\ Len(InsertAt(own, mi + 1, own[mi])) = len + 1
          /\ Struck(s, k, InsertAt(own, mi + 1, own[mi]), closing, mi)
      BY <1>1, DuplicateStrikes, Zenon
    <2>2. InsertAt(own, mi + 1, own[mi]) \in Seq(S)
      <3>1. own[mi] \in S /\ mi \in 1..Len(own)
        BY <1>3
      <3>2. QED
        BY <1>3, <3>1, InsertedIn, Zenon
    <2>3. len + 1 \in Nat /\ mi < len + 1
      OBVIOUS
    <2>4. name \notin {"replay", "truncate"}
      BY <1>11
    <2>5. Judgement(name, k, InsertAt(own, mi + 1, own[mi]), closing)
      BY <1>7, <1>8, <2>1, <2>2, <2>3, <2>4, Zenon
    <2>6. m = Made(InsertAt(own, mi + 1, own[mi]), closing)
      BY <1>5, <1>11, Zenon DEF MitmOutcome
    <2>7. QED
      BY <1>5, <1>6, <2>5, <2>6, Zenon
  <1>12. CASE name = "replay"
    <2>1. PICK flen \in Nat \ {0} : foreign = Own(Other, s, k, flen)
      BY <1>12 DEF DonorFor
    <2>2. Other \in Sessions /\ Other # Hid
      BY DistinctIds DEF Sessions
    <2>3. /\ Len(Own(Other, s, k, flen)) = flen
          /\ \A x \in 1..flen : Own(Other, s, k, flen)[x] = Sent(Other, s, k, x)
      BY <2>2, OwnIs
    <2>4. Len(foreign) = flen /\ \A x \in 1..flen : foreign[x] = Sent(Other, s, k, x)
      BY <2>1, <2>3, Zenon
    <2>5. PICK j \in 1..flen : j = Min({mi, Len(foreign)})
      <3>1. {mi, flen} \subseteq Nat /\ {mi, flen} # {}
        BY <1>7
      <3>2. Min({mi, flen}) \in {mi, flen} /\ Min({mi, flen}) <= flen
        BY <3>1, Least
      <3>3. Min({mi, flen}) \in 1..flen
        BY <3>2
      <3>4. QED
        BY <2>4, <3>3, Zenon
    <2>6. PICK e : e = Sent(Other, s, k, j) /\ e = foreign[j]
      BY <2>4, <2>5, Zenon
    <2>7. j \in Nat \ {0}
      OBVIOUS
    <2> DEFINE c == [own EXCEPT ![mi] = e]
    <2>8. Len(c) = len /\ c[mi] = e
      <3>1. LET d == [Own(Hid, s, k, len) EXCEPT ![mi] = Sent(Other, s, k, j)]
            IN  /\ Len(d) = len /\ d[mi] = Sent(Other, s, k, j)
                /\ Struck(s, k, d, Closing(Hid, s, len), mi - 1)
        BY <2>7, ReplayStrikes, Zenon
      <3>2. QED
        BY <1>1, <2>6, <3>1, Zenon
    <2>9. m.chunks = c /\ m.final = closing
      <3>1. m = Made([own EXCEPT ![mi] = foreign[Min({mi, Len(foreign)})]], closing)
        BY <1>5, <1>12, Zenon DEF MitmOutcome
      <3>2. m = Made(c, closing)
        BY <2>5, <2>6, <3>1, Zenon
      <3>3. QED
        BY <1>6, <3>2, Zenon
    <2> HIDE DEF c
    <2>10. Rejects(s, k, c, mi)
      <3>1. CASE s = "per_chunk"
        <4>1. c[mi] = Sent(Other, "per_chunk", k, j)
          BY <2>6, <2>8, <3>1, Zenon
        <4>2. mi \in Nat \ {0}
          OBVIOUS
        <4>3. Rejects("per_chunk", k, c, mi)
          BY <2>2, <2>7, <4>1, <4>2, PerChunkRejects
        <4>4. QED
          BY <3>1, <4>3, Zenon
      <3>2. CASE s = "hash_chain"
        <4>1. c[mi].env = Env(Other, j)
          <5>1. Sent(Other, s, k, j).env = Env(Other, j)
            BY <2>2, <2>7, SentIs
          <5>2. QED
            BY <2>6, <2>8, <5>1, Zenon
        <4>2. Env(Other, j).key = Other
          BY <2>2, <2>7, EnvIs
        <4>3. c[mi].env.key # Hid /\ mi \in Nat \ {0}
          BY <2>2, <4>1, <4>2
        <4>4. QED
          BY <3>2, <4>3, ChainRejects
      <3>3. QED
        BY <3>1, <3>2 DEF Strategies
    <2>11. LET pos == replay_through_client(s, k, c, closing).pos IN pos # None /\ pos \in Nat /\ pos < Len(c)
      <3>1. Len(c) \in Nat /\ mi \in 1..Len(c)
        BY <2>8
      <3>2. QED
        BY <2>10, <3>1, Early
    <2>12. MidAs(name, 1, 1)
      BY <1>12 DEF MidAs
    <2>13. Judgement(name, k, c, closing)
      BY <2>11, <2>12, Zenon DEF Judgement, CellOf
    <2>14. QED
      BY <1>5, <2>9, <2>13, Zenon
  <1>13. CASE name = "truncate"
    <2>1. PICK i \in 1..len : i = Max({1, (2 * len) \div 3})
      BY MiddleIs
    <2> DEFINE c == SubSeq(own, 1, i)
    <2>2. /\ Len(c) = i /\ \A x \in 1..i : c[x] = Sent(Hid, s, k, x)
          /\ Struck(s, k, c, None, i)
      <3>1. LET d == SubSeq(Own(Hid, s, k, len), 1, i)
            IN  /\ Len(d) = i /\ \A x \in 1..i : d[x] = Sent(Hid, s, k, x)
                /\ Struck(s, k, d, None, i)
        BY TruncateStrikes, Zenon
      <3>2. QED
        BY <1>1, <3>1, Zenon
    <2>3. m.chunks = c /\ m.final = None
      <3>1. m = Made(c, None)
        BY <1>5, <1>13, <2>1, Zenon DEF MitmOutcome
      <3>2. QED
        BY <1>6, <3>1, Zenon
    <2> HIDE DEF c
    <2>4. \A x \in 1..Len(c) : ~Rejects(s, k, c, x)
      <3> TAKE x \in 1..Len(c)
      <3>1. x \in Nat \ {0} /\ \A y \in 1..x : c[y] = Sent(Hid, s, k, y)
        BY <2>2
      <3>2. QED
        BY <3>1, OwnPasses
    <2>5. Len(c) \in Nat
      BY <2>2
    <2>6. replay_through_client(s, k, c, None).pos = Len(c)
      BY <2>2, <2>4, <2>5, Late
    <2>7. replay_through_client(s, k, c, None).pos # None
      BY <2>2, Zenon DEF Struck
    <2>8. MidAs(name, 1, 0)
      BY <1>13 DEF MidAs
    <2>9. ~(Len(c) < Len(c))
      BY <2>5
    <2>10. Judgement(name, k, c, None)
      BY <2>6, <2>7, <2>8, <2>9, Zenon DEF Judgement, CellOf
    <2>11. QED
      BY <1>5, <2>3, <2>10, Zenon
  <1>14. QED
    BY <1>9, <1>10, <1>11, <1>12, <1>13

Donors == (Nat \ {0}) \cup {None}
MitmAttacks == {"drop", "reorder", "duplicate", "replay", "truncate"}

LEMMA TrialResult ==
    ASSUME NEW s \in Strategies, NEW k \in Nat, CellOf(s, k), NEW name \in MitmAttacks,
           NEW len \in Nat, NEW dlen \in Nat, NEW donor \in Donors, NEW result, result = run_trial(name, len, dlen, donor)
    PROVE  /\ result.valid \in {0, 1} /\ result.detected = result.valid /\ result.foreign \in Donors
           /\ MidAs(name, result.valid, result.mid_stream)
  <1> DEFINE cap == Captured(Hid, s, k, len)
             foreign == IF name = "replay" /\ donor = None THEN dlen ELSE donor
             left == IF len > 0 THEN len ELSE donor
             from == IF foreign = None THEN <<>> ELSE Captured(Other, s, k, foreign).chunks
             m == _mutate(name, cap, from)
             pos == replay_through_client(s, k, m.chunks, m.final).pos
  <1>1. left \in Donors
    BY DEF Donors
  <1>2. CASE len < 3 \/ (name = "replay" /\ foreign = 0)
    <2>1. result = Error(left)
      BY <1>2 DEF run_trial
    <2> HIDE DEF left
    <2>2. result.valid = 0 /\ result.detected = 0 /\ result.mid_stream = 0 /\ result.foreign = left
      BY <2>1 DEF Error
    <2>3. MidAs(name, 0, 0)
      BY DEF MidAs
    <2>4. QED
      BY <1>1, <2>2, <2>3
  <1>3. CASE ~(len < 3 \/ (name = "replay" /\ foreign = 0))
    <2>1. StreamOf(cap, s, k, len)
      BY CapturedIs, ZenonT(30) DEF StreamOf, Own, Sessions
    <2>2. DonorFor(name, from, s, k)
      <3>1. ASSUME name = "replay"
            PROVE  \E flen \in Nat \ {0} : from = Own(Other, s, k, flen)
        <4>1. foreign \in Nat \ {0} /\ foreign # None
          BY <1>3, <3>1, NoneAssumption DEF Donors
        <4> HIDE DEF foreign
        <4>2. from = Captured(Other, s, k, foreign).chunks
          BY <4>1, Zenon
        <4>3. Captured(Other, s, k, foreign).chunks = Own(Other, s, k, foreign)
          <5>1. foreign \in Nat
            BY <4>1
          <5>2. QED
            BY <5>1, CapturedIs, ZenonT(30) DEF Own, Sessions
        <4>4. QED
          BY <4>1, <4>2, <4>3, Zenon
      <3>2. QED
        BY <3>1 DEF DonorFor
    <2>3. len >= 3
      BY <1>3
    <2>4. Judgement(name, k, m.chunks, m.final)
      <3> HIDE DEF cap, from
      <3>1. name \in {"drop", "reorder", "duplicate", "replay", "truncate"}
        BY Zenon DEF MitmAttacks
      <3>2. QED
        BY <2>1, <2>2, <2>3, <3>1, TrialJudged, Zenon
    <2>5. pos # None /\ MidAs(name, 1, IF pos < Len(m.chunks) THEN 1 ELSE 0)
      BY <2>4, Zenon DEF Judgement, CellOf
    <2>6. result = [valid |-> 1, detected |-> IF pos # None THEN 1 ELSE 0,
                    mid_stream |-> IF pos # None /\ pos < Len(m.chunks) THEN 1 ELSE 0, foreign |-> left]
      BY <1>3, Zenon DEF run_trial, CellOf
    <2>7. PICK p, size : p = pos /\ size = Len(m.chunks)
      OBVIOUS
    <2>8. p # None /\ MidAs(name, 1, IF p < size THEN 1 ELSE 0)
      BY <2>5, <2>7, Zenon
    <2>9. result = [valid |-> 1, detected |-> IF p # None THEN 1 ELSE 0,
                    mid_stream |-> IF p # None /\ p < size THEN 1 ELSE 0, foreign |-> left]
      BY <2>6, <2>7, Zenon
    <2> HIDE DEF left
    <2>10. /\ result.valid = 1 /\ result.detected = 1 /\ result.foreign = left
           /\ result.mid_stream = IF p < size THEN 1 ELSE 0
      BY <2>8, <2>9
    <2>11. QED
      BY <1>1, <2>8, <2>10
  <1>4. QED
    BY <1>2, <1>3

LEMMA MidAdds ==
    ASSUME NEW name, NEW a \in Nat, NEW b \in Nat, NEW x, NEW y, MidAs(name, a, x), MidAs(name, b, y)
    PROVE  MidAs(name, a + b, x + y)
  BY DEF MidAs

\* The experiment's counts, and the campaign's, which it does not use.
Combos == [attack: 1..6, trials: Nat, n_valid: Nat, n_detected: Nat, n_mid_stream: Nat, foreign: Donors]

MitmInv ==
    mitm # None =>
        /\ at = 0 /\ mitm \in Combos /\ mitm.n_detected = mitm.n_valid
        /\ mitm.attack <= 5 => MidAs(ATTACKS[mitm.attack], mitm.n_valid, mitm.n_mid_stream)

TrialInv == CampaignInv /\ MitmInv /\ MidStreamByStrategy

LEMMA TableIs == Len(ATTACKS) = 5 /\ \A i \in 1..5 : ATTACKS[i] \in MitmAttacks
  BY DEF ATTACKS, MitmAttacks

\* Before the first trial of an attack.
LEMMA NewComboIs ==
    ASSUME NEW i \in 1..6
    PROVE  LET m == NewCombo(i)
           IN  m \in Combos /\ m.n_detected = m.n_valid /\ MidAs(ATTACKS[m.attack], m.n_valid, m.n_mid_stream)
  <1>1. NewCombo(i) \in Combos /\ NewCombo(i).n_detected = 0 /\ NewCombo(i).n_valid = 0 /\ NewCombo(i).n_mid_stream = 0
    BY DEF NewCombo, Combos, Donors
  <1>2. \A name : MidAs(name, 0, 0)
    BY DEF MidAs
  <1>3. QED
    BY <1>1, <1>2

Added(c, valid, midstream, left) ==
    [c EXCEPT !.trials = @ + 1, !.n_valid = @ + valid, !.n_detected = @ + valid,
              !.n_mid_stream = @ + midstream, !.foreign = left]

LEMMA ComboAdds ==
    ASSUME NEW c \in Combos, NEW valid \in {0, 1}, NEW midstream \in Nat, NEW left \in Donors
    PROVE  LET d == Added(c, valid, midstream, left)
           IN  /\ d \in Combos /\ d.n_detected = c.n_detected + valid /\ d.attack = c.attack
               /\ d.n_valid = c.n_valid + valid /\ d.n_mid_stream = c.n_mid_stream + midstream
  <1>1. valid \in Nat
    OBVIOUS
  <1>2. /\ c.attack \in 1..6 /\ c.trials + 1 \in Nat /\ c.n_valid + valid \in Nat /\ c.n_detected + valid \in Nat
        /\ c.n_mid_stream + midstream \in Nat
    BY <1>1 DEF Combos
  <1>3. PICK d : d = Added(c, valid, midstream, left)
    OBVIOUS
  <1>4. d = [attack |-> c.attack, trials |-> c.trials + 1, n_valid |-> c.n_valid + valid,
             n_detected |-> c.n_detected + valid, n_mid_stream |-> c.n_mid_stream + midstream, foreign |-> left]
    BY <1>3 DEF Combos, Added
  <1>5. /\ d \in Combos /\ d.n_detected = c.n_detected + valid /\ d.attack = c.attack
        /\ d.n_valid = c.n_valid + valid /\ d.n_mid_stream = c.n_mid_stream + midstream
    BY <1>2, <1>4 DEF Combos
  <1>6. QED
    BY <1>3, <1>5, Zenon

\* A trial more.
LEMMA TrialKeeps ==
    ASSUME TrialInv, NEW len \in PoolLengths, NEW donor_len \in PoolLengths, Trial(len, donor_len)
    PROVE  TrialInv'
  <1>1. /\ CampaignInv /\ MidStreamByStrategy /\ mitm # None /\ at = 0 /\ mitm \in Combos
        /\ mitm.n_detected = mitm.n_valid /\ mitm.attack <= 5
        /\ MidAs(ATTACKS[mitm.attack], mitm.n_valid, mitm.n_mid_stream) /\ UNCHANGED vars
    BY TableIs DEF TrialInv, MitmInv, Trial, Running
  <1>2. CampaignInv'
    BY <1>1, SameKeeps DEF vars
  <1>3. PICK s \in Strategies, k \in Nat : CellOf(s, k)
    <2>1. cell \in Cells
      BY <1>1 DEF CampaignInv, TypeOK
    <2>2. QED
      BY <2>1, CellIs DEF CellOf
  <1>4. PICK i \in 1..5, name \in MitmAttacks : i = mitm.attack /\ name = ATTACKS[i]
    BY <1>1, TableIs DEF Combos
  <1>5. PICK total \in Nat, count \in Nat, donor \in Donors :
            total = mitm.n_valid /\ count = mitm.n_mid_stream /\ donor = mitm.foreign
    BY <1>1 DEF Combos
  <1>6. PICK result : result = run_trial(name, len, donor_len, donor)
    OBVIOUS
  <1>7. /\ result.valid \in {0, 1} /\ result.detected = result.valid /\ result.foreign \in Donors
        /\ MidAs(name, result.valid, result.mid_stream)
    <2>1. len \in Nat /\ donor_len \in Nat
      BY CampaignAssumption
    <2>2. QED
      BY <1>3, <1>6, <2>1, TrialResult
  <1>8. PICK valid \in {0, 1}, midstream \in Nat, left \in Donors :
            valid = result.valid /\ midstream = result.mid_stream /\ left = result.foreign
    BY <1>7 DEF MidAs
  <1>9. mitm' = Added(mitm, valid, midstream, left)
    <2>1. mitm' = [mitm EXCEPT !.trials = @ + 1, !.n_valid = @ + result.valid,
                               !.n_detected = @ + result.detected, !.n_mid_stream = @ + result.mid_stream,
                               !.foreign = result.foreign]
      BY <1>4, <1>5, <1>6, Zenon DEF Trial
    <2>2. QED
      BY <1>7, <1>8, <2>1, Zenon DEF Added
  <1>10. MidAs(name, total + valid, count + midstream)
    <2>1. MidAs(name, total, count) /\ MidAs(name, valid, midstream) /\ valid \in Nat
      BY <1>1, <1>4, <1>5, <1>7, <1>8
    <2>2. QED
      BY <2>1, MidAdds
  <1>11. /\ mitm' \in Combos /\ mitm'.n_detected = mitm'.n_valid /\ mitm'.attack = i
         /\ mitm'.n_valid = total + valid /\ mitm'.n_mid_stream = count + midstream
    <2>1. /\ mitm' \in Combos /\ mitm'.n_detected = mitm.n_detected + valid /\ mitm'.attack = mitm.attack
          /\ mitm'.n_valid = mitm.n_valid + valid /\ mitm'.n_mid_stream = mitm.n_mid_stream + midstream
      <3>1. mitm \in Combos
        BY <1>1
      <3>2. LET d == Added(mitm, valid, midstream, left)
            IN  /\ d \in Combos /\ d.n_detected = mitm.n_detected + valid /\ d.attack = mitm.attack
                /\ d.n_valid = mitm.n_valid + valid /\ d.n_mid_stream = mitm.n_mid_stream + midstream
        BY <3>1, ComboAdds, Zenon
      <3>3. QED
        BY <1>9, <3>2, Zenon
    <2>2. QED
      BY <1>1, <1>4, <1>5, <2>1
  <1>12. cell' = cell /\ at' = at /\ row' = row
    BY <1>1 DEF vars
  <1>13. MitmInv'
    <2>1. MidAs(ATTACKS[mitm'.attack], mitm'.n_valid, mitm'.n_mid_stream)
      BY <1>4, <1>10, <1>11, Zenon
    <2>2. MidAs(ATTACKS[mitm.attack], mitm.n_valid, mitm.n_mid_stream)'
      BY <1>12, <2>1 DEF MidAs
    <2>3. QED
      BY <1>1, <1>11, <1>12, <2>2 DEF MitmInv
  <1>14. MidStreamByStrategy'
    BY <1>1, <1>12 DEF MidStreamByStrategy
  <1>15. QED
    BY <1>2, <1>13, <1>14 DEF TrialInv

\* A trial that fails adds to none of the counts.
LEMMA TrialFailsKeeps ==
    ASSUME TrialInv, TrialFails
    PROVE  TrialInv'
  <1>1. /\ CampaignInv /\ MidStreamByStrategy /\ mitm # None /\ at = 0 /\ mitm \in Combos
        /\ mitm.n_detected = mitm.n_valid /\ mitm.attack <= 5
        /\ MidAs(ATTACKS[mitm.attack], mitm.n_valid, mitm.n_mid_stream) /\ UNCHANGED vars
    BY TableIs DEF TrialInv, MitmInv, TrialFails, Running
  <1>2. CampaignInv'
    BY <1>1, SameKeeps DEF vars
  <1>3. mitm' = [mitm EXCEPT !.trials = @ + 1]
    BY DEF TrialFails
  <1>4. /\ mitm' \in Combos /\ mitm'.n_detected = mitm.n_detected /\ mitm'.attack = mitm.attack
        /\ mitm'.n_valid = mitm.n_valid /\ mitm'.n_mid_stream = mitm.n_mid_stream
    BY <1>1, <1>3 DEF Combos
  <1>5. cell' = cell /\ at' = at /\ row' = row
    BY <1>1 DEF vars
  <1>6. MitmInv'
    <2>1. MidAs(ATTACKS[mitm.attack], mitm.n_valid, mitm.n_mid_stream)'
      BY <1>1, <1>4, <1>5 DEF MidAs
    <2>2. QED
      BY <1>1, <1>4, <1>5, <2>1 DEF MitmInv
  <1>7. MidStreamByStrategy'
    BY <1>1, <1>5 DEF MidStreamByStrategy
  <1>8. QED
    BY <1>2, <1>6, <1>7 DEF TrialInv

LEMMA SummarizeKeeps ==
    ASSUME TrialInv, summarize
    PROVE  TrialInv'
  <1>1. /\ CampaignInv /\ mitm # None /\ at = 0 /\ mitm \in Combos
        /\ mitm.n_detected = mitm.n_valid /\ mitm.attack <= 5
        /\ MidAs(ATTACKS[mitm.attack], mitm.n_valid, mitm.n_mid_stream)
        /\ UNCHANGED <<cell, at, counts, outcome>> /\ mitm' = NewCombo(mitm.attack + 1)
    BY TableIs DEF TrialInv, MitmInv, summarize, Running
  <1>2. PICK i \in 1..5, name \in MitmAttacks : i = mitm.attack /\ name = ATTACKS[i]
    BY <1>1, TableIs DEF Combos
  <1>3. PICK total \in Nat, count \in Nat : total = mitm.n_valid /\ count = mitm.n_mid_stream /\ total = mitm.n_detected
    BY <1>1 DEF Combos
  <1>4. NoCounts
    BY <1>1 DEF CampaignInv, CountsInv
  <1>5. row' = [Row(name, total, total) EXCEPT !.mid_stream = count]
    BY <1>2, <1>3, Zenon DEF summarize
  <1>6. /\ row'.attack = name /\ row'.n = total /\ row'.detected = total /\ row'.mid_stream = count
        /\ row'.exposure_chunks = {} /\ row'.unverified_at_detection = {}
    BY <1>4, <1>5 DEF Row, NoCounts
  <1>7. RowInv'
    <2>1. name \notin {"benign", "checkpoint_strip_v2client"}
      BY DEF MitmAttacks
    <2>2. QED
      BY <1>6, <2>1 DEF RowInv, EveryAttackDetected, PerChunkExposesNothing, UnverifiedBelowInterval
  <1>8. CampaignInv'
    <2>1. attacks' = attacks /\ attack' = attack
      BY <1>1, SameTable
    <2>2. TypeOK'
      BY <1>1, <2>1 DEF CampaignInv, TypeOK, counts
    <2>3. CountsInv'
      BY <1>1, <2>1 DEF CampaignInv, CountsInv, counts, NoCounts
    <2>4. QED
      BY <1>7, <2>2, <2>3 DEF CampaignInv
  <1>9. MidStreamByStrategy'
    <2>1. MidAs(name, total, count)
      BY <1>1, <1>2, <1>3
    <2>2. cell' = cell
      BY <1>1
    <2>3. QED
      BY <1>6, <2>1, <2>2 DEF MidStreamByStrategy, MidAs
  <1>10. MitmInv'
    <2>1. i + 1 \in 1..6
      OBVIOUS
    <2>2. PICK m : m = NewCombo(i + 1)
      OBVIOUS
    <2>3. m \in Combos /\ m.n_detected = m.n_valid /\ MidAs(ATTACKS[m.attack], m.n_valid, m.n_mid_stream)
      BY <2>1, <2>2, NewComboIs
    <2>4. mitm' = m
      BY <1>1, <1>2, <2>2, Zenon
    <2>5. MidAs(ATTACKS[mitm.attack], mitm.n_valid, mitm.n_mid_stream)'
      BY <1>1, <2>3, <2>4 DEF MidAs
    <2>6. QED
      BY <1>1, <2>3, <2>4, <2>5 DEF MitmInv
  <1>11. QED
    BY <1>8, <1>9, <1>10 DEF TrialInv

\* A step that changes neither the counts nor the row.
LEMMA IdleKeeps ==
    ASSUME TrialInv, UNCHANGED <<cell, at, counts, row, mitm>>, outcome' \in {outcome, "returned"}
    PROVE  TrialInv'
  <1>1. CampaignInv'
    BY SameKeeps DEF TrialInv
  <1>2. MitmInv'
    BY DEF TrialInv, MitmInv, MidAs
  <1>3. MidStreamByStrategy'
    BY DEF TrialInv, MidStreamByStrategy
  <1>4. QED
    BY <1>1, <1>2, <1>3 DEF TrialInv

LEMMA TrialInitInv ==
    ASSUME TrialInit
    PROVE  TrialInv
  <1>1. CampaignInv
    BY CampaignInit DEF TrialInit
  <1>2. MitmInv
    <2>1. 1 \in 1..6
      OBVIOUS
    <2>2. QED
      BY <2>1, NewComboIs DEF MitmInv, TrialInit, Init
  <1>3. MidStreamByStrategy
    BY DEF MidStreamByStrategy, TrialInit, Init
  <1>4. QED
    BY <1>1, <1>2, <1>3 DEF TrialInv

LEMMA TrialNextInv ==
    ASSUME TrialInv, [TrialNext]_trialVars
    PROVE  TrialInv'
  <1>1. CASE mitm = None /\ Next /\ UNCHANGED mitm
    <2>1. CampaignInv'
      BY <1>1, CampaignNext DEF TrialInv
    <2>2. MitmInv' /\ MidStreamByStrategy'
      BY <1>1 DEF MitmInv, MidStreamByStrategy
    <2>3. QED
      BY <2>1, <2>2 DEF TrialInv
  <1>2. ASSUME NEW len \in PoolLengths, NEW donor_len \in PoolLengths, Trial(len, donor_len)
        PROVE  TrialInv'
    BY <1>2, TrialKeeps
  <1>3. CASE TrialFails
    BY <1>3, TrialFailsKeeps
  <1>4. CASE summarize
    BY <1>4, SummarizeKeeps
  <1>5. CASE ExperimentReturns
    BY <1>5, IdleKeeps DEF ExperimentReturns
  <1>6. CASE mitm # None /\ Finished /\ UNCHANGED mitm
    BY <1>6, IdleKeeps DEF Finished, vars
  <1>7. CASE UNCHANGED trialVars
    BY <1>7, IdleKeeps DEF trialVars, vars
  <1>8. QED
    BY <1>1, <1>2, <1>3, <1>4, <1>5, <1>6, <1>7 DEF TrialNext

\* The rows of both experiments: every attack of the campaign and of the man in
\* the middle is detected in every trial that takes place, on streams of any
\* length, at any position and for any interval, no genuine stream is rejected,
\* and the experiment finds the attack where the strategy lets it be found.
THEOREM AttacksDetected == TrialSpec => []DetectedAsReported
  <1>1. TrialInit => TrialInv
    BY TrialInitInv
  <1>2. TrialInv /\ [TrialNext]_trialVars => TrialInv'
    BY TrialNextInv
  <1>3. TrialInv => DetectedAsReported
    BY DEF TrialInv, CampaignInv, RowInv, DetectedAsReported
  <1>4. QED
    BY <1>1, <1>2, <1>3, PTL DEF TrialSpec

\* What the rows say of the exposure: nothing is shown without a signature by
\* per_chunk, and fewer chunks than the interval by a hash chain with
\* checkpoints, whatever the attack does to them; the counts stay in bounds.
THEOREM ExposureCounted == TrialSpec => []ExposureAsReported
  <1>1. TrialInit => TrialInv
    BY TrialInitInv
  <1>2. TrialInv /\ [TrialNext]_trialVars => TrialInv'
    BY TrialNextInv
  <1>3. TrialInv => ExposureAsReported
    BY DEF TrialInv, CampaignInv, RowInv, ExposureAsReported
  <1>4. QED
    BY <1>1, <1>2, <1>3, PTL DEF TrialSpec

-----------------------------------------------------------------------------
(***************************************************************************)
(* The live demo.  Its attack changes few records, but which ones depends  *)
(* on the arguments; what the proof needs of a chunk given to process is   *)
(* only that it is one of the server's, as sent, with flipped bytes or     *)
(* without its checkpoint.                                                 *)
(***************************************************************************)
\* What the records, the client and the page are made of.
WireRecords == [kind: {"chunk", "final_buffered", "final_per_chunk", "final_chain", "done"}, n: Nat,
                env: Envelopes \cup {None}, chain: Hashes \cup {None}, signature: Signatures \cup {None}]

ChainStates == [running_hash: Hashes, n_absorbed: Nat]

Statuses == {"verified", "pending", "rejected"}

ShownChunks == [index: Nat, text: Seq(Nat) \cup {None}, status: Statuses]

Clients == [expected: Nat, pending: Nat, failed: Reasons \cup {None}, terminal: BOOLEAN,
            chain_state: ChainStates, n_chunks: Nat, stream_fully_verified: BOOLEAN \cup {None},
            max_unverified_chunks: Nat, rejected_at_chunk: Int \cup {None},
            shown: Seq(ShownChunks), covered: Nat]

Tokens == [text: Seq(Nat), status: Statuses]

Pages == [tokens: Seq(Tokens), chunks: Nat, pending: Nat, max_pending: Nat,
          banner: {None, "rejected", "verified", "failed", "request failed"}]

interval == args.checkpoint_interval
Total == IF strategy = "buffer_and_sign" THEN 0 ELSE args.length

\* r is what the attack may have made of the server's j-th chunk.
Variant(s, k, name, r, j) ==
    LET own == Sent(Hid, s, k, j)
    IN  \/ r = own
        \/ name = "tamper_ciphertext" /\ r = FlipCiphertext(own)
        \/ name = "tamper_signature" /\ own.signature # None /\ r = FlipSignature(own)
        \/ name = "strip_checkpoints" /\ s = "hash_chain" /\ r = Strip(own)

LiveChunk(r) == \E j \in 1..Total : Variant(strategy, interval, args.attack, r, j)

\* r is what the attack may have made of the server's terminal record.
Ending(own, s, name, r) ==
    \/ r = own
    \/ name = "tamper_signature" /\ s # "per_chunk" /\ r = FlipSignature(own)
    \/ name = "tamper_ciphertext" /\ s = "buffer_and_sign" /\ r = FlipCiphertext(own)

LiveFinal(r) == Ending(server.final, strategy, args.attack, r)

ArgsInv ==
    /\ strategy \in StrategyNames /\ interval \in Nat /\ args.length \in Nat
    /\ args.attack \in STREAM_ATTACKS /\ args.enforce_schedule \in BOOLEAN

\* The records under way, and those kept back.
TodoInv ==
    /\ next \in 1..(Total + 3) /\ phase \in {"reading", "summary", "error"} /\ todo \in Seq(WireRecords)
    /\ phase # "reading" => todo = <<>>
    /\ \/ todo = <<>> /\ (client.terminal => next > Total + 1)
       \/ ~client.terminal /\ Len(todo) \in 1..2 /\ \A x \in 1..Len(todo) : LiveChunk(todo[x])
       \/ ~client.terminal /\ next > Total + 1 /\ Len(todo) = 1 /\ LiveFinal(todo[1])
    /\ held = None \/ \E j \in 1..Total : held = Sent(Hid, strategy, interval, j)

\* What has been given to process.
FedInv ==
    /\ fed \in [chunks: Seq(WireRecords), final: WireRecords \cup {None}]
    /\ \A x \in 1..Len(fed.chunks) : LiveChunk(fed.chunks[x])
    /\ IF client.terminal THEN LiveFinal(fed.final) ELSE fed.final = None

\* A chunk of the stream whose checkpoints are stripped.
Bare(s, k, j) == IF s = "hash_chain" THEN Strip(Sent(Hid, s, k, j)) ELSE Sent(Hid, s, k, j)

\* Stripping leaves every record in its place.
StripInv ==
    args.attack = "strip_checkpoints" =>
        /\ \A x \in 1..Len(fed.chunks) : fed.chunks[x] = Bare(strategy, interval, x)
        /\ \/ /\ todo = <<>>
              /\ IF next > Total + 1 THEN Len(fed.chunks) = Total /\ client.terminal
                 ELSE Len(fed.chunks) = next - 1
           \/ next \in 2..(Total + 1) /\ Len(fed.chunks) = next - 2
                  /\ todo = <<Bare(strategy, interval, next - 1)>>
           \/ Len(fed.chunks) = Total /\ next = Total + 2 /\ todo = <<server.final>>

\* The first i chunks pass.
Clean(s, e, c, i) == \A x \in 1..i : ~Rejects(s, e, c, x)

\* What is shown of the i-th chunk.
ShownAs(s, e, c, i, shown) ==
    /\ shown.status = IF ~Clean(s, e, c, i) THEN "rejected" ELSE IF s = "per_chunk" THEN "verified"
                                                                 ELSE "pending"
    /\ Clean(s, e, c, i) => shown.text = c[i].env.text

\* Of the chunks c, g pass before the first that does not.
Passing(s, e, c, g) ==
    g \in 0..Len(c) /\ Clean(s, e, c, g) /\ (g < Len(c) => Rejects(s, e, c, g + 1))

\* The client after the chunks c: what it has shown, and what it counts.
ClientShows(s, e, c, g, cl) ==
    /\ cl \in Clients /\ ~cl.terminal /\ cl.stream_fully_verified = None
    /\ cl.failed = None <=> g = Len(c)
    /\ cl.failed = None => cl.rejected_at_chunk = None
    /\ cl.n_chunks = Len(c) /\ Len(cl.shown) = Len(c)
    /\ \A i \in 1..Len(c) : ShownAs(s, e, c, i, cl.shown[i])

ClientFollows(s, e, c, g, cl) ==
    /\ ClientShows(s, e, c, g, cl)
    /\ s = "per_chunk" => cl.expected = Len(c)
    /\ s = "hash_chain" => cl.chain_state = ChainAfter(c, Len(c))
    /\ cl.covered \in 0..g
    /\ s = "hash_chain" => InPlace(c, cl.covered) /\ (g = Len(c) => cl.pending = g - cl.covered)
    /\ s # "hash_chain" => cl.covered = 0

\* The page shows the chunks that pass, those covered as verified.
TokenAs(s, c, covered, i) ==
    [text |-> c[i].env.text, status |-> IF s = "per_chunk" \/ i <= covered THEN "verified" ELSE "pending"]

PageFollowsClient(s, e, c, g, cl, p) ==
    /\ p \in Pages /\ Len(p.tokens) >= g /\ (g = Len(c) => Len(p.tokens) = g)
    /\ \A i \in 1..g : p.tokens[i] = TokenAs(s, c, cl.covered, i)
    /\ \A i \in (g + 1)..Len(p.tokens) : p.tokens[i].status = "rejected"
    /\ p.pending = IF s = "hash_chain" THEN g - cl.covered ELSE 0
    /\ s = "hash_chain" /\ e > 0 => p.pending <= g % e /\ p.max_pending <= e

Following(s, e, c, g, cl, p) ==
    /\ Passing(s, e, c, g)
    /\ ClientFollows(s, e, c, g, cl)
    /\ PageFollowsClient(s, e, c, g, cl, p)

\* The end of the stream, with its terminal record or without.
Ended == client.terminal \/ phase = "summary"

\* The verdict is replay_through_client's.
Verdict(s, e, f, cl) ==
    LET replay == replay_through_client(s, e, f.chunks, f.final)
        rejected == {i \in 1..Len(cl.shown) : cl.shown[i].status = "rejected"}
    IN  /\ cl.stream_fully_verified = (replay.pos = None)
        /\ replay.pos # None => replay.pos = IF rejected = {} THEN Len(f.chunks) ELSE Min(rejected) - 1

MarkedTrue(cl, total) ==
    /\ \A i \in 1..Len(cl.shown) :
          (i <= cl.covered \/ cl.shown[i].status = "verified") => cl.shown[i].text = <<i>>
    /\ cl.stream_fully_verified = TRUE => cl.n_chunks = total

\* The verified tokens show the text from its beginning.
TokensShown(s, e, size, p) ==
    /\ \A i \in DOMAIN p.tokens : p.tokens[i].status = "verified" =>
          /\ p.tokens[i].text = IF s = "buffer_and_sign" THEN [j \in 1..size |-> j] ELSE <<i>>
          /\ \A j \in 1..i : p.tokens[j].status = "verified"
    /\ s = "hash_chain" /\ e > 0 => p.max_pending <= e

\* What holds once the verdict is given; may says that the stream passes
\* although the attack changed it.
Done(s, e, size, total, own, may, f, cl, p) ==
    /\ cl \in Clients /\ p \in Pages
    /\ cl.n_chunks = Len(f.chunks) /\ Len(cl.shown) = cl.n_chunks /\ cl.covered \in 0..cl.n_chunks
    /\ cl.stream_fully_verified \in BOOLEAN /\ cl.stream_fully_verified = (cl.failed = None)
    /\ cl.rejected_at_chunk # None => cl.failed # None
    /\ s # "buffer_and_sign" => Verdict(s, e, f, cl)
    /\ MarkedTrue(cl, total)
    /\ cl.stream_fully_verified = TRUE <=> f = own \/ may
    /\ TokensShown(s, e, size, p)
    /\ \A i \in DOMAIN p.tokens : p.tokens[i].status # "pending"
    /\ cl.stream_fully_verified => p.pending = 0

MayPass == args.attack = "strip_checkpoints" /\ enforced = 0

Settled ==
    /\ Done(strategy, enforced, args.length, Total, server, MayPass, fed, client, page)
    /\ phase # "error" => page.banner = IF client.stream_fully_verified THEN "verified" ELSE "failed"

StreamInv ==
    /\ ~Ended => \E g \in 0..Len(fed.chunks) : Following(strategy, enforced, fed.chunks, g, client, page)
    /\ Ended => Settled

LiveInv == ArgsInv /\ TodoInv /\ FedInv /\ StripInv /\ StreamInv

-----------------------------------------------------------------------------
(***************************************************************************)
(* What a record that is the server's, or changed by the attack, may be.   *)
(***************************************************************************)
LEMMA MessageIs ==
    ASSUME NEW h \in Sessions, NEW label \in {"BUF", "CHK", "END", "CKP", "FIN"}, NEW x \in Nat,
           NEW body \in Seq(Envelopes) \cup Seq(Hashes)
    PROVE  Sign(h, Message(label, stream_context(h), x, body)) \in Signatures
  BY DEF Sign, Message, Messages, Signatures, Sessions

LEMMA SentTyped ==
    ASSUME NEW s \in Strategies, NEW k \in Nat, NEW j \in Nat \ {0}
    PROVE  LET own == Sent(Hid, s, k, j)
           IN  own \in WireRecords /\ own.kind = "chunk" /\ own.signature \in Signatures \cup {None}
               /\ own.env \in Envelopes
  <1>1. Hid \in Sessions /\ j - 1 \in Nat /\ j \in Nat
    BY DEF Sessions
  <1>2. Env(Hid, j) \in Envelopes /\ Hash(Hid, j) \in Hashes
    BY <1>1, EnvIs, HashIs
  <1>3. <<Env(Hid, j)>> \in Seq(Envelopes) /\ <<Hash(Hid, j)>> \in Seq(Hashes)
    BY <1>2
  <1>4. Sign(Hid, chunk_message(stream_context(Hid), j - 1, Env(Hid, j))) \in Signatures
    BY <1>1, <1>3, MessageIs DEF chunk_message
  <1>5. Checkpoint(Hid, j) \in Signatures
    BY <1>1, <1>3, MessageIs DEF Checkpoint, checkpoint_message
  <1>6. QED
    BY <1>1, <1>2, <1>4, <1>5 DEF Sent, ChunkRow, Record, WireRecords

\* What an attack may change of a chunk.
Known(s, k, name, r, j) ==
    /\ r \in WireRecords /\ r.kind = "chunk" /\ r.n = j - 1 /\ r.env \in Envelopes /\ r.env.text = <<j>>
    /\ r.env.key = Hid => r.env = Env(Hid, j)
    /\ r.signature \in Signatures => r.signature.msg = Sent(Hid, s, k, j).signature.msg
    /\ (r.env.key = Hid /\ r.signature \in Signatures /\ r.signature.signer = Hid) => r = Sent(Hid, s, k, j)
    /\ (r.env.key = Hid /\ r.signature = None) =>
         \/ r = Sent(Hid, s, k, j)
         \/ name = "strip_checkpoints" /\ s = "hash_chain" /\ r = Strip(Sent(Hid, s, k, j))

LEMMA VariantIs ==
    ASSUME NEW s \in Strategies, NEW k \in Nat, NEW name, NEW j \in Nat \ {0}, NEW r, Variant(s, k, name, r, j)
    PROVE  Known(s, k, name, r, j)
  <1>1. PICK own : own = Sent(Hid, s, k, j)
    OBVIOUS
  <1>2. /\ own \in WireRecords /\ own.kind = "chunk" /\ own.signature \in Signatures \cup {None}
        /\ own.n = j - 1 /\ own.env = Env(Hid, j)
    BY <1>1, SentTyped, SentIs DEF Sessions
  <1>3. /\ own.env \in Envelopes /\ own.env.key = Hid /\ own.env.text = <<j>>
    BY <1>2, EnvIs DEF Sessions
  <1>4. CASE r = own
    BY <1>1, <1>2, <1>3, <1>4 DEF Known
  <1>5. CASE r = FlipCiphertext(own)
    <2>1. PICK env : env = [own.env EXCEPT !.key = NoKey]
      OBVIOUS
    <2>2. env \in Envelopes /\ env.key = NoKey /\ env.text = <<j>>
      BY <1>3, <2>1 DEF Envelopes
    <2>3. r = [own EXCEPT !.env = env]
      BY <1>2, <1>5, <2>1 DEF FlipCiphertext, WireRecords
    <2>4. r \in WireRecords /\ r.kind = "chunk" /\ r.n = j - 1 /\ r.env = env /\ r.signature = own.signature
      BY <1>2, <2>2, <2>3 DEF WireRecords
    <2>5. r.env.key # Hid
      BY <2>2, <2>4, DistinctIds
    <2>6. QED
      BY <1>1, <2>2, <2>4, <2>5 DEF Known
  <1>6. CASE own.signature # None /\ r = FlipSignature(own)
    <2>1. PICK sig : sig = [own.signature EXCEPT !.signer = NoKey]
      OBVIOUS
    <2>2. sig \in Signatures /\ sig.signer = NoKey /\ sig.msg = own.signature.msg /\ sig.signer # Hid
      BY <1>2, <1>6, <2>1, DistinctIds DEF Signatures
    <2>3. r = [own EXCEPT !.signature = sig]
      BY <1>2, <1>6, <2>1 DEF FlipSignature, WireRecords
    <2>4. r \in WireRecords /\ r.kind = "chunk" /\ r.n = j - 1 /\ r.env = own.env /\ r.signature = sig
      BY <1>2, <2>2, <2>3 DEF WireRecords
    <2>5. sig # None
      BY <2>2, NoneAssumption
    <2>6. QED
      BY <1>1, <1>2, <1>3, <2>2, <2>4, <2>5 DEF Known
  <1>7. CASE name = "strip_checkpoints" /\ s = "hash_chain" /\ r = Strip(own)
    <2>1. r \in WireRecords /\ r.kind = "chunk" /\ r.n = j - 1 /\ r.env = own.env /\ r.signature = None
      BY <1>2, <1>7 DEF Strip, WireRecords
    <2>2. r.signature \notin Signatures
      BY <2>1, NoneAssumption
    <2>3. QED
      BY <1>1, <1>2, <1>3, <1>7, <2>1, <2>2 DEF Known
  <1>8. QED
    BY <1>1, <1>4, <1>5, <1>6, <1>7 DEF Variant

\* Whether the i-th chunk is rejected depends on the chunks up to it.
LEMMA RejectsPrefix ==
    ASSUME NEW s, NEW e, NEW S, NEW c \in Seq(S), NEW r \in S, NEW i \in 1..Len(c)
    PROVE  Rejects(s, e, Append(c, r), i) <=> Rejects(s, e, c, i)
  <1>1. PICK d : d = Append(c, r)
    OBVIOUS
  <1>2. Len(c) \in Nat /\ \A x \in 1..Len(c) : d[x] = c[x]
    BY <1>1
  <1>3. \A x \in 1..i : d[x] = c[x]
    BY <1>2
  <1>4. [x \in 1..i |-> [index |-> d[x].n, env |-> d[x].env]]
            = [x \in 1..i |-> [index |-> c[x].n, env |-> c[x].env]]
    BY <1>3
  <1>5. ChainAfter(d, i) = ChainAfter(c, i)
    BY <1>4, Zenon DEF ChainAfter
  <1>6. d[i] = c[i]
    BY <1>2
  <1>7. Rejects(s, e, d, i) <=> Rejects(s, e, c, i)
    BY <1>5, <1>6, Zenon DEF Rejects
  <1>8. QED
    BY <1>1, <1>7

LEMMA CleanPrefix ==
    ASSUME NEW s, NEW e, NEW S, NEW c \in Seq(S), NEW r \in S, NEW i \in 0..Len(c)
    PROVE  Clean(s, e, Append(c, r), i) <=> Clean(s, e, c, i)
  <1>1. Len(c) \in Nat
    OBVIOUS
  <1>2. \A x \in 1..i : x \in 1..Len(c)
    BY <1>1
  <1>3. \A x \in 1..i : Rejects(s, e, Append(c, r), x) <=> Rejects(s, e, c, x)
    BY <1>2, RejectsPrefix
  <1>4. QED
    BY <1>3, Zenon DEF Clean

LEMMA ChainAbsorbs ==
    ASSUME NEW S, NEW c \in Seq(S), NEW r \in S, NEW size \in Nat, size = Len(c)
    PROVE  ChainAbsorb(ChainAfter(c, size), r) = ChainAfter(Append(c, r), size + 1)
  <1>1. PICK d : d = Append(c, r)
    OBVIOUS
  <1>2. d[size + 1] = r /\ \A x \in 1..size : d[x] = c[x]
    BY <1>1
  <1>3. PICK old : old = [x \in 1..size |-> [index |-> c[x].n, env |-> c[x].env]]
    OBVIOUS
  <1>4. PICK new : new = [x \in 1..(size + 1) |-> [index |-> d[x].n, env |-> d[x].env]]
    OBVIOUS
  <1>5. PICK link : link = [index |-> r.n, env |-> r.env]
    OBVIOUS
  <1>6. Append(old, link) = new
    <2>1. PICK T : T = {old[x] : x \in 1..size} \cup {link}
      OBVIOUS
    <2>2. old \in Seq(T) /\ Len(old) = size /\ link \in T
      BY <1>3, <2>1
    <2>3. Append(old, link) \in Seq(T) /\ Len(Append(old, link)) = size + 1
          /\ \A x \in 1..(size + 1) : Append(old, link)[x] = IF x = size + 1 THEN link ELSE old[x]
      BY <2>2
    <2>4. \A x \in 1..(size + 1) : new[x] = IF x = size + 1 THEN link ELSE old[x]
      <3>1. new[size + 1] = link
        BY <1>2, <1>4, <1>5
      <3>2. \A x \in 1..size : new[x] = old[x]
        BY <1>2, <1>3, <1>4
      <3>3. QED
        BY <3>1, <3>2
    <2>5. PICK app : app = Append(old, link)
      OBVIOUS
    <2>6. app = [x \in 1..(size + 1) |-> app[x]]
      <3>1. app \in Seq(T) /\ Len(app) = size + 1
        BY <2>3, <2>5
      <3>2. app \in [1..(size + 1) -> T]
        BY <3>1
      <3>3. QED
        BY <3>2
    <2>7. \A x \in 1..(size + 1) : app[x] = [index |-> d[x].n, env |-> d[x].env]
      BY <1>4, <2>3, <2>4, <2>5
    <2>8. app = new
      BY <1>4, <2>6, <2>7
    <2>9. QED
      BY <2>5, <2>8
  <1>8. ChainAfter(c, size).running_hash.gen = genesis_hash(Hid).gen
        /\ ChainAfter(c, size).running_hash.links = old /\ ChainAfter(c, size).n_absorbed = size
    BY <1>3 DEF ChainAfter
  <1>9. QED
    BY <1>1, <1>4, <1>5, <1>6, <1>8 DEF ChainAbsorb, absorb, ChainAfter

-----------------------------------------------------------------------------
(***************************************************************************)
(* A chunk that passes is the server's, and in its place if it is signed.  *)
(***************************************************************************)
LEMMA PerChunkPasses ==
    ASSUME NEW e, NEW c, NEW i \in Nat \ {0}, NEW k \in Nat, NEW name, NEW j \in Nat \ {0},
           Variant("per_chunk", k, name, c[i], j)
    PROVE  ~Rejects("per_chunk", e, c, i) <=> j = i /\ c[i] = Sent(Hid, "per_chunk", k, i)
  <1>1. PICK r : r = c[i]
    OBVIOUS
  <1>2. /\ r \in WireRecords /\ r.n = j - 1 /\ r.env \in Envelopes
        /\ r.env.key = Hid => r.env = Env(Hid, j)
        /\ (r.env.key = Hid /\ r.signature \in Signatures /\ r.signature.signer = Hid)
              => r = Sent(Hid, "per_chunk", k, j)
    <2>1. Known("per_chunk", k, name, r, j)
      BY <1>1, VariantIs, Zenon DEF Strategies
    <2>2. QED
      BY <2>1 DEF Known
  <1>3. ~Rejects("per_chunk", e, c, i) <=>
           r.signature = Sign(Hid, chunk_message(ctx, r.n, r.env)) /\ r.env.key = Hid /\ r.n = i - 1
    BY <1>1 DEF Rejects, verify_per_chunk, Verify, Decrypts
  <1>4. ASSUME r.signature = Sign(Hid, chunk_message(ctx, r.n, r.env))
        PROVE  r.signature \in Signatures /\ r.signature.signer = Hid
    <2>1. r.n \in Nat /\ <<r.env>> \in Seq(Envelopes)
      BY <1>2
    <2>2. Sign(Hid, Message("CHK", stream_context(Hid), r.n, <<r.env>>)) \in Signatures
      BY <2>1, MessageIs DEF Sessions
    <2>3. QED
      BY <1>4, <2>2 DEF chunk_message, ctx, Sign
  <1>5. ASSUME ~Rejects("per_chunk", e, c, i) PROVE j = i /\ c[i] = Sent(Hid, "per_chunk", k, i)
    BY <1>1, <1>2, <1>3, <1>4, <1>5
  <1>6. ASSUME j = i, c[i] = Sent(Hid, "per_chunk", k, i) PROVE ~Rejects("per_chunk", e, c, i)
    BY <1>6, PerChunkRejects DEF Sessions
  <1>7. QED
    BY <1>5, <1>6

PassedChunk(e, c, i, k, name, j) ==
    /\ c[i].env = Env(Hid, j) /\ c[i].env.key = Hid
    /\ e > 0 /\ i % e = 0 => c[i].signature # None
    /\ c[i].signature # None => i = j /\ c[i] = Sent(Hid, "hash_chain", k, i) /\ InPlace(c, i)
    /\ c[i].signature = None =>
         \/ c[i] = Sent(Hid, "hash_chain", k, j)
         \/ name = "strip_checkpoints" /\ c[i] = Strip(Sent(Hid, "hash_chain", k, j))

LEMMA ChainPasses ==
    ASSUME NEW e \in Nat, NEW c, NEW i \in Nat \ {0}, NEW k \in Nat, NEW name, NEW j \in Nat \ {0},
           Variant("hash_chain", k, name, c[i], j), ~Rejects("hash_chain", e, c, i)
    PROVE  PassedChunk(e, c, i, k, name, j)
  <1>1. PICK r : r = c[i]
    OBVIOUS
  <1>2. PICK h : h = ChainAfter(c, i).running_hash
    OBVIOUS
  <1>3. /\ r \in WireRecords /\ r.n = j - 1
        /\ r.env.key = Hid => r.env = Env(Hid, j)
        /\ r.signature \in Signatures => r.signature.msg = Sent(Hid, "hash_chain", k, j).signature.msg
        /\ (r.env.key = Hid /\ r.signature \in Signatures /\ r.signature.signer = Hid)
              => r = Sent(Hid, "hash_chain", k, j)
        /\ (r.env.key = Hid /\ r.signature = None) =>
                \/ r = Sent(Hid, "hash_chain", k, j)
                \/ name = "strip_checkpoints" /\ r = Strip(Sent(Hid, "hash_chain", k, j))
    <2>1. Known("hash_chain", k, name, r, j)
      BY <1>1, VariantIs, Zenon DEF Strategies
    <2>2. QED
      BY <2>1 DEF Known
  <1>4. /\ r.env.key = Hid
        /\ e > 0 /\ i % e = 0 => r.signature # None
        /\ r.signature # None => r.signature = Sign(Hid, checkpoint_message(ctx, r.n, h))
    BY <1>1, <1>2, ChainRejects
  <1>5. ASSUME r.signature # None
        PROVE  i = j /\ r = Sent(Hid, "hash_chain", k, i) /\ InPlace(c, i)
    <2>1. r.signature \in Signatures /\ r.signature.signer = Hid
      BY <1>3, <1>4, <1>5 DEF WireRecords, Sign
    <2>2. r = Sent(Hid, "hash_chain", k, j)
      BY <1>3, <1>4, <2>1
    <2>3. r.signature = Checkpoint(Hid, j)
      BY <1>5, <2>2, SentIs DEF Strategies, Sessions
    <2>4. <<h>> = <<Hash(Hid, j)>>
      BY <1>4, <1>5, <2>3 DEF Checkpoint, Sign, checkpoint_message, Message
    <2>5. h = Hash(Hid, j)
      BY <2>4
    <2>6. h.links = [x \in 1..i |-> [index |-> c[x].n, env |-> c[x].env]]
      BY <1>2 DEF ChainAfter
    <2>7. h.links = [x \in 1..j |-> [index |-> x - 1, env |-> Env(Hid, x)]]
      BY <2>5 DEF Hash
    <2>8. 1..i = 1..j
      BY <2>6, <2>7
    <2>9. i = j
      BY <2>8
    <2>10. InPlace(c, i)
      BY <1>2, <2>5, <2>9, ChainInPlace
    <2>11. QED
      BY <2>2, <2>9, <2>10
  <1>6. QED
    BY <1>1, <1>3, <1>4, <1>5 DEF PassedChunk

-----------------------------------------------------------------------------
(***************************************************************************)
(* What process does with a chunk.                                         *)
(***************************************************************************)
Alike(f, cl) ==
    /\ f.expected = cl.expected /\ f.pending = cl.pending /\ f.terminal = cl.terminal
    /\ f.chain_state = cl.chain_state /\ f.n_chunks = cl.n_chunks
    /\ f.stream_fully_verified = cl.stream_fully_verified
    /\ f.max_unverified_chunks = cl.max_unverified_chunks /\ f.shown = cl.shown /\ f.covered = cl.covered

LEMMA FailIs ==
    ASSUME NEW cl \in Clients, NEW ok \in BOOLEAN, NEW reason \in Reasons, NEW index \in Int
    PROVE  LET f == fail(cl, ok, reason, index)
           IN  /\ f \in Clients /\ Alike(f, cl) /\ (f.failed = None <=> cl.failed = None /\ ok)
               /\ f.failed = None => f.rejected_at_chunk = cl.rejected_at_chunk
               /\ ~ok => f.failed # None
  <1>1. PICK f : f = fail(cl, ok, reason, index)
    OBVIOUS
  <1>2. CASE cl.failed = None /\ ~ok
    <2>1. f = [cl EXCEPT !.failed = reason, !.rejected_at_chunk = index]
      BY <1>1, <1>2 DEF fail
    <2>2. f \in Clients /\ Alike(f, cl) /\ f.failed = reason
      BY <2>1 DEF Clients, Alike
    <2>3. reason # None
      BY ReasonAssumption
    <2>4. QED
      BY <1>1, <1>2, <2>2, <2>3
  <1>3. CASE ~(cl.failed = None /\ ~ok)
    <2>1. f = cl
      BY <1>1, <1>3 DEF fail
    <2>2. QED
      BY <1>1, <1>3, <2>1 DEF Alike
  <1>4. QED
    BY <1>2, <1>3

Took(cl, p, r, bad, status) ==
    /\ p \in Clients /\ p.terminal = cl.terminal /\ p.stream_fully_verified = cl.stream_fully_verified
    /\ p.failed = None <=> cl.failed = None /\ ~bad
    /\ p.failed = None => p.rejected_at_chunk = cl.rejected_at_chunk
    /\ p.n_chunks = cl.n_chunks + 1
    /\ \E item \in ShownChunks :
          /\ p.shown = Append(cl.shown, item)
          /\ item.status = IF cl.failed = None /\ ~bad THEN status ELSE "rejected"
          /\ ~bad => item.text = r.env.text

\* bad is what the experiments' client would say of the chunk.
LEMMA PerChunkTook ==
    ASSUME NEW cl \in Clients, NEW r \in WireRecords, r.env \in Envelopes, NEW e, NEW d, NEW size \in Nat,
           cl.expected = size, d[size + 1] = r
    PROVE  LET p == ProcessPerChunk(cl, r)
           IN  /\ Took(cl, p, r, Rejects("per_chunk", e, d, size + 1), "verified")
               /\ p.expected = size + 1 /\ p.covered = cl.covered /\ p.pending = cl.pending
  <1>1. PICK v : v = verify_per_chunk(r, size)
    OBVIOUS
  <1>2. PICK ok : ok = (v.signature_valid /\ v.aead_ok /\ v.in_order)
    OBVIOUS
  <1>3. ok \in BOOLEAN /\ (ok <=> ~Rejects("per_chunk", e, d, size + 1)) /\ (ok => v.aead_ok)
    <2>1. size + 1 - 1 = size
      OBVIOUS
    <2>2. Rejects("per_chunk", e, d, size + 1) <=> ~(v.in_order /\ v.signature_valid /\ v.aead_ok)
      BY <1>1, <2>1 DEF Rejects
    <2>3. QED
      BY <1>2, <2>2
  <1>4. PICK reason : reason = CASE ~v.signature_valid -> "signature invalid"
                                 [] v.signature_valid /\ ~v.aead_ok -> "AEAD tag failed"
                                 [] OTHER -> "out of order"
    OBVIOUS
  <1>5. reason \in Reasons
    BY <1>4 DEF Reasons
  <1>6. PICK f : f = fail(cl, ok, reason, r.n)
    OBVIOUS
  <1>7. /\ f \in Clients /\ Alike(f, cl) /\ (f.failed = None <=> cl.failed = None /\ ok)
        /\ f.failed = None => f.rejected_at_chunk = cl.rejected_at_chunk
    <2>1. r.n \in Int
      BY DEF WireRecords
    <2>2. QED
      BY <1>3, <1>5, <1>6, <2>1, FailIs
  <1>8. PICK item : item = ShownChunk(r, v.aead_ok, IF ok /\ f.failed = None THEN "verified" ELSE "rejected")
    OBVIOUS
  <1>9. /\ item \in ShownChunks
        /\ item.status = IF ok /\ f.failed = None THEN "verified" ELSE "rejected"
        /\ v.aead_ok => item.text = r.env.text
    BY <1>8 DEF ShownChunk, ShownChunks, Statuses, Envelopes, WireRecords
  <1>10. PICK p : p = [f EXCEPT !.expected = f.expected + 1, !.n_chunks = f.n_chunks + 1,
                                !.shown = Append(f.shown, item)]
    OBVIOUS
  <1>11. ProcessPerChunk(cl, r) = p
    BY <1>1, <1>2, <1>4, <1>6, <1>8, <1>10, Zenon DEF ProcessPerChunk
  <1>12. Append(f.shown, item) \in Seq(ShownChunks) /\ f.expected + 1 \in Nat /\ f.n_chunks + 1 \in Nat
    <2>1. f.shown \in Seq(ShownChunks) /\ f.expected \in Nat /\ f.n_chunks \in Nat
      BY <1>7 DEF Clients
    <2>2. QED
      BY <1>9, <2>1
  <1>13. /\ p \in Clients /\ p.expected = f.expected + 1 /\ p.n_chunks = f.n_chunks + 1
         /\ p.shown = Append(f.shown, item) /\ p.failed = f.failed /\ p.rejected_at_chunk = f.rejected_at_chunk
         /\ p.terminal = f.terminal /\ p.stream_fully_verified = f.stream_fully_verified
         /\ p.covered = f.covered /\ p.pending = f.pending
    BY <1>7, <1>10, <1>12 DEF Clients
  <1>14. QED
    BY <1>3, <1>7, <1>9, <1>11, <1>13 DEF Took, Alike

LEMMA LargerIs ==
    ASSUME NEW a \in Nat, NEW b \in Nat
    PROVE  Max({a, b}) = IF a >= b THEN a ELSE b
  <1>1. {a, b} \subseteq 0..(a + b) /\ {a, b} # {}
    OBVIOUS
  <1>2. Max({a, b}) \in {a, b} /\ \A y \in {a, b} : Max({a, b}) >= y
    <2>1. PICK T : T = {a, b}
      OBVIOUS
    <2>2. Max(T) \in T /\ \A y \in T : Max(T) >= y
      BY <1>1, <2>1, Greatest
    <2>3. QED
      BY <2>1, <2>2
  <1>3. QED
    BY <1>2

TookChain(cl, p, r, bad, chain) ==
    LET covers == p.failed = None /\ r.signature # None
    IN  /\ Took(cl, p, r, bad, "pending")
        /\ p.chain_state = chain
        /\ p.pending = IF covers THEN 0 ELSE cl.pending + 1
        /\ p.covered = IF covers THEN r.n + 1 ELSE cl.covered

LEMMA ChainTook ==
    ASSUME NEW cl \in Clients, NEW r \in WireRecords, r.env \in Envelopes, enforced \in Nat, NEW d,
           NEW size \in Nat,
           NEW chain \in ChainStates, chain = ChainAbsorb(cl.chain_state, r),
           chain = ChainAfter(d, size + 1), d[size + 1] = r
    PROVE  TookChain(cl, ProcessChainChunk(cl, r), r, Rejects("hash_chain", enforced, d, size + 1), chain)
  <1>1. PICK v : v = verify_hash_chain_chunk(r, chain, enforced)
    OBVIOUS
  <1>2. PICK ok : ok = (v.aead_ok /\ ~v.checkpoint_missing /\ (v.checkpoint => v.checkpoint_valid))
    OBVIOUS
  <1>3. /\ ok \in BOOLEAN /\ (ok <=> ~Rejects("hash_chain", enforced, d, size + 1)) /\ (ok => v.aead_ok)
        /\ v.checkpoint = (r.signature # None)
        /\ ok /\ v.checkpoint => v.checkpoint_valid
    <2>1. Rejects("hash_chain", enforced, d, size + 1) <=>
             ~v.aead_ok \/ v.checkpoint_missing \/ (v.checkpoint /\ ~v.checkpoint_valid)
      BY <1>1 DEF Rejects
    <2>2. v.checkpoint = (r.signature # None)
      BY <1>1 DEF verify_hash_chain_chunk
    <2>3. QED
      BY <1>2, <2>1, <2>2
  <1>4. PICK reason : reason = CASE ~v.aead_ok -> "AEAD tag failed"
                                 [] v.aead_ok /\ v.checkpoint_missing -> "expected checkpoint missing"
                                 [] OTHER -> "checkpoint signature does not match the chain"
    OBVIOUS
  <1>5. reason \in Reasons
    BY <1>4 DEF Reasons
  <1>6. PICK f : f = fail(cl, ok, reason, r.n)
    OBVIOUS
  <1>7. /\ f \in Clients /\ Alike(f, cl) /\ (f.failed = None <=> cl.failed = None /\ ok)
        /\ f.failed = None => f.rejected_at_chunk = cl.rejected_at_chunk
    <2>1. r.n \in Int
      BY DEF WireRecords
    <2>2. QED
      BY <1>3, <1>5, <1>6, <2>1, FailIs
  <1>8. PICK item : item = ShownChunk(r, v.aead_ok, IF f.failed # None THEN "rejected" ELSE "pending")
    OBVIOUS
  <1>9. /\ item \in ShownChunks
        /\ item.status = IF f.failed # None THEN "rejected" ELSE "pending"
        /\ v.aead_ok => item.text = r.env.text
    BY <1>8 DEF ShownChunk, ShownChunks, Statuses, Envelopes, WireRecords
  <1>10. PICK covers : covers = (v.checkpoint /\ v.checkpoint_valid /\ f.failed = None)
    OBVIOUS
  <1>11. PICK pend : pend = IF covers THEN 0 ELSE f.pending + 1
    OBVIOUS
  <1>12. PICK cov : cov = IF covers THEN r.n + 1 ELSE f.covered
    OBVIOUS
  <1>13. PICK most : most = Max({f.max_unverified_chunks, cl.pending + 1})
    OBVIOUS
  <1>14. PICK p : p = [f EXCEPT !.chain_state = chain, !.n_chunks = f.n_chunks + 1, !.pending = pend,
                                !.max_unverified_chunks = most, !.shown = Append(f.shown, item),
                                !.covered = cov]
    OBVIOUS
  <1>15. ProcessChainChunk(cl, r) = p
    BY <1>1, <1>2, <1>4, <1>6, <1>8, <1>10, <1>11, <1>12, <1>13, <1>14, ZenonT(30) DEF ProcessChainChunk
  <1>16. /\ Append(f.shown, item) \in Seq(ShownChunks) /\ f.n_chunks + 1 \in Nat
         /\ pend \in Nat /\ cov \in Nat /\ r.n \in Nat
    <2>1. f.shown \in Seq(ShownChunks) /\ f.n_chunks \in Nat /\ f.pending \in Nat /\ f.covered \in Nat
      BY <1>7 DEF Clients
    <2>2. r.n \in Nat
      BY DEF WireRecords
    <2>3. QED
      BY <1>9, <1>11, <1>12, <2>1, <2>2
  <1>17. most \in Nat
    <2>1. f.max_unverified_chunks \in Nat /\ cl.pending + 1 \in Nat
      BY <1>7 DEF Clients
    <2>2. QED
      BY <1>13, <2>1, LargerIs
  <1>18. /\ p \in Clients /\ p.chain_state = chain /\ p.n_chunks = f.n_chunks + 1
         /\ p.shown = Append(f.shown, item) /\ p.failed = f.failed /\ p.rejected_at_chunk = f.rejected_at_chunk
         /\ p.terminal = f.terminal /\ p.stream_fully_verified = f.stream_fully_verified
         /\ p.covered = cov /\ p.pending = pend
    BY <1>7, <1>14, <1>16, <1>17 DEF Clients
  <1>19. covers <=> p.failed = None /\ r.signature # None
    BY <1>3, <1>7, <1>10, <1>18
  <1>20. Took(cl, p, r, Rejects("hash_chain", enforced, d, size + 1), "pending")
    BY <1>3, <1>7, <1>9, <1>18 DEF Took, Alike
  <1>21. QED
    BY <1>7, <1>11, <1>12, <1>15, <1>18, <1>19, <1>20 DEF Alike, TookChain

-----------------------------------------------------------------------------
(***************************************************************************)
(* The client after one more chunk.                                        *)
(***************************************************************************)
Longer(s, e, c, g, r) ==
    IF g = Len(c) /\ ~Rejects(s, e, Append(c, r), Len(c) + 1) THEN g + 1 ELSE g

Extended(s, e, c, g, r, d, g2) ==
    /\ Passing(s, e, d, g2) /\ g2 \in Nat /\ g \in 0..Len(c) /\ Len(d) = Len(c) + 1 /\ Len(c) \in Nat
    /\ g2 = Len(d) <=> g = Len(c) /\ ~Rejects(s, e, d, Len(c) + 1)
    /\ Clean(s, e, d, Len(c) + 1) <=> g2 = Len(d)
    /\ \A i \in 1..Len(c) : d[i] = c[i] /\ (Clean(s, e, d, i) <=> Clean(s, e, c, i))
    /\ d[Len(c) + 1] = r

LEMMA PassingNext ==
    ASSUME NEW s, NEW e, NEW c \in Seq(WireRecords), NEW r \in WireRecords, NEW g, Passing(s, e, c, g)
    PROVE  Extended(s, e, c, g, r, Append(c, r), Longer(s, e, c, g, r))
  <1> DEFINE d == Append(c, r)
             g2 == Longer(s, e, c, g, r)
  <1>1. /\ Len(c) \in Nat /\ Len(d) = Len(c) + 1 /\ g \in 0..Len(c) /\ d[Len(c) + 1] = r
        /\ \A i \in 1..Len(c) : d[i] = c[i]
    BY DEF Passing
  <1>2. \A i \in 1..Len(c) : Rejects(s, e, d, i) <=> Rejects(s, e, c, i)
    BY RejectsPrefix
  <1>3. \A i \in 0..Len(c) : Clean(s, e, d, i) <=> Clean(s, e, c, i)
    BY CleanPrefix
  <1> HIDE DEF d
  <1>4. PICK bad : bad = Rejects(s, e, d, Len(c) + 1)
    OBVIOUS
  <1>5. Clean(s, e, d, Len(c) + 1) <=> Clean(s, e, c, Len(c)) /\ ~bad
    <2>1. Clean(s, e, d, Len(c) + 1) <=> Clean(s, e, d, Len(c)) /\ ~Rejects(s, e, d, Len(c) + 1)
      BY <1>1 DEF Clean
    <2>2. QED
      BY <1>1, <1>3, <1>4, <2>1
  <1>6. Clean(s, e, c, Len(c)) <=> g = Len(c)
    <2>1. ASSUME g < Len(c) PROVE ~Clean(s, e, c, Len(c))
      <3>1. g + 1 \in 1..Len(c) /\ Rejects(s, e, c, g + 1)
        BY <1>1, <2>1 DEF Passing
      <3>2. QED
        BY <3>1 DEF Clean
    <2>2. g = Len(c) => Clean(s, e, c, Len(c))
      BY DEF Passing
    <2>3. QED
      BY <1>1, <2>1, <2>2
  <1>7. g2 = IF g = Len(c) /\ ~bad THEN g + 1 ELSE g
    BY <1>4 DEF Longer, d
  <1> HIDE DEF g2
  <1>8. g2 \in 0..Len(d) /\ g2 \in Nat /\ (g2 = Len(d) <=> g = Len(c) /\ ~bad)
    BY <1>1, <1>7
  <1>9. Clean(s, e, d, g2)
    <2>1. CASE g = Len(c) /\ ~bad
      BY <1>5, <1>6, <1>7, <2>1
    <2>2. CASE ~(g = Len(c) /\ ~bad)
      BY <1>1, <1>3, <1>7, <2>2 DEF Passing
    <2>3. QED
      BY <2>1, <2>2
  <1>10. ASSUME g2 < Len(d) PROVE Rejects(s, e, d, g2 + 1)
    <2>1. CASE g = Len(c)
      BY <1>1, <1>4, <1>7, <1>10, <2>1
    <2>2. CASE g < Len(c)
      <3>1. g2 = g /\ g + 1 \in 1..Len(c) /\ Rejects(s, e, c, g + 1)
        BY <1>1, <1>7, <2>2 DEF Passing
      <3>2. QED
        BY <1>2, <3>1
    <2>3. QED
      BY <1>1, <2>1, <2>2
  <1>11. Passing(s, e, d, g2)
    BY <1>8, <1>9, <1>10 DEF Passing
  <1>12. Extended(s, e, c, g, r, d, g2)
    BY <1>1, <1>3, <1>4, <1>5, <1>6, <1>8, <1>11 DEF Extended
  <1>13. QED
    BY <1>12 DEF d, g2

LEMMA TookShows ==
    ASSUME NEW s, NEW e, NEW c \in Seq(WireRecords), NEW r \in WireRecords, NEW g, Passing(s, e, c, g),
           NEW cl, ClientShows(s, e, c, g, cl), NEW p,
           Took(cl, p, r, Rejects(s, e, Append(c, r), Len(c) + 1),
               IF s = "per_chunk" THEN "verified" ELSE "pending")
    PROVE  ClientShows(s, e, Append(c, r), Longer(s, e, c, g, r), p)
  <1>1. PICK d : d = Append(c, r)
    OBVIOUS
  <1>2. PICK g2 : g2 = Longer(s, e, c, g, r)
    OBVIOUS
  <1>3. PICK bad : bad = Rejects(s, e, d, Len(c) + 1)
    OBVIOUS
  <1>4. /\ Passing(s, e, d, g2) /\ g2 \in Nat /\ g \in 0..Len(c) /\ Len(d) = Len(c) + 1 /\ Len(c) \in Nat
        /\ g2 = Len(d) <=> g = Len(c) /\ ~Rejects(s, e, d, Len(c) + 1)
        /\ Clean(s, e, d, Len(c) + 1) <=> g2 = Len(d)
        /\ \A i \in 1..Len(c) : d[i] = c[i] /\ (Clean(s, e, d, i) <=> Clean(s, e, c, i))
        /\ d[Len(c) + 1] = r
    <2>1. Extended(s, e, c, g, r, d, g2)
      BY <1>1, <1>2, PassingNext, Zenon
    <2>2. QED
      BY <2>1, Zenon DEF Extended
  <1>5. /\ p \in Clients /\ p.terminal = cl.terminal /\ p.stream_fully_verified = cl.stream_fully_verified
        /\ p.failed = None <=> cl.failed = None /\ ~bad
        /\ p.failed = None => p.rejected_at_chunk = cl.rejected_at_chunk
        /\ p.n_chunks = cl.n_chunks + 1
    BY <1>1, <1>3 DEF Took
  <1>6. PICK item \in ShownChunks :
          /\ p.shown = Append(cl.shown, item)
          /\ item.status = IF cl.failed = None /\ ~bad
                           THEN (IF s = "per_chunk" THEN "verified" ELSE "pending") ELSE "rejected"
          /\ ~bad => item.text = r.env.text
    BY <1>1, <1>3 DEF Took
  <1>7. /\ cl \in Clients /\ ~cl.terminal /\ cl.stream_fully_verified = None /\ cl.n_chunks = Len(c)
        /\ cl.failed = None <=> g = Len(c)
        /\ cl.failed = None => cl.rejected_at_chunk = None
        /\ Len(cl.shown) = Len(c) /\ cl.shown \in Seq(ShownChunks)
        /\ \A i \in 1..Len(c) : ShownAs(s, e, c, i, cl.shown[i])
    BY DEF ClientShows, Clients
  <1>8. /\ Len(p.shown) = Len(c) + 1 /\ p.shown[Len(c) + 1] = item
        /\ \A i \in 1..Len(c) : p.shown[i] = cl.shown[i]
    BY <1>6, <1>7
  <1>9. p.failed = None <=> g2 = Len(d)
    BY <1>3, <1>4, <1>5, <1>7
  <1>10. \A i \in 1..Len(c) : ShownAs(s, e, d, i, p.shown[i])
    <2>1. SUFFICES ASSUME NEW i \in 1..Len(c) PROVE ShownAs(s, e, d, i, p.shown[i])
      OBVIOUS
    <2>2. ShownAs(s, e, c, i, cl.shown[i]) /\ d[i] = c[i] /\ (Clean(s, e, d, i) <=> Clean(s, e, c, i))
          /\ p.shown[i] = cl.shown[i]
      BY <1>4, <1>7, <1>8
    <2>3. QED
      BY <2>2, Zenon DEF ShownAs
  <1>11. ShownAs(s, e, d, Len(c) + 1, p.shown[Len(c) + 1])
    <2>1. Clean(s, e, d, Len(c) + 1) <=> cl.failed = None /\ ~bad
      BY <1>3, <1>4, <1>7
    <2>2. QED
      BY <1>4, <1>6, <1>8, <2>1 DEF ShownAs
  <1>12. \A i \in 1..Len(d) : ShownAs(s, e, d, i, p.shown[i])
    <2>1. \A i \in 1..Len(d) : i \in 1..Len(c) \/ i = Len(c) + 1
      BY <1>4
    <2>2. QED
      BY <1>10, <1>11, <2>1
  <1>13. ClientShows(s, e, d, g2, p)
    BY <1>4, <1>5, <1>7, <1>8, <1>9, <1>12 DEF ClientShows
  <1>14. QED
    BY <1>1, <1>2, <1>13

LEMMA FollowsPerChunk ==
    ASSUME NEW e, NEW c \in Seq(WireRecords), NEW r \in WireRecords, r.env \in Envelopes,
           NEW g, Passing("per_chunk", e, c, g), NEW cl, ClientFollows("per_chunk", e, c, g, cl)
    PROVE  ClientFollows("per_chunk", e, Append(c, r), Longer("per_chunk", e, c, g, r), ProcessPerChunk(cl, r))
  <1>1. PICK d : d = Append(c, r)
    OBVIOUS
  <1>2. PICK p : p = ProcessPerChunk(cl, r)
    OBVIOUS
  <1>3. PICK g2 : g2 = Longer("per_chunk", e, c, g, r)
    OBVIOUS
  <1>4. Len(c) \in Nat /\ d[Len(c) + 1] = r /\ Len(d) = Len(c) + 1
    BY <1>1
  <1>5. cl \in Clients /\ cl.expected = Len(c) /\ cl.covered = 0 /\ ClientShows("per_chunk", e, c, g, cl)
    BY DEF ClientFollows, ClientShows
  <1>6. /\ Took(cl, p, r, Rejects("per_chunk", e, d, Len(c) + 1), "verified")
        /\ p.expected = Len(c) + 1 /\ p.covered = cl.covered
    BY <1>2, <1>4, <1>5, PerChunkTook
  <1>7. ClientShows("per_chunk", e, d, g2, p)
    BY <1>1, <1>3, <1>5, <1>6, TookShows
  <1>8. g2 \in Nat
    <2>1. Extended("per_chunk", e, c, g, r, d, g2)
      BY <1>1, <1>3, PassingNext, Zenon
    <2>2. QED
      BY <2>1, Zenon DEF Extended
  <1>9. QED
    BY <1>1, <1>2, <1>3, <1>4, <1>5, <1>6, <1>7, <1>8 DEF ClientFollows

LEMMA ChainTyped ==
    ASSUME NEW state \in ChainStates, NEW r \in WireRecords, r.env \in Envelopes
    PROVE  ChainAbsorb(state, r) \in ChainStates
  <1>1. PICK links : links = state.running_hash.links
    OBVIOUS
  <1>2. PICK T : T = [index: Nat, env: Envelopes]
    OBVIOUS
  <1>3. state.running_hash \in Hashes /\ links \in Seq(T) /\ state.n_absorbed + 1 \in Nat
    BY <1>1, <1>2 DEF ChainStates, Hashes
  <1>4. [index |-> r.n, env |-> r.env] \in T
    BY <1>2 DEF WireRecords
  <1>5. Append(links, [index |-> r.n, env |-> r.env]) \in Seq(T)
    BY <1>3, <1>4
  <1>6. absorb(state.running_hash, r.n, r.env) \in Hashes
    BY <1>1, <1>2, <1>3, <1>5 DEF absorb, Hashes
  <1>7. QED
    BY <1>3, <1>6 DEF ChainAbsorb, ChainStates

\* The client after a chunk r, and whether it covers what was pending.
ClientNext(s, e, c, g, cl, r, d, g2, after) ==
    LET covers == s = "hash_chain" /\ after.pending = 0
    IN  /\ ClientFollows(s, e, d, g2, after)
        /\ after.covered = IF covers THEN g2 ELSE cl.covered
        /\ covers => g2 = Len(d)
        /\ s = "hash_chain" /\ ~covers /\ g2 = Len(d) => r.signature = None

LEMMA FollowsChain ==
    ASSUME enforced \in Nat, NEW k \in Nat, NEW name, NEW j \in Nat \ {0},
           NEW c \in Seq(WireRecords), NEW r \in WireRecords, Variant("hash_chain", k, name, r, j),
           NEW g, Passing("hash_chain", enforced, c, g), NEW cl, ClientFollows("hash_chain", enforced, c, g, cl)
    PROVE  ClientNext("hash_chain", enforced, c, g, cl, r, Append(c, r),
               Longer("hash_chain", enforced, c, g, r),
                      ProcessChainChunk(cl, r))
  <1>1. PICK d : d = Append(c, r)
    OBVIOUS
  <1>2. PICK p : p = ProcessChainChunk(cl, r)
    OBVIOUS
  <1>3. PICK g2 : g2 = Longer("hash_chain", enforced, c, g, r)
    OBVIOUS
  <1>4. /\ cl \in Clients /\ ClientShows("hash_chain", enforced, c, g, cl)
        /\ cl.chain_state = ChainAfter(c, Len(c)) /\ cl.covered \in 0..g /\ InPlace(c, cl.covered)
        /\ g = Len(c) => cl.pending = g - cl.covered
        /\ cl.chain_state \in ChainStates /\ cl.pending \in Nat
        /\ cl.failed = None <=> g = Len(c)
    BY DEF ClientFollows, ClientShows, Clients
  <1>5. /\ Passing("hash_chain", enforced, d, g2) /\ g2 \in Nat /\ g \in 0..Len(c) /\ Len(d) = Len(c) + 1
        /\ Len(c) \in Nat
        /\ g2 = Len(d) <=> g = Len(c) /\ ~Rejects("hash_chain", enforced, d, Len(c) + 1)
        /\ \A i \in 1..Len(c) : d[i] = c[i]
        /\ d[Len(c) + 1] = r
    <2>1. Extended("hash_chain", enforced, c, g, r, d, g2)
      BY <1>1, <1>3, PassingNext, Zenon
    <2>2. QED
      BY <2>1, Zenon DEF Extended
  <1>6. g2 = (IF g = Len(c) /\ ~Rejects("hash_chain", enforced, d, Len(c) + 1) THEN g + 1 ELSE g)
    BY <1>1, <1>3 DEF Longer
  <1>7. r.env \in Envelopes /\ r.n = j - 1
    <2>1. Known("hash_chain", k, name, r, j)
      BY VariantIs, Zenon DEF Strategies
    <2>2. QED
      BY <2>1 DEF Known
  <1>8. PICK chain : chain = ChainAbsorb(cl.chain_state, r)
    OBVIOUS
  <1>9. chain \in ChainStates /\ chain = ChainAfter(d, Len(c) + 1)
    BY <1>1, <1>4, <1>5, <1>7, <1>8, ChainTyped, ChainAbsorbs
  <1>10. PICK covers : covers = (p.failed = None /\ r.signature # None)
    OBVIOUS
  <1>11. /\ Took(cl, p, r, Rejects("hash_chain", enforced, d, Len(c) + 1), "pending")
         /\ p.chain_state = chain
         /\ p.pending = IF covers THEN 0 ELSE cl.pending + 1
         /\ p.covered = IF covers THEN r.n + 1 ELSE cl.covered
    <2>1. TookChain(cl, p, r, Rejects("hash_chain", enforced, d, Len(c) + 1), chain)
      BY <1>2, <1>4, <1>5, <1>7, <1>8, <1>9, ChainTook
    <2>2. QED
      BY <1>10, <2>1, Zenon DEF TookChain
  <1>12. ClientShows("hash_chain", enforced, d, g2, p)
    BY <1>1, <1>3, <1>4, <1>11, TookShows
  <1>13. p.failed = None <=> g2 = Len(d)
    BY <1>12 DEF ClientShows
  <1>14. ASSUME covers PROVE r.n + 1 = g2 /\ g2 = Len(d) /\ InPlace(d, g2)
    <2>1. g2 = Len(d) /\ ~Rejects("hash_chain", enforced, d, Len(c) + 1) /\ r.signature # None
      BY <1>5, <1>10, <1>13, <1>14
    <2>2. Variant("hash_chain", k, name, d[Len(c) + 1], j) /\ Len(c) + 1 \in Nat \ {0}
      BY <1>5
    <2>3. Len(c) + 1 = j /\ InPlace(d, Len(c) + 1)
      <3>1. PICK i \in Nat \ {0} : i = Len(c) + 1
        BY <2>2
      <3>2. PassedChunk(enforced, d, i, k, name, j)
        BY <2>1, <2>2, <3>1, ChainPasses
      <3>3. QED
        BY <1>5, <2>1, <3>1, <3>2 DEF PassedChunk
    <2>4. QED
      BY <1>5, <1>7, <2>1, <2>3
  <1>15. InPlace(d, cl.covered)
    <2>1. \A x \in 1..cl.covered : d[x] = c[x]
      BY <1>4, <1>5
    <2>2. QED
      BY <1>4, <2>1 DEF InPlace
  <1>16. /\ p.covered = (IF covers THEN g2 ELSE cl.covered) /\ p.covered \in 0..g2 /\ InPlace(d, p.covered)
         /\ g2 = Len(d) => p.pending = g2 - p.covered
         /\ p.pending = 0 <=> covers
    <2>1. CASE covers
      BY <1>5, <1>11, <1>14, <2>1
    <2>2. CASE ~covers
      <3>1. p.pending = cl.pending + 1 /\ p.covered = cl.covered
        BY <1>11, <2>2
      <3>2. cl.covered \in 0..g2
        BY <1>4, <1>5, <1>6
      <3>3. g2 = Len(d) => p.pending = g2 - p.covered
        BY <1>4, <1>5, <1>6, <3>1, SMTT(30)
      <3>4. QED
        BY <1>4, <1>15, <2>2, <3>1, <3>2, <3>3
    <2>3. QED
      BY <2>1, <2>2
  <1>17. ClientFollows("hash_chain", enforced, d, g2, p)
    BY <1>5, <1>9, <1>11, <1>12, <1>16 DEF ClientFollows
  <1>18. ClientNext("hash_chain", enforced, c, g, cl, r, d, g2, p)
    BY <1>10, <1>13, <1>16, <1>17 DEF ClientNext
  <1>19. QED
    BY <1>1, <1>2, <1>3, <1>18

-----------------------------------------------------------------------------
(***************************************************************************)
(* The page after one more chunk.                                          *)
(***************************************************************************)
TextTypes == Seq(Nat) \cup {None}

LEMMA ShownIs ==
    ASSUME NEW tokens \in Seq(Tokens), NEW text \in TextTypes, NEW status \in Statuses
    PROVE  LET new == Shown(tokens, text, status)
           IN  /\ new \in Seq(Tokens) /\ Len(new) \in {Len(tokens), Len(tokens) + 1}
               /\ \A i \in 1..Len(tokens) : new[i] = tokens[i]
               /\ Len(new) = Len(tokens) + 1 => new[Len(tokens) + 1].status = status
               /\ text \in {None, <<>>} => new = tokens
               /\ text \notin {None, <<>>} =>
                     Len(new) = Len(tokens) + 1 /\ new[Len(tokens) + 1] = [text |-> text, status |-> status]
  <1>1. CASE text \in {None, <<>>}
    BY <1>1 DEF Shown
  <1>2. CASE text \notin {None, <<>>}
    <2>1. PICK token : token = [text |-> text, status |-> status]
      OBVIOUS
    <2>2. token \in Tokens /\ token.status = status
      BY <1>2, <2>1 DEF Tokens, TextTypes
    <2>3. Shown(tokens, text, status) = Append(tokens, token)
      BY <1>2, <2>1 DEF Shown
    <2>4. QED
      BY <1>2, <2>1, <2>2, <2>3
  <1>3. QED
    BY <1>1, <1>2

LEMMA MarkedIs ==
    ASSUME NEW tokens \in Seq(Tokens), NEW status \in Statuses
    PROVE  LET new == Marked(tokens, status)
           IN  /\ new \in Seq(Tokens) /\ Len(new) = Len(tokens)
               /\ \A i \in 1..Len(tokens) :
                     new[i] = IF tokens[i].status = "pending" THEN [text |-> tokens[i].text, status |-> status]
                              ELSE tokens[i]
  <1>1. PICK new : new = Marked(tokens, status)
    OBVIOUS
  <1>2. Len(tokens) \in Nat /\ DOMAIN tokens = 1..Len(tokens) /\ \A i \in 1..Len(tokens) : tokens[i] \in Tokens
    OBVIOUS
  <1>3. \A i \in 1..Len(tokens) :
            [tokens[i] EXCEPT !.status = status] = [text |-> tokens[i].text, status |-> status]
    BY <1>2 DEF Tokens
  <1>4. new = [i \in 1..Len(tokens) |->
                  IF tokens[i].status = "pending" THEN [tokens[i] EXCEPT !.status = status] ELSE tokens[i]]
    BY <1>1, <1>2 DEF Marked
  <1>5. \A i \in 1..Len(tokens) :
           new[i] = IF tokens[i].status = "pending" THEN [text |-> tokens[i].text, status |-> status]
                    ELSE tokens[i]
    BY <1>3, <1>4
  <1>6. \A i \in 1..Len(tokens) : new[i] \in Tokens
    <2>1. SUFFICES ASSUME NEW i \in 1..Len(tokens) PROVE new[i] \in Tokens
      OBVIOUS
    <2>2. PICK token \in Tokens : token = tokens[i]
      BY <1>2
    <2>3. [text |-> token.text, status |-> status] \in Tokens
      BY DEF Tokens
    <2>4. new[i] = IF token.status = "pending" THEN [text |-> token.text, status |-> status] ELSE token
      BY <1>5, <2>2
    <2>5. QED
      BY <2>3, <2>4
  <1>7. new \in Seq(Tokens) /\ Len(new) = Len(tokens)
    BY <1>2, <1>4, <1>6
  <1>8. QED
    BY <1>1, <1>5, <1>7

Counted(p, status) == IF status = "pending" THEN p.pending + 1 ELSE p.pending

LEMMA OnChunkIs ==
    ASSUME NEW p \in Pages, NEW text \in TextTypes, NEW status \in Statuses
    PROVE  LET q == OnChunk(p, text, status)
           IN  /\ q \in Pages /\ q.tokens = Shown(p.tokens, text, status) /\ q.pending = Counted(p, status)
               /\ q.max_pending = IF p.max_pending >= Counted(p, status) THEN p.max_pending
                                  ELSE Counted(p, status)
  <1>1. PICK count : count = Counted(p, status)
    OBVIOUS
  <1>2. /\ p.tokens \in Seq(Tokens) /\ p.pending \in Nat /\ p.max_pending \in Nat /\ p.chunks + 1 \in Nat
        /\ count \in Nat
    <2>1. p.tokens \in Seq(Tokens) /\ p.pending \in Nat /\ p.max_pending \in Nat /\ p.chunks \in Nat
      BY DEF Pages
    <2>2. QED
      BY <1>1, <2>1 DEF Counted
  <1>3. PICK most : most = Max({p.max_pending, count})
    OBVIOUS
  <1>4. most = (IF p.max_pending >= count THEN p.max_pending ELSE count) /\ most \in Nat
    BY <1>2, <1>3, LargerIs
  <1>5. PICK new : new = Shown(p.tokens, text, status)
    OBVIOUS
  <1>6. new \in Seq(Tokens)
    BY <1>2, <1>5, ShownIs
  <1>7. PICK ban : ban = IF status = "rejected" THEN "rejected" ELSE p.banner
    OBVIOUS
  <1>8. PICK q : q = [p EXCEPT !.chunks = p.chunks + 1, !.tokens = new, !.pending = count,
                               !.max_pending = most, !.banner = ban]
    OBVIOUS
  <1>9. OnChunk(p, text, status) = q
    BY <1>1, <1>3, <1>5, <1>7, <1>8, Zenon DEF OnChunk, Counted
  <1>10. ban \in {None, "rejected", "verified", "failed", "request failed"}
    BY <1>7 DEF Pages
  <1>11. q \in Pages /\ q.tokens = new /\ q.pending = count /\ q.max_pending = most
    BY <1>2, <1>4, <1>6, <1>8, <1>10 DEF Pages
  <1>12. QED
    BY <1>1, <1>4, <1>5, <1>9, <1>11

LEMMA OnCoveredIs ==
    ASSUME NEW p \in Pages
    PROVE  LET q == OnCovered(p)
           IN  /\ q \in Pages /\ q.tokens = Marked(p.tokens, "verified") /\ q.pending = 0
               /\ q.max_pending = p.max_pending
  <1>1. PICK new : new = Marked(p.tokens, "verified")
    OBVIOUS
  <1>2. new \in Seq(Tokens)
    BY <1>1, MarkedIs DEF Pages, Statuses
  <1>3. OnCovered(p) = [p EXCEPT !.tokens = new, !.pending = 0]
    BY <1>1, Zenon DEF OnCovered
  <1>4. PICK q : q = [p EXCEPT !.tokens = new, !.pending = 0]
    OBVIOUS
  <1>5. q \in Pages /\ q.tokens = new /\ q.pending = 0 /\ q.max_pending = p.max_pending
    BY <1>2, <1>4 DEF Pages
  <1>6. QED
    BY <1>1, <1>3, <1>4, <1>5

LEMMA ModNext ==
    ASSUME NEW a \in Nat, NEW d \in Nat, d > 0, (a + 1) % d # 0
    PROVE  (a + 1) % d = (a % d) + 1
  <1>1. a = d * (a \div d) + (a % d) /\ a \div d \in Nat /\ a % d \in 0..(d - 1)
    BY DivMod
  <1>2. PICK q \in Nat, m \in 0..(d - 1) : q = a \div d /\ m = a % d
    BY <1>1
  <1>3. PICK prod \in Nat : prod = d * q /\ d * (q + 1) = prod + d
    BY <1>2
  <1>4. CASE m = d - 1
    <2>1. a + 1 = d * (q + 1) + 0
      BY <1>1, <1>2, <1>3, <1>4
    <2>2. (a + 1) % d = 0
      BY <2>1, ModUnique
    <2>3. QED
      BY <2>2
  <1>5. CASE m < d - 1
    <2>1. a + 1 = d * q + (m + 1) /\ m + 1 \in 0..(d - 1)
      BY <1>1, <1>2, <1>3, <1>5
    <2>2. QED
      BY <1>2, <2>1, ModUnique
  <1>6. QED
    BY <1>2, <1>4, <1>5

\* all is tokens, or tokens with a text that is rejected.
RejectsText(tokens, all) ==
    /\ Len(all) \in {Len(tokens), Len(tokens) + 1}
    /\ \A i \in 1..Len(tokens) : all[i] = tokens[i]
    /\ Len(all) = Len(tokens) + 1 => all[Len(tokens) + 1].status = "rejected"

LEMMA RejectedShown ==
    ASSUME NEW tokens \in Seq(Tokens), NEW text \in TextTypes
    PROVE  RejectsText(tokens, Shown(tokens, text, "rejected"))
  <1>1. PICK item : item = [text |-> text, status |-> "rejected"]
    OBVIOUS
  <1>2. RejectsText(tokens, tokens)
    BY DEF RejectsText
  <1>3. RejectsText(tokens, Append(tokens, item))
    BY <1>1 DEF RejectsText
  <1>4. Shown(tokens, text, "rejected") \in {tokens, Append(tokens, item)}
    BY <1>1 DEF Shown
  <1>5. QED
    BY <1>2, <1>3, <1>4

\* A chunk that is not shown as passing leaves what is shown of the others.
LEMMA PageRejects ==
    ASSUME NEW s, NEW e \in Nat, NEW c, NEW d, NEW g \in Nat, NEW cl, NEW after, NEW p,
           PageFollowsClient(s, e, c, g, cl, p), cl.covered \in 0..g, after.covered = cl.covered,
           \A i \in 1..g : d[i] = c[i], Len(d) \in Nat, g < Len(d), NEW text \in TextTypes
    PROVE  PageFollowsClient(s, e, d, g, after, OnChunk(p, text, "rejected"))
  <1>1. PICK q : q = OnChunk(p, text, "rejected")
    OBVIOUS
  <1>2. PICK old : old = p.tokens
    OBVIOUS
  <1>3. PICK new : new = Shown(old, text, "rejected")
    OBVIOUS
  <1>4. /\ p \in Pages /\ Len(old) >= g
        /\ \A i \in 1..g : old[i] = TokenAs(s, c, cl.covered, i)
        /\ \A i \in (g + 1)..Len(old) : old[i].status = "rejected"
        /\ p.pending = IF s = "hash_chain" THEN g - cl.covered ELSE 0
        /\ s = "hash_chain" /\ e > 0 => p.pending <= g % e /\ p.max_pending <= e
    BY <1>2, Zenon DEF PageFollowsClient
  <1>5. old \in Seq(Tokens) /\ Len(old) \in Nat /\ p.pending \in Nat /\ p.max_pending \in Nat
    <2>1. old \in Seq(Tokens) /\ p.pending \in Nat /\ p.max_pending \in Nat
      BY <1>2, <1>4 DEF Pages
    <2>2. QED
      BY <2>1
  <1>6. /\ q \in Pages /\ q.tokens = new /\ q.pending = p.pending
        /\ q.max_pending = IF p.max_pending >= p.pending THEN p.max_pending ELSE p.pending
    <2>1. "rejected" \in Statuses /\ Counted(p, "rejected") = p.pending
      BY DEF Statuses, Counted
    <2>2. QED
      BY <1>1, <1>2, <1>3, <1>4, <2>1, OnChunkIs
  <1>7. /\ Len(new) \in {Len(old), Len(old) + 1}
        /\ \A i \in 1..Len(old) : new[i] = old[i]
        /\ Len(new) = Len(old) + 1 => new[Len(old) + 1].status = "rejected"
    <2>1. "rejected" \in Statuses
      BY DEF Statuses
    <2>2. QED
      BY <1>3, <1>5, <2>1, RejectedShown DEF RejectsText
  <1>8. \A i \in 1..g : new[i] = TokenAs(s, d, after.covered, i)
    <2>1. SUFFICES ASSUME NEW i \in 1..g PROVE new[i] = TokenAs(s, d, after.covered, i)
      OBVIOUS
    <2>2. new[i] = TokenAs(s, c, cl.covered, i) /\ d[i] = c[i]
      BY <1>4, <1>5, <1>7
    <2>3. QED
      BY <2>2 DEF TokenAs
  <1>9. \A i \in (g + 1)..Len(new) : new[i].status = "rejected"
    <2>1. SUFFICES ASSUME NEW i \in (g + 1)..Len(new) PROVE new[i].status = "rejected"
      OBVIOUS
    <2>2. i \in (g + 1)..Len(old) \/ (i = Len(old) + 1 /\ Len(new) = Len(old) + 1)
      BY <1>5, <1>7
    <2>3. QED
      BY <1>4, <1>5, <1>7, <2>2
  <1>10. s = "hash_chain" /\ e > 0 => q.max_pending <= e
    <2>1. e > 0 => g % e \in 0..(e - 1)
      BY DivMod
    <2>2. QED
      BY <1>4, <1>5, <1>6, <2>1
  <1>11. PageFollowsClient(s, e, d, g, after, q)
    BY <1>4, <1>5, <1>6, <1>7, <1>8, <1>9, <1>10 DEF PageFollowsClient
  <1>12. QED
    BY <1>1, <1>11

\* The page's last token is the chunk just shown.
Grown(p, q, g, text, status) ==
    /\ q \in Pages /\ Len(q.tokens) = g + 1 /\ q.tokens \in Seq(Tokens)
    /\ \A i \in 1..g : q.tokens[i] = p.tokens[i]
    /\ q.tokens[g + 1] = [text |-> text, status |-> status]
    /\ q.pending = Counted(p, status) /\ q.pending \in Nat
    /\ q.max_pending = IF p.max_pending >= Counted(p, status) THEN p.max_pending ELSE Counted(p, status)

\* What OnChunk adds to the page.
LEMMA PageGrows ==
    ASSUME NEW p \in Pages, NEW g \in Nat, Len(p.tokens) = g, NEW text \in Seq(Nat), text # <<>>,
           NEW status \in Statuses
    PROVE  Grown(p, OnChunk(p, text, status), g, text, status)
  <1>1. PICK q : q = OnChunk(p, text, status)
    OBVIOUS
  <1>2. text \in TextTypes /\ text \notin {None, <<>>}
    BY ReasonAssumption DEF TextTypes
  <1>3. /\ q \in Pages /\ q.tokens = Shown(p.tokens, text, status) /\ q.pending = Counted(p, status)
        /\ q.max_pending = IF p.max_pending >= Counted(p, status) THEN p.max_pending ELSE Counted(p, status)
    BY <1>1, <1>2, OnChunkIs
  <1>4. p.tokens \in Seq(Tokens)
    BY DEF Pages
  <1>5. q.tokens \in Seq(Tokens) /\ q.pending \in Nat
    BY <1>3 DEF Pages
  <1>6. /\ \A i \in 1..g : q.tokens[i] = p.tokens[i]
        /\ Len(q.tokens) = g + 1 /\ q.tokens[g + 1] = [text |-> text, status |-> status]
    <2>1. PICK old \in Seq(Tokens) : old = p.tokens
      BY <1>4
    <2>2. PICK new : new = Shown(old, text, status)
      OBVIOUS
    <2>3. /\ \A i \in 1..Len(old) : new[i] = old[i]
          /\ Len(new) = Len(old) + 1 /\ new[Len(old) + 1] = [text |-> text, status |-> status]
      BY <1>2, <2>2, ShownIs
    <2>4. q.tokens = new /\ Len(old) = g
      BY <1>3, <2>1, <2>2
    <2>5. QED
      BY <2>1, <2>3, <2>4
  <1>7. Grown(p, q, g, text, status)
    BY <1>3, <1>5, <1>6, Zenon DEF Grown
  <1>8. QED
    BY <1>1, <1>7

\* A chunk that passes is shown after those that did.
LEMMA PagePasses ==
    ASSUME NEW s, NEW e \in Nat, NEW c, NEW d, NEW g \in Nat, NEW cl, NEW after, NEW p,
           PageFollowsClient(s, e, c, g, cl, p), cl.covered \in 0..g, after.covered = cl.covered,
           g = Len(c), Len(d) = g + 1, \A i \in 1..g : d[i] = c[i],
           NEW text \in Seq(Nat), text # <<>>, d[g + 1].env.text = text,
           s = "hash_chain" /\ e > 0 => (g + 1) % e # 0, s \in Strategies
    PROVE  PageFollowsClient(s, e, d, g + 1, after,
               OnChunk(p, text, IF s = "per_chunk" THEN "verified" ELSE "pending"))
  <1>1. PICK status \in Statuses : status = IF s = "per_chunk" THEN "verified" ELSE "pending"
    BY DEF Statuses
  <1>2. PICK q : q = OnChunk(p, text, status)
    OBVIOUS
  <1>4. /\ p \in Pages /\ Len(p.tokens) = g
        /\ \A i \in 1..g : p.tokens[i] = TokenAs(s, c, cl.covered, i)
        /\ p.pending = IF s = "hash_chain" THEN g - cl.covered ELSE 0
        /\ s = "hash_chain" /\ e > 0 => p.pending <= g % e /\ p.max_pending <= e
    BY DEF PageFollowsClient
  <1>5. p.pending \in Nat /\ p.max_pending \in Nat
    BY <1>4 DEF Pages
  <1>6. Grown(p, q, g, text, status)
    BY <1>2, <1>4, PageGrows
  <1>7. PICK new : new = q.tokens
    OBVIOUS
  <1>8. /\ q \in Pages /\ Len(new) = g + 1
        /\ \A i \in 1..g : new[i] = p.tokens[i]
        /\ new[g + 1] = [text |-> text, status |-> status]
        /\ q.pending = Counted(p, status)
        /\ q.max_pending = IF p.max_pending >= Counted(p, status) THEN p.max_pending ELSE Counted(p, status)
    BY <1>6, <1>7, Zenon DEF Grown
  <1>9. \A i \in 1..(g + 1) : new[i] = TokenAs(s, d, after.covered, i)
    <2>1. SUFFICES ASSUME NEW i \in 1..(g + 1) PROVE new[i] = TokenAs(s, d, after.covered, i)
      OBVIOUS
    <2>2. CASE i \in 1..g
      <3>1. new[i] = TokenAs(s, c, cl.covered, i) /\ d[i] = c[i]
        BY <1>4, <1>8, <2>2
      <3>2. QED
        BY <3>1 DEF TokenAs
    <2>3. CASE i = g + 1
      <3>1. ~(i <= after.covered)
        BY <2>3
      <3>2. QED
        BY <1>1, <1>8, <2>3, <3>1 DEF TokenAs
    <2>4. QED
      BY <2>2, <2>3
  <1>10. q.pending = IF s = "hash_chain" THEN (g + 1) - after.covered ELSE 0
    BY <1>1, <1>4, <1>5, <1>8, SMTT(30) DEF Counted, Strategies
  <1>11. ASSUME s = "hash_chain", e > 0 PROVE q.pending <= (g + 1) % e /\ q.max_pending <= e
    <2>1. (g + 1) % e = (g % e) + 1
      BY <1>11, ModNext
    <2>2. (g + 1) % e \in 0..(e - 1) /\ g % e \in 0..(e - 1)
      BY <1>11, DivMod
    <2>3. q.pending = p.pending + 1 /\ q.pending = Counted(p, status)
      BY <1>1, <1>8, <1>11 DEF Counted
    <2>4. p.pending <= g % e /\ p.max_pending <= e
      BY <1>4, <1>11
    <2>5. PICK rest \in Nat, more \in Nat : rest = g % e /\ more = (g + 1) % e
      BY <2>2
    <2>6. p.pending <= rest /\ more = rest + 1 /\ more <= e - 1
      BY <2>1, <2>2, <2>4, <2>5
    <2>7. q.pending <= more /\ q.pending <= e
      BY <1>5, <2>3, <2>6
    <2>8. q.max_pending \in {p.max_pending, q.pending}
      BY <1>8, <2>3
    <2>9. q.max_pending <= e
      BY <2>4, <2>7, <2>8
    <2>10. QED
      BY <2>5, <2>7, <2>9
  <1>12. PageFollowsClient(s, e, d, g + 1, after, q)
    <2>1. \A i \in (g + 1 + 1)..Len(new) : new[i].status = "rejected"
      BY <1>8
    <2>2. QED
      BY <1>7, <1>8, <1>9, <1>10, <1>11, <2>1 DEF PageFollowsClient
  <1>13. QED
    BY <1>1, <1>2, <1>12

\* A checkpoint that covers a chunk marks what is pending as verified.
LEMMA PageCovers ==
    ASSUME NEW e \in Nat, NEW c, NEW d, NEW g \in Nat, NEW cl, NEW after, NEW p,
           PageFollowsClient("hash_chain", e, c, g, cl, p), cl.covered \in 0..g, after.covered = g + 1,
           g = Len(c), Len(d) = g + 1, \A i \in 1..g : d[i] = c[i],
           NEW text \in Seq(Nat), text # <<>>, d[g + 1].env.text = text
    PROVE  PageFollowsClient("hash_chain", e, d, g + 1, after, OnCovered(OnChunk(p, text, "pending")))
  <1>1. "pending" \in Statuses /\ "verified" \in Statuses
    BY DEF Statuses
  <1>2. PICK q : q = OnChunk(p, text, "pending")
    OBVIOUS
  <1>4. /\ p \in Pages /\ Len(p.tokens) = g
        /\ \A i \in 1..g : p.tokens[i] = TokenAs("hash_chain", c, cl.covered, i)
        /\ e > 0 => p.pending <= g % e /\ p.max_pending <= e
    BY DEF PageFollowsClient
  <1>5. p.pending \in Nat /\ p.max_pending \in Nat
    BY <1>4 DEF Pages
  <1>6. Grown(p, q, g, text, "pending")
    BY <1>1, <1>2, <1>4, PageGrows
  <1>7. PICK new : new = q.tokens
    OBVIOUS
  <1>8. /\ q \in Pages /\ Len(new) = g + 1 /\ new \in Seq(Tokens)
        /\ \A i \in 1..g : new[i] = p.tokens[i]
        /\ new[g + 1] = [text |-> text, status |-> "pending"]
        /\ q.max_pending = IF p.max_pending >= Counted(p, "pending") THEN p.max_pending
                           ELSE Counted(p, "pending")
    BY <1>6, <1>7, Zenon DEF Grown
  <1>9. PICK u : u = OnCovered(q)
    OBVIOUS
  <1>10. PICK all : all = Marked(new, "verified")
    OBVIOUS
  <1>11. u \in Pages /\ u.tokens = all /\ u.pending = 0 /\ u.max_pending = q.max_pending
    BY <1>7, <1>8, <1>9, <1>10, OnCoveredIs
  <1>12. /\ Len(all) = g + 1
         /\ \A i \in 1..(g + 1) :
               all[i] = IF new[i].status = "pending" THEN [text |-> new[i].text, status |-> "verified"]
                        ELSE new[i]
    BY <1>1, <1>8, <1>10, MarkedIs, SMTT(30)
  <1>13. \A i \in 1..(g + 1) : all[i] = TokenAs("hash_chain", d, after.covered, i)
    <2>1. SUFFICES ASSUME NEW i \in 1..(g + 1) PROVE all[i] = TokenAs("hash_chain", d, after.covered, i)
      OBVIOUS
    <2>2. TokenAs("hash_chain", d, after.covered, i) = [text |-> d[i].env.text, status |-> "verified"]
      BY DEF TokenAs
    <2>3. CASE i \in 1..g
      <3>1. new[i] = TokenAs("hash_chain", c, cl.covered, i) /\ d[i] = c[i]
        BY <1>4, <1>8, <2>3
      <3>2. new[i] = [text |-> d[i].env.text, status |-> "verified"]
                \/ new[i] = [text |-> d[i].env.text, status |-> "pending"]
        BY <3>1 DEF TokenAs
      <3>3. QED
        BY <1>12, <2>2, <3>2
    <2>4. CASE i = g + 1
      BY <1>8, <1>12, <2>2, <2>4
    <2>5. QED
      BY <2>3, <2>4
  <1>14. u.pending = (g + 1) - after.covered
    BY <1>11
  <1>15. ASSUME e > 0 PROVE u.pending <= (g + 1) % e /\ u.max_pending <= e
    <2>1. (g + 1) % e \in 0..(e - 1) /\ g % e \in 0..(e - 1)
      BY <1>15, DivMod
    <2>2. Counted(p, "pending") = p.pending + 1
      BY DEF Counted
    <2>3. QED
      BY <1>4, <1>5, <1>8, <1>11, <1>15, <2>1, <2>2
  <1>16. PageFollowsClient("hash_chain", e, d, g + 1, after, u)
    <2>1. \A i \in (g + 1 + 1)..Len(all) : all[i].status = "rejected"
      BY <1>12
    <2>2. QED
      BY <1>11, <1>12, <1>13, <1>14, <1>15, <2>1 DEF PageFollowsClient
  <1>17. QED
    BY <1>2, <1>9, <1>16

\* The client keeps following the stream, whatever the strategy.
LEMMA FollowsChunk ==
    ASSUME strategy \in Strategies, enforced \in Nat, NEW c \in Seq(WireRecords), NEW r \in WireRecords,
           NEW k \in Nat, NEW name, NEW j \in Nat \ {0}, Variant(strategy, k, name, r, j),
           NEW g, NEW cl, Passing(strategy, enforced, c, g), ClientFollows(strategy, enforced, c, g, cl)
    PROVE  ClientNext(strategy, enforced, c, g, cl, r, Append(c, r), Longer(strategy, enforced, c, g, r),
               process(cl, r))
  <1>1. PICK d : d = Append(c, r)
    OBVIOUS
  <1>2. PICK g2 : g2 = Longer(strategy, enforced, c, g, r)
    OBVIOUS
  <1>3. r.kind = "chunk" /\ r.env \in Envelopes
    <2>1. Known(strategy, k, name, r, j)
      BY VariantIs, Zenon
    <2>2. QED
      BY <2>1 DEF Known
  <1>4. CASE strategy = "per_chunk"
    <2>1. PICK p : p = ProcessPerChunk(cl, r)
      OBVIOUS
    <2>2. process(cl, r) = p
      BY <1>3, <1>4, <2>1 DEF process
    <2>3. ClientFollows("per_chunk", enforced, d, g2, p)
      BY <1>1, <1>2, <1>3, <1>4, <2>1, FollowsPerChunk
    <2>4. p.covered = 0 /\ cl.covered = 0
      BY <1>4, <2>3 DEF ClientFollows
    <2>5. ClientNext("per_chunk", enforced, c, g, cl, r, d, g2, p)
      BY <2>3, <2>4 DEF ClientNext
    <2>6. QED
      BY <1>1, <1>2, <1>4, <2>2, <2>5
  <1>5. CASE strategy = "hash_chain"
    <2>1. PICK p : p = ProcessChainChunk(cl, r)
      OBVIOUS
    <2>2. process(cl, r) = p
      BY <1>3, <1>5, <2>1 DEF process
    <2>3. Passing("hash_chain", enforced, c, g) /\ ClientFollows("hash_chain", enforced, c, g, cl)
          /\ Variant("hash_chain", k, name, r, j)
      BY <1>5
    <2>4. ClientNext("hash_chain", enforced, c, g, cl, r, Append(c, r),
              Longer("hash_chain", enforced, c, g, r), ProcessChainChunk(cl, r))
      BY <2>3, FollowsChain
    <2>5. QED
      BY <1>5, <2>1, <2>2, <2>4
  <1>6. QED
    BY <1>4, <1>5 DEF Strategies

\* The page keeps following the client.
LEMMA TakesChunk ==
    ASSUME strategy \in Strategies, enforced \in Nat, NEW c \in Seq(WireRecords), NEW r \in WireRecords,
           NEW k \in Nat, NEW name, NEW j \in Nat \ {0}, Variant(strategy, k, name, r, j),
           NEW g, NEW cl, NEW p, Following(strategy, enforced, c, g, cl, p)
    PROVE  Following(strategy, enforced, Append(c, r), Longer(strategy, enforced, c, g, r),
                     process(cl, r), consume(p, process(cl, r), r))
  <1>1. PICK d : d = Append(c, r)
    OBVIOUS
  <1>2. PICK g2 : g2 = Longer(strategy, enforced, c, g, r)
    OBVIOUS
  <1>3. PICK after : after = process(cl, r)
    OBVIOUS
  <1>4. /\ Passing(strategy, enforced, c, g) /\ ClientFollows(strategy, enforced, c, g, cl)
        /\ PageFollowsClient(strategy, enforced, c, g, cl, p)
    BY Zenon DEF Following
  <1>5. PICK covers : covers = (strategy = "hash_chain" /\ after.pending = 0)
    OBVIOUS
  <1>6. /\ ClientFollows(strategy, enforced, d, g2, after)
        /\ after.covered = IF covers THEN g2 ELSE cl.covered
        /\ covers => g2 = Len(d)
        /\ strategy = "hash_chain" /\ ~covers /\ g2 = Len(d) => r.signature = None
    <2>1. ClientNext(strategy, enforced, c, g, cl, r, d, g2, after)
      BY <1>1, <1>2, <1>3, <1>4, FollowsChunk
    <2>2. QED
      BY <1>5, <2>1, Zenon DEF ClientNext
  <1>7. /\ Passing(strategy, enforced, d, g2) /\ g2 \in Nat /\ g \in 0..Len(c) /\ Len(d) = Len(c) + 1
        /\ Len(c) \in Nat
        /\ g2 = Len(d) <=> g = Len(c) /\ ~Rejects(strategy, enforced, d, Len(c) + 1)
        /\ Clean(strategy, enforced, d, Len(c) + 1) <=> g2 = Len(d)
        /\ \A i \in 1..Len(c) : d[i] = c[i]
        /\ d[Len(c) + 1] = r
    <2>1. Extended(strategy, enforced, c, g, r, d, g2)
      BY <1>1, <1>2, <1>4, PassingNext, Zenon
    <2>2. QED
      BY <2>1, Zenon DEF Extended
  <1>8. g2 = (IF g = Len(c) /\ ~Rejects(strategy, enforced, d, Len(c) + 1) THEN g + 1 ELSE g)
    BY <1>1, <1>2 DEF Longer
  <1>9. Known(strategy, k, name, r, j)
    BY VariantIs, Zenon
  <1>10. r.kind = "chunk" /\ r.env.text = <<j>>
    BY <1>9 DEF Known
  <1>11. cl.covered \in 0..g /\ cl.covered \in Nat
    BY <1>4, <1>7 DEF ClientFollows
  <1>12. PICK item : item = after.shown[Len(c) + 1]
    OBVIOUS
  <1>13. item \in ShownChunks /\ ShownAs(strategy, enforced, d, Len(c) + 1, item) /\ Last(after.shown) = item
    <2>1. /\ after \in Clients /\ Len(after.shown) = Len(c) + 1
          /\ \A i \in 1..(Len(c) + 1) : ShownAs(strategy, enforced, d, i, after.shown[i])
      BY <1>6, <1>7 DEF ClientFollows, ClientShows
    <2>2. after.shown \in Seq(ShownChunks)
      BY <2>1 DEF Clients
    <2>3. Len(c) + 1 \in 1..(Len(c) + 1)
      BY <1>7
    <2>4. item \in ShownChunks
      BY <1>12, <2>1, <2>2, <2>3
    <2>5. Last(after.shown) = after.shown[Len(c) + 1]
      BY <2>1 DEF Last
    <2>6. QED
      BY <1>12, <2>1, <2>3, <2>4, <2>5
  <1>14. item.text \in TextTypes /\ item.status \in Statuses
    BY <1>13 DEF ShownChunks, TextTypes
  <1>15. PICK chunk : chunk = OnChunk(p, item.text, item.status)
    OBVIOUS
  <1>16. consume(p, after, r) = IF covers THEN OnCovered(chunk) ELSE chunk
    BY <1>5, <1>10, <1>13, <1>15 DEF consume
  <1>17. \A i \in 1..g : d[i] = c[i]
    BY <1>7
  <1>18. CASE g2 = Len(d)
    <2>1. g = Len(c) /\ g2 = g + 1 /\ ~Rejects(strategy, enforced, d, Len(c) + 1) /\ g \in Nat
      BY <1>7, <1>8, <1>18
    <2>2. /\ item.status = (IF strategy = "per_chunk" THEN "verified" ELSE "pending")
          /\ item.text = r.env.text
      BY <1>7, <1>13, <1>18 DEF ShownAs
    <2>3. PICK text \in Seq(Nat) : text = item.text /\ text # <<>> /\ d[g + 1].env.text = text
      <3>1. <<j>> \in Seq(Nat) /\ <<j>> # <<>>
        OBVIOUS
      <3>2. QED
        BY <1>7, <1>10, <2>1, <2>2, <3>1
    <2>4. CASE covers
      <3>1. strategy = "hash_chain" /\ after.covered = g + 1
        BY <1>5, <1>6, <2>1, <2>4
      <3>2. chunk = OnChunk(p, text, "pending")
        BY <1>15, <2>2, <2>3, <3>1
      <3>3. PageFollowsClient("hash_chain", enforced, c, g, cl, p)
        BY <1>4, <3>1
      <3>4. PageFollowsClient("hash_chain", enforced, d, g + 1, after, OnCovered(chunk))
        BY <1>7, <1>11, <1>17, <2>1, <2>3, <3>1, <3>2, <3>3, PageCovers
      <3>5. PageFollowsClient(strategy, enforced, d, g2, after, consume(p, after, r))
        BY <1>16, <2>1, <2>4, <3>1, <3>4
      <3>6. QED
        BY <1>1, <1>2, <1>3, <1>6, <1>7, <3>5, Zenon DEF Following
    <2>5. CASE ~covers
      <3>1. after.covered = cl.covered
        BY <1>6, <2>5
      <3>2. ASSUME strategy = "hash_chain", enforced > 0 PROVE (g + 1) % enforced # 0
        <4>1. PICK i \in Nat \ {0} : i = g + 1
          BY <2>1
        <4>2. Variant("hash_chain", k, name, d[i], j) /\ ~Rejects("hash_chain", enforced, d, i)
          BY <1>7, <2>1, <3>2, <4>1
        <4>3. PassedChunk(enforced, d, i, k, name, j)
          BY <4>2, ChainPasses
        <4>4. d[i].signature = None
          BY <1>6, <1>7, <1>18, <2>1, <2>5, <3>2, <4>1
        <4>5. QED
          BY <3>2, <4>1, <4>3, <4>4 DEF PassedChunk
      <3>3. chunk = OnChunk(p, text, IF strategy = "per_chunk" THEN "verified" ELSE "pending")
        BY <1>15, <2>2, <2>3
      <3>4. PageFollowsClient(strategy, enforced, d, g + 1, after, chunk)
        BY <1>4, <1>7, <1>11, <1>17, <2>1, <2>3, <3>1, <3>2, <3>3, PagePasses
      <3>5. PageFollowsClient(strategy, enforced, d, g2, after, consume(p, after, r))
        BY <1>16, <2>1, <2>5, <3>4
      <3>6. QED
        BY <1>1, <1>2, <1>3, <1>6, <1>7, <3>5, Zenon DEF Following
    <2>6. QED
      BY <2>4, <2>5
  <1>19. CASE g2 # Len(d)
    <2>1. ~covers /\ after.covered = cl.covered
      BY <1>6, <1>19
    <2>2. g2 = g /\ g \in Nat /\ g < Len(d) /\ Len(d) \in Nat
      BY <1>7, <1>8, <1>19
    <2>3. item.status = "rejected"
      BY <1>7, <1>13, <1>19 DEF ShownAs
    <2>4. PICK text \in TextTypes : text = item.text
      BY <1>14
    <2>5. chunk = OnChunk(p, text, "rejected")
      BY <1>15, <2>3, <2>4
    <2>6. PageFollowsClient(strategy, enforced, d, g, after, chunk)
      BY <1>4, <1>11, <1>17, <2>1, <2>2, <2>5, PageRejects
    <2>7. PageFollowsClient(strategy, enforced, d, g2, after, consume(p, after, r))
      BY <1>16, <2>1, <2>2, <2>6
    <2>8. QED
      BY <1>1, <1>2, <1>3, <1>6, <1>7, <2>7, Zenon DEF Following
  <1>20. QED
    BY <1>18, <1>19

-----------------------------------------------------------------------------
(***************************************************************************)
(* The verdict.                                                            *)
(***************************************************************************)
\* The client at the end of the stream c.
ClientEnds(c, g, cl, ends, after) ==
    /\ after \in Clients /\ after.stream_fully_verified \in BOOLEAN
    /\ after.stream_fully_verified = TRUE <=> g = Len(c) /\ ends
    /\ after.failed = None <=> g = Len(c) /\ ends
    /\ after.rejected_at_chunk # None => after.failed # None
    /\ after.covered = IF g = Len(c) /\ ends THEN Len(c) ELSE cl.covered
    /\ after.n_chunks = Len(c) /\ after.shown = cl.shown

\* With a terminal record.
LEMMA FinalJudged ==
    ASSUME NEW s, NEW e, NEW c, NEW g, NEW cl, ClientShows(s, e, c, g, cl), NEW r \in WireRecords,
           r.kind # "chunk",
           NEW ends \in BOOLEAN,
           ends <=> CASE r.kind = "final_buffered" ->
                            verify_buffer_and_sign_final(r).signature_valid
                                /\ verify_buffer_and_sign_final(r).aead_ok
                      [] r.kind = "final_per_chunk" -> verify_per_chunk_final(r, cl.expected)
                      [] OTHER -> verify_hash_chain_final(r, cl.chain_state)
    PROVE  ClientEnds(c, g, cl, ends, process(cl, r)) /\ process(cl, r).terminal
  <1>1. /\ cl \in Clients /\ (cl.failed = None <=> g = Len(c))
               /\ (cl.failed = None => cl.rejected_at_chunk = None)
        /\ cl.n_chunks = Len(c)
    BY DEF ClientShows
  <1>2. PICK ok : ok = CASE r.kind = "final_buffered" ->
                            verify_buffer_and_sign_final(r).signature_valid
                                /\ verify_buffer_and_sign_final(r).aead_ok
                      [] r.kind = "final_per_chunk" -> verify_per_chunk_final(r, cl.expected)
                      [] OTHER -> verify_hash_chain_final(r, cl.chain_state)
    OBVIOUS
  <1>3. ok \in BOOLEAN
    <2>1. CASE r.kind = "final_buffered"
      BY <1>2, <2>1
    <2>2. CASE r.kind = "final_per_chunk"
      BY <1>2, <2>2 DEF verify_per_chunk_final
    <2>3. CASE r.kind \notin {"final_buffered", "final_per_chunk"}
      BY <1>2, <2>3 DEF verify_hash_chain_final
    <2>4. QED
      BY <2>1, <2>2, <2>3
  <1>4. ok = ends
    BY <1>2, <1>3
  <1>5. PICK f : f = fail(cl, ok, "terminal record", AtEnd)
    OBVIOUS
  <1>6. /\ f \in Clients /\ Alike(f, cl) /\ (f.failed = None <=> cl.failed = None /\ ok)
        /\ f.failed = None => f.rejected_at_chunk = cl.rejected_at_chunk
        /\ ~ok => f.failed # None
    <2>1. "terminal record" \in Reasons /\ AtEnd \in Int
      BY DEF Reasons, AtEnd
    <2>2. QED
      BY <1>1, <1>3, <1>5, <2>1, FailIs
  <1>7. PICK verified : verified = Verified(f.failed, ok)
    OBVIOUS
  <1>8. verified \in BOOLEAN /\ (verified <=> f.failed = None)
    BY <1>7 DEF Verified
  <1>9. PICK cov : cov = IF verified THEN cl.n_chunks ELSE f.covered
    OBVIOUS
  <1>10. PICK after : after = [f EXCEPT !.terminal = TRUE, !.stream_fully_verified = verified, !.covered = cov]
    OBVIOUS
  <1>11. process(cl, r) = after
    <2>1. process(cl, r) = ProcessFinal(cl, r)
      BY DEF process
    <2>2. ProcessFinal(cl, r) = after
      BY <1>2, <1>5, <1>7, <1>9, <1>10, Zenon DEF ProcessFinal
    <2>3. QED
      BY <2>1, <2>2
  <1>12. cov \in Nat
    BY <1>1, <1>6, <1>9 DEF Clients
  <1>13. /\ after \in Clients /\ after.terminal = TRUE /\ after.stream_fully_verified = verified
         /\ after.covered = cov
         /\ after.failed = f.failed /\ after.rejected_at_chunk = f.rejected_at_chunk
         /\ after.n_chunks = f.n_chunks /\ after.shown = f.shown
    BY <1>6, <1>8, <1>10, <1>12 DEF Clients
  <1>14. ClientEnds(c, g, cl, ends, after)
    BY <1>1, <1>4, <1>6, <1>8, <1>9, <1>13 DEF ClientEnds, Alike
  <1>15. QED
    BY <1>11, <1>13, <1>14

\* Without a terminal record.
LEMMA CutJudged ==
    ASSUME NEW s, NEW e, NEW c, NEW g, NEW cl, ClientShows(s, e, c, g, cl)
    PROVE  ClientEnds(c, g, cl, FALSE, [cl EXCEPT !.stream_fully_verified = FALSE,
                                              !.failed = IF cl.failed = None THEN "truncated" ELSE cl.failed])
  <1>1. cl \in Clients /\ cl.n_chunks = Len(c)
    BY DEF ClientShows
  <1>2. PICK why : why = IF cl.failed = None THEN "truncated" ELSE cl.failed
    OBVIOUS
  <1>3. "truncated" \in Reasons /\ "truncated" # None
    BY ReasonAssumption DEF Reasons
  <1>4. why \in Reasons \cup {None} /\ why # None
    BY <1>1, <1>2, <1>3 DEF Clients
  <1>5. PICK after : after = [cl EXCEPT !.stream_fully_verified = FALSE, !.failed = why]
    OBVIOUS
  <1>6. /\ after \in Clients /\ after.stream_fully_verified = FALSE /\ after.failed = why
        /\ after.covered = cl.covered /\ after.n_chunks = cl.n_chunks /\ after.shown = cl.shown
    BY <1>1, <1>4, <1>5 DEF Clients
  <1>7. ClientEnds(c, g, cl, FALSE, after)
    BY <1>1, <1>4, <1>6 DEF ClientEnds
  <1>8. QED
    BY <1>2, <1>5, <1>7

\* What the page shows at the end: verified tokens first, then rejected ones.
Closed(c, known, p, q, yes) ==
    /\ q \in Pages /\ q.tokens \in Seq(Tokens) /\ known \in 0..Len(q.tokens)
    /\ \A i \in 1..known : q.tokens[i] = [text |-> c[i].env.text, status |-> "verified"]
    /\ \A i \in (known + 1)..Len(q.tokens) : q.tokens[i].status = "rejected"
    /\ q.max_pending = p.max_pending
    /\ q.banner = IF yes THEN "verified" ELSE "failed"
    /\ yes => q.pending = 0

\* A verdict without text adds no token.
LEMMA ShowsNothing ==
    ASSUME NEW tokens, NEW status
    PROVE  Shown(tokens, None, status) = tokens
  BY DEF Shown

\* A stream that passes is all marked as verified.
LEMMA PageVerified ==
    ASSUME NEW s \in Strategies, NEW e, NEW c, NEW g \in Nat, NEW cl, NEW p,
           PageFollowsClient(s, e, c, g, cl, p), g = Len(c)
    PROVE  Closed(c, g, p, OnFinal(OnCovered(p), TRUE, None), TRUE)
  <1>1. PICK u : u = OnCovered(p)
    OBVIOUS
  <1>2. PICK old : old = p.tokens
    OBVIOUS
  <1>3. /\ p \in Pages /\ Len(old) = g
        /\ \A i \in 1..g : old[i] = TokenAs(s, c, cl.covered, i)
    BY <1>2 DEF PageFollowsClient
  <1>4. old \in Seq(Tokens)
    BY <1>2, <1>3 DEF Pages
  <1>5. PICK all : all = Marked(old, "verified")
    OBVIOUS
  <1>6. /\ Len(all) = g /\ all \in Seq(Tokens)
        /\ \A i \in 1..g :
              all[i] = IF old[i].status = "pending" THEN [text |-> old[i].text, status |-> "verified"]
                       ELSE old[i]
    BY <1>3, <1>4, <1>5, MarkedIs DEF Statuses
  <1>7. u \in Pages /\ u.tokens = all /\ u.pending = 0 /\ u.max_pending = p.max_pending
    BY <1>1, <1>2, <1>3, <1>5, OnCoveredIs
  <1>8. PICK q : q = [u EXCEPT !.tokens = all, !.banner = "verified"]
    OBVIOUS
  <1>9. q \in Pages /\ q.tokens = all /\ q.pending = 0 /\ q.max_pending = p.max_pending /\ q.banner = "verified"
    BY <1>6, <1>7, <1>8 DEF Pages
  <1>10. OnFinal(OnCovered(p), TRUE, None) = q
    BY <1>1, <1>7, <1>8, ShowsNothing DEF OnFinal
  <1>11. \A i \in 1..g : all[i] = [text |-> c[i].env.text, status |-> "verified"]
    <2>1. SUFFICES ASSUME NEW i \in 1..g PROVE all[i] = [text |-> c[i].env.text, status |-> "verified"]
      OBVIOUS
    <2>2. old[i] = [text |-> c[i].env.text, status |-> "verified"]
              \/ old[i] = [text |-> c[i].env.text, status |-> "pending"]
      BY <1>3 DEF TokenAs
    <2>3. QED
      BY <1>6, <2>2
  <1>12. \A i \in (g + 1)..Len(all) : all[i].status = "rejected"
    BY <1>6
  <1>13. Closed(c, g, p, q, TRUE)
    BY <1>6, <1>9, <1>11, <1>12 DEF Closed
  <1>14. QED
    BY <1>10, <1>13

\* One that does not leaves what was covered.
LEMMA PageRejected ==
    ASSUME NEW s \in Strategies, NEW e, NEW c, NEW g \in Nat, NEW cl, NEW p,
           PageFollowsClient(s, e, c, g, cl, p), cl.covered \in 0..g
    PROVE  Closed(c, IF s = "per_chunk" THEN g ELSE cl.covered, p, OnFinal(p, FALSE, None), FALSE)
  <1>1. PICK known \in Nat : known = IF s = "per_chunk" THEN g ELSE cl.covered
    OBVIOUS
  <1>2. PICK old : old = p.tokens
    OBVIOUS
  <1>3. /\ p \in Pages /\ Len(old) >= g
        /\ \A i \in 1..g : old[i] = TokenAs(s, c, cl.covered, i)
        /\ \A i \in (g + 1)..Len(old) : old[i].status = "rejected"
    BY <1>2 DEF PageFollowsClient
  <1>4. old \in Seq(Tokens) /\ Len(old) \in Nat /\ known <= g
    <2>1. old \in Seq(Tokens)
      BY <1>2, <1>3 DEF Pages
    <2>2. QED
      BY <1>1, <2>1
  <1>5. PICK all : all = Marked(old, "rejected")
    OBVIOUS
  <1>6. /\ Len(all) = Len(old) /\ all \in Seq(Tokens)
        /\ \A i \in 1..Len(old) :
              all[i] = IF old[i].status = "pending" THEN [text |-> old[i].text, status |-> "rejected"]
                       ELSE old[i]
    BY <1>4, <1>5, MarkedIs DEF Statuses
  <1>7. PICK q : q = [p EXCEPT !.tokens = all, !.banner = "failed"]
    OBVIOUS
  <1>8. q \in Pages /\ q.tokens = all /\ q.max_pending = p.max_pending /\ q.banner = "failed"
    BY <1>3, <1>6, <1>7 DEF Pages
  <1>9. OnFinal(p, FALSE, None) = q
    BY <1>2, <1>5, <1>7, ShowsNothing DEF OnFinal
  <1>10. \A i \in 1..known : all[i] = [text |-> c[i].env.text, status |-> "verified"]
    <2>1. SUFFICES ASSUME NEW i \in 1..known PROVE all[i] = [text |-> c[i].env.text, status |-> "verified"]
      OBVIOUS
    <2>2. i \in 1..g /\ i \in 1..Len(old) /\ (s = "per_chunk" \/ i <= cl.covered)
      BY <1>1, <1>3, <1>4
    <2>3. old[i] = [text |-> c[i].env.text, status |-> "verified"]
      BY <1>3, <2>2 DEF TokenAs
    <2>4. old[i].status = "verified"
      BY <2>3
    <2>5. all[i] = old[i]
      BY <1>6, <2>2, <2>4
    <2>6. QED
      BY <2>3, <2>5
  <1>11. \A i \in (known + 1)..Len(all) : all[i].status = "rejected"
    <2>1. SUFFICES ASSUME NEW i \in (known + 1)..Len(all) PROVE all[i].status = "rejected"
      OBVIOUS
    <2>2. i \in 1..Len(old)
      BY <1>4, <1>6
    <2>3. CASE i <= g
      <3>1. i \in 1..g /\ s # "per_chunk" /\ ~(i <= cl.covered)
        BY <1>1, <2>2, <2>3
      <3>2. old[i] = [text |-> c[i].env.text, status |-> "pending"]
        BY <1>3, <3>1 DEF TokenAs
      <3>3. old[i].status = "pending"
        BY <3>2
      <3>4. all[i] = [text |-> old[i].text, status |-> "rejected"]
        BY <1>6, <2>2, <3>3
      <3>5. QED
        BY <3>4
    <2>4. CASE i > g
      <3>1. old[i].status = "rejected"
        BY <1>3, <1>4, <2>2, <2>4
      <3>2. QED
        BY <1>6, <2>2, <3>1
    <2>5. QED
      BY <2>2, <2>3, <2>4
  <1>12. Closed(c, known, p, q, FALSE)
    <2>1. known \in 0..Len(all)
      BY <1>3, <1>4, <1>6
    <2>2. QED
      BY <1>6, <1>8, <1>10, <1>11, <2>1 DEF Closed
  <1>13. QED
    BY <1>1, <1>9, <1>12

-----------------------------------------------------------------------------
(***************************************************************************)
(* Which streams are accepted.                                             *)
(***************************************************************************)
Variants(s, k, name, len, c) == \A x \in 1..Len(c) : \E j \in 1..len : Variant(s, k, name, c[x], j)

OwnChunks(s, k, len) == [j \in 1..len |-> Sent(Hid, s, k, j)]

\* The server's own chunks pass, in their places.
LEMMA OwnStream ==
    ASSUME NEW s \in Strategies, NEW k \in Nat, NEW e \in {0, k}, NEW c, NEW i \in Nat \ {0},
           \A x \in 1..i : c[x] = Sent(Hid, s, k, x)
    PROVE  ~Rejects(s, e, c, i) /\ InPlace(c, i)
  <1>1. ~Rejects(s, k, c, i) /\ InPlace(c, i)
    BY OwnPasses
  <1>2. CASE s = "per_chunk"
    <2>1. c[i] = Sent(Hid, "per_chunk", k, i)
      BY <1>2
    <2>2. QED
      BY <1>1, <1>2, <2>1, PerChunkRejects DEF Sessions
  <1>3. CASE s = "hash_chain"
    <2>1. ~Rejects("hash_chain", k, c, i)
      BY <1>1, <1>3
    <2>2. e = k \/ e = 0
      OBVIOUS
    <2>3. ~Rejects("hash_chain", 0, c, i)
      BY <2>1, ChainRejects
    <2>4. QED
      BY <1>1, <1>3, <2>1, <2>2, <2>3
  <1>4. QED
    BY <1>2, <1>3 DEF Strategies

\* What stripping makes of a chunk.
LEMMA BareIs ==
    ASSUME NEW k \in Nat, NEW j \in Nat \ {0}
    PROVE  LET r == Strip(Sent(Hid, "hash_chain", k, j))
           IN  r.n = j - 1 /\ r.env = Env(Hid, j) /\ r.signature = None
               /\ (Sent(Hid, "hash_chain", k, j).signature = None => r = Sent(Hid, "hash_chain", k, j))
  <1>1. PICK own : own = Sent(Hid, "hash_chain", k, j)
    OBVIOUS
  <1>2. own \in WireRecords /\ own.n = j - 1 /\ own.env = Env(Hid, j)
    <2>1. own \in WireRecords
      BY <1>1, SentTyped DEF Strategies
    <2>2. own.n = j - 1 /\ own.env = Env(Hid, j)
      BY <1>1, SentIs DEF Strategies, Sessions
    <2>3. QED
      BY <2>1, <2>2
  <1>3. PICK r : r = [own EXCEPT !.signature = None]
    OBVIOUS
  <1>4. r.n = own.n /\ r.env = own.env /\ r.signature = None /\ (own.signature = None => r = own)
    BY <1>2, <1>3 DEF WireRecords
  <1>5. Strip(own) = r
    BY <1>3 DEF Strip
  <1>6. QED
    BY <1>1, <1>2, <1>4, <1>5

\* Stripped chunks pass when no checkpoint is asked for.
LEMMA BareStream ==
    ASSUME NEW k \in Nat, NEW c, NEW i \in Nat \ {0},
           \A x \in 1..i : c[x] = Strip(Sent(Hid, "hash_chain", k, x))
    PROVE  ~Rejects("hash_chain", 0, c, i) /\ InPlace(c, i)
  <1>1. \A x \in 1..i : c[x].n = x - 1 /\ c[x].env = Env(Hid, x) /\ c[x].signature = None
    BY BareIs
  <1>2. c[i].env.key = Hid /\ c[i].signature = None
    BY <1>1, EnvIs DEF Sessions
  <1>3. ~Rejects("hash_chain", 0, c, i)
    BY <1>2, ChainRejects
  <1>4. InPlace(c, i)
    BY <1>1 DEF InPlace
  <1>5. QED
    BY <1>3, <1>4

SentAt(s, k, c, i) == c[i] = Sent(Hid, s, k, i)

\* A chunk that passes, with its index right, is the one sent.
LEMMA InPlaceIs ==
    ASSUME NEW s \in Strategies, NEW e \in Nat, NEW k \in Nat, NEW name, name # "strip_checkpoints", NEW c,
           NEW i \in Nat \ {0}, NEW j \in Nat \ {0}, Variant(s, k, name, c[i], j), ~Rejects(s, e, c, i),
           s = "hash_chain" => c[i].env = Env(Hid, i)
    PROVE  SentAt(s, k, c, i)
  <1>1. CASE s = "per_chunk"
    <2>1. Variant("per_chunk", k, name, c[i], j) /\ ~Rejects("per_chunk", e, c, i)
      BY <1>1
    <2>2. c[i] = Sent(Hid, "per_chunk", k, i)
      BY <2>1, PerChunkPasses
    <2>3. QED
      BY <1>1, <2>2 DEF SentAt
  <1>2. CASE s = "hash_chain"
    <2>1. Variant("hash_chain", k, name, c[i], j) /\ ~Rejects("hash_chain", e, c, i)
      BY <1>2
    <2>2. PassedChunk(e, c, i, k, name, j)
      BY <2>1, ChainPasses
    <2>3. Env(Hid, j) = Env(Hid, i)
      BY <1>2, <2>2 DEF PassedChunk
    <2>4. i = j
      BY <2>3, EnvIs DEF Sessions
    <2>5. c[i] = Sent(Hid, "hash_chain", k, j)
      BY <2>2, <2>4 DEF PassedChunk
    <2>6. QED
      BY <1>2, <2>4, <2>5 DEF SentAt
  <1>3. QED
    BY <1>1, <1>2 DEF Strategies

GenuineTexts(c, m) == \A i \in 1..m : c[i].env.text = <<i>>

\* The first m chunks, covered by a signature, are the genuine ones.
LEMMA TextsGenuine ==
    ASSUME NEW s \in Strategies, NEW e, NEW k \in Nat, NEW name, NEW len \in Nat, NEW c,
           Variants(s, k, name, len, c),
           NEW m \in 0..Len(c), Len(c) \in Nat, Clean(s, e, c, m), s = "hash_chain" => InPlace(c, m)
    PROVE  GenuineTexts(c, m)
  <1>1. SUFFICES ASSUME NEW i \in 1..m PROVE c[i].env.text = <<i>>
    BY DEF GenuineTexts
  <1>2. i \in Nat \ {0} /\ i \in 1..Len(c)
    OBVIOUS
  <1>3. c[i].env = Env(Hid, i)
    <2>1. CASE s = "per_chunk"
      <3>1. PICK j \in 1..len : Variant("per_chunk", k, name, c[i], j)
        BY <1>2, <2>1 DEF Variants
      <3>2. ~Rejects("per_chunk", e, c, i)
        BY <2>1 DEF Clean
      <3>3. c[i] = Sent(Hid, "per_chunk", k, i)
        BY <1>2, <3>1, <3>2, PerChunkPasses
      <3>4. QED
        BY <1>2, <3>3, SentIs DEF Strategies, Sessions
    <2>2. CASE s = "hash_chain"
      BY <2>2 DEF InPlace
    <2>3. QED
      BY <2>1, <2>2 DEF Strategies
  <1>4. QED
    BY <1>2, <1>3, EnvIs DEF Sessions

\* A terminal record that verifies is the server's, after all of its chunks.
EndsOnly(s, len, c, r, own) ==
    /\ r \in WireRecords /\ r.kind = (IF s = "per_chunk" THEN "final_per_chunk" ELSE "final_chain") /\ r # None
    /\ FinalVerifies(s, c, r) <=> r = own /\ Len(c) = len /\ (s = "hash_chain" => InPlace(c, len))

\* The terminal record is a record.
LEMMA ClosingTyped ==
    ASSUME NEW s \in Strategies, NEW len \in Nat
    PROVE  LET own == Closing(Hid, s, len)
           IN  /\ own \in WireRecords /\ own.kind
                   = (IF s = "per_chunk" THEN "final_per_chunk" ELSE "final_chain")
               /\ own.signature \in Signatures /\ own # None
  <1>1. Hid \in Sessions /\ Hash(Hid, len) \in Hashes
    BY HashIs DEF Sessions
  <1>2. <<Hash(Hid, len)>> \in Seq(Hashes) /\ <<>> \in Seq(Envelopes)
    BY <1>1
  <1>3. Sign(Hid, end_message(stream_context(Hid), len)) \in Signatures
    BY <1>1, <1>2, MessageIs DEF end_message
  <1>4. Sign(Hid, final_chain_message(stream_context(Hid), len, Hash(Hid, len))) \in Signatures
    BY <1>1, <1>2, MessageIs DEF final_chain_message
  <1>5. Closing(Hid, s, len) # None
    BY <1>1, ClosingIs
  <1>6. QED
    BY <1>1, <1>3, <1>4, <1>5 DEF Closing, PerChunkFinal, ChainFinal, Record, WireRecords

\* Which terminal records verify.
LEMMA Ends ==
    ASSUME NEW s \in Strategies, NEW len \in Nat, NEW c, Len(c) \in Nat, NEW name, NEW own,
           own = Closing(Hid, s, len),
           NEW r, Ending(own, s, name, r)
    PROVE  EndsOnly(s, len, c, r, own)
  <1>1. own \in WireRecords /\ own.kind = (IF s = "per_chunk" THEN "final_per_chunk" ELSE "final_chain")
        /\ own.signature \in Signatures /\ own # None
    BY ClosingTyped
  <1>2. CASE r = own
    <2>1. CASE s = "per_chunk"
      <3>1. FinalVerifies("per_chunk", c, Closing(Hid, "per_chunk", len)) <=> Len(c) = len
        BY PerChunkEnds DEF Sessions
      <3>2. QED
        BY <1>1, <1>2, <2>1, <3>1 DEF EndsOnly
    <2>2. CASE s = "hash_chain"
      <3>1. FinalVerifies("hash_chain", c, Closing(Hid, "hash_chain", len)) <=> Len(c) = len /\ InPlace(c, len)
        BY ChainEnds DEF Sessions
      <3>2. QED
        BY <1>1, <1>2, <2>2, <3>1 DEF EndsOnly
    <2>3. QED
      BY <2>1, <2>2 DEF Strategies
  <1>3. CASE s = "hash_chain" /\ r = FlipSignature(own)
    <2>1. PICK sig : sig = [own.signature EXCEPT !.signer = NoKey]
      OBVIOUS
    <2>2. sig \in Signatures /\ sig.signer = NoKey /\ NoKey # Hid
      BY <1>1, <2>1, DistinctIds DEF Signatures
    <2>3. r = [own EXCEPT !.signature = sig]
      BY <1>1, <1>3, <2>1 DEF FlipSignature, WireRecords
    <2>4. r \in WireRecords /\ r.kind = own.kind /\ r.signature = sig
      BY <1>1, <2>2, <2>3 DEF WireRecords
    <2>5. r.signature # Sign(Hid, final_chain_message(ctx, ChainAfter(c, Len(c)).n_absorbed,
                                                      ChainAfter(c, Len(c)).running_hash))
      BY <2>2, <2>4 DEF Sign
    <2>6. ~FinalVerifies("hash_chain", c, r)
      BY <2>5 DEF FinalVerifies, verify_hash_chain_final, Verify
    <2>7. r # own
      <3>1. own = Closing(Hid, "hash_chain", len)
        BY <1>3
      <3>2. own.signature = Sign(Hid, final_chain_message(stream_context(Hid), len, Hash(Hid, len)))
        BY <3>1 DEF Closing, ChainFinal, Record
      <3>3. own.signature.signer = Hid
        BY <3>2 DEF Sign
      <3>4. QED
        BY <2>2, <2>4, <3>3
    <2>8. r # None
      <3>1. r.signature \in Signatures
        BY <2>2, <2>4
      <3>2. r \in Records
        BY <1>1, <1>3, <2>4 DEF WireRecords, Records
      <3>3. QED
        BY <3>2, NoneAssumption
    <2>9. QED
      BY <1>1, <1>3, <2>4, <2>6, <2>7, <2>8 DEF EndsOnly
  <1>4. QED
    BY <1>2, <1>3 DEF Ending, Strategies

\* Exactly the first g chunks pass.
LEMMA CleanUpTo ==
    ASSUME NEW s, NEW e, NEW c, Len(c) \in Nat, NEW g, Passing(s, e, c, g), NEW i \in 1..Len(c)
    PROVE  Clean(s, e, c, i) <=> i <= g
  <1>1. g \in 0..Len(c) /\ (\A x \in 1..g : ~Rejects(s, e, c, x)) /\ (g < Len(c) => Rejects(s, e, c, g + 1))
    BY DEF Passing, Clean
  <1>2. ASSUME i <= g PROVE Clean(s, e, c, i)
    <2>1. \A x \in 1..i : x \in 1..g
      BY <1>1, <1>2
    <2>2. QED
      BY <1>1, <2>1 DEF Clean
  <1>3. ASSUME ~(i <= g) PROVE ~Clean(s, e, c, i)
    <2>1. g + 1 \in 1..i /\ Rejects(s, e, c, g + 1)
      BY <1>1, <1>3
    <2>2. QED
      BY <2>1 DEF Clean
  <1>4. QED
    BY <1>2, <1>3

\* An attack on a chunk or on the terminal record leaves a stream that fails, unless
\* it changes nothing or strips checkpoints nobody asks for.
LEMMA Notices ==
    ASSUME NEW s \in Strategies, NEW k \in Nat, NEW e \in {0, k}, NEW name, NEW len \in Nat,
           NEW c \in Seq(WireRecords),
           Variants(s, k, name, len, c), NEW g, Passing(s, e, c, g),
           NEW own, own = Closing(Hid, s, len), NEW r, Ending(own, s, name, r),
           name = "strip_checkpoints" => Len(c) = len /\ \A x \in 1..Len(c) : c[x] = Bare(s, k, x)
    PROVE  (g = Len(c) /\ FinalVerifies(s, c, r))
             <=> (c = OwnChunks(s, k, len) /\ r = own) \/ (name = "strip_checkpoints" /\ e = 0)
  <1>1. Len(c) \in Nat /\ e \in Nat
    OBVIOUS
  <1>2. FinalVerifies(s, c, r) <=> r = own /\ Len(c) = len /\ (s = "hash_chain" => InPlace(c, len))
    BY <1>1, Ends DEF EndsOnly
  <1>3. g \in 0..Len(c) /\ (\A x \in 1..g : ~Rejects(s, e, c, x)) /\ (g < Len(c) => Rejects(s, e, c, g + 1))
    BY DEF Passing, Clean
  <1>4. ASSUME g = Len(c), FinalVerifies(s, c, r), ~(name = "strip_checkpoints" /\ e = 0)
        PROVE  c = OwnChunks(s, k, len) /\ r = own
    <2>1. r = own /\ Len(c) = len /\ (s = "hash_chain" => InPlace(c, len))
      BY <1>2, <1>4
    <2>2. ASSUME NEW i \in 1..len PROVE c[i] = Sent(Hid, s, k, i)
      <3>1. i \in Nat \ {0} /\ i \in 1..Len(c) /\ ~Rejects(s, e, c, i)
        BY <1>3, <1>4, <2>1
      <3>2. CASE name # "strip_checkpoints"
        <4>1. PICK j \in 1..len : Variant(s, k, name, c[i], j)
          BY <3>1 DEF Variants
        <4>2. s = "hash_chain" => c[i].env = Env(Hid, i)
          BY <2>1 DEF InPlace
        <4>3. j \in Nat \ {0} /\ e \in Nat /\ i \in Nat \ {0} /\ ~Rejects(s, e, c, i)
          BY <1>1, <3>1
        <4>4. QED
          <5>1. SentAt(s, k, c, i)
            BY <3>2, <4>1, <4>2, <4>3, InPlaceIs, Zenon
          <5>2. QED
            BY <5>1 DEF SentAt
      <3>3. CASE name = "strip_checkpoints" /\ s = "hash_chain"
        <4>1. c[i] = Strip(Sent(Hid, "hash_chain", k, i)) /\ e > 0 /\ e = k
          BY <1>1, <1>4, <3>1, <3>3 DEF Bare
        <4>2. c[i].signature = None
          BY <3>1, <4>1, BareIs
        <4>3. ~Rejects("hash_chain", e, c, i)
          BY <3>1, <3>3
        <4>4. ~(i % e = 0)
          BY <1>1, <3>1, <4>1, <4>2, <4>3, ChainRejects
        <4>5. Sent(Hid, "hash_chain", k, i).signature = None
          BY <3>1, <4>1, <4>4, SentIs DEF Strategies, Sessions
        <4>6. QED
          BY <3>1, <3>3, <4>1, <4>5, BareIs
      <3>4. CASE name = "strip_checkpoints" /\ s # "hash_chain"
        BY <3>1, <3>4 DEF Bare
      <3>5. QED
        BY <3>2, <3>3, <3>4
    <2>3. c = [i \in 1..len |-> c[i]]
      BY <2>1
    <2>4. c = OwnChunks(s, k, len)
      BY <2>2, <2>3 DEF OwnChunks
    <2>5. QED
      BY <2>1, <2>4
  <1>5. ASSUME \A i \in 1..Len(c) : ~Rejects(s, e, c, i) PROVE g = Len(c)
    <2>1. ASSUME g < Len(c) PROVE FALSE
      <3>1. g + 1 \in 1..Len(c)
        BY <1>1, <1>3, <2>1
      <3>2. QED
        BY <1>3, <1>5, <2>1, <3>1
    <2>2. QED
      BY <1>1, <1>3, <2>1
  <1>6. ASSUME c = OwnChunks(s, k, len), r = own PROVE g = Len(c) /\ FinalVerifies(s, c, r)
    <2>1. Len(c) = len /\ \A i \in 1..len : c[i] = Sent(Hid, s, k, i)
      BY <1>6 DEF OwnChunks
    <2>2. ASSUME NEW i \in 1..len PROVE ~Rejects(s, e, c, i) /\ InPlace(c, i)
      <3>1. i \in Nat \ {0} /\ \A x \in 1..i : c[x] = Sent(Hid, s, k, x)
        BY <2>1
      <3>2. QED
        BY <3>1, OwnStream
    <2>3. InPlace(c, len)
      <3>1. CASE len = 0
        BY <3>1 DEF InPlace
      <3>2. CASE len # 0
        <4>1. len \in 1..len
          BY <3>2
        <4>2. QED
          BY <2>2, <4>1
      <3>3. QED
        BY <3>1, <3>2
    <2>4. QED
      BY <1>2, <1>5, <1>6, <2>1, <2>2, <2>3
  <1>7. ASSUME name = "strip_checkpoints", e = 0 PROVE g = Len(c) /\ FinalVerifies(s, c, r)
    <2>1. r = own /\ Len(c) = len
      BY <1>7 DEF Ending
    <2>2. ASSUME NEW i \in 1..len PROVE ~Rejects(s, e, c, i) /\ InPlace(c, i)
      <3>1. i \in Nat \ {0} /\ \A x \in 1..i : c[x] = Bare(s, k, x)
        BY <1>7, <2>1
      <3>2. CASE s = "hash_chain"
        <4>1. \A x \in 1..i : c[x] = Strip(Sent(Hid, "hash_chain", k, x))
          BY <3>1, <3>2 DEF Bare
        <4>2. ~Rejects("hash_chain", 0, c, i) /\ InPlace(c, i)
          BY <3>1, <4>1, BareStream
        <4>3. QED
          BY <1>7, <3>2, <4>2
      <3>3. CASE s # "hash_chain"
        <4>1. \A x \in 1..i : c[x] = Sent(Hid, s, k, x)
          BY <3>1, <3>3 DEF Bare
        <4>2. QED
          BY <3>1, <4>1, OwnStream
      <3>4. QED
        BY <3>2, <3>3
    <2>3. InPlace(c, len)
      <3>1. CASE len = 0
        BY <3>1 DEF InPlace
      <3>2. CASE len # 0
        <4>1. len \in 1..len
          BY <3>2
        <4>2. QED
          BY <2>2, <4>1
      <3>3. QED
        BY <3>1, <3>2
    <2>4. QED
      BY <1>2, <1>5, <2>1, <2>2, <2>3
  <1>8. QED
    BY <1>4, <1>6, <1>7

\* replay_through_client says so, and at which chunk.
LEMMA VerdictIs ==
    ASSUME NEW s, NEW e, NEW c, Len(c) \in Nat, NEW g, Passing(s, e, c, g), NEW f, NEW after,
           f.chunks = c, Len(after.shown) = Len(c), \A i \in 1..Len(c) : ShownAs(s, e, c, i, after.shown[i]),
           after.stream_fully_verified \in BOOLEAN,
           after.stream_fully_verified = TRUE <=> g = Len(c) /\ FinalVerifies(s, c, f.final)
    PROVE  Verdict(s, e, f, after)
  <1>1. PICK replayed : replayed = replay_through_client(s, e, c, f.final)
    OBVIOUS
  <1>2. PICK rejected : rejected = {i \in 1..Len(after.shown) : after.shown[i].status = "rejected"}
    OBVIOUS
  <1>3. g \in 0..Len(c) /\ (\A x \in 1..g : ~Rejects(s, e, c, x)) /\ (g < Len(c) => Rejects(s, e, c, g + 1))
    BY DEF Passing, Clean
  <1>4. (\A i \in 1..Len(c) : ~Rejects(s, e, c, i)) <=> g = Len(c)
    <2>1. ASSUME g < Len(c) PROVE ~(\A i \in 1..Len(c) : ~Rejects(s, e, c, i))
      <3>1. g + 1 \in 1..Len(c)
        BY <1>3, <2>1
      <3>2. QED
        BY <1>3, <2>1, <3>1
    <2>2. QED
      BY <1>3, <2>1
  <1>5. /\ after.stream_fully_verified = TRUE => replayed.pos = None
        /\ after.stream_fully_verified # TRUE =>
             /\ replayed.pos \in 0..Len(c) /\ replayed.pos # None
             /\ \A i \in 1..replayed.pos : ~Rejects(s, e, c, i)
             /\ replayed.pos = Len(c) \/ (replayed.pos < Len(c) /\ Rejects(s, e, c, replayed.pos + 1))
    <2>1. /\ ((\A i \in 1..Len(c) : ~Rejects(s, e, c, i)) /\ FinalVerifies(s, c, f.final))
                 => replayed.pos = None
          /\ ~((\A i \in 1..Len(c) : ~Rejects(s, e, c, i)) /\ FinalVerifies(s, c, f.final)) =>
                /\ replayed.pos \in 0..Len(c) /\ replayed.pos # None
                /\ \A i \in 1..replayed.pos : ~Rejects(s, e, c, i)
                /\ replayed.pos = Len(c) \/ (replayed.pos < Len(c) /\ Rejects(s, e, c, replayed.pos + 1))
      <3>1. PICK final : final = f.final
        OBVIOUS
      <3>2. replayed = replay_through_client(s, e, c, final)
        BY <1>1, <3>1
      <3>3. ASSUME \A i \in 1..Len(c) : ~Rejects(s, e, c, i), FinalVerifies(s, c, final)
            PROVE  replayed.pos = None
        <4>1. {i \in 1..Len(c) : Rejects(s, e, c, i)} = {}
          BY <3>3
        <4>2. replayed = [pos |-> None, covered |-> Len(c)]
          BY <3>2, <3>3, <4>1 DEF replay_through_client
        <4>3. QED
          BY <4>2
      <3>4. ASSUME ~((\A i \in 1..Len(c) : ~Rejects(s, e, c, i)) /\ FinalVerifies(s, c, final))
            PROVE  /\ replayed.pos \in 0..Len(c) /\ replayed.pos # None
                   /\ \A i \in 1..replayed.pos : ~Rejects(s, e, c, i)
                   /\ replayed.pos = Len(c) \/ (replayed.pos < Len(c) /\ Rejects(s, e, c, replayed.pos + 1))
        BY <3>2, <3>4, Replayed, SMTT(30)
      <3>5. QED
        BY <3>1, <3>3, <3>4, Zenon
    <2>2. (\A i \in 1..Len(c) : ~Rejects(s, e, c, i)) /\ FinalVerifies(s, c, f.final)
              <=> g = Len(c) /\ FinalVerifies(s, c, f.final)
      BY <1>4, Zenon
    <2>3. QED
      BY <2>1, <2>2, Zenon
  <1>6. after.stream_fully_verified = (replayed.pos = None)
    BY <1>5
  <1>7. rejected = (g + 1)..Len(c)
    <2>1. ASSUME NEW i \in 1..Len(c) PROVE after.shown[i].status = "rejected" <=> ~(i <= g)
      <3>1. Clean(s, e, c, i) <=> i <= g
        BY CleanUpTo
      <3>2. QED
        BY <3>1 DEF ShownAs
    <2>2. QED
      BY <1>2, <1>3, <2>1
  <1>8. ASSUME replayed.pos # None PROVE replayed.pos = g
    <2>1. /\ replayed.pos \in 0..Len(c) /\ (\A i \in 1..replayed.pos : ~Rejects(s, e, c, i))
          /\ replayed.pos = Len(c) \/ (replayed.pos < Len(c) /\ Rejects(s, e, c, replayed.pos + 1))
      BY <1>5, <1>8
    <2>2. ASSUME replayed.pos < g PROVE FALSE
      <3>1. replayed.pos + 1 \in 1..g /\ Rejects(s, e, c, replayed.pos + 1)
        BY <1>3, <2>1, <2>2
      <3>2. QED
        BY <1>3, <3>1
    <2>3. ASSUME g < replayed.pos PROVE FALSE
      <3>1. g + 1 \in 1..replayed.pos /\ Rejects(s, e, c, g + 1)
        BY <1>3, <2>1, <2>3
      <3>2. QED
        BY <2>1, <3>1
    <2>4. QED
      BY <1>3, <2>1, <2>2, <2>3
  <1>9. g = IF rejected = {} THEN Len(c) ELSE Min(rejected) - 1
    <2>1. CASE g = Len(c)
      BY <1>3, <1>7, <2>1
    <2>2. CASE g < Len(c)
      <3>1. g + 1 \in rejected /\ rejected \subseteq Nat /\ rejected # {}
        BY <1>3, <1>7, <2>2
      <3>2. Min(rejected) \in rejected /\ \A y \in rejected : Min(rejected) <= y
        BY <3>1, Least
      <3>3. PICK m \in (g + 1)..Len(c) : m = Min(rejected) /\ m <= g + 1
        BY <1>7, <3>1, <3>2
      <3>4. m = g + 1
        BY <1>3, <3>3
      <3>5. QED
        BY <1>3, <3>1, <3>3, <3>4
    <2>3. QED
      BY <1>3, <2>1, <2>2
  <1>10. QED
    BY <1>1, <1>2, <1>6, <1>8, <1>9 DEF Verdict

\* The verdict on f is what its records say; the page shows it.
RightlyEnds(s, len, c, g, f, own, may, ends) ==
    /\ f.chunks = c
    /\ ends <=> FinalVerifies(s, c, f.final)
    /\ (g = Len(c) /\ ends) <=> (f = own \/ may)
    /\ (g = Len(c) /\ ends) => Len(c) = len /\ (s = "hash_chain" => InPlace(c, len))

EndsAs(c, g, cl, p, ends, after, text, q) ==
    /\ ClientEnds(c, g, cl, ends, after)
    /\ q = OnFinal(IF after.stream_fully_verified THEN OnCovered(p) ELSE p, after.stream_fully_verified, text)

ClosesAs(s, e, size, total, own, may, f, after, q) ==
    /\ Done(s, e, size, total, own, may, f, after, q)
    /\ q.banner = IF after.stream_fully_verified THEN "verified" ELSE "failed"

\* What the page shows with that verdict is true.
LEMMA DoneIs ==
    ASSUME NEW s \in Strategies, NEW k \in Nat, NEW e \in Nat, NEW name, NEW len \in Nat, NEW c, Len(c) \in Nat,
           Variants(s, k, name, len, c), NEW g, NEW cl, NEW p, Following(s, e, c, g, cl, p),
           NEW f, NEW own, NEW may \in BOOLEAN, NEW ends \in BOOLEAN,
           RightlyEnds(s, len, c, g, f, own, may, ends),
           NEW after, NEW q, EndsAs(c, g, cl, p, ends, after, None, q)
    PROVE  ClosesAs(s, e, len, len, own, may, f, after, q)
  <1>0. /\ f.chunks = c
        /\ ends <=> FinalVerifies(s, c, f.final)
        /\ (g = Len(c) /\ ends) <=> (f = own \/ may)
        /\ (g = Len(c) /\ ends) => Len(c) = len /\ (s = "hash_chain" => InPlace(c, len))
        /\ ClientEnds(c, g, cl, ends, after)
        /\ q = OnFinal(IF after.stream_fully_verified THEN OnCovered(p) ELSE p,
               after.stream_fully_verified, None)
    BY Zenon DEF RightlyEnds, EndsAs
  <1>1. /\ Passing(s, e, c, g) /\ ClientFollows(s, e, c, g, cl) /\ PageFollowsClient(s, e, c, g, cl, p)
    BY Zenon DEF Following
  <1>2. /\ g \in 0..Len(c) /\ g \in Nat /\ cl.covered \in 0..g /\ Len(cl.shown) = Len(c)
        /\ \A i \in 1..Len(c) : ShownAs(s, e, c, i, cl.shown[i])
        /\ s = "hash_chain" => InPlace(c, cl.covered)
        /\ s # "hash_chain" => cl.covered = 0
    BY <1>1 DEF Passing, ClientFollows, ClientShows
  <1>3. /\ after \in Clients /\ after.stream_fully_verified \in BOOLEAN
        /\ after.stream_fully_verified = TRUE <=> g = Len(c) /\ ends
        /\ after.failed = None <=> g = Len(c) /\ ends
        /\ after.rejected_at_chunk # None => after.failed # None
        /\ after.covered = IF g = Len(c) /\ ends THEN Len(c) ELSE cl.covered
        /\ after.n_chunks = Len(c) /\ after.shown = cl.shown
    BY <1>0 DEF ClientEnds
  <1>4. PICK yes \in BOOLEAN : yes = after.stream_fully_verified
    BY <1>3
  <1>5. PICK known \in Nat : known = IF yes THEN g ELSE IF s = "per_chunk" THEN g ELSE cl.covered
    BY <1>2
  <1>6. Closed(c, known, p, q, yes)
    <2>1. CASE yes
      <3>1. q = OnFinal(OnCovered(p), TRUE, None) /\ known = g /\ g = Len(c)
        BY <1>0, <1>3, <1>4, <1>5, <2>1
      <3>2. QED
        BY <1>0, <1>1, <1>2, <2>1, <3>1, PageVerified
    <2>2. CASE ~yes
      <3>1. q = OnFinal(p, FALSE, None) /\ known = IF s = "per_chunk" THEN g ELSE cl.covered
        BY <1>0, <1>4, <1>5, <2>2
      <3>2. QED
        BY <1>0, <1>1, <1>2, <2>2, <3>1, PageRejected
    <2>3. QED
      BY <2>1, <2>2
  <1>7. known <= g /\ known \in 0..Len(c) /\ after.covered <= known /\ after.covered \in 0..Len(c)
        /\ (s = "per_chunk" => known = g)
    BY <1>2, <1>3, <1>4, <1>5
  <1>8. Clean(s, e, c, known) /\ (s = "hash_chain" => InPlace(c, known))
    <2>1. Clean(s, e, c, known)
      BY <1>1, <1>2, <1>7 DEF Passing, Clean
    <2>2. ASSUME s = "hash_chain" PROVE InPlace(c, known)
      <3>1. CASE yes
        BY <1>0, <1>3, <1>4, <1>5, <2>2, <3>1
      <3>2. CASE ~yes
        BY <1>2, <1>5, <2>2, <3>2
      <3>3. QED
        BY <3>1, <3>2
    <2>3. QED
      BY <2>1, <2>2
  <1>9. \A i \in 1..known : c[i].env.text = <<i>>
    <2>1. known \in 0..Len(c) /\ Clean(s, e, c, known) /\ (s = "hash_chain" => InPlace(c, known))
      BY <1>7, <1>8
    <2>2. GenuineTexts(c, known)
      BY <2>1, TextsGenuine, Zenon
    <2>3. QED
      BY <2>2 DEF GenuineTexts
  <1>10. MarkedTrue(after, len)
    <2>1. ASSUME NEW i \in 1..Len(after.shown), i <= after.covered \/ after.shown[i].status = "verified"
          PROVE  after.shown[i].text = <<i>>
      <3>1. i \in 1..Len(c) /\ ShownAs(s, e, c, i, after.shown[i])
        BY <1>2, <1>3
      <3>2. Clean(s, e, c, i) <=> i <= g
        BY <1>1, <3>1, CleanUpTo
      <3>3. i <= known
        <4>1. CASE i <= after.covered
          BY <1>7, <3>1, <4>1
        <4>2. CASE after.shown[i].status = "verified"
          <5>1. s = "per_chunk" /\ Clean(s, e, c, i)
            BY <3>1, <4>2 DEF ShownAs
          <5>2. QED
            BY <1>7, <3>2, <5>1
        <4>3. QED
          BY <2>1, <4>1, <4>2
      <3>4. i \in 1..known /\ i <= g
        BY <1>2, <1>7, <3>1, <3>3
      <3>5. after.shown[i].text = c[i].env.text
        BY <3>1, <3>2, <3>4 DEF ShownAs
      <3>6. QED
        BY <1>9, <3>4, <3>5
    <2>2. after.stream_fully_verified = TRUE => after.n_chunks = len
      BY <1>0, <1>3
    <2>3. QED
      BY <2>1, <2>2 DEF MarkedTrue
  <1>11. PICK tokens : tokens = q.tokens
    OBVIOUS
  <1>12. /\ q \in Pages /\ tokens \in Seq(Tokens) /\ known \in 0..Len(tokens)
         /\ \A i \in 1..known : tokens[i] = [text |-> c[i].env.text, status |-> "verified"]
         /\ \A i \in (known + 1)..Len(tokens) : tokens[i].status = "rejected"
         /\ q.max_pending = p.max_pending
         /\ q.banner = IF yes THEN "verified" ELSE "failed"
         /\ yes => q.pending = 0
    BY <1>6, <1>11, Zenon DEF Closed
  <1>13. \A i \in 1..known : tokens[i].text = <<i>> /\ tokens[i].status = "verified"
    <2>1. SUFFICES ASSUME NEW i \in 1..known PROVE tokens[i].text = <<i>> /\ tokens[i].status = "verified"
      OBVIOUS
    <2>2. PICK text : text = c[i].env.text
      OBVIOUS
    <2>3. text = <<i>>
      BY <1>9, <2>2, Zenon
    <2>4. tokens[i] = [text |-> text, status |-> "verified"]
      BY <1>12, <2>2
    <2>5. tokens[i].text = text /\ tokens[i].status = "verified"
      BY <2>4
    <2>6. QED
      BY <2>3, <2>5
  <1>14. DOMAIN tokens = 1..Len(tokens) /\ \A i \in DOMAIN tokens : i \in 1..known
             \/ tokens[i].status = "rejected"
    BY <1>12
  <1>15. TokensShown(s, e, len, q)
    <2>1. ASSUME NEW i \in DOMAIN tokens, tokens[i].status = "verified"
          PROVE  /\ tokens[i].text = IF s = "buffer_and_sign" THEN [j \in 1..len |-> j] ELSE <<i>>
                 /\ \A j \in 1..i : tokens[j].status = "verified"
      <3>1. i \in 1..known
        BY <1>14, <2>1
      <3>2. \A j \in 1..i : j \in 1..known
        BY <3>1
      <3>3. QED
        BY <1>13, <3>1, <3>2 DEF Strategies
    <2>2. ASSUME s = "hash_chain", e > 0 PROVE q.max_pending <= e
      BY <1>1, <1>12, <2>2 DEF PageFollowsClient
    <2>3. QED
      BY <1>11, <2>1, <2>2, Zenon DEF TokensShown
  <1>16. \A i \in DOMAIN tokens : tokens[i].status # "pending"
    BY <1>13, <1>14
  <1>17. Verdict(s, e, f, after)
    BY <1>0, <1>1, <1>2, <1>3, VerdictIs
  <1>18. /\ after.n_chunks = Len(f.chunks) /\ Len(after.shown) = after.n_chunks
         /\ after.covered \in 0..after.n_chunks
    BY <1>0, <1>2, <1>3, <1>7
  <1>19. after.stream_fully_verified = (after.failed = None)
    BY <1>3
  <1>20. after.stream_fully_verified = TRUE <=> f = own \/ may
    BY <1>0, <1>3
  <1>21. Done(s, e, len, len, own, may, f, after, q)
    BY <1>3, <1>4, <1>10, <1>11, <1>12, <1>15, <1>16, <1>17, <1>18, <1>19, <1>20, Zenon DEF Done
  <1>22. QED
    BY <1>4, <1>12, <1>21 DEF ClosesAs

-----------------------------------------------------------------------------
(***************************************************************************)
(* buffer_and_sign sends one record, with the whole text.                  *)
(***************************************************************************)
Whole(len) == [j \in 1..len |-> j]

\* The page at the end of a buffered stream.
BufferedPage(e, len, yes, q) ==
    /\ q \in Pages /\ TokensShown("buffer_and_sign", e, len, q)
    /\ \A i \in DOMAIN q.tokens : q.tokens[i].status # "pending"
    /\ q.banner = IF yes THEN "verified" ELSE "failed"
    /\ yes => q.pending = 0

LEMMA BufferedShows ==
    ASSUME NEW e, NEW len \in Nat, NEW p \in Pages, Len(p.tokens) = 0
    PROVE  BufferedPage(e, len, TRUE, OnFinal(OnCovered(p), TRUE, Whole(len)))
  <1>1. PICK u : u = OnCovered(p)
    OBVIOUS
  <1>2. PICK old \in Seq(Tokens) : old = p.tokens /\ Len(old) = 0
    BY DEF Pages
  <1>3. PICK all : all = Marked(old, "verified")
    OBVIOUS
  <1>4. all \in Seq(Tokens) /\ Len(all) = 0
    BY <1>2, <1>3, MarkedIs DEF Statuses
  <1>5. u \in Pages /\ u.tokens = all /\ u.pending = 0
    BY <1>1, <1>2, <1>3, OnCoveredIs
  <1>6. PICK text \in Seq(Nat) : text = Whole(len)
    <2>1. Whole(len) \in Seq(Nat)
      BY DEF Whole
    <2>2. QED
      BY <2>1
  <1>7. PICK new : new = Shown(all, text, "verified")
    OBVIOUS
  <1>8. /\ new \in Seq(Tokens) /\ Len(new) \in {0, 1}
        /\ Len(new) = 1 => new[1] = [text |-> text, status |-> "verified"]
    <2>1. PICK token \in Tokens : token = [text |-> text, status |-> "verified"]
      BY DEF Tokens, Statuses
    <2>2. text # None
      BY ReasonAssumption
    <2>3. CASE text = <<>>
      <3>1. new = all
        BY <1>7, <2>3 DEF Shown
      <3>2. QED
        BY <1>4, <3>1
    <2>4. CASE text # <<>>
      <3>1. new = Append(all, token)
        BY <1>7, <2>1, <2>2, <2>4 DEF Shown
      <3>2. QED
        BY <1>4, <2>1, <3>1
    <2>5. QED
      BY <2>3, <2>4
  <1>9. PICK q : q = [u EXCEPT !.tokens = new, !.banner = "verified"]
    OBVIOUS
  <1>10. q \in Pages /\ q.tokens = new /\ q.pending = 0 /\ q.banner = "verified"
    BY <1>5, <1>8, <1>9 DEF Pages
  <1>11. OnFinal(u, TRUE, text) = q
    BY <1>5, <1>7, <1>9 DEF OnFinal
  <1>12. DOMAIN new = 1..Len(new) /\ \A i \in DOMAIN new : i = 1
             /\ new[i] = [text |-> text, status |-> "verified"]
    BY <1>8
  <1>13. \A i \in DOMAIN new : new[i].text = text /\ \A j \in 1..i : new[j].status = "verified"
    BY <1>12
  <1>14. TokensShown("buffer_and_sign", e, len, q)
    BY <1>6, <1>10, <1>13 DEF TokensShown, Whole
  <1>15. \A i \in DOMAIN q.tokens : q.tokens[i].status # "pending"
    BY <1>10, <1>12
  <1>16. BufferedPage(e, len, TRUE, q)
    BY <1>10, <1>14, <1>15 DEF BufferedPage
  <1>17. QED
    BY <1>1, <1>6, <1>11, <1>16

LEMMA BufferedHides ==
    ASSUME NEW e, NEW len \in Nat, NEW p \in Pages, Len(p.tokens) = 0
    PROVE  BufferedPage(e, len, FALSE, OnFinal(p, FALSE, None))
  <1>1. PICK old \in Seq(Tokens) : old = p.tokens /\ Len(old) = 0
    BY DEF Pages
  <1>2. PICK all : all = Marked(old, "rejected")
    OBVIOUS
  <1>3. all \in Seq(Tokens) /\ Len(all) = 0
    BY <1>1, <1>2, MarkedIs DEF Statuses
  <1>4. PICK q : q = [p EXCEPT !.tokens = all, !.banner = "failed"]
    OBVIOUS
  <1>5. q \in Pages /\ q.tokens = all /\ q.banner = "failed"
    BY <1>3, <1>4 DEF Pages
  <1>6. OnFinal(p, FALSE, None) = q
    BY <1>1, <1>2, <1>4, ShowsNothing DEF OnFinal
  <1>7. DOMAIN all = {}
    BY <1>3
  <1>8. TokensShown("buffer_and_sign", e, len, q)
    BY <1>5, <1>7 DEF TokensShown
  <1>9. BufferedPage(e, len, FALSE, q)
    BY <1>5, <1>7, <1>8 DEF BufferedPage
  <1>10. QED
    BY <1>6, <1>9

LEMMA BufferedDone ==
    ASSUME NEW e, NEW len \in Nat, NEW g, NEW cl, NEW p, Following("buffer_and_sign", e, <<>>, g, cl, p),
           NEW f, f.chunks = <<>>, NEW own, NEW may, NEW ends \in BOOLEAN, ends <=> (f = own \/ may),
           NEW after, NEW q,
           EndsAs(<<>>, g, cl, p, ends, after, IF ends THEN Whole(len) ELSE None, q)
    PROVE  ClosesAs("buffer_and_sign", e, len, 0, own, may, f, after, q)
  <1>text. PICK text : text = IF ends THEN Whole(len) ELSE None
    OBVIOUS
  <1>ends. ClientEnds(<<>>, g, cl, ends, after)
         /\ q = OnFinal(IF after.stream_fully_verified THEN OnCovered(p) ELSE p,
                after.stream_fully_verified, text)
    BY <1>text DEF EndsAs
  <1>1. p \in Pages /\ Len(p.tokens) = 0 /\ g = Len(<<>>) /\ cl.covered = 0 /\ Len(cl.shown) = 0
    BY DEF Following, Passing, PageFollowsClient, ClientFollows, ClientShows
  <1>2. /\ after \in Clients /\ after.stream_fully_verified \in BOOLEAN
        /\ after.stream_fully_verified = TRUE <=> ends
        /\ after.failed = None <=> ends
        /\ after.rejected_at_chunk # None => after.failed # None
        /\ after.covered = 0 /\ after.n_chunks = 0 /\ Len(after.shown) = 0
    BY <1>text, <1>ends, <1>1 DEF ClientEnds
  <1>3. BufferedPage(e, len, ends, q)
    <2>1. CASE ends
      <3>1. q = OnFinal(OnCovered(p), TRUE, Whole(len)) /\ ends = TRUE
        BY <1>text, <1>ends, <1>2, <2>1
      <3>2. QED
        BY <1>text, <1>ends, <1>1, <3>1, BufferedShows
    <2>2. CASE ~ends
      <3>1. q = OnFinal(p, FALSE, None) /\ ends = FALSE
        BY <1>text, <1>ends, <1>2, <2>2
      <3>2. QED
        BY <1>text, <1>ends, <1>1, <3>1, BufferedHides
    <2>3. QED
      BY <2>1, <2>2
  <1>4. /\ q \in Pages /\ TokensShown("buffer_and_sign", e, len, q)
        /\ \A i \in DOMAIN q.tokens : q.tokens[i].status # "pending"
        /\ q.banner = IF ends THEN "verified" ELSE "failed"
        /\ ends => q.pending = 0
    BY <1>3, Zenon DEF BufferedPage
  <1>5. MarkedTrue(after, 0)
    BY <1>2 DEF MarkedTrue
  <1>6. Len(f.chunks) = 0
    OBVIOUS
  <1>7. after.stream_fully_verified = (after.failed = None) /\ after.stream_fully_verified = ends
    BY <1>2
  <1>8. QED
    BY <1>text, <1>ends, <1>2, <1>4, <1>5, <1>6, <1>7 DEF Done, ClosesAs

\* The one record, as the attacks leave it.
BufferedEnds(own, r, len) ==
    LET v == verify_buffer_and_sign_final(r)
    IN  /\ r \in WireRecords /\ r.kind = "final_buffered" /\ r # None
        /\ (v.signature_valid /\ v.aead_ok) <=> r = own
        /\ FinalText(r) = IF r = own THEN Whole(len) ELSE None

LEMMA BufferedIs ==
    ASSUME NEW k, NEW len \in Nat, NEW name, NEW r,
           Ending(Captured(Hid, "buffer_and_sign", k, len).final, "buffer_and_sign", name, r)
    PROVE  /\ Captured(Hid, "buffer_and_sign", k, len).chunks = <<>>
           /\ BufferedEnds(Captured(Hid, "buffer_and_sign", k, len).final, r, len)
  <1>1. PICK env : env = aead_encrypt(Hid, 0, Whole(len))
    OBVIOUS
  <1>2. PICK own : own = Captured(Hid, "buffer_and_sign", k, len).final
    OBVIOUS
  <1>3. PICK sig : sig = Sign(Hid, buffered_message(ctx, env))
    OBVIOUS
  <1>4. own = Record("final_buffered", 0, env, None, sig)
    BY <1>1, <1>2, <1>3, Zenon DEF Captured, CapturedFinal, BufferedFinal, Whole, ctx
  <1>5. env \in Envelopes /\ env.key = Hid /\ env.text = Whole(len)
    <2>1. Whole(len) \in Seq(Nat)
      BY DEF Whole
    <2>2. QED
      BY <1>1, <2>1 DEF aead_encrypt, Envelopes
  <1>6. sig \in Signatures /\ sig.signer = Hid
    <2>1. <<env>> \in Seq(Envelopes)
      BY <1>5
    <2>2. QED
      BY <1>3, <2>1, MessageIs DEF buffered_message, ctx, Sessions, Sign
  <1>7. own \in WireRecords /\ own.kind = "final_buffered" /\ own.env = env /\ own.signature = sig
    BY <1>4, <1>5, <1>6 DEF Record, WireRecords
  <1>8. ASSUME NEW x \in WireRecords, x.kind = "final_buffered", x.env \in Envelopes PROVE x # None
    <2>1. x \in Records
      BY <1>8 DEF WireRecords, Records
    <2>2. QED
      BY <2>1, NoneAssumption
  <1>9. ASSUME NEW x \in WireRecords, x.kind = "final_buffered", x.env \in Envelopes,
               x.signature # Sign(Hid, buffered_message(ctx, x.env))
        PROVE  BufferedEnds(own, x, len)
    <2>1. verify_buffer_and_sign_final(x).signature_valid = FALSE
              /\ verify_buffer_and_sign_final(x).aead_ok = FALSE
      BY <1>9 DEF verify_buffer_and_sign_final, Verify
    <2>2. x # own
      BY <1>3, <1>7, <1>9
    <2>3. FinalText(x) = None
      BY <2>1 DEF FinalText
    <2>4. QED
      BY <1>8, <1>9, <2>1, <2>2, <2>3 DEF BufferedEnds
  <1>10. CASE r = own
    <2>1. verify_buffer_and_sign_final(own).signature_valid = TRUE
              /\ verify_buffer_and_sign_final(own).aead_ok = TRUE
      BY <1>3, <1>5, <1>7 DEF verify_buffer_and_sign_final, Verify, Decrypts
    <2>2. FinalText(own) = Whole(len)
      BY <1>5, <1>7, <2>1 DEF FinalText
    <2>3. BufferedEnds(own, own, len)
      BY <1>5, <1>7, <1>8, <2>1, <2>2 DEF BufferedEnds
    <2>4. QED
      BY <1>2, <1>10, <2>3 DEF Captured
  <1>11. CASE r = FlipSignature(own)
    <2>1. PICK bad : bad = [sig EXCEPT !.signer = NoKey]
      OBVIOUS
    <2>2. bad \in Signatures /\ bad.signer = NoKey /\ NoKey # Hid
      BY <1>6, <2>1, DistinctIds DEF Signatures
    <2>3. r = [own EXCEPT !.signature = bad]
      BY <1>7, <1>11, <2>1 DEF FlipSignature, WireRecords
    <2>4. r \in WireRecords /\ r.kind = "final_buffered" /\ r.env = env /\ r.signature = bad
      BY <1>7, <2>2, <2>3 DEF WireRecords
    <2>5. r.signature # Sign(Hid, buffered_message(ctx, r.env))
      BY <2>2, <2>4 DEF Sign
    <2>6. BufferedEnds(own, r, len)
      BY <1>5, <1>9, <2>4, <2>5
    <2>7. QED
      BY <1>2, <2>6 DEF Captured
  <1>12. CASE r = FlipCiphertext(own)
    <2>1. PICK bad : bad = [env EXCEPT !.key = NoKey]
      OBVIOUS
    <2>2. bad \in Envelopes /\ bad.key = NoKey /\ NoKey # Hid
      BY <1>5, <2>1, DistinctIds DEF Envelopes
    <2>3. r = [own EXCEPT !.env = bad]
      BY <1>7, <1>12, <2>1 DEF FlipCiphertext, WireRecords
    <2>4. r \in WireRecords /\ r.kind = "final_buffered" /\ r.env = bad /\ r.signature = sig
      BY <1>7, <2>2, <2>3 DEF WireRecords
    <2>5. r.signature # Sign(Hid, buffered_message(ctx, r.env))
      <3>1. ASSUME sig = Sign(Hid, buffered_message(ctx, bad)) PROVE FALSE
        <4>1. <<bad>> = <<env>>
          BY <1>3, <3>1 DEF Sign, buffered_message, Message
        <4>2. bad = env
          BY <4>1
        <4>3. QED
          BY <1>5, <2>2, <4>2
      <3>2. QED
        BY <2>4, <3>1
    <2>6. BufferedEnds(own, r, len)
      BY <1>9, <2>2, <2>4, <2>5
    <2>7. QED
      BY <1>2, <2>6 DEF Captured
  <1>13. QED
    BY <1>2, <1>10, <1>11, <1>12 DEF Ending

-----------------------------------------------------------------------------
(***************************************************************************)
(* The steps.                                                              *)
(***************************************************************************)
\* The response, line by line.
LinesAre ==
    /\ Len(lines) = Total + 2
    /\ \A i \in 1..Total : lines[i] = Sent(Hid, strategy, interval, i)
    /\ lines[Total + 1] = server.final /\ lines[Total + 2].kind = "done"

ServerIs ==
    /\ strategy \in StrategyNames /\ interval \in Nat /\ Total \in Nat /\ args.length \in Nat
    /\ enforced \in {0, interval} /\ enforced \in Nat
    /\ server = [chunks |-> server.chunks, final |-> server.final]
    /\ Len(server.chunks) = Total
    /\ server.final \in WireRecords
    /\ server.final.kind \in {"final_buffered", "final_per_chunk", "final_chain"}
    /\ server.final # None
    /\ strategy \in Strategies =>
          /\ Total = args.length /\ server.chunks = OwnChunks(strategy, interval, Total)
          /\ server.final = Closing(Hid, strategy, Total)
    /\ strategy \notin Strategies =>
          /\ strategy = "buffer_and_sign" /\ Total = 0 /\ server.chunks = <<>>
          /\ server = Captured(Hid, "buffer_and_sign", interval, args.length)

LEMMA Served ==
    ASSUME ArgsInv
    PROVE  ServerIs
  <1>1. /\ strategy \in StrategyNames /\ interval \in Nat /\ args.length \in Nat
        /\ enforced \in {0, interval} /\ enforced \in Nat
    BY DEF ArgsInv, enforced, interval
  <1>2. server = [chunks |-> server.chunks, final |-> server.final]
    BY DEF server, Captured
  <1>3. CASE strategy \in Strategies
    <2>1. Total = args.length
      BY <1>3 DEF Total, Strategies
    <2>2. server.chunks = OwnChunks(strategy, interval, Total) /\ server.final = Closing(Hid, strategy, Total)
      <3>1. PICK cap : cap = Captured(Hid, strategy, interval, args.length)
        OBVIOUS
      <3>2. cap.chunks = [j \in 1..args.length |-> Sent(Hid, strategy, interval, j)]
            /\ cap.final = Closing(Hid, strategy, args.length)
        <4>1. PICK s \in Strategies, k \in Nat, len \in Nat : s = strategy /\ k = interval /\ len = args.length
          BY <1>1, <1>3
        <4>2. Hid \in Sessions
          BY DEF Sessions
        <4>3. cap = Captured(Hid, s, k, len)
          BY <3>1, <4>1
        <4>4. cap.chunks = [j \in 1..len |-> Sent(Hid, s, k, j)] /\ cap.final = Closing(Hid, s, len)
          BY <4>2, <4>3, CapturedIs
        <4>5. QED
          BY <4>1, <4>4
      <3>3. server = cap
        BY <3>1 DEF server, interval
      <3>4. QED
        BY <2>1, <3>2, <3>3 DEF OwnChunks
    <2>3. Len(server.chunks) = Total
      BY <1>1, <2>1, <2>2 DEF OwnChunks
    <2>4. /\ server.final \in WireRecords /\ server.final # None
          /\ server.final.kind \in {"final_buffered", "final_per_chunk", "final_chain"}
      BY <1>1, <1>3, <2>1, <2>2, ClosingTyped
    <2>5. QED
      BY <1>1, <1>2, <1>3, <2>1, <2>2, <2>3, <2>4 DEF ServerIs
  <1>4. CASE strategy \notin Strategies
    <2>1. strategy = "buffer_and_sign"
      BY <1>1, <1>4 DEF Strategies, StrategyNames
    <2>2. Total = 0 /\ server = Captured(Hid, "buffer_and_sign", interval, args.length)
      BY <2>1 DEF Total, server, interval
    <2>3. PICK own : own = server.final
      OBVIOUS
    <2>4. server.chunks = <<>> /\ BufferedEnds(own, own, args.length)
      <3>1. Ending(Captured(Hid, "buffer_and_sign", interval, args.length).final, "buffer_and_sign", None,
                   Captured(Hid, "buffer_and_sign", interval, args.length).final)
        BY DEF Ending
      <3>2. /\ Captured(Hid, "buffer_and_sign", interval, args.length).chunks = <<>>
            /\ BufferedEnds(Captured(Hid, "buffer_and_sign", interval, args.length).final,
                            Captured(Hid, "buffer_and_sign", interval, args.length).final, args.length)
        BY <1>1, <3>1, BufferedIs
      <3>3. QED
        BY <2>2, <2>3, <3>2
    <2>5. own \in WireRecords /\ own.kind = "final_buffered" /\ own # None
      BY <2>4, Zenon DEF BufferedEnds
    <2>6. QED
      BY <1>1, <1>2, <1>4, <2>1, <2>2, <2>3, <2>4, <2>5 DEF ServerIs
  <1>5. QED
    BY <1>3, <1>4

\* all is start with two more elements.
Extends(all, start, x, y) ==
    /\ Len(all) = Len(start) + 2 /\ all[Len(start) + 1] = x /\ all[Len(start) + 2] = y
    /\ \A i \in 1..Len(start) : all[i] = start[i]

LEMMA TwoMore ==
    ASSUME NEW S, NEW start \in Seq(S), NEW x \in S, NEW y \in S
    PROVE  Extends(start \o <<x, y>>, start, x, y)
  BY DEF Extends

LEMMA LinesRead ==
    ASSUME ArgsInv
    PROVE  LinesAre
  <1>1. /\ Total \in Nat /\ interval \in Nat /\ strategy \in StrategyNames /\ Len(server.chunks) = Total
        /\ server.final \in WireRecords
        /\ strategy \in Strategies => server.chunks = OwnChunks(strategy, interval, Total)
        /\ strategy \notin Strategies => Total = 0 /\ server.chunks = <<>>
    BY Served DEF ServerIs
  <1>2. PICK sent : sent = server.chunks
    OBVIOUS
  <1>3. sent \in Seq(WireRecords) /\ \A i \in 1..Total : sent[i] = Sent(Hid, strategy, interval, i)
    <2>1. CASE strategy \in Strategies
      <3>1. \A i \in 1..Total : Sent(Hid, strategy, interval, i) \in WireRecords
        BY <1>1, <2>1, SentTyped
      <3>2. sent = [i \in 1..Total |-> Sent(Hid, strategy, interval, i)]
        BY <1>1, <1>2, <2>1 DEF OwnChunks
      <3>3. \A i \in 1..Total : sent[i] \in WireRecords /\ sent[i] = Sent(Hid, strategy, interval, i)
        BY <3>1, <3>2
      <3>4. sent = [i \in 1..Total |-> sent[i]]
        BY <3>2
      <3>5. QED
        BY <1>1, <3>3, <3>4
    <2>2. CASE strategy \notin Strategies
      <3>1. sent = <<>> /\ Total = 0
        BY <1>1, <1>2, <2>2
      <3>2. sent \in Seq(WireRecords) /\ 1..Total = {}
        BY <3>1
      <3>3. QED
        BY <3>2
    <2>3. QED
      BY <2>1, <2>2
  <1>4. PICK over : over = DoneEvent(Len(server.chunks))
    OBVIOUS
  <1>5. over \in WireRecords /\ over.kind = "done"
    BY <1>1, <1>4 DEF DoneEvent, Record, WireRecords
  <1>6. PICK last \in WireRecords : last = server.final
    BY <1>1
  <1>7. lines = sent \o <<last, over>>
    BY <1>2, <1>4, <1>6 DEF lines
  <1>8. /\ Len(lines) = Total + 2 /\ lines[Total + 1] = last /\ lines[Total + 2] = over
        /\ \A i \in 1..Total : lines[i] = sent[i]
    <2>1. sent \in Seq(WireRecords) /\ Len(sent) = Total /\ Total \in Nat
      BY <1>1, <1>2, <1>3
    <2>2. Extends(sent \o <<last, over>>, sent, last, over)
      BY <1>5, <2>1, TwoMore
    <2>3. QED
      BY <1>7, <2>1, <2>2 DEF Extends
  <1>9. QED
    BY <1>3, <1>5, <1>6, <1>8 DEF LinesAre

LEMMA ArgsKept ==
    ASSUME args' = args
    PROVE  /\ strategy' = strategy /\ enforced' = enforced /\ interval' = interval /\ Total' = Total
           /\ server' = server /\ MayPass' = MayPass /\ (ArgsInv => ArgsInv')
  <1>1. strategy' = strategy /\ enforced' = enforced /\ interval' = interval
    BY DEF strategy, enforced, interval
  <1>2. Total' = Total /\ server' = server
    BY <1>1 DEF Total, server
  <1>3. MayPass' = MayPass
    BY <1>1 DEF MayPass
  <1>4. ArgsInv => ArgsInv'
    BY <1>1 DEF ArgsInv
  <1>5. QED
    BY <1>1, <1>2, <1>3, <1>4

LEMMA LiveChunkIs ==
    ASSUME ArgsInv, NEW r, LiveChunk(r)
    PROVE  strategy \in Strategies /\ r \in WireRecords /\ r.kind = "chunk"
  <1>1. PICK j \in 1..Total : Variant(strategy, interval, args.attack, r, j)
    BY DEF LiveChunk
  <1>2. strategy \in Strategies /\ interval \in Nat /\ j \in Nat \ {0}
    BY <1>1, Served DEF ServerIs
  <1>3. Known(strategy, interval, args.attack, r, j)
    BY <1>1, <1>2, VariantIs, Zenon
  <1>4. QED
    BY <1>2, <1>3 DEF Known

LEMMA LiveFinalIs ==
    ASSUME ArgsInv, NEW r, LiveFinal(r)
    PROVE  r \in WireRecords /\ r.kind \in {"final_buffered", "final_per_chunk", "final_chain"} /\ r # None
  <1>1. Ending(server.final, strategy, args.attack, r)
    BY DEF LiveFinal
  <1>2. ServerIs
    BY Served
  <1>3. CASE strategy \in Strategies
    <2>1. server.final = Closing(Hid, strategy, Total) /\ Total \in Nat /\ Len(<<>>) \in Nat
      BY <1>2, <1>3 DEF ServerIs
    <2>2. EndsOnly(strategy, Total, <<>>, r, server.final)
      BY <1>1, <1>3, <2>1, Ends
    <2>3. QED
      BY <2>2 DEF EndsOnly
  <1>4. CASE strategy \notin Strategies
    <2>1. /\ Ending(Captured(Hid, "buffer_and_sign", interval, args.length).final, "buffer_and_sign",
                 args.attack, r)
          /\ args.length \in Nat
      BY <1>1, <1>2, <1>4 DEF ServerIs
    <2>2. BufferedEnds(Captured(Hid, "buffer_and_sign", interval, args.length).final, r, args.length)
      BY <2>1, BufferedIs
    <2>3. QED
      BY <2>2 DEF BufferedEnds
  <1>5. QED
    BY <1>3, <1>4

\* A step that gives process nothing changes nothing it has concluded.
LEMMA StreamKept ==
    ASSUME args' = args, client' = client, fed' = fed, page' = page, phase' = phase, StreamInv
    PROVE  StreamInv'
  <1>1. /\ strategy' = strategy /\ enforced' = enforced /\ Total' = Total /\ server' = server
        /\ MayPass' = MayPass
    BY ArgsKept
  <1>2. Ended' = Ended
    BY DEF Ended
  <1>3. Settled' = Settled
    BY <1>1 DEF Settled
  <1>4. QED
    BY <1>1, <1>2, <1>3 DEF StreamInv

\* Nor does it change what it was given.
LEMMA FedKept ==
    ASSUME args' = args, client' = client, fed' = fed, FedInv
    PROVE  FedInv'
  <1>1. /\ strategy' = strategy /\ interval' = interval /\ Total' = Total /\ server' = server
    BY ArgsKept
  <1>2. \A r : LiveChunk(r)' <=> LiveChunk(r)
    BY <1>1 DEF LiveChunk
  <1>3. LiveFinal(fed.final)' <=> LiveFinal(fed.final)
    BY <1>1 DEF LiveFinal
  <1>4. \A x \in 1..Len(fed'.chunks) : LiveChunk(fed.chunks[x])' <=> LiveChunk(fed.chunks[x])
    BY <1>1 DEF LiveChunk
  <1>5. QED
    BY <1>3, <1>4 DEF FedInv

\* What the attack makes of a line.
BatchIs(r, records) ==
    \/ records = <<>>
    \/ /\ records \in Seq(WireRecords) /\ Len(records) \in 1..2
       /\ \A x \in 1..Len(records) : LiveChunk(records[x])

\* What the attack makes of a chunk's line.
LEMMA ChunkBatch ==
    ASSUME ArgsInv, TodoInv, NEW i \in 1..Total
    PROVE  LET r == Sent(Hid, strategy, interval, i) IN BatchIs(r, batch(r)) /\ r.kind = "chunk"
  <1>1. PICK r : r = Sent(Hid, strategy, interval, i)
    OBVIOUS
  <1>2. LiveChunk(r)
    BY <1>1 DEF LiveChunk, Variant
  <1>3. r \in WireRecords /\ r.kind = "chunk" /\ ~Final(r)
    BY <1>2, LiveChunkIs DEF Final
  <1>4. ASSUME args.attack = "tamper_ciphertext" PROVE LiveChunk(FlipCiphertext(r))
    BY <1>1, <1>4 DEF LiveChunk, Variant
  <1>5. ASSUME args.attack = "tamper_signature", r.signature # None PROVE LiveChunk(FlipSignature(r))
    BY <1>1, <1>5 DEF LiveChunk, Variant
  <1>6. ASSUME args.attack = "strip_checkpoints", strategy = "hash_chain" PROVE LiveChunk(Strip(r))
    BY <1>1, <1>6 DEF LiveChunk, Variant
  <1>7. ASSUME held # None PROVE LiveChunk(held)
    BY <1>7 DEF TodoInv, LiveChunk, Variant
  <1>8. \/ batch(r) \in {<<>>, <<r>>, <<r, r>>}
        \/ args.attack = "tamper_ciphertext" /\ batch(r) = <<FlipCiphertext(r)>>
        \/ args.attack = "tamper_signature" /\ r.signature # None /\ batch(r) = <<FlipSignature(r)>>
        \/ held # None /\ batch(r) = <<r, held>>
        \/ args.attack = "strip_checkpoints" /\ strategy = "hash_chain" /\ batch(r) = <<Strip(r)>>
    BY <1>3 DEF batch
  <1>9. ASSUME NEW a, LiveChunk(a) PROVE BatchIs(r, <<a>>) /\ BatchIs(r, <<r, a>>)
    <2>0. a \in WireRecords
      BY <1>9, LiveChunkIs
    <2>1. Len(<<a>>) = 1 /\ <<a>>[1] = a /\ Len(<<r, a>>) = 2 /\ <<r, a>>[1] = r /\ <<r, a>>[2] = a
      OBVIOUS
    <2>2. \A x \in 1..1 : x = 1
      OBVIOUS
    <2>3. \A x \in 1..2 : x = 1 \/ x = 2
      OBVIOUS
    <2>4. BatchIs(r, <<a>>)
      <3>1. \A x \in 1..1 : LiveChunk(<<a>>[x])
        BY <1>9, <2>1, <2>2
      <3>2. QED
        BY <1>3, <2>0, <2>1, <3>1 DEF BatchIs
    <2>5. BatchIs(r, <<r, a>>)
      <3>1. \A x \in 1..2 : LiveChunk(<<r, a>>[x])
        BY <1>2, <1>9, <2>1, <2>3
      <3>2. QED
        BY <1>3, <2>0, <2>1, <3>1 DEF BatchIs
    <2>6. QED
      BY <2>4, <2>5
  <1>10. BatchIs(r, <<>>)
    BY DEF BatchIs
  <1>11. BatchIs(r, batch(r))
    BY <1>2, <1>4, <1>5, <1>6, <1>7, <1>8, <1>9, <1>10
  <1>12. QED
    BY <1>1, <1>3, <1>11

\* What it makes of the terminal record's line.
LEMMA FinalBatch ==
    ASSUME ArgsInv
    PROVE  batch(server.final) \in Seq(WireRecords)
           /\ Len(batch(server.final)) = 1 /\ LiveFinal(batch(server.final)[1])
           /\ (args.attack = "strip_checkpoints" => batch(server.final) = <<server.final>>)
  <1>1. PICK r : r = server.final
    OBVIOUS
  <1>2. r.kind # "chunk" /\ Final(r)
    BY <1>1, Served DEF ServerIs, Final
  <1>3. \/ batch(r) = <<r>>
        \/ args.attack = "tamper_ciphertext" /\ strategy = "buffer_and_sign" /\ batch(r) = <<FlipCiphertext(r)>>
        \/ args.attack = "tamper_signature" /\ strategy # "per_chunk" /\ batch(r) = <<FlipSignature(r)>>
    BY <1>2 DEF batch, Target
  <1>4. Len(batch(r)) = 1 /\ LiveFinal(batch(r)[1]) /\ (args.attack = "strip_checkpoints" => batch(r) = <<r>>)
        /\ batch(r) = <<batch(r)[1]>>
    BY <1>1, <1>3 DEF LiveFinal, Ending
  <1>5. PICK a : a = batch(r)[1]
    OBVIOUS
  <1>6. a \in WireRecords
    BY <1>4, <1>5, LiveFinalIs
  <1>7. <<a>> \in Seq(WireRecords)
    BY <1>6
  <1>8. QED
    BY <1>1, <1>4, <1>5, <1>7

-----------------------------------------------------------------------------
(***************************************************************************)
(* The invariant holds at first, and each step keeps it.                   *)
(***************************************************************************)
LEMMA LiveStarts ==
    ASSUME PageInit
    PROVE  LiveInv
  <1>1. /\ args \in [strategy: StrategyNames, checkpoint_interval: Intervals, attack: STREAM_ATTACKS,
                     attack_index: 0..MaxChunks, enforce_schedule: BOOLEAN, length: 0..MaxChunks]
        /\ next = 1 /\ held = None /\ todo = <<>> /\ phase = "reading"
        /\ fed = [chunks |-> <<>>, final |-> None]
        /\ page = [tokens |-> <<>>, chunks |-> 0, pending |-> 0, max_pending |-> 0, banner |-> None]
    BY DEF PageInit, LiveInit
  <1>2. client = [expected |-> 0, pending |-> 0, failed |-> None, terminal |-> FALSE,
                  chain_state |-> NewChainState, n_chunks |-> 0, stream_fully_verified |-> None,
                  max_unverified_chunks |-> 0, rejected_at_chunk |-> None,
                  shown |-> <<>>, covered |-> 0]
    BY DEF PageInit, LiveInit
  <1>3. ArgsInv
    <2>1. Intervals \subseteq Nat /\ 0..MaxChunks \subseteq Nat
      BY LiveDemoAssumption
    <2>2. QED
      BY <1>1, <2>1 DEF ArgsInv, strategy, interval
  <1>4. Total \in Nat /\ strategy \in StrategyNames /\ enforced \in Nat
    BY <1>3, Served DEF ServerIs
  <1>5. client.terminal = FALSE /\ Len(fed.chunks) = 0 /\ fed.final = None /\ fed.chunks = <<>>
    BY <1>1, <1>2
  <1>6. TodoInv
    BY <1>1, <1>4, <1>5 DEF TodoInv
  <1>7. FedInv
    <2>1. <<>> \in Seq(WireRecords)
      OBVIOUS
    <2>2. fed \in [chunks: Seq(WireRecords), final: WireRecords \cup {None}]
      BY <1>1, <2>1
    <2>3. 1..0 = {}
      OBVIOUS
    <2>4. QED
      BY <1>5, <2>2, <2>3 DEF FedInv
  <1>8. StripInv
    <2>1. ~(next > Total + 1) /\ Len(fed.chunks) = next - 1 /\ 1..Len(fed.chunks) = {}
      BY <1>1, <1>4, <1>5
    <2>2. QED
      BY <1>1, <2>1 DEF StripInv
  <1>9. NewChainState = ChainAfter(<<>>, 0) /\ NewChainState \in ChainStates
    <2>1. [j \in 1..0 |-> [index |-> <<>>[j].n, env |-> <<>>[j].env]] = <<>>
      OBVIOUS
    <2>2. genesis_hash(Hid) = [gen |-> genesis_hash(Hid).gen, links |-> <<>>]
      BY DEF genesis_hash
    <2>3. NewChainState = ChainAfter(<<>>, 0)
      BY <2>1, <2>2 DEF NewChainState, ChainAfter
    <2>4. [j \in 1..0 |-> [index |-> j - 1, env |-> Env(Hid, j)]] = <<>>
      OBVIOUS
    <2>5. genesis_hash(Hid) = Hash(Hid, 0)
      BY <2>2, <2>4 DEF Hash
    <2>6. genesis_hash(Hid) \in Hashes
      BY <2>5, HashIs DEF Sessions
    <2>7. QED
      BY <2>3, <2>6 DEF NewChainState, ChainStates
  <1>10. client \in Clients
    <2>1. <<>> \in Seq(ShownChunks)
      OBVIOUS
    <2>2. QED
      BY <1>2, <1>9, <2>1 DEF Clients
  <1>11. page \in Pages
    <2>1. <<>> \in Seq(Tokens)
      OBVIOUS
    <2>2. QED
      BY <1>1, <2>1 DEF Pages
  <1>12. \A x \in 1..0 : FALSE
    OBVIOUS
  <1>13. Passing(strategy, enforced, <<>>, 0)
    BY <1>12 DEF Passing, Clean
  <1>14. ClientFollows(strategy, enforced, <<>>, 0, client)
    <2>1. ClientShows(strategy, enforced, <<>>, 0, client)
      BY <1>2, <1>10, <1>12 DEF ClientShows
    <2>2. client.expected = 0 /\ client.covered = 0 /\ client.pending = 0 /\ client.chain_state = NewChainState
      BY <1>2
    <2>3. QED
      BY <1>9, <1>12, <2>1, <2>2 DEF ClientFollows, InPlace
  <1>15. PageFollowsClient(strategy, enforced, <<>>, 0, client, page)
    <2>1. client.covered = 0 /\ page.tokens = <<>> /\ page.pending = 0 /\ page.max_pending = 0 /\ Len(<<>>) = 0
      BY <1>1, <1>2
    <2>2. enforced > 0 => 0 % enforced \in 0..(enforced - 1)
      BY <1>4, DivMod
    <2>3. \A i \in (0 + 1)..0 : FALSE
      OBVIOUS
    <2>4. QED
      BY <1>4, <1>11, <1>12, <2>1, <2>2, <2>3 DEF PageFollowsClient
  <1>16. StreamInv
    <2>1. Following(strategy, enforced, fed.chunks, 0, client, page)
      BY <1>5, <1>13, <1>14, <1>15 DEF Following
    <2>2. ~Ended /\ 0 \in 0..Len(fed.chunks)
      BY <1>1, <1>5 DEF Ended
    <2>3. QED
      BY <2>1, <2>2 DEF StreamInv
  <1>17. QED
    BY <1>3, <1>6, <1>7, <1>8, <1>16 DEF LiveInv

\* Reading a line.
LEMMA ReadKeeps ==
    ASSUME ArgsInv, TodoInv, FedInv, StripInv, ReadLine
    PROVE  TodoInv' /\ StripInv'
  <1>1. /\ strategy' = strategy /\ enforced' = enforced /\ interval' = interval /\ Total' = Total
        /\ server' = server
        /\ args' = args /\ client' = client /\ fed' = fed /\ phase' = phase
    BY ArgsKept DEF ReadLine
  <1>2. /\ Total \in Nat /\ interval \in Nat /\ strategy \in StrategyNames /\ LinesAre
        /\ server.final.kind \in {"final_buffered", "final_per_chunk", "final_chain"}
        /\ Total > 0 => strategy \in Strategies
    BY Served, LinesRead DEF ServerIs
  <1>3. PICK r : r = lines[next]
    OBVIOUS
  <1>4. /\ Len(lines) = Total + 2 /\ next \in 1..(Total + 2) /\ phase = "reading" /\ todo = <<>>
        /\ todo' = IF CutBefore(r) \/ r.kind = "done" THEN <<>> ELSE batch(r)
        /\ held' = CASE args.attack = "reorder" /\ Target(r) -> r
                     [] args.attack = "reorder" /\ ~Target(r) /\ r.kind = "chunk" -> None
                     [] OTHER -> held
        /\ next' = IF CutBefore(r) \/ CutAfter(r) THEN Total + 3 ELSE next + 1
    BY <1>2, <1>3 DEF ReadLine, LinesAre, TodoInv
  <1>5. Len(todo) = 0 /\ (client.terminal => next > Total + 1)
        /\ (held = None \/ \E j \in 1..Total : held = Sent(Hid, strategy, interval, j))
    BY <1>4 DEF TodoInv
  <1>6. ASSUME args.attack = "strip_checkpoints"
        PROVE  /\ \A x \in 1..Len(fed.chunks) : fed.chunks[x] = Bare(strategy, interval, x)
               /\ IF next > Total + 1 THEN Len(fed.chunks) = Total /\ client.terminal
                  ELSE Len(fed.chunks) = next - 1
    BY <1>5, <1>6 DEF StripInv
  <1>7. <<>> \in Seq(WireRecords)
    OBVIOUS
  <1>8. CASE next <= Total
    <2>1. next \in 1..Total /\ r = Sent(Hid, strategy, interval, next)
      BY <1>2, <1>3, <1>4, <1>8 DEF LinesAre
    <2>2. BatchIs(r, batch(r)) /\ r.kind = "chunk"
      BY <2>1, ChunkBatch
    <2>3. ~CutBefore(r) /\ todo' = batch(r) /\ next' \in {next + 1, Total + 3} /\ ~client.terminal
      BY <1>2, <1>4, <1>5, <1>8, <2>2 DEF CutBefore, Final
    <2>4. held' = r \/ held' = None \/ held' = held
      BY <1>4
    <2>5. held' = None \/ \E j \in 1..Total : held' = Sent(Hid, strategy, interval, j)
      BY <1>5, <2>1, <2>4
    <2>6. \/ todo' = <<>>
          \/ /\ todo' \in Seq(WireRecords) /\ Len(todo') \in 1..2
             /\ \A x \in 1..Len(todo') : \E j \in 1..Total : Variant(strategy, interval, args.attack,
                    todo'[x], j)
      BY <2>2, <2>3 DEF BatchIs, LiveChunk
    <2>7. next' \in 1..(Total + 3)
      BY <1>2, <1>4, <2>3
    <2>8. TodoInv'
      BY <1>1, <1>4, <1>7, <2>3, <2>5, <2>6, <2>7 DEF TodoInv, LiveChunk
    <2>9. StripInv'
      <3>1. SUFFICES ASSUME args.attack = "strip_checkpoints"
                     PROVE  /\ \A x \in 1..Len(fed.chunks) : fed.chunks[x] = Bare(strategy, interval, x)
                            /\ next' \in 2..(Total + 1) /\ Len(fed.chunks) = next' - 2
                            /\ todo' = <<Bare(strategy, interval, next' - 1)>>
        BY <1>1 DEF StripInv
      <3>2. next' = next + 1
        BY <1>4, <2>3, <3>1 DEF CutAfter
      <3>3. Len(fed.chunks) = next - 1
        BY <1>2, <1>4, <1>6, <1>8, <3>1
      <3>4. batch(r) = <<Bare(strategy, interval, next)>>
        <4>1. CASE strategy = "hash_chain" /\ r.signature # None
          <5>1. batch(r) = <<Strip(r)>>
            BY <2>2, <3>1, <4>1 DEF batch
          <5>2. QED
            BY <2>1, <4>1, <5>1 DEF Bare
        <4>2. CASE strategy = "hash_chain" /\ r.signature = None
          <5>1. batch(r) = <<r>>
            BY <2>2, <3>1, <4>2 DEF batch
          <5>2. next \in Nat \ {0}
            BY <2>1
          <5>3. Strip(r) = r
            BY <1>2, <2>1, <4>2, <5>2, BareIs
          <5>4. QED
            BY <2>1, <4>2, <5>1, <5>3 DEF Bare
        <4>3. CASE strategy # "hash_chain"
          <5>1. batch(r) = <<r>>
            BY <2>2, <3>1, <4>3 DEF batch
          <5>2. QED
            BY <2>1, <4>3, <5>1 DEF Bare
        <4>4. QED
          BY <4>1, <4>2, <4>3
      <3>5. next' - 1 = next /\ next' \in 2..(Total + 1) /\ Len(fed.chunks) = next' - 2
        BY <1>2, <2>1, <3>2, <3>3
      <3>6. QED
        BY <1>6, <2>3, <3>1, <3>4, <3>5
    <2>10. QED
      BY <2>8, <2>9
  <1>9. CASE next = Total + 1
    <2>1. r = server.final /\ r.kind \notin {"chunk", "done"} /\ Final(r)
      BY <1>2, <1>3, <1>9 DEF LinesAre, Final
    <2>2. ~Target(r) /\ ~CutAfter(r) /\ held' = held
      BY <1>4, <2>1 DEF Target, CutAfter
    <2>3. ~client.terminal /\ next' \in {Total + 2, Total + 3} /\ next' \in 1..(Total + 3) /\ next' > Total + 1
      BY <1>2, <1>4, <1>5, <1>9
    <2>4. /\ batch(r) \in Seq(WireRecords) /\ Len(batch(r)) = 1 /\ LiveFinal(batch(r)[1])
          /\ args.attack = "strip_checkpoints" => batch(r) = <<server.final>>
      BY <2>1, FinalBatch
    <2>5. todo' = <<>> \/ (todo' \in Seq(WireRecords) /\ Len(todo') = 1
              /\ Ending(server.final, strategy, args.attack, todo'[1]))
      BY <1>4, <2>4 DEF LiveFinal
    <2>6. TodoInv'
      BY <1>1, <1>4, <1>5, <1>7, <2>2, <2>3, <2>5 DEF TodoInv, LiveFinal
    <2>7. StripInv'
      <3>1. SUFFICES ASSUME args.attack = "strip_checkpoints"
                     PROVE  /\ \A x \in 1..Len(fed.chunks) : fed.chunks[x] = Bare(strategy, interval, x)
                            /\ Len(fed.chunks) = Total /\ next' = Total + 2 /\ todo' = <<server.final>>
        BY <1>1 DEF StripInv
      <3>2. ~CutBefore(r)
        BY <3>1 DEF CutBefore
      <3>3. todo' = <<server.final>> /\ next' = Total + 2
        BY <1>2, <1>4, <1>9, <2>1, <2>2, <2>4, <3>1, <3>2
      <3>4. QED
        BY <1>2, <1>6, <1>9, <3>1, <3>3
    <2>8. QED
      BY <2>6, <2>7
  <1>10. CASE next = Total + 2
    <2>1. r.kind = "done"
      BY <1>2, <1>3, <1>10 DEF LinesAre
    <2>2. todo' = <<>> /\ held' = held /\ next' = Total + 3 /\ next' \in 1..(Total + 3) /\ next' > Total + 1
      BY <1>2, <1>4, <1>10, <2>1 DEF Target, CutAfter
    <2>3. TodoInv'
      BY <1>1, <1>4, <1>5, <1>7, <2>2 DEF TodoInv
    <2>4. StripInv'
      BY <1>1, <1>2, <1>6, <1>10, <2>2 DEF StripInv
    <2>5. QED
      BY <2>3, <2>4
  <1>11. QED
    BY <1>2, <1>4, <1>8, <1>9, <1>10

\* The verdict on a stream that ends with its terminal record, and on one that
\* does not.
Closes(f, after, q) == ClosesAs(strategy, enforced, args.length, Total, server, MayPass, f, after, q)

LiveChunks(c) == c \in Seq(WireRecords) /\ \A x \in 1..Len(c) : LiveChunk(c[x])

\* What was given to process, as the lemmas on streams ask for it.
LEMMA ChunksAre ==
    ASSUME ArgsInv, NEW c, LiveChunks(c)
    PROVE  /\ Variants(strategy, interval, args.attack, Total, c)
           /\ strategy \notin Strategies => c = <<>>
  <1>1. \A x \in 1..Len(c) : \E j \in 1..Total : Variant(strategy, interval, args.attack, c[x], j)
    BY DEF LiveChunks, LiveChunk
  <1>2. ASSUME strategy \notin Strategies PROVE c = <<>>
    <2>1. Total = 0
      BY <1>2, Served DEF ServerIs
    <2>2. 1..Len(c) = {}
      BY <1>1, <2>1
    <2>3. QED
      BY <2>2 DEF LiveChunks
  <1>3. QED
    BY <1>1, <1>2 DEF Variants

\* A terminal record of chunks.
LEMMA ChunksClose ==
    ASSUME ArgsInv, strategy \in Strategies, NEW c, LiveChunks(c),
           NEW g, NEW cl, NEW p, Following(strategy, enforced, c, g, cl, p), NEW r, LiveFinal(r),
           args.attack = "strip_checkpoints" =>
               Len(c) = Total /\ \A x \in 1..Len(c) : c[x] = Bare(strategy, interval, x)
    PROVE  /\ Closes([chunks |-> c, final |-> r], process(cl, r), consume(p, process(cl, r), r))
           /\ process(cl, r).terminal
  <1>1. /\ interval \in Nat /\ Total \in Nat /\ enforced \in {0, interval} /\ enforced \in Nat
        /\ server = [chunks |-> server.chunks, final |-> server.final]
        /\ args.length = Total /\ server.chunks = OwnChunks(strategy, interval, Total)
        /\ server.final = Closing(Hid, strategy, Total)
    BY Served DEF ServerIs
  <1>2. PICK own : own = server.final
    OBVIOUS
  <1>3. PICK after : after = process(cl, r)
    OBVIOUS
  <1>4. Ending(own, strategy, args.attack, r) /\ own = Closing(Hid, strategy, Total)
    BY <1>1, <1>2 DEF LiveFinal
  <1>5. c \in Seq(WireRecords) /\ Len(c) \in Nat /\ Variants(strategy, interval, args.attack, Total, c)
    BY ChunksAre DEF LiveChunks
  <1>6. /\ r \in WireRecords /\ r.kind = (IF strategy = "per_chunk" THEN "final_per_chunk"
                                          ELSE "final_chain") /\ r # None
        /\ FinalVerifies(strategy, c, r)
              <=> r = own /\ Len(c) = Total /\ (strategy = "hash_chain" => InPlace(c, Total))
    BY <1>1, <1>4, <1>5, Ends DEF EndsOnly
  <1>7. PICK ends \in BOOLEAN : ends <=> FinalVerifies(strategy, c, r)
    OBVIOUS
  <1>8. Passing(strategy, enforced, c, g) /\ ClientFollows(strategy, enforced, c, g, cl)
    BY Zenon DEF Following
  <1>9. /\ ClientShows(strategy, enforced, c, g, cl)
        /\ strategy = "per_chunk" => cl.expected = Len(c)
        /\ strategy = "hash_chain" => cl.chain_state = ChainAfter(c, Len(c))
    BY <1>8, Zenon DEF ClientFollows
  <1>10. ClientEnds(c, g, cl, ends, after) /\ after.terminal
    <2>1. CASE strategy = "per_chunk"
      <3>1. ends <=> verify_per_chunk_final(r, cl.expected)
        BY <1>6, <1>7, <1>9, <2>1 DEF FinalVerifies
      <3>2. QED
        BY <1>3, <1>6, <1>9, <2>1, <3>1, FinalJudged
    <2>2. CASE strategy = "hash_chain"
      <3>1. ends <=> verify_hash_chain_final(r, cl.chain_state)
        BY <1>6, <1>7, <1>9, <2>2 DEF FinalVerifies
      <3>2. QED
        BY <1>3, <1>6, <1>9, <2>2, <3>1, FinalJudged
    <2>3. QED
      BY <2>1, <2>2 DEF Strategies
  <1>11. PICK f : f = [chunks |-> c, final |-> r]
    OBVIOUS
  <1>12. f.chunks = c /\ f.final = r /\ (f = server <=> c = OwnChunks(strategy, interval, Total) /\ r = own)
    BY <1>1, <1>2, <1>11
  <1>13. (g = Len(c) /\ FinalVerifies(strategy, c, r))
            <=> (c = OwnChunks(strategy, interval, Total) /\ r = own)
                \/ (args.attack = "strip_checkpoints" /\ enforced = 0)
    BY <1>1, <1>4, <1>5, <1>8, Notices
  <1>14. PICK may \in BOOLEAN : may = MayPass
    BY DEF MayPass
  <1>15. (g = Len(c) /\ ends) <=> (f = server \/ may)
    BY <1>7, <1>12, <1>13, <1>14 DEF MayPass
  <1>16. PICK q : q = consume(p, after, r)
    OBVIOUS
  <1>17. q = OnFinal(IF after.stream_fully_verified THEN OnCovered(p) ELSE p, after.stream_fully_verified, None)
    <2>1. FinalText(r) = None /\ r.kind # "chunk"
      BY <1>6 DEF FinalText
    <2>2. QED
      BY <1>16, <2>1 DEF consume
  <1>18. (g = Len(c) /\ ends) => Len(c) = Total /\ (strategy = "hash_chain" => InPlace(c, Total))
    BY <1>6, <1>7
  <1>19. ends <=> FinalVerifies(strategy, c, f.final)
    BY <1>7, <1>12
  <1>20. RightlyEnds(strategy, Total, c, g, f, server, may, ends) /\ EndsAs(c, g, cl, p, ends, after, None, q)
    BY <1>10, <1>12, <1>15, <1>17, <1>18, <1>19, Zenon DEF RightlyEnds, EndsAs
  <1>21. ClosesAs(strategy, enforced, Total, Total, server, may, f, after, q)
    <2>1. interval \in Nat /\ Total \in Nat /\ enforced \in Nat
      BY <1>1
    <2>2. QED
      BY <1>5, <1>20, <2>1, DoneIs, Zenon
  <1>22. QED
    BY <1>1, <1>3, <1>10, <1>11, <1>14, <1>16, <1>21 DEF Closes

\* The only record of buffer_and_sign.
LEMMA BufferCloses ==
    ASSUME ArgsInv, strategy \notin Strategies,
           NEW g, NEW cl, NEW p, Following(strategy, enforced, <<>>, g, cl, p), NEW r, LiveFinal(r)
    PROVE  /\ Closes([chunks |-> <<>>, final |-> r], process(cl, r), consume(p, process(cl, r), r))
           /\ process(cl, r).terminal
  <1>1. /\ args.length \in Nat /\ strategy = "buffer_and_sign" /\ Total = 0 /\ server.chunks = <<>>
        /\ server = [chunks |-> server.chunks, final |-> server.final]
        /\ server = Captured(Hid, "buffer_and_sign", interval, args.length)
    BY Served DEF ServerIs
  <1>2. PICK own : own = server.final
    OBVIOUS
  <1>3. PICK after : after = process(cl, r)
    OBVIOUS
  <1>4. BufferedEnds(own, r, args.length)
    <2>1. Ending(Captured(Hid, "buffer_and_sign", interval, args.length).final, "buffer_and_sign",
              args.attack, r)
      BY <1>1 DEF LiveFinal
    <2>2. BufferedEnds(Captured(Hid, "buffer_and_sign", interval, args.length).final, r, args.length)
      BY <1>1, <2>1, BufferedIs
    <2>3. QED
      BY <1>1, <1>2, <2>2
  <1>5. /\ r \in WireRecords /\ r.kind = "final_buffered"
        /\ (verify_buffer_and_sign_final(r).signature_valid /\ verify_buffer_and_sign_final(r).aead_ok)
               <=> r = own
        /\ FinalText(r) = IF r = own THEN Whole(args.length) ELSE None
    BY <1>4, Zenon DEF BufferedEnds
  <1>6. PICK ends \in BOOLEAN : ends <=> r = own
    OBVIOUS
  <1>7. ClientShows("buffer_and_sign", enforced, <<>>, g, cl)
            /\ Following("buffer_and_sign", enforced, <<>>, g, cl, p)
    BY <1>1, Zenon DEF Following, ClientFollows
  <1>8. ClientEnds(<<>>, g, cl, ends, after) /\ after.terminal
    <2>1. ends <=> verify_buffer_and_sign_final(r).signature_valid /\ verify_buffer_and_sign_final(r).aead_ok
      BY <1>5, <1>6
    <2>2. QED
      BY <1>3, <1>5, <1>7, <2>1, FinalJudged
  <1>9. PICK f : f = [chunks |-> <<>>, final |-> r]
    OBVIOUS
  <1>10. f.chunks = <<>> /\ (f = server <=> r = own)
    BY <1>1, <1>2, <1>9
  <1>11. ~MayPass \/ args.attack = "strip_checkpoints"
    BY DEF MayPass
  <1>12. args.attack = "strip_checkpoints" => r = own
    BY <1>1, <1>2 DEF LiveFinal, Ending
  <1>13. ends <=> (f = server \/ MayPass)
    BY <1>6, <1>10, <1>11, <1>12
  <1>14. PICK q : q = consume(p, after, r)
    OBVIOUS
  <1>15. EndsAs(<<>>, g, cl, p, ends, after, IF ends THEN Whole(args.length) ELSE None, q)
    <2>1. FinalText(r) = IF ends THEN Whole(args.length) ELSE None
      BY <1>5, <1>6
    <2>2. q = OnFinal(IF after.stream_fully_verified THEN OnCovered(p) ELSE p, after.stream_fully_verified,
              FinalText(r))
      BY <1>5, <1>14 DEF consume
    <2>3. QED
      BY <1>8, <2>1, <2>2 DEF EndsAs
  <1>16. ClosesAs("buffer_and_sign", enforced, args.length, 0, server, MayPass, f, after, q)
    BY <1>1, <1>7, <1>10, <1>13, <1>15, BufferedDone, Zenon
  <1>17. QED
    BY <1>1, <1>3, <1>8, <1>9, <1>14, <1>16 DEF Closes

\* No terminal record.
LEMMA CutCloses ==
    ASSUME ArgsInv, NEW c, LiveChunks(c), args.attack # "strip_checkpoints",
           NEW g, NEW cl, NEW p, Following(strategy, enforced, c, g, cl, p)
    PROVE  Closes([chunks |-> c, final |-> None],
                  [cl EXCEPT !.stream_fully_verified = FALSE,
                             !.failed = IF cl.failed = None THEN "truncated" ELSE cl.failed],
                  OnFinal(p, FALSE, None))
  <1>1. PICK after : after = [cl EXCEPT !.stream_fully_verified = FALSE,
                                        !.failed = IF cl.failed = None THEN "truncated" ELSE cl.failed]
    OBVIOUS
  <1>2. PICK f : f = [chunks |-> c, final |-> None]
    OBVIOUS
  <1>3. PICK q : q = OnFinal(p, FALSE, None)
    OBVIOUS
  <1>4. ServerIs
    BY Served
  <1>5. f.chunks = c /\ f.final = None /\ f # server /\ ~MayPass
    BY <1>2, <1>4 DEF ServerIs, MayPass
  <1>6. ClientShows(strategy, enforced, c, g, cl)
    BY Zenon DEF Following, ClientFollows
  <1>7. ClientEnds(c, g, cl, FALSE, after)
    BY <1>1, <1>6, CutJudged
  <1>8. after.stream_fully_verified = FALSE
    BY <1>7 DEF ClientEnds
  <1>9. q = OnFinal(IF after.stream_fully_verified THEN OnCovered(p) ELSE p, after.stream_fully_verified, None)
    BY <1>3, <1>8
  <1>10. ClosesAs(strategy, enforced, args.length, Total, server, MayPass, f, after, q)
    <2>1. CASE strategy \in Strategies
      <3>1. /\ interval \in Nat /\ Total \in Nat /\ args.length = Total /\ enforced \in Nat
            /\ Len(c) \in Nat /\ Variants(strategy, interval, args.attack, Total, c)
        BY <1>4, <2>1, ChunksAre DEF ServerIs, LiveChunks
      <3>2. FALSE \in BOOLEAN /\ MayPass \in BOOLEAN
        BY DEF MayPass
      <3>3. RightlyEnds(strategy, Total, c, g, f, server, MayPass, FALSE)
        BY <1>5 DEF RightlyEnds, FinalVerifies
      <3>4. EndsAs(c, g, cl, p, FALSE, after, None, q)
        BY <1>7, <1>9 DEF EndsAs
      <3>5. ClosesAs(strategy, enforced, Total, Total, server, MayPass, f, after, q)
        BY <2>1, <3>1, <3>2, <3>3, <3>4, DoneIs, Zenon
      <3>6. QED
        BY <3>1, <3>5
    <2>2. CASE strategy \notin Strategies
      <3>1. strategy = "buffer_and_sign" /\ args.length \in Nat /\ Total = 0 /\ c = <<>>
        BY <1>4, <2>2, ChunksAre DEF ServerIs
      <3>2. PICK ends \in BOOLEAN : ends = FALSE
        OBVIOUS
      <3>3. Following("buffer_and_sign", enforced, <<>>, g, cl, p) /\ f.chunks = <<>>
                /\ (ends <=> (f = server \/ MayPass))
        BY <1>5, <3>1, <3>2
      <3>4. EndsAs(<<>>, g, cl, p, ends, after, IF ends THEN Whole(args.length) ELSE None, q)
        BY <1>7, <1>9, <3>1, <3>2 DEF EndsAs
      <3>5. ClosesAs("buffer_and_sign", enforced, args.length, 0, server, MayPass, f, after, q)
        BY <3>1, <3>3, <3>4, BufferedDone, Zenon
      <3>6. QED
        BY <3>1, <3>5
    <2>3. QED
      BY <2>1, <2>2
  <1>11. QED
    BY <1>1, <1>2, <1>3, <1>10 DEF Closes

\* Processing a chunk.
LEMMA ChunkKeeps ==
    ASSUME LiveInv, PageFollows, ~client.terminal, Len(todo) \in 1..2,
           \A x \in 1..Len(todo) : LiveChunk(todo[x])
    PROVE  LiveInv'
  <1>1. ArgsInv /\ TodoInv /\ FedInv /\ StripInv /\ StreamInv
    BY DEF LiveInv
  <1>2. PICK r : r = todo[1]
    OBVIOUS
  <1>3. /\ phase = "reading" /\ client' = process(client, r) /\ fed' = feed(fed, r) /\ todo' = Tail(todo)
        /\ args' = args /\ next' = next /\ held' = held /\ phase' = phase
        /\ page' = consume(page, process(client, r), r)
    BY <1>2 DEF PageFollows, ProcessRecord
  <1>4. /\ strategy' = strategy /\ enforced' = enforced /\ interval' = interval /\ Total' = Total
        /\ server' = server
        /\ ArgsInv'
    BY <1>1, <1>3, ArgsKept
  <1>5. /\ interval \in Nat /\ Total \in Nat /\ enforced \in Nat
        /\ server.final.kind \in {"final_buffered", "final_per_chunk", "final_chain"}
    BY <1>1, Served DEF ServerIs
  <1>6. LiveChunk(r) /\ 1 \in 1..Len(todo)
    BY <1>2
  <1>7. strategy \in Strategies /\ r \in WireRecords /\ r.kind = "chunk"
    BY <1>1, <1>6, LiveChunkIs
  <1>8. PICK c \in Seq(WireRecords) : c = fed.chunks
    BY <1>1 DEF FedInv
  <1>9. PICK d : d = Append(c, r)
    OBVIOUS
  <1>10. /\ d \in Seq(WireRecords) /\ Len(c) \in Nat /\ Len(d) = Len(c) + 1 /\ d[Len(c) + 1] = r
         /\ \A x \in 1..Len(c) : d[x] = c[x]
    BY <1>7, <1>8, <1>9
  <1>11. /\ fed' \in [chunks: Seq(WireRecords), final: WireRecords \cup {None}]
         /\ fed'.chunks = d /\ fed'.final = None
    <2>1. fed \in [chunks: Seq(WireRecords), final: WireRecords \cup {None}] /\ fed.final = None
      BY <1>1 DEF FedInv
    <2>2. fed' = [fed EXCEPT !.chunks = d]
      BY <1>3, <1>7, <1>8, <1>9 DEF feed
    <2>3. QED
      BY <1>10, <2>1, <2>2
  <1>12. PICK j \in 1..Total : Variant(strategy, interval, args.attack, r, j)
    BY <1>6 DEF LiveChunk
  <1>13. PICK g : Following(strategy, enforced, c, g, client, page)
    BY <1>1, <1>3, <1>8 DEF StreamInv, Ended
  <1>14. PICK g2 : Following(strategy, enforced, d, g2, client', page')
    <2>1. j \in Nat \ {0}
      BY <1>5
    <2>2. Following(strategy, enforced, Append(c, r), Longer(strategy, enforced, c, g, r),
                    process(client, r), consume(page, process(client, r), r))
      BY <1>5, <1>7, <1>12, <1>13, <2>1, TakesChunk, Zenon
    <2>3. QED
      BY <1>3, <1>9, <2>2
  <1>15. ~client'.terminal /\ g2 \in 0..Len(d)
    BY <1>14 DEF Following, Passing, ClientFollows, ClientShows
  <1>16. StreamInv'
    <2>1. ~Ended'
      BY <1>3, <1>15 DEF Ended
    <2>2. \E x \in 0..Len(fed'.chunks) : Following(strategy', enforced', fed'.chunks, x, client', page')
      BY <1>4, <1>11, <1>14, <1>15
    <2>3. QED
      BY <2>1, <2>2 DEF StreamInv
  <1>17. FedInv'
    <2>1. \A x \in 1..Len(c) : LiveChunk(c[x])
      BY <1>1, <1>8 DEF FedInv
    <2>2. \A x \in 1..Len(d) : x \in 1..Len(c) \/ x = Len(c) + 1
      BY <1>10
    <2>3. \A x \in 1..Len(d) : \E i \in 1..Total : Variant(strategy, interval, args.attack, d[x], i)
      BY <1>6, <1>10, <2>1, <2>2 DEF LiveChunk
    <2>4. QED
      BY <1>3, <1>4, <1>11, <1>15, <2>3 DEF FedInv, LiveChunk
  <1>18. TodoInv'
    <2>1. /\ next \in 1..(Total + 3)
          /\ held = None \/ \E i \in 1..Total : held = Sent(Hid, strategy, interval, i)
      BY <1>1 DEF TodoInv
    <2>2. todo' \in Seq(WireRecords) /\ (todo' = <<>> \/ (Len(todo') = 1 /\ LiveChunk(todo'[1])))
      <3>1. todo \in Seq(WireRecords)
        BY <1>1 DEF TodoInv
      <3>2. PICK rest : rest = Tail(todo)
        OBVIOUS
      <3>3. /\ rest \in Seq(WireRecords) /\ Len(rest) = Len(todo) - 1
            /\ \A x \in 1..Len(rest) : rest[x] = todo[x + 1]
        <4>1. todo # <<>>
          BY <3>1
        <4>2. QED
          BY <3>1, <3>2, <4>1, HeadTailProperties
      <3>4. CASE Len(todo) = 1
        BY <1>3, <3>2, <3>3, <3>4
      <3>5. CASE Len(todo) = 2
        <4>1. 1 \in 1..Len(rest) /\ 2 \in 1..Len(todo) /\ 1 + 1 = 2
          BY <3>3, <3>5
        <4>2. rest[1] = todo[2] /\ Len(rest) = 1
          BY <3>3, <3>5, <4>1
        <4>3. QED
          BY <1>3, <3>2, <3>3, <4>1, <4>2
      <3>6. QED
        BY <3>4, <3>5
    <2>3. \/ todo' = <<>>
          \/ /\ Len(todo') \in 1..2
             /\ \A x \in 1..Len(todo') : \E i \in 1..Total : Variant(strategy, interval, args.attack,
                    todo'[x], i)
      BY <2>2 DEF LiveChunk
    <2>4. QED
      BY <1>3, <1>4, <1>15, <2>1, <2>2, <2>3 DEF TodoInv, LiveChunk
  <1>19. StripInv'
    <2>1. SUFFICES ASSUME args.attack = "strip_checkpoints"
                   PROVE  /\ \A x \in 1..Len(d) : d[x] = Bare(strategy, interval, x)
                          /\ todo' = <<>> /\ ~(next > Total + 1) /\ Len(d) = next - 1
      BY <1>3, <1>4, <1>11 DEF StripInv
    <2>2. /\ \A x \in 1..Len(c) : c[x] = Bare(strategy, interval, x)
          /\ \/ todo = <<>>
             \/ next \in 2..(Total + 1) /\ Len(c) = next - 2 /\ todo = <<Bare(strategy, interval, next - 1)>>
             \/ todo = <<server.final>>
      BY <1>1, <1>8, <2>1 DEF StripInv
    <2>3. todo # <<>> /\ todo # <<server.final>>
      BY <1>2, <1>5, <1>7
    <2>4. next \in 2..(Total + 1) /\ Len(c) = next - 2 /\ todo = <<r>> /\ r = Bare(strategy, interval, next - 1)
      BY <1>2, <2>2, <2>3
    <2>5. todo' = <<>> /\ Len(d) = next - 1 /\ ~(next > Total + 1)
      BY <1>3, <1>5, <1>10, <2>4
    <2>6. Len(c) + 1 = next - 1
      BY <1>5, <2>4
    <2>7. \A x \in 1..Len(d) : x \in 1..Len(c) \/ x = Len(c) + 1
      BY <1>10
    <2>8. \A x \in 1..Len(d) : d[x] = Bare(strategy, interval, x)
      BY <1>10, <2>2, <2>4, <2>6, <2>7
    <2>9. QED
      BY <2>5, <2>8
  <1>20. QED
    BY <1>4, <1>16, <1>17, <1>18, <1>19 DEF LiveInv

\* Processing the terminal record.
LEMMA FinalKeeps ==
    ASSUME LiveInv, PageFollows, ~client.terminal, next > Total + 1, Len(todo) = 1, LiveFinal(todo[1])
    PROVE  LiveInv'
  <1>1. ArgsInv /\ TodoInv /\ FedInv /\ StripInv /\ StreamInv
    BY DEF LiveInv
  <1>2. PICK r : r = todo[1]
    OBVIOUS
  <1>3. /\ phase = "reading" /\ client' = process(client, r) /\ fed' = feed(fed, r) /\ todo' = Tail(todo)
        /\ args' = args /\ next' = next /\ held' = held /\ phase' = phase
        /\ page' = consume(page, process(client, r), r)
    BY <1>2 DEF PageFollows, ProcessRecord
  <1>4. /\ strategy' = strategy /\ enforced' = enforced /\ interval' = interval /\ Total' = Total
        /\ server' = server
        /\ MayPass' = MayPass /\ ArgsInv'
    BY <1>1, <1>3, ArgsKept
  <1>5. Total \in Nat
    BY <1>1, Served DEF ServerIs
  <1>6. LiveFinal(r) /\ r \in WireRecords /\ r.kind # "chunk"
    BY <1>1, <1>2, LiveFinalIs
  <1>7. PICK c \in Seq(WireRecords) : c = fed.chunks
    BY <1>1 DEF FedInv
  <1>8. LiveChunks(c)
    BY <1>1, <1>7 DEF FedInv, LiveChunks
  <1>9. /\ fed' = [chunks |-> c, final |-> r]
        /\ fed' \in [chunks: Seq(WireRecords), final: WireRecords \cup {None}]
    <2>1. fed \in [chunks: Seq(WireRecords), final: WireRecords \cup {None}]
      BY <1>1 DEF FedInv
    <2>2. fed' = [fed EXCEPT !.final = r]
      BY <1>3, <1>6 DEF feed
    <2>3. QED
      BY <1>6, <1>7, <2>1, <2>2
  <1>10. PICK g : Following(strategy, enforced, c, g, client, page)
    BY <1>1, <1>3, <1>7 DEF StreamInv, Ended
  <1>11. args.attack = "strip_checkpoints" =>
            Len(c) = Total /\ \A x \in 1..Len(c) : c[x] = Bare(strategy, interval, x)
    BY <1>1, <1>5, <1>7 DEF StripInv
  <1>12. Closes(fed', client', page') /\ client'.terminal
    <2>1. CASE strategy \in Strategies
      <3>1. /\ Closes([chunks |-> c, final |-> r], process(client, r), consume(page, process(client, r), r))
            /\ process(client, r).terminal
        BY <1>1, <1>6, <1>8, <1>10, <1>11, <2>1, ChunksClose, Zenon
      <3>2. QED
        BY <1>3, <1>9, <3>1
    <2>2. CASE strategy \notin Strategies
      <3>1. c = <<>>
        BY <1>1, <1>8, <2>2, ChunksAre
      <3>2. Following(strategy, enforced, <<>>, g, client, page)
        BY <1>10, <3>1
      <3>3. /\ Closes([chunks |-> <<>>, final |-> r], process(client, r), consume(page, process(client, r), r))
            /\ process(client, r).terminal
        BY <1>1, <1>6, <2>2, <3>2, BufferCloses, Zenon
      <3>4. QED
        BY <1>3, <1>9, <3>1, <3>3
    <2>3. QED
      BY <2>1, <2>2
  <1>13. Settled'
    BY <1>3, <1>4, <1>12 DEF Closes, ClosesAs, Settled
  <1>14. StreamInv'
    BY <1>12, <1>13 DEF StreamInv, Ended
  <1>15. todo' = <<>> /\ <<>> \in Seq(WireRecords)
    <2>1. todo = <<r>>
      BY <1>1, <1>2 DEF TodoInv
    <2>2. QED
      BY <1>3, <2>1
  <1>16. TodoInv'
    BY <1>1, <1>3, <1>4, <1>15 DEF TodoInv
  <1>17. FedInv'
    <2>1. \A x \in 1..Len(c) : \E i \in 1..Total : Variant(strategy, interval, args.attack, c[x], i)
      BY <1>8 DEF LiveChunks, LiveChunk
    <2>2. Ending(server.final, strategy, args.attack, r)
      BY <1>6 DEF LiveFinal
    <2>3. fed'.chunks = c /\ fed'.final = r
      BY <1>9
    <2>4. QED
      BY <1>3, <1>4, <1>9, <1>12, <2>1, <2>2, <2>3 DEF FedInv, LiveChunk, LiveFinal
  <1>18. StripInv'
    <2>1. fed'.chunks = c
      BY <1>9
    <2>2. QED
      BY <1>3, <1>4, <1>11, <1>12, <1>15, <2>1 DEF StripInv
  <1>19. QED
    BY <1>4, <1>14, <1>16, <1>17, <1>18 DEF LiveInv

\* The end of the response.
LEMMA EndKeeps ==
    ASSUME LiveInv, PageEnds
    PROVE  LiveInv'
  <1>1. ArgsInv /\ TodoInv /\ FedInv /\ StripInv /\ StreamInv
    BY DEF LiveInv
  <1>2. /\ phase = "reading" /\ todo = <<>> /\ next > Len(lines) /\ phase' = "summary"
        /\ args' = args /\ next' = next /\ held' = held /\ todo' = todo /\ fed' = fed
    BY DEF PageEnds, EndOfStream
  <1>3. /\ strategy' = strategy /\ enforced' = enforced /\ interval' = interval /\ Total' = Total
        /\ server' = server
        /\ MayPass' = MayPass /\ ArgsInv'
    BY <1>1, <1>2, ArgsKept
  <1>4. Total \in Nat /\ next > Total + 1
    BY <1>1, <1>2, Served, LinesRead DEF ServerIs, LinesAre, TodoInv
  <1>5. client'.terminal = client.terminal /\ Closes(fed, client', page')
    <2>1. CASE client.terminal
      <3>1. client' = client /\ page' = page
        BY <2>1 DEF PageEnds, EndOfStream
      <3>2. Settled
        BY <1>1, <2>1 DEF StreamInv, Ended
      <3>3. Closes(fed, client, page)
        BY <1>2, <3>2 DEF Settled, Closes, ClosesAs
      <3>4. QED
        BY <3>1, <3>3
    <2>2. CASE ~client.terminal
      <3>1. args.attack # "strip_checkpoints"
        <4>1. SUFFICES ASSUME args.attack = "strip_checkpoints" PROVE FALSE
          OBVIOUS
        <4>2. /\ ~(next \in 2..(Total + 1)) /\ todo # <<server.final>>
          BY <1>2, <1>4
        <4>3. client.terminal
          BY <1>1, <1>4, <4>1, <4>2 DEF StripInv
        <4>4. QED
          BY <2>2, <4>3
      <3>2. PICK c : c = fed.chunks
        OBVIOUS
      <3>3. LiveChunks(c) /\ fed = [chunks |-> c, final |-> None]
        BY <1>1, <2>2, <3>2 DEF FedInv, LiveChunks
      <3>4. PICK g : Following(strategy, enforced, c, g, client, page)
        BY <1>1, <1>2, <2>2, <3>2 DEF StreamInv, Ended
      <3>5. /\ client' = [client EXCEPT !.stream_fully_verified = FALSE,
                                        !.failed = IF client.failed = None THEN "truncated" ELSE client.failed]
            /\ page' = OnFinal(page, FALSE, None)
        BY <2>2 DEF PageEnds, EndOfStream, TruncatedVerdict
      <3>6. client \in Clients
        BY <3>4 DEF Following, ClientFollows, ClientShows
      <3>7. client'.terminal = client.terminal
        BY <3>5, <3>6 DEF Clients
      <3>8. Closes([chunks |-> c, final |-> None],
                   [client EXCEPT !.stream_fully_verified = FALSE,
                                  !.failed = IF client.failed = None THEN "truncated" ELSE client.failed],
                   OnFinal(page, FALSE, None))
        BY <1>1, <3>1, <3>3, <3>4, CutCloses
      <3>9. QED
        BY <3>3, <3>5, <3>7, <3>8
    <2>3. QED
      BY <2>1, <2>2
  <1>6. StreamInv'
    BY <1>2, <1>3, <1>5 DEF StreamInv, Ended, Settled, Closes, ClosesAs
  <1>7. TodoInv'
    BY <1>1, <1>2, <1>3, <1>4, <1>5 DEF TodoInv
  <1>8. FedInv'
    <2>1. \A x \in 1..Len(fed.chunks) : \E i \in 1..Total : Variant(strategy, interval, args.attack,
              fed.chunks[x], i)
      BY <1>1 DEF FedInv, LiveChunk
    <2>2. IF client.terminal THEN Ending(server.final, strategy, args.attack, fed.final) ELSE fed.final = None
      BY <1>1 DEF FedInv, LiveFinal
    <2>3. fed \in [chunks: Seq(WireRecords), final: WireRecords \cup {None}]
      BY <1>1 DEF FedInv
    <2>4. QED
      BY <1>2, <1>3, <1>5, <2>1, <2>2, <2>3 DEF FedInv, LiveChunk, LiveFinal
  <1>9. StripInv'
    BY <1>1, <1>2, <1>3, <1>5 DEF StripInv
  <1>10. QED
    BY <1>3, <1>6, <1>7, <1>8, <1>9 DEF LiveInv

\* A banner leaves the page a page.
LEMMA BannerIs ==
    ASSUME NEW p \in Pages
    PROVE  LET q == [p EXCEPT !.banner = "request failed"]
           IN  q \in Pages /\ q.tokens = p.tokens /\ q.pending = p.pending /\ q.max_pending = p.max_pending
  BY DEF Pages

\* The connection fails.
LEMMA FailKeeps ==
    ASSUME LiveInv, PageFails
    PROVE  LiveInv'
  <1>1. ArgsInv /\ TodoInv /\ FedInv /\ StripInv /\ StreamInv
    BY DEF LiveInv
  <1>2. /\ phase = "reading" /\ todo = <<>> /\ phase' = "error"
        /\ page' = [page EXCEPT !.banner = "request failed"]
        /\ args' = args /\ next' = next /\ held' = held /\ todo' = todo /\ client' = client /\ fed' = fed
    BY DEF PageFails, ReadError
  <1>3. /\ strategy' = strategy /\ enforced' = enforced /\ interval' = interval /\ Total' = Total
        /\ server' = server
        /\ MayPass' = MayPass /\ ArgsInv'
    BY <1>1, <1>2, ArgsKept
  <1>4. PICK q : q = [page EXCEPT !.banner = "request failed"]
    OBVIOUS
  <1>5. StreamInv'
    <2>1. CASE client.terminal
      <3>1. Done(strategy, enforced, args.length, Total, server, MayPass, fed, client, page)
        BY <1>1, <2>1 DEF StreamInv, Ended, Settled
      <3>2. page \in Pages
        BY <3>1 DEF Done
      <3>3. q \in Pages /\ q.tokens = page.tokens /\ q.pending = page.pending
                /\ q.max_pending = page.max_pending
        BY <1>4, <3>2, BannerIs
      <3>4. Done(strategy, enforced, args.length, Total, server, MayPass, fed, client, q)
        BY <3>1, <3>3 DEF Done, TokensShown
      <3>5. QED
        BY <1>2, <1>3, <1>4, <2>1, <3>4 DEF StreamInv, Ended, Settled
    <2>2. CASE ~client.terminal
      <3>1. PICK g \in 0..Len(fed.chunks) : Following(strategy, enforced, fed.chunks, g, client, page)
        BY <1>1, <1>2, <2>2 DEF StreamInv, Ended
      <3>2. page \in Pages
        BY <3>1 DEF Following, PageFollowsClient
      <3>3. q \in Pages /\ q.tokens = page.tokens /\ q.pending = page.pending
                /\ q.max_pending = page.max_pending
        BY <1>4, <3>2, BannerIs
      <3>4. Following(strategy, enforced, fed.chunks, g, client, q)
        BY <3>1, <3>3 DEF Following, PageFollowsClient
      <3>5. QED
        BY <1>2, <1>3, <1>4, <2>2, <3>1, <3>4 DEF StreamInv, Ended
    <2>3. QED
      BY <2>1, <2>2
  <1>6. TodoInv'
    BY <1>1, <1>2, <1>3 DEF TodoInv
  <1>7. FedInv'
    BY <1>1, <1>2, FedKept
  <1>8. StripInv'
    BY <1>1, <1>2, <1>3 DEF StripInv
  <1>9. QED
    BY <1>3, <1>5, <1>6, <1>7, <1>8 DEF LiveInv

\* Every step.
LEMMA LiveKept ==
    ASSUME LiveInv, [PageNext]_pageVars
    PROVE  LiveInv'
  <1>1. CASE PageWaits
    <2>1. ArgsInv /\ TodoInv /\ FedInv /\ StripInv /\ StreamInv
      BY DEF LiveInv
    <2>2. ReadLine /\ args' = args /\ client' = client /\ fed' = fed /\ page' = page /\ phase' = phase
      BY <1>1 DEF PageWaits, ReadLine
    <2>3. TodoInv' /\ StripInv'
      BY <2>1, <2>2, ReadKeeps
    <2>4. ArgsInv' /\ FedInv' /\ StreamInv'
      BY <2>1, <2>2, ArgsKept, FedKept, StreamKept
    <2>5. QED
      BY <2>3, <2>4 DEF LiveInv
  <1>2. CASE PageFollows
    <2>1. todo # <<>>
      BY <1>2 DEF PageFollows, ProcessRecord
    <2>2. ~client.terminal
      BY <2>1 DEF LiveInv, TodoInv
    <2>3. CASE Len(todo) \in 1..2 /\ \A x \in 1..Len(todo) : LiveChunk(todo[x])
      BY <1>2, <2>2, <2>3, ChunkKeeps
    <2>4. CASE next > Total + 1 /\ Len(todo) = 1 /\ LiveFinal(todo[1])
      BY <1>2, <2>2, <2>4, FinalKeeps
    <2>5. QED
      BY <2>1, <2>3, <2>4 DEF LiveInv, TodoInv
  <1>3. CASE PageEnds
    BY <1>3, EndKeeps
  <1>4. CASE PageFails
    BY <1>4, FailKeeps
  <1>5. CASE (LiveFinished /\ UNCHANGED page) \/ UNCHANGED pageVars
    <2>1. /\ args' = args /\ next' = next /\ held' = held /\ todo' = todo /\ client' = client /\ fed' = fed
          /\ phase' = phase /\ page' = page
      BY <1>5 DEF LiveFinished, pageVars, liveVars
    <2>2. ArgsInv /\ TodoInv /\ FedInv /\ StripInv /\ StreamInv
      BY DEF LiveInv
    <2>3. /\ strategy' = strategy /\ interval' = interval /\ Total' = Total /\ server' = server
      BY <2>1, ArgsKept
    <2>4. TodoInv'
      BY <2>1, <2>2, <2>3 DEF TodoInv, LiveChunk, LiveFinal
    <2>5. StripInv'
      BY <2>1, <2>2, <2>3 DEF StripInv
    <2>6. ArgsInv' /\ FedInv' /\ StreamInv'
      BY <2>1, <2>2, ArgsKept, FedKept, StreamKept
    <2>7. QED
      BY <2>4, <2>5, <2>6 DEF LiveInv
  <1>6. QED
    BY <1>1, <1>2, <1>3, <1>4, <1>5 DEF PageNext

-----------------------------------------------------------------------------
(***************************************************************************)
(* What the properties ask while the stream runs.                          *)
(***************************************************************************)
LEMMA RunningMarks ==
    ASSUME NEW s, NEW e, NEW k \in Nat, NEW name, NEW len \in Nat, NEW c, Variants(s, k, name, len, c),
           Len(c) \in Nat,
           s \in Strategies \/ Len(c) = 0, NEW g, NEW cl, NEW p, Following(s, e, c, g, cl, p)
    PROVE  /\ \A i \in 1..Len(cl.shown) :
                 (i <= cl.covered \/ cl.shown[i].status = "verified") => cl.shown[i].text = <<i>>
           /\ s = "hash_chain" => GenuineTexts(c, cl.covered)
           /\ s = "per_chunk" => GenuineTexts(c, g)
  <1>1. /\ Passing(s, e, c, g) /\ Clean(s, e, c, g) /\ g \in 0..Len(c) /\ Len(cl.shown) = Len(c)
        /\ \A i \in 1..Len(c) : ShownAs(s, e, c, i, cl.shown[i])
        /\ cl.covered \in 0..g
        /\ s = "hash_chain" => InPlace(c, cl.covered)
        /\ s # "hash_chain" => cl.covered = 0
    BY DEF Following, Passing, ClientFollows, ClientShows
  <1>2. ASSUME s = "hash_chain" PROVE GenuineTexts(c, cl.covered)
    <2>1. s \in Strategies /\ cl.covered \in 0..Len(c) /\ InPlace(c, cl.covered)
      BY <1>1, <1>2 DEF Strategies
    <2>2. Clean(s, e, c, cl.covered)
      BY <1>1 DEF Clean
    <2>3. QED
      BY <2>1, <2>2, TextsGenuine, Zenon
  <1>3. ASSUME s = "per_chunk" PROVE GenuineTexts(c, g)
    <2>1. s \in Strategies /\ s # "hash_chain"
      BY <1>3 DEF Strategies
    <2>2. QED
      BY <1>1, <2>1, TextsGenuine, Zenon
  <1>4. ASSUME NEW i \in 1..Len(cl.shown), i <= cl.covered \/ cl.shown[i].status = "verified"
        PROVE  cl.shown[i].text = <<i>>
    <2>1. i \in 1..Len(c) /\ s \in Strategies /\ ShownAs(s, e, c, i, cl.shown[i])
      BY <1>1
    <2>2. Clean(s, e, c, i) <=> i <= g
      BY <1>1, <2>1, CleanUpTo
    <2>3. Clean(s, e, c, i) /\ c[i].env.text = <<i>>
      <3>1. CASE i <= cl.covered
        <4>1. s = "hash_chain" /\ i <= g /\ i \in 1..cl.covered
          BY <1>1, <2>1, <3>1
        <4>2. QED
          BY <1>2, <2>2, <4>1 DEF GenuineTexts
      <3>2. CASE cl.shown[i].status = "verified"
        <4>1. s = "per_chunk" /\ Clean(s, e, c, i)
          BY <2>1, <3>2 DEF ShownAs
        <4>2. i \in 1..g
          BY <1>1, <2>1, <2>2, <4>1
        <4>3. QED
          BY <1>3, <4>1, <4>2 DEF GenuineTexts
      <3>3. QED
        BY <1>4, <3>1, <3>2
    <2>4. QED
      BY <2>1, <2>3 DEF ShownAs
  <1>5. QED
    BY <1>2, <1>3, <1>4

RunningTokens(s, e, size, p) ==
    /\ TokensShown(s, e, size, p)
    /\ p.pending = Cardinality({i \in DOMAIN p.tokens : p.tokens[i].status = "pending"})

\* So are the tokens that show them.
LEMMA RunningPage ==
    ASSUME NEW s \in StrategyNames, NEW e, NEW c, Len(c) \in Nat, s \in Strategies \/ Len(c) = 0, NEW size,
           NEW g \in 0..Len(c), NEW cl, cl.covered \in 0..g, s # "hash_chain" => cl.covered = 0,
           NEW p, PageFollowsClient(s, e, c, g, cl, p),
           s = "hash_chain" => GenuineTexts(c, cl.covered), s = "per_chunk" => GenuineTexts(c, g)
    PROVE  RunningTokens(s, e, size, p)
  <1>1. PICK tokens : tokens = p.tokens
    OBVIOUS
  <1>2. /\ p \in Pages /\ Len(tokens) >= g /\ (g = Len(c) => Len(tokens) = g)
        /\ \A i \in 1..g : tokens[i] = TokenAs(s, c, cl.covered, i)
        /\ \A i \in (g + 1)..Len(tokens) : tokens[i].status = "rejected"
        /\ p.pending = IF s = "hash_chain" THEN g - cl.covered ELSE 0
        /\ s = "hash_chain" /\ e > 0 => p.max_pending <= e
    BY <1>1 DEF PageFollowsClient
  <1>3. tokens \in Seq(Tokens)
    BY <1>1, <1>2 DEF Pages
  <1>4. DOMAIN tokens = 1..Len(tokens) /\ Len(tokens) \in Nat /\ g \in Nat /\ cl.covered \in Nat
            /\ g <= Len(tokens)
    BY <1>2, <1>3
  <1>5. PICK known \in 0..g : known = IF s = "per_chunk" THEN g ELSE cl.covered
    BY <1>4
  <1>6. \A i \in 1..g : /\ tokens[i].text = c[i].env.text
                        /\ tokens[i].status = IF i <= known THEN "verified" ELSE "pending"
    <2>1. SUFFICES ASSUME NEW i \in 1..g
                   PROVE  /\ tokens[i].text = c[i].env.text
                          /\ tokens[i].status = IF i <= known THEN "verified" ELSE "pending"
      OBVIOUS
    <2>2. tokens[i] = TokenAs(s, c, cl.covered, i)
      BY <1>2
    <2>3. i <= known <=> (s = "per_chunk" \/ i <= cl.covered)
      BY <1>4, <1>5
    <2>4. QED
      BY <2>2, <2>3 DEF TokenAs
  <1>7. \A i \in 1..known : tokens[i].text = <<i>> /\ tokens[i].status = "verified"
    <2>1. SUFFICES ASSUME NEW i \in 1..known PROVE tokens[i].text = <<i>> /\ tokens[i].status = "verified"
      OBVIOUS
    <2>2. i \in 1..g /\ i <= known /\ s \in Strategies
      BY <1>4, <1>5
    <2>3. c[i].env.text = <<i>>
      BY <1>5, <2>2 DEF Strategies, GenuineTexts
    <2>4. QED
      BY <1>6, <2>2, <2>3
  <1>8. \A i \in DOMAIN tokens : tokens[i].status = "verified" <=> i \in 1..known
    <2>1. SUFFICES ASSUME NEW i \in 1..Len(tokens) PROVE tokens[i].status = "verified" <=> i \in 1..known
      BY <1>4
    <2>2. CASE i <= g
      BY <1>4, <1>5, <1>6, <2>2
    <2>3. CASE i > g
      <3>1. i \in (g + 1)..Len(tokens) /\ i \notin 1..known
        BY <1>4, <1>5, <2>3
      <3>2. tokens[i].status = "rejected"
        BY <1>2, <3>1
      <3>3. QED
        BY <3>1, <3>2
    <2>4. QED
      BY <1>4, <2>2, <2>3
  <1>9. TokensShown(s, e, size, p)
    <2>1. ASSUME NEW i \in DOMAIN tokens, tokens[i].status = "verified"
          PROVE  /\ tokens[i].text = IF s = "buffer_and_sign" THEN [j \in 1..size |-> j] ELSE <<i>>
                 /\ \A j \in 1..i : tokens[j].status = "verified"
      <3>1. i \in 1..known
        BY <1>8, <2>1
      <3>2. s # "buffer_and_sign" /\ \A j \in 1..i : j \in 1..known
        BY <1>4, <1>5, <3>1 DEF Strategies
      <3>3. QED
        BY <1>7, <3>1, <3>2
    <2>2. QED
      BY <1>1, <1>2, <2>1, Zenon DEF TokensShown
  <1>10. PICK open : open = {i \in DOMAIN tokens : tokens[i].status = "pending"}
    OBVIOUS
  <1>11. open = (known + 1)..g
    <2>1. ASSUME NEW i \in open PROVE i \in (known + 1)..g
      <3>1. i \in 1..Len(tokens) /\ tokens[i].status = "pending"
        BY <1>4, <1>10
      <3>2. i <= g
        <4>1. SUFFICES ASSUME i > g PROVE FALSE
          BY <1>4, <3>1
        <4>2. i \in (g + 1)..Len(tokens)
          BY <1>4, <3>1, <4>1
        <4>3. tokens[i].status = "rejected"
          BY <1>2, <4>2
        <4>4. QED
          BY <3>1, <4>3
      <3>3. QED
        BY <1>4, <1>5, <1>6, <3>1, <3>2
    <2>2. ASSUME NEW i \in (known + 1)..g PROVE i \in open
      BY <1>4, <1>5, <1>6, <1>10
    <2>3. QED
      BY <2>1, <2>2
  <1>12. p.pending = g - known
    <2>1. CASE s = "hash_chain"
      BY <1>2, <1>5, <2>1
    <2>2. CASE s = "per_chunk"
      <3>1. p.pending = 0 /\ known = g
        BY <1>2, <1>5, <2>2
      <3>2. QED
        BY <1>4, <3>1
    <2>3. CASE s \notin Strategies
      <3>1. s # "hash_chain" /\ s # "per_chunk" /\ Len(c) = 0
        BY <2>3 DEF Strategies
      <3>2. p.pending = 0 /\ known = 0 /\ g = 0
        BY <1>2, <1>4, <1>5, <3>1
      <3>3. QED
        BY <3>2
    <2>4. QED
      BY <2>1, <2>2, <2>3 DEF Strategies
  <1>13. Cardinality(open) = g - known
    <2>1. known + 1 \in Int /\ g \in Int
      BY <1>4
    <2>2. Cardinality((known + 1)..g) = IF known + 1 > g THEN 0 ELSE g - (known + 1) + 1
      BY <2>1, FS_Interval
    <2>3. QED
      BY <1>4, <1>5, <1>11, <2>2
  <1>14. QED
    BY <1>1, <1>9, <1>10, <1>12, <1>13 DEF RunningTokens

-----------------------------------------------------------------------------
(***************************************************************************)
(* The two properties.                                                     *)
(***************************************************************************)
\* After the verdict.
LEMMA SettledIsTrue ==
    ASSUME LiveInv, Ended
    PROVE  PageIsTrue
  <1>1. ArgsInv /\ TodoInv /\ Settled
    BY DEF LiveInv, StreamInv
  <1>2. Len(lines) = Total + 2 /\ Total \in Nat /\ Len(server.chunks) = Total
    BY <1>1, Served, LinesRead DEF ServerIs, LinesAre
  <1>3. /\ client.n_chunks = Len(fed.chunks) /\ Len(client.shown) = client.n_chunks
        /\ client.covered \in 0..client.n_chunks
        /\ client.stream_fully_verified \in BOOLEAN /\ client.stream_fully_verified = (client.failed = None)
        /\ client.rejected_at_chunk # None => client.failed # None
        /\ MarkedTrue(client, Total)
        /\ client.stream_fully_verified = TRUE <=> fed = server \/ MayPass
        /\ TokensShown(strategy, enforced, args.length, page)
        /\ \A i \in DOMAIN page.tokens : page.tokens[i].status # "pending"
        /\ client.stream_fully_verified => page.pending = 0
        /\ phase # "error" => page.banner = IF client.stream_fully_verified THEN "verified" ELSE "failed"
    BY <1>1, Zenon DEF Settled, Done
  <1>4. LiveTypeOK
    <2>1. next \in 1..(Len(lines) + 1) /\ phase \in {"reading", "summary", "error"}
      BY <1>1, <1>2 DEF TodoInv
    <2>2. client.stream_fully_verified \in {None, TRUE, FALSE}
      BY <1>3
    <2>3. QED
      BY <1>3, <2>1, <2>2, Zenon DEF LiveTypeOK
  <1>5. MarkedIsGenuine
    BY <1>2, <1>3 DEF MarkedIsGenuine, MarkedTrue
  <1>6. AttackNoticed
    BY <1>3 DEF AttackNoticed, MayPass
  <1>7. Pending = {} /\ Cardinality(Pending) = 0
    <2>1. Pending = {}
      BY <1>3 DEF Pending
    <2>2. QED
      BY <2>1, FS_EmptySet
  <1>8. TokensTrue
    BY <1>3, <1>7 DEF TokensTrue, TokensShown
  <1>9. QED
    BY <1>4, <1>5, <1>6, <1>8 DEF PageIsTrue

\* Before it.
LEMMA RunningIsTrue ==
    ASSUME LiveInv, ~Ended
    PROVE  PageIsTrue
  <1>1. ArgsInv /\ TodoInv /\ FedInv /\ ~client.terminal /\ phase # "summary"
    BY DEF LiveInv, Ended
  <1>2. PICK c : c = fed.chunks
    OBVIOUS
  <1>3. PICK g \in 0..Len(c) : Following(strategy, enforced, c, g, client, page)
    BY <1>2 DEF LiveInv, StreamInv
  <1>4. /\ Len(lines) = Total + 2 /\ Total \in Nat /\ Len(server.chunks) = Total
        /\ strategy \in StrategyNames /\ interval \in Nat
    BY <1>1, Served, LinesRead DEF ServerIs, LinesAre
  <1>5. Variants(strategy, interval, args.attack, Total, c) /\ Len(c) \in Nat
            /\ (strategy \in Strategies \/ Len(c) = 0)
    <2>1. LiveChunks(c)
      BY <1>1, <1>2 DEF FedInv, LiveChunks
    <2>2. Len(c) \in Nat
      BY <2>1 DEF LiveChunks
    <2>3. strategy \notin Strategies => Len(c) = 0
      BY <1>1, <2>1, ChunksAre
    <2>4. QED
      BY <1>1, <2>1, <2>2, <2>3, ChunksAre
  <1>6. /\ \A i \in 1..Len(client.shown) :
              (i <= client.covered \/ client.shown[i].status = "verified") => client.shown[i].text = <<i>>
        /\ strategy = "hash_chain" => GenuineTexts(c, client.covered)
        /\ strategy = "per_chunk" => GenuineTexts(c, g)
    BY <1>3, <1>4, <1>5, RunningMarks, Zenon
  <1>7. /\ client.stream_fully_verified = None /\ client.n_chunks = Len(c) /\ Len(client.shown) = Len(c)
        /\ client.failed = None => client.rejected_at_chunk = None
        /\ client.covered \in 0..g
        /\ strategy # "hash_chain" => client.covered = 0
        /\ PageFollowsClient(strategy, enforced, c, g, client, page)
    BY <1>3, Zenon DEF Following, ClientFollows, ClientShows
  <1>8. LiveTypeOK
    BY <1>1, <1>2, <1>4, <1>5, <1>7 DEF LiveTypeOK, TodoInv
  <1>9. MarkedIsGenuine
    <2>1. None # TRUE
      BY ReasonAssumption
    <2>2. QED
      BY <1>6, <1>7, <2>1 DEF MarkedIsGenuine
  <1>10. AttackNoticed
    BY <1>1 DEF AttackNoticed
  <1>11. RunningTokens(strategy, enforced, args.length, page)
    BY <1>4, <1>5, <1>6, <1>7, RunningPage, Zenon
  <1>12. TokensTrue
    BY <1>1, <1>11 DEF TokensTrue, RunningTokens, TokensShown, Pending
  <1>13. QED
    BY <1>8, <1>9, <1>10, <1>12 DEF PageIsTrue

\* The verdict is replay_through_client's.
LEMMA VerdictAgrees ==
    ASSUME LiveInv
    PROVE  AgreesWithReplay
  <1>1. SUFFICES ASSUME phase = "summary", strategy # "buffer_and_sign"
                 PROVE  Verdict(strategy, enforced, fed, client)
    BY Zenon DEF AgreesWithReplay, Verdict
  <1>2. Settled
    BY <1>1 DEF LiveInv, StreamInv, Ended
  <1>3. QED
    BY <1>1, <1>2, Zenon DEF Settled, Done

\* The dashboard's live client and the experiments' replay_through_client reach
\* the same verdict on every stream an attack can make, and reject it at the
\* same chunk (run_streaming_transaction_live and the campaign's client).
THEOREM LiveAgrees == PageSpec => []AgreesWithReplay
  <1>1. PageInit => LiveInv
    BY LiveStarts
  <1>2. LiveInv /\ [PageNext]_pageVars => LiveInv'
    BY LiveKept
  <1>3. LiveInv => AgreesWithReplay
    BY VerdictAgrees
  <1>4. QED
    BY <1>1, <1>2, <1>3, PTL DEF PageSpec

\* What consume of the live page shows is true of the stream at every moment:
\* the counts, the text it marks as verified, the tokens still pending, and a
\* verdict that is negative exactly if the attack changed what is checked.
THEOREM PageTrue == PageSpec => []PageIsTrue
  <1>1. PageInit => LiveInv
    BY LiveStarts
  <1>2. LiveInv /\ [PageNext]_pageVars => LiveInv'
    BY LiveKept
  <1>3. LiveInv => PageIsTrue
    BY SettledIsTrue, RunningIsTrue
  <1>4. QED
    BY <1>1, <1>2, <1>3, PTL DEF PageSpec

=============================================================================
