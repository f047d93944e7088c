# A TLA+ model of PQ-Shield

PQ-Shield measures what post-quantum cryptography costs an AI inference API. A
client makes a handshake with a server, encrypts a request under the session
key, and gets an encrypted and signed answer: one JSON body, or a stream of
server-sent events. Benchmarks, threat experiments and a dashboard sit around
that protocol. This directory models the handshake, the protocol's two
transactions, the load generator and the network proxy around them, the threat
experiments, the orchestration of the paper's runs, the live demo, and the
program that turns result files into the paper's figures and its decision
table. TLC checks the models; TLAPS proves, for every value of the constants, the
safety properties of the stream and its refinement, of the handshake and the
clients, of the sweep cell, of the proxy's transfers, of stopping the demo's
servers, and of the analysis.

## The system

| part | state it keeps | operations | what makes it correct |
|---|---|---|---|
| stream strategies, `crypto/streaming.py` | buffer, running hash, chunks since the last checkpoint; client chain state | `add_chunk`, `finalize`; five verification functions | a positive verdict means the whole genuine text; chunks shown without a signature stay below the interval |
| streaming endpoint, `api/secure_app.py` | token buffer, chunk index, the handshake | `event_generator`, `flush_buffer`, `forget` | no token lost or repeated; the handshake is forgotten |
| streaming client, `api/secure_streaming_client.py` | flags, counters, pending chunks, reconstructed text | one branch per record kind, end of body, exception | the verdict follows from every check that failed |
| predict endpoint, `api/secure_app.py` | `_sessions`, `session_keys` | handshake, accept / resume, sign, forget | a live session is served, nothing is kept after its last request |
| request client, `api/secure_client.py` | `ClientSession` | `secure_predict_transaction` | at most `requests_per_handshake` requests per key exchange |
| sweep cell, `bench/runner.py` | request counter, rows, a session per worker | `worker` | one row per request; the cell ends |
| crypto configurations, `crypto/*.py` | key pairs per handshake | `new_handshake`, `establish`, `accept`, `sign`, `verify`, `forget` | both sides derive the same key |
| handshake authentication, `crypto/handshake_auth.py` | identity key, pinned key | `transcript`, `verify_handshake` | a substituted key share is refused |
| threat experiments, `threats/` | captured streams | attack tables, replays | each attack is detected where the tables say |
| orchestration, `bench/orchestrator.py`, `paper_runs.py`, `streaming_runner.py` | server and proxy processes, `os.environ`, run id, result files, manifest | start, health check, cells, stop; steps, reruns | the measured server is the one started; the manifest names complete sweeps; nothing is left running |
| network proxy, `bench/netem_proxy.py` | queue per direction, shared bottleneck | `_pump`, `deliver` | bytes in order and within the bandwidth; both directions end |
| live demo, `webapp/demo_transaction.py`, `views/live_demo.py` | its own clients, the page's tokens and counters | live transactions with attacks | same verdicts as the benchmark client; the page marks only genuine text |
| demo servers, `webapp/server_manager.py` | server processes, process ids per session | `ensure_server`, `stop_server` | stop reaches every demo server and no other |
| harvest experiments, `threats/hndl_capture.py`, `streaming_hndl_experiment.py` | a recorded request or stream | capture, predictions | what they report follows from the protocol |
| analysis, `analysis/paper_figures.py`, `aggregate.py`, `tradeoff_matrix.py` | figures, tables and `key_numbers.md` on disk | select rows, write outputs, decide | no output mixes runs; no failure vanishes; a configuration always remains |
| dashboard, `webapp/data_loader.py` and `views/` | none of its own | list runs, summarise, render | opens with the newest run, hides nothing that it attempted |
| validation, instrumentation, model profiles | none | known-answer tests, timers, inference | outside a symbolic model's reach |

Parts meet through HTTP requests (client and endpoint), through the two
dictionaries the endpoint's threads share, through the counter and the row list
the workers share, and through the SSE body, a queue between generator and
reader. The orchestrator, the analysis and the dashboard meet in the results
directory, and everything that starts a server meets at its port.

What is hard: FastAPI runs `secure_predict` in a thread pool, so calls interleave
at every dictionary access; a client that times out leaves its call running; a
generator is cancelled at any of its suspension points when its peer goes; and a
stream can be cut, reordered, repeated or spliced. Servers are found by port and
by command line, not by handle, so a stranger may answer or be stopped. Programs
that take hours are killed and run again over what they left on disk.
`PROJECT.json` lists these hazards, each at its line.

## Modules

| module | models |
|---|---|
| `StreamRecords` | envelopes, hashes, signatures and wire records of `crypto/streaming.py`, symbolically; a captured stream in closed form |
| `StreamVerify` | the five verification functions and the client's chain state, which three clients share |
| `StreamTransaction` | one streaming transaction: `event_generator` with its strategy, the response stream with faults, `run_streaming_transaction`; its properties |
| `StreamIntegrity` | the inductive invariant behind the client's verdict |
| `VerifiedDelivery` | what a signed stream promises, with no wire, faults or signatures |
| `StreamDelivery` | the refinement mapping: `StreamTransaction` implements `VerifiedDelivery` |
| `StreamHarvest` | `capture_transaction` of `threats/streaming_hndl_experiment.py`: the same stream, recorded instead of verified |
| `StreamProofs` | type correctness, that the chunks carry the text, the invariant and four safety theorems, the refinement step by step, that an undisturbed stream is accepted and captured as predicted, for every instance |
| `StreamAttacks` | the experiments offline: the captured stream, what each attack makes of it, `replay_through_client` |
| `AttackCampaign` | `run_cell` of `threats/streaming_attack_campaign.py`: draws, tries, counts and rows |
| `MitmTrials` | `run_experiment` of `threats/streaming_mitm_experiment.py`: trials, donors and summaries, next to the campaign |
| `AttackProofs` | what both experiments detect and expose, for every length, interval, draw and number of trials |
| `LiveDemo` | `run_streaming_transaction_live`: the demo's attacks, its own client and the events it shows |
| `LivePage` | `consume` of `views/live_demo.py`: marked tokens, counters and banner, composed with `LiveDemo` |
| `SecureApp` | the server of request/response transactions: handshake store, `session_keys`, the `/secure/predict` handler |
| `SweepCell` | `run_sweep_cell`: workers, `ClientSession`, `secure_predict_transaction`, composed with `SecureApp` |
| `SweepCellProofs` | ownership of indices and sessions, and four safety theorems, for any number of workers and requests |
| `KeyEstablishment` | the six configurations of `crypto/`: key shares, `establish`, `accept`, HKDF contexts, signatures; the handshake transcript |
| `HandshakeAuth` | one protected request with a party on the path: transcript signature, pinned client, key substitution, tampering, restarts; its properties and their inductive invariant |
| `SecurityAxes` | the tables in which the analysis states what resists what |
| `Harvest` | `threats/hndl_capture.py`: an observer of the handshake, and those tables against what it can open |
| `DemoRequest` | `run_secure_transaction`, the dashboard's client of a protected request, and the page's verdict |
| `HandshakeAuthProofs` | the invariant and five safety theorems on pinning, tampering, mixed configurations, the demo's client and the harvest tables, for any number of restarts |
| `ServerProcess` | server processes and their ports: `_start_server`, `_wait_healthy`, `_stop_server` |
| `Sweep` | `run_full_sweep`, `run_sweep` and `step_threats`: configuration after configuration on a server of its own, composed with `ServerProcess` |
| `PaperRuns` | `bench/paper_runs.py`: steps, manifest, failures and reruns, composed with `Sweep` |
| `PaperRunsProofs` | processes, measurements and manifest of the paper runs, for any plans, configurations, kills and reruns |
| `DemoServers` | `webapp/server_manager.py` for several browser sessions, composed with `ServerProcess` |
| `DemoServersProofs` | what `stop_server` reaches, for any number of sessions and processes |
| `NetemProxy` | `bench/netem_proxy.py`: pumps, queues, the shared bottleneck, transports that close and fail |
| `NetemProxyProofs` | transfers are faithful and share the bandwidth, for any number of connections and any sizes |
| `Results` | which rows of the results directory each analysis uses |
| `Decision` | `dominance_frame`: which configurations another one dominates |
| `PaperFigures` | `python -m analysis.paper_figures`: every output, when it is written, what it shows, when it raises |
| `Dashboard` | `webapp/data_loader.py` over the same directory |
| `DecisionProofs` | domination is asymmetric and leaves something, for every measurement; outputs, numbers sheet, caveats and dashboard, for every history of results |
| `MCStream`, `MCShapes`, `MCCampaign`, `MCLiveDemo`, `MCSweep`, `MCHandshake`, `MCPaper`, `MCDemoServers`, `MCNetem`, `MCFigures` | values of the constants for TLC |

### How a streaming transaction is modelled

*Cryptography* is symbolic. A handshake id stands for its key material. A
signature is the pair of signer and message, a hash the list of what went into
it, a ciphertext a record of the key it opens under. Flipped bytes belong to
`NoKey` and open or verify under nothing. What the code binds into a message
(role label, session context, index, envelope, chain hash) is what the symbolic
message contains, field by field.

*Server.* An action ends where the generator suspends: `GenerateToken` (one turn
of the token loop with its `flush_buffer`), `EndGeneration` (trailing chunk),
`Finalize`, `SendDone`, `Forget`. `Cancelled` stops it at any suspension point
once the peer is gone, and `BackendFails` is an exception out of
`backend.stream`. Tokens are numbered, so lost, repeated and swapped tokens
show.

*Stream.* `wire` is the sequence of records in flight. Each fault action is one
entry of the attack tables in `threats/` and of the live demo, applied to any
record, up to `MaxFaults` times, while the stream is being written and read:
drop, reorder, duplicate, replay from another session, tampering with
ciphertext or signature, stripping or moving a checkpoint, truncation.

*Client.* One action per branch of the reading loop, with the verification
function the branch calls. `reconstructed` is kept as the list of plaintexts
appended, `pending` as its length. A record that lacks a field its branch reads,
or a terminal chain record without chain state, takes the `except` path.

The history variables `flushed` and `finalized` record what the server gave to
`add_chunk` and whether it signed a terminal record.

*The promise.* `VerifiedDelivery` knows five things: what the sender has
released, whether the text is complete, what the receiver relies on, whether a
failed check has withdrawn that, and the verdict. `StreamDelivery` maps the
transaction to it. `buffer_and_sign` stands by nothing before it has signed the
whole; a `per_chunk` client relies on what it has shown until a check fails; a
`hash_chain` client relies on what a signature has covered. `KeepsThePromise` is
`VerifiedDelivery`'s `Spec` under that mapping.

*The observer.* `StreamHarvest` opens the same stream with the client of the
harvest experiment, which weighs each record and checks nothing. A token is one
byte, an envelope adds nonce and tag; `expected_delta` and `actual_delta` are
the experiment's own two sides.

### How the experiments and the live demo are modelled

`replay_through_client` is a loop that stops at the first rejection, so it is
stated in closed form: the least position that is rejected, and the last
checkpoint before it. `mutate` is the set of results over all draws of the
random position; a draw from an empty range raises and ends the cell. A cell's
lists of exposures are kept as sets of values, since the properties bound them.

`LiveDemo` reads one SSE line per step (`ReadLine`): the attack turns it into a
batch of records, and each is processed in a step of its own (`ProcessRecord`)
before the next line is read. `shown` and `covered` are what the page has been
told: the chunk events, and the chunks that the last "covered" event speaks for.
`fed` is a history variable: the chunks and the terminal record given to
`process`, which `AgreesWithReplay` feeds to the experiments' client. `LivePage`
adds the page: the generator and its consumer run in one task, so a record's
events are consumed before the next record is processed. A token is on the page
with the status it has there, which is what a viewer sees.

`MitmTrials` is the earlier experiment, whose attacks fall in the middle of the
stream and whose replays take their records from the trial before. A behaviour
is a cell of the one experiment or of the other.

### How a sweep cell is modelled

A call of `secure_predict` is a little program with a step per access to
`_sessions` or `session_keys`: accept, keep, resume, decrypt, sign, pop, forget;
it stops with its HTTP status. A worker's steps end where it awaits. A call may
be lost before the handler runs, and a worker may time out at any moment of its
wait: the call is then lost, pending, running or finished, and goes on by
itself. Request index, handshake id and session key are the same number, since
a transaction makes at most one of each. The semaphore never blocks: it has a
permit per worker. The control configurations make the same requests without a
session: `control` one call, `control_2rt` a `GET` before it.

### How the paper runs are modelled

A process is a number in `procs`; it binds its port, fails, crashes or exits on
its own schedule, and finds its port taken if somebody still listens there. A
health check asks the port. A sweep is a program counter: start, health check,
proxy, measurements, and the stops of the `finally` clauses, which an exception,
a missed deadline or ^C enters from any of them. A measurement stands for a
cell, a transaction or a threat experiment and notes who answered it (`Route`);
what happens inside is the subject of the other modules. Time passes only in the
one-second pauses, the least the code guarantees, since `run_id` is a time in
whole seconds.

`STEPS` gives the calls of each of the 21 steps. `_save_manifest` is two steps,
for `open(.., "w")` empties the file. `Crash` kills the orchestrator at any
point; its servers, each in a session of its own, live on as orphans. A new
invocation starts from a fresh environment and the manifest on disk, and does
not start at all from one cut short.

### How a handshake is modelled

A public key is its scheme, its owner and its use. A shared secret names the key
share it was made against and who made it; `accept` recovers only secrets made
against the owner's own shares. A session key is the list of secrets with the
configuration's HKDF context, so two sides agree only if share, randomness and
context agree. A configuration is data (`kex`, `sig`, `context`), which is all
that the six pairs of classes differ in.

Client and server carry a configuration each, and every pair is an initial
state. The middle is the one of `threats/key_substitution.py`, whose three
attack variants become independent steps (`SubstituteKeys`, `Resign`, `Tamper`),
and the tampering proxy of `threats/mitm_harness.py`. It holds no key but its
own. `Restart` gives the server a new identity key and an empty handshake store
at any moment. `rejected_at` names the check that refused, `"error"` an
exception or HTTP error, `"timeout"` a call given up. A response with a bad
signature is a refusal: `secure_client` reports it as `valid_signature = False`,
the experiment as `rejected_at`.

`Harvest` adds a passive observer who keeps the key-establishment blob and the
response. Once the transaction is over, either a quantum computer breaks RSA,
X25519 and ECDSA, or ML-KEM falls. `Recovered` is the key the observer then
computes; the tables of `hndl_capture`, `paper_figures` and `tradeoff_matrix`
are compared with whether it opens the recording.

`DemoRequest` is a function of the transaction's end: the row the dashboard's
client would have filled in from the same response, in its own order of checks,
and the banner the page makes of it.

### How the proxy is modelled

A pump is a reader, a queue and a delivering task. Data are numbered units, each
of which occupies the bottleneck for `TxTime`; `read` takes any number of those
that have arrived and stamps them with one release time. Writing goes to the
transport's buffer, which the event loop flushes unit by unit; `drain` waits for
the buffer and raises on a lost connection. A writer and the reader of the
opposite pump are two sides of one transport, so closing the one ends the other.
Peers send, close when done, close early, or vanish with a reset.

### How the demo servers are modelled

A session is a thread with at most one call in progress and its own
`demo_server_pids`. Processes and ports are those of `ServerProcess`: two
servers may be started for one port and one of them then exits, a server may
come up after its page has given up on it, and a dashboard that is killed leaves
its servers running. `stop_server` lists the matching processes once and then
signals one after the other. `BenchStarts` is an orchestrator next door.

### How the figures are modelled

The results directory is a set of cells, a set of streaming runs, a set of other
files and the manifest from which the run ids are taken; `Histories` gives the
directories a project went through, and `Experiment` moves on to the next at any
moment between the steps of an invocation. A cell keeps its run, configuration,
settings and which outcomes occurred in and after the warm-up. `main` is a list
of steps. Every figure or table function is an operator that says which file it
writes, which rows that file shows, which caveats it notes and whether it
raises, from the conditions in its code. Panel (b) of `fig_concurrency` and
`tab_resources` draw the server's samples from `_resource_cells`: each
configuration's latest run among those with a summary, so possibly of another
run than the latencies beside them, and also of a run that met the wrong server.
`tab_authcost` shows pairs of runs that differ in the handshake alone. The
session-length figure raises where Control was not measured at a length. The
step `table_dominance` takes any
comparison in `Intervals` for each pair that was compared: the bootstrap is not
modelled, its result is arbitrary. `disk` keeps what every file shows and who
wrote it, across invocations.

## Runs

| run | checks | shows |
|---|---|---|
| `stream_faults` | `Inv`, `VerifiedMeansComplete`, `ExposureBounded`, `CoveredIsGenuine`, `AcceptedPrefix`, `KeepsThePromise` | two arbitrary faults on four chunks: nothing the client concludes is false, and the transaction implements `VerifiedDelivery` |
| `stream_shapes` | `ChunksCarryTheText`, `NoFalseRejection`, `CaptureAsPredicted`, `TransactionEnds` | every chunk size, interval and length: the text is chunked exactly, an undisturbed stream is accepted with the expected number of signatures, its recording has the predicted size, and both sides finish |
| `attack_campaign` | `DetectedAsReported`, `ExposureAsReported`, `CellEnds` | every attack of both experiments is detected, at the time and within the exposure each strategy promises |
| `live_demo` | `AgreesWithReplay`, `PageIsTrue` | the demo's client agrees with the experiments', and the page marks only genuine text |
| `sweep` | `SessionsInStep`, `NeverRefused`, `NothingLeaks`, `EachRequestRecorded`, `CellCompletes` | one handshake per request, resumption, a cached handshake and the controls all survive lost, failing and abandoned calls |
| `paper_runs` | `MeasuredAsCalled`, `NothingLeftRunning`, `ManifestSound`, `MainEnds` | two invocations with failing servers, exceptions, ^C and a kill: only an orphan of a killed invocation can be measured by mistake, and the manifest never names an incomplete or a mixed-up sweep |
| `netem` | `BottleneckShared`, `TransferFaithful`, `ConnectionEnds` | two connections through one bottleneck: never faster than the link, in order, complete, and ended whichever side fails |
| `handshake` | `Inv`, `PinnedNeverDeceived`, `TamperingDetected`, `ConfigsDoNotMix`, `ClientsAgree`, `TablesFollowKeySchedule` | all pairs of configurations, pinned and not: what a middle, an alteration, a restart or a later break can and cannot do |
| `demo_servers` | `StopReachesExactly`, `CallsEnd` | two sessions, a benchmark and a kill: after Stop no demo server of the configuration goes on, whoever started it |
| `figures` | `ProvenanceTold`, `NumbersCoverOutputs`, `MissingNoted`, `UndominatedRemain`, `RunsShown` | two invocations over growing, partial and wrong results: each output is of one run per configuration and settings, legacy rows are told by the stamp or the sheet, the caveats are complete, and the decision never dismisses everything |

Several properties are conjunctions of named parts, each stated on its own in
its module: `SessionsInStep` (`KeyWithHandshake`, `SessionBudget`),
`ExposureAsReported` (`PerChunkExposesNothing`, `UnverifiedBelowInterval`),
`DetectedAsReported` (`EveryAttackDetected`, `MidStreamByStrategy`),
`PageIsTrue` (`MarkedIsGenuine`, `AttackNoticed`, `TokensTrue`),
`MeasuredAsCalled` (`MeasuredOwn`, `EnvironmentsAgree`), `TransferFaithful`
(`InOrder`, `NothingCut`), `ClientsAgree` (`NoFalseRejection`, `PageAgrees`),
`TablesFollowKeySchedule` (`HarvestAsTabulated`, `ScoresFollowExposure`),
`CaptureAsPredicted` (`HarvestPredicted`, `TrafficShape`), `ProvenanceTold`
(`OneRunPerConfig`, `LegacyStamped`, `LegacyInSheet`), `RunsShown` (`OpensWithTheLatest`,
`NothingVanishes`). The type invariant of a module is one of the parts.

Two runs show where the code does something other than a document or a comment
says:

| run | the text | what the code does |
|---|---|---|
| `stream_forgotten` | the server forgets the handshake "once the stream ends" (`docs/STREAMING_HOW_IT_WORKS.md`) | a cancelled or failed generator never reaches `forget` |
| `stream_stripped` | `replay_through_client` verifies "exactly as" the client | the experiment rejects a stripped checkpoint; the client records the failed check in `all_signatures_valid` and still reports `stream_fully_verified` |

The models show some smaller disagreements too. Chunks that follow the end
record are accepted and the verdict stands, although the record is said to match
"the number of chunks the client actually accepted": `VerifiedMeansComplete` is
therefore stated with a prefix, a positive verdict means that the whole genuine
text is there, first and in order. With `--reuse-handshake` the first answered
call forgets the handshake, and every later one is a row with HTTP 404. The
rerun of a list step of the paper runs empties its manifest entry first, so a
rerun that fails loses the earlier run ids and the step still counts as
completed. Outputs of an earlier invocation of the figure program stay beside
the numbers of a later one whose step was skipped; `NumbersCoverOutputs` speaks
of the outputs that the numbers' own invocation wrote. The docstring of
`analysis/paper_figures.py` says that, with the legacy rows, "every output is
stamped PROVISIONAL" (lines 9 to 12). `tab_equivalence`, `tab_failures` and
`tab_dominance` show the same rows and are written without the stamp (lines 546,
1447, 1563). `LegacyStamped` therefore names these three as exceptions (`UNSTAMPED`)
and holds of all the other outputs; `LegacyInSheet` says what the code does
give, that `key_numbers.md` is provisional exactly when the rows of its
invocation, stamped or not, are legacy. That covers the outputs of the sheet's
own invocation only: an unstamped legacy table left by an earlier invocation may
stand beside a sheet of named runs, and then nothing on disk tells. The docstring of
`_resource_cells` says that it keeps the latest run "as for latency"; it chooses
among the runs with a summary and by configuration alone, so
`OneRunPerConfig` speaks of the latencies and of the samples of an output
separately.

Three hazards have no property because the code promises nothing about them.
`step_threats` takes the payload profile from whatever sweep ran before it in
the same invocation; both sides of a measurement still match
(`MeasuredAsCalled`). Two dashboard sessions may run a sweep at once on port
8000, and the second then measures the servers of the first. A demo page may be
given the URL of a server that another session is stopping; its transaction
reports the failed connection.

### Bounds

`MaxFaults` is 2 with four one-token chunks and interval 2 or none: enough for a
fault on each side of a checkpoint, for a fault that undoes another, and for a
replay together with a drop, which keeps the count right. The other session
streamed the same first two tokens, so that only keys and context tell its
records apart. `stream_shapes` covers chunk sizes 0 to 3, intervals 0 to 3
and lengths 0, 1 and 6 with one fault: partial last chunks, intervals that do and
do not divide the number of chunks, and the `max(1, ..)` of both parameters. `produced` is
bounded by the request's `max_tokens`, as in the code. `attack_campaign` takes pool streams of 1, 2, 4 and 5 chunks
and intervals 2, 3 and 6: a checkpoint on the last chunk, none at all, and a
stream too short for a swap; two trials are enough for the loop's two bounds to
matter, and for a donor that is shorter, longer or missing. `live_demo` covers every target in and just past streams of up to four
chunks. The sweep has two workers and three requests, with
sessions of one, two and three: a full session, one cut short, and one after a
failure fit in. `handshake` is one
transaction; `MaxRestarts` is 2, so that the identity pinned, the handshake and
the answer can fall to three different processes.

`paper_runs` has two invocations, one kill, and the plans 4, 20, 6 and 21,3: a
sweep behind the network proxy, sweeps that differ in authentication and in
profile, a streaming sweep over two configurations, and threats and a command
before a step that must still run. One measurement per configuration is enough,
because a second one meets the same processes.

`netem` has an exchange of two units and one, a second request that competes for
the uplink, and one fault; a transport buffers one unit before `drain` waits, and
the clock moves only while something waits for it. `demo_servers` has one
configuration, whose port is what the sessions compete for, and three processes:
two that race and one more that comes late, or the benchmark's. `figures` has
ten histories of two or three directories, from an empty one to a complete one,
chosen so that the functions' early returns and exceptions happen, that legacy rows
reach the unstamped tables, and that samples of one run stand beside latencies of
another; `MCIntervals` are a
clear win, a tie and a clear loss.

### Fairness

`TransactionEnds` assumes weak fairness of the generator's and of the reader's
steps, which the two event loops give, and none of faults or read errors.
`CellEnds` assumes it of the one process that runs the loop. `CellCompletes` assumes it of each worker, whose every wait httpx bounds by the
30 s timeout, and of each call that reached the server. `MainEnds` assumes it of
the orchestrating process, whose health checks have a deadline, and of the exit
of a signalled process, which SIGKILL forces. `BackendFails` and
`Cancelled` belong to the server's steps; the property does not depend on
whether they happen. `ConnectionEnds` assumes it of the event loop's tasks and
callbacks, of the clock, and of a client that sends its request, takes its answer
and leaves, which httpx does; nothing is assumed of faults, nor of a server that
closes by itself. `CallsEnd` assumes it of each page's thread, whose waits have
deadlines, and of no process.

## Proofs

| module | theorem | states |
|---|---|---|
| `StreamProofs` | `TypeCorrect` | `Spec => []TypeOK` |
| | `ChunksComplete` | `Spec => []ChunksCarryTheText` |
| | `Invariance` | `Spec => []Inv` |
| | `VerdictSound` | `Spec => []VerifiedMeansComplete` |
| | `ShownIsSigned` | `Spec => []AcceptedPrefix` |
| | `CoverageSound` | `Spec => []CoveredIsGenuine` |
| | `ExposureSound` | `Spec => []ExposureBounded` |
| | `PromiseKept` | `Spec => KeepsThePromise`, the refinement of `VerifiedDelivery` |
| | `NothingRefused` | `Spec => []NoFalseRejection` |
| | `HarvestRight` | `StreamHarvest`: `HarvestFairSpec => []CaptureAsPredicted` |
| `AttackProofs` | `AttacksDetected` | `TrialSpec => []DetectedAsReported` |
| | `ExposureCounted` | `TrialSpec => []ExposureAsReported` |
| | `LiveAgrees` | `LivePage`: `PageSpec => []AgreesWithReplay` |
| | `PageTrue` | `PageSpec => []PageIsTrue` |
| `HandshakeAuthProofs` | `Invariance` | `Spec => []Inv` |
| | `PinnedSafe` | `Spec => []PinnedNeverDeceived` |
| | `TamperSafe` | `Spec => []TamperingDetected` |
| | `NeverMixed` | `Spec => []ConfigsDoNotMix` |
| | `ClientsJudgeAlike` | `HarvestSpec => []ClientsAgree` |
| | `TablesHold` | `HarvestSpec => []TablesFollowKeySchedule` |
| `SweepCellProofs` | `OneOwner` | the inductive invariant of a cell |
| | `StaysInStep` | `Spec => []SessionsInStep` |
| | `AllAccepted` | `Spec => []NeverRefused` |
| | `OneRowEach` | `Spec => []EachRequestRecorded` |
| | `LeavesNothing` | `Spec => []NothingLeaks` |
| `PaperRunsProofs` | `Accounted` | the inductive invariant of the paper runs |
| | `StopsWhatItStarts` | `Spec => []NothingLeftRunning` |
| | `MeasuresItsOwn` | `Spec => []MeasuredAsCalled` |
| | `ManifestHolds` | `Spec => []ManifestSound` |
| `NetemProxyProofs` | `Invariance` | the inductive invariant of the proxy |
| | `Faithful` | `Spec => []TransferFaithful` |
| | `BandwidthKept` | `Spec => []BottleneckShared` |
| `DemoServersProofs` | `ListComplete` | the inductive invariant of `stop_server` |
| | `StopExact` | `Spec => []StopReachesExactly` |
| `DecisionProofs` | `DominationAsymmetric` | two configurations never dominate each other |
| | `SomethingUndominated` | of any that are present, some are dominated by none |
| | `UndominatedRemains` | `PaperFigures`: `Spec => []UndominatedRemain` |
| | `ProvenanceHolds` | `Spec => []ProvenanceTold` |
| | `SheetComplete` | `Spec => []NumbersCoverOutputs` |
| | `LeftOutIsNoted` | `Spec => []MissingNoted` |
| | `PageComplete` | `Dashboard`: `Spec => []RunsShown` |

### Assumptions

They type the constants and keep symbolic values apart; TLC evaluates each on
the run of its module. Streams: arbitrary requests (any chunk size, length and
interval), any captured stream, any `MaxFaults` (`RequestsAssumption`,
`DonorAssumption`, `MaxFaultsAssumption`, `DistinctIds`); `None` is no number,
record, envelope, hash or signature (`NoneAssumption`). Campaign: any intervals,
stream lengths and positive number of trials (`CampaignAssumption`). Live demo: `None` is no
reason for a failure, no text and no verdict (`ReasonAssumption`); any bound on the
length and any intervals (`LiveDemoAssumption`).
Handshake: `MaxRestarts \in Nat`, and `None` is none of the values it stands
beside (a reason for a rejection, a secret, a response). Sweep cell: some
worker, natural numbers of requests, and `None` is no session (`CellAssumption`,
`SessionAssumption`). Proxy: finitely many connections, sizes, times and bounds that are natural
numbers (`NetemAssumption`), and an end mark that is no item of a queue
(`ItemAssumption`). Paper runs: plans of the 21 steps, non-empty lists of the
eight configurations, profiles and links the code has, some measurement per
configuration, any number of invocations and kills (`PaperAssumption`); two ports
(`PortsAssumption`, of `Sweep`); and `None` is neither a number nor a sweep
(`SweepAssumption`). Demo servers: its own `PortsAssumption`, and `None` is not the
outcome `"stopped"` (`OutcomeAssumption`). Analysis: a history of the results directory that only
grows, of finitely many rows with time stamps; runs named in a manifest are not
the legacy bucket, and those for the cost of authentication are one of each
configuration with and one without, as `step_auth_cost` makes them
(`HistoriesAssumption`); runs named by an argument are not the legacy bucket
either, and `None` is no number and no settings (`ArgumentsAssumption`); an outcome of the bootstrap
whose interval is ordered and whose medians are positive (`IntervalsAssumption`);
any byte counts (`ByteMapsAssumption`).

### Streams

None of the four safety properties of the stream is inductive: whether a verdict is right
depends on what can be on the wire, and that on what the server has signed.
`Inv` supplies the three missing links. `ServerInv` says what the server's
counters and hash are in terms of `flushed`. `wire \in Seq(AuthenticRecords)`
says that every signature of this handshake on the wire is on a message the
server signed (`SignedByServer`): faults move, repeat and spoil signatures but
make none. `BufferInv`, `ChainInv`, `VerdictInv` and `ExposureInv` say what each
of the client's flags is evidence of; `ChainInv` in particular that a chain all
of whose links open under the session key spells the text shown, so that one
signature over the hash speaks for all of it. Authenticity is stable because the
server only adds to what it has signed (`Grows`); the client's steps are then
discharged branch by branch.

The refinement `PromiseKept` rests on `MappingInv`, which follows from `Inv`: what
the client relies on is the first `ReliedCount` chunks of what the server stands
by. `NothingRefused` needs the converse of integrity: `UndisturbedInv` says that
while no fault has struck, the records read and those still on the wire are
together the captured stream, and that what the client holds is a function of
how many it has read (the signatures counted are the chunks divided by `k`);
`ScheduleInv` says the same of the server's `since_checkpoint`.
`ChunksComplete` rests on `ChunksInv`: the chunks, flattened and followed by the
token buffer, are the tokens produced. Flattening is a fold, for which an
induction over data is needed: it is done with a least counterexample (`WFMin` on the natural
numbers, which takes no operator), as is every other induction below.

`HarvestRight` is about another client of the same stream, which verifies
nothing. `Capturing` keeps what the proofs above say of the server (`Inv`,
`ChunksInv`, `ScheduleInv`) and of the wire (`InFlight`: the first `r` records are
read, the others still under way), and adds that the counts are a function of
`r` (`Weighed`): records, signatures, hashes, and as bytes the length of the
flattened chunks read (`TextBytes`) with an overhead for each envelope. At the
end of the stream that is the text the server generated.

### Campaign and experiment

Both experiments mutate a captured stream and replay it, so everything rests on
what `replay_through_client` returns for a stream nobody enumerates.
`StreamRecords` gives a captured stream in closed form. The fold over its records
is described by what it depends on: `Rejects` says at which chunk the client
fails, `FinalVerifies` whether the terminal record stands, and the lemmas on the
chain that a chunk out of place, missing, or of another session changes every
later hash. From these follows, for every attack and every draw it can make,
that the stream is noticed and where: at the chunk struck under `per_chunk`, by
the next checkpoint under `hash_chain`, at the end without checkpoints; a
stripped or moved checkpoint is missed at its own place by a client that
enforces the schedule. `CampaignInv` carries this to the counts: all trials of
an attack but `checkpoint_strip_v2client` are detected, those of that one never,
and exposures stay below the interval. `MitmInv` does so for the other experiment,
with the share found in mid-stream (`MidAs`).

### Live demo

The demo's client keeps its own counters and never looks at the attack, so
`LiveInv` speaks of the records it was given and of nothing else. `TodoInv` and
`FedInv` say that every chunk under way or given to `process` is a `Variant` of
one of the server's: as sent, with a flipped byte the attack may flip, or without
its checkpoint; they do not say in which order, which covers dropped, repeated and
swapped chunks together. `StripInv` is the exception: without an enforced
schedule a stripped stream passes, which is only right if nothing else was
changed. `StreamInv` has two halves. Until the verdict, with `g` the number of
chunks that pass before the first that does not (`Passing`), the client and the
page are functions of `g`, of the chunks and of the last checkpoint covered
(`Following`). `TakesChunk` shows that `process` and `consume` keep it so:
what the flags of `state` say of a chunk is what `Rejects` says of it. Once there
is a verdict, `Done` holds: it is that of `replay_through_client` on the records
given (`VerdictIs`), and what is marked is genuine (`TextsGenuine`, from the
signature over the chain). That the verdict is negative exactly if the attack
changed something that is checked is `Notices`: when all chunks pass and the
terminal record stands, every chunk is in its place, so each is the server's own
in the server's order, or the stripped one. `buffer_and_sign` has no chunks; its
one record is treated apart (`BufferedIs`). A client is cut off from its terminal
record by `CutCloses`.

### Handshake and clients

The missing link is what a client may hold: `HandshakeInv`
lists the three forms a received handshake can have (the process's own, with the
middle's keys, with the middle's keys and signature), `PinInv` says that the
pinned key belongs to a process of the server, and the lemma `OnlyThePinned`
that `verify_handshake` separates the first form from the others because the
transcript contains both keys. `CheckedInv` and `ResponseInv` carry that to the
accepted response. `NeverMixed` uses that the schemes of the key shares and of
the signature tell the six configurations apart (`SchemesTellApart`), and
`FormatInv`: a client that went on has run `establish` on the handshake it holds,
and what it accepted was verified with its own algorithm. `ClientsJudgeAlike`
needs `ClientInv`, which adds what the client has sent and holds (`RequestInv`),
what each outcome says of the response (`OutcomeInv`), and that an undisturbed
request is refused by no check (`HonestInv`). For `TablesHold`, `ArchiveInv` says
that the archive holds the client's secrets and an envelope under the key they
make, after which each configuration's key schedule decides.

### Sweep cell

`CellInv` is about ownership: an index is taken by one worker, a session is
established by one worker and used by one call at a time, and a worker sends its
next request only after a 200, so that only the last call of a handshake can
make the server forget it. From that, an access of the server's two dictionaries cannot be disturbed by another
worker's call, and each of the four properties follows from the call's own
history.

### Paper runs

`PaperInv` is about who owns what. Of the processes, `OwnInv` says that each one
is dead, an orphan of a killed invocation, or one of the two the sweep under way
holds, and which of the two it can hold at each place; since every way out of a
sweep passes its `finally` clauses, nothing is left at its end. `EnvironInv` and
`MeasuredInv` say that the environment is the one the call asked for and that the
server measured was started in it. Of the files, `PlaceInv` ties the counters to
the place in the sweep, `DoneInv` says that what is measured so far is the cells
before the present one, in the order of the call, and `FilesInv` that every
configuration finished has its file with all its cells. `SummariesInv` is why a
`run_id` is never reused: it counts seconds, every summary is older than the
clock, and the pause after a server has stopped moves the clock before the next
sweep can begin. Of the manifest, `CallsInv` says that the calls left are the
end of the step's list, and `ListInv` that a key with a list holds the `run_id`s
of the calls already made; so each entry is of the sweep called at its place
(`Sound`). A kill empties the invocation but not the file, whose summaries stay.

### Proxy

`ProxyInv` describes what a direction holds as consecutive runs of the units
sent: received, written and not yet flushed, queued (item by item), unread. A
closed writer lets nothing more through. `EndsComplete` adds that without a fault
the first to end a connection is a client that has its whole answer, which is the
second half of `TransferFaithful`.

`BandwidthKept` sums over connections. `SharedInv` says that the units a direction
has read fit into the time for which its bottleneck is reserved (`tx_free`), and
bounds what can be let through by any time `t` not yet past: there are numbers,
one per connection, which neither the units let through nor those due by `t`
exceed, and whose sum takes no longer than `t` minus the delay. When the clock
moves the bound of the later time takes over; a chunk read is due when its own
reservation ends, one delay later. Sums over finite sets are compared through
tables of partial sums.

### Demo servers

`DemoInv` says that the list `stop_server` works through, together with what is
signalled or dead, contains every server of the port that was there at the call.
`ps` is read once, so the argument is that a process's command line never
changes and that a server started later is not owed a signal.

### Analysis

The decision table needs an argument because domination is not transitive: "no
worse" on latency is a margin of 5%, and a pair without enough repetitions counts
as no worse both ways. The security axes break every cycle that contains a
post-quantum key exchange: `AxesOrder` lists what is at least as secure as each
configuration, and the most secure one present has no rival. Only `classical`
and `classical_ecdhe` have equal axes, and for two configurations asymmetry is
enough. That in turn rests on `NotBothBetter`: the interval of a difference and
the same interval read the other way round cannot both lie below zero, which is
where the flip of `upper` and `base` has to be right. `UndominatedRemain` is
inductive as it stands, since `table_dominance` alone writes the decision.

The outputs rest on `FiguresInv`. `LoadedInv` says that the loaded rows are of one
run per configuration and settings, legacy or not as the stamp says
(`ConcurrencyOne`: selecting the latest run, leaving out cells that only met 404
and trimming the warm-up all keep that), and `NamedInv` that the runs an
invocation took from a manifest are still named and unmixed whatever
experiments add. `GoodFile` is what each of the 24
functions of `main` writes (`EveryStepProduces`): one run per configuration and
settings, and the stamp that belongs to it. The two panels of `fig_concurrency`
do not clash because samples have no settings (`PanelsFile`), and the pairs of
`tab_authcost` are one run each way (`PairsOne`). `WroteInv` says that the files
bearing the number of the running invocation are those it remembers, and that the
sheet on disk is older than it; so the sheet, written last, covers them all, and
an invocation that stops earlier leaves a sheet that does not claim its files.
`OrderOfCalls` fixes the places of the table, the caveats and the sheet in
`main`. `RunsShown` holds in every directory: the run that sorts first is the
greatest time stamp (`FirstIsLatest`, a maximum of a finite set, by cardinality),
and every row attempted has its line in summary and matrix.

### Only model-checked

Liveness under fairness is outside the prover's reach: `TransactionEnds`,
`CellEnds`, `CellCompletes`, `MainEnds`, `ConnectionEnds`, `CallsEnd`.

## Not modelled, and what could follow

Left out for good: inference and token generation (a source of tokens that may
fail), the insides of the cryptographic primitives, known-answer tests and
micro-benchmarks of them, timings, the resource sampler, confidence intervals,
regressions and the streaming cost model (floating point), rendering, command
lines, the texts a language model writes about a chart, and the installation of
liboqs. The older `config_b_hybrid` and `config_c_full_pqc` are imported by
nothing, `oqs_kem` and `oqs_sig` below them by tests only. Of the streaming endpoint and client, the
request before the first record is the initial state of the model.
