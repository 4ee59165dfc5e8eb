# vllm-grpc: a verification project

The repository serves an OpenAI-compatible HTTP API over a gRPC frontend to
vLLM (`packages/`) and measures it on preemptible cloud GPUs with a benchmark
harness (`tools/benchmark/`, `scripts/python/`). This directory holds TLA+
modules translated from that code, TLC configurations that model-check them,
and TLAPS proofs of their main properties.

    tlc -workers 2 -config SweepClean.cfg MCSweepCheckpoint
    tlapm SweepCheckpoint_proofs.tla

1. Inventory: the system's parts
2. The plan
3. The modules and the code
4. What the runs check, and their bounds
5. Fairness
6. What is proved
7. Where documents and code disagree
8. What is not modelled

## 1. Inventory

Paths below are relative to `packages/*/src/<package>/` for the serving code
and to `tools/benchmark/src/vllm_grpc_bench/` for the harness.

### Serving path

| Part | State it keeps | Operations | What makes it correct |
|---|---|---|---|
| REST-to-gRPC proxy (`chat_router.py`, `completions_router.py`, `grpc_client.py`) | one asyncio generator and one gRPC channel per streaming request; nothing across requests | convert the request, stream SSE events, unary call with a status mapping, `/healthz` | text in order, no gap and no repetition; exactly one `[DONE]` or error event; `[DONE]` only after all the text of an engine that ended by itself; no request held for ever |
| gRPC frontend (`chat.py`, `completions.py`, `health.py`) | per RPC: the engine's generator, `prev_text`, `token_index`, the timing checkpoints | `Complete`, `CompleteStream`, `Ping` | deltas of the cumulative text, consecutive indices, trailing metadata before the final chunk, the engine released on cancellation |
| gRPC client library (`client.py`, `chat.py`, `completions.py`) | the channel between `__aenter__` and `__aexit__` | `complete`, `complete_stream` | an answer is whole, a failure names its cause, no call outlives the channel |
| wire schema (`proto/`) | none | messages | data only |
| REST shim and mock engine (`rest_shim.py`, `mock_engine.py`) | the set of requests in flight | the same generator protocol with another wire format | a request id is released on every exit |

Unary requests cross the same two processes and one more boundary of time: the
frontend loads its engine for minutes before it listens, and may go away with
it. Hard: the deadline races an answer on its way, the channel of the client
library is shared by calls and closed under them, the engine raises, stalls or
ends without an output.

The proxy's SSE generator pulls `stream_complete`, which pulls the gRPC call;
at the other end the gRPC server pulls the servicer's generator, which pulls
the engine's. Pulling is the only interaction, so whatever suspends one
generator suspends those behind it. Hard: the HTTP client disconnects or stops
reading at any point, the call's 30 s deadline passes, the engine stalls or
raises, and `return` inside `async for` leaves the inner generator to the event
loop's finalizer.

### Measurement harness (milestone M6.2)

| Part | State it keeps | Operations | What makes it correct |
|---|---|---|---|
| sweep orchestrator (`sweep.py`) | position in the dispatch order, measurements, anchor snapshots, the sweep clock | run a block, skip a completed one, anchor at start, on the cadence and at the end, topology probes | every block measured once, in order, under the seeds of an uninterrupted sweep |
| checkpoint (`resume.py`) | a JSON-lines file: header, measurement and anchor lines | write the header, append with fsync, load, compare run identities | a kill at any point loses nothing recorded and never repeats a block; two configurations are never mixed |
| block retry wrapper (`run_block_with_retry`, `sub_probe.py`) | attempt, `retry_attempted`, the block's time window | dispatch, dispatch again, give up | only transient failures are retried, the flag and the window tell the truth |
| block and anchor dispatchers (`validate.py`) | each: its driver, its preemption events, its streak of dead blocks; shared: the cached URLs | dispatch n RPCs, detect a preemption, recover, retry the block | timings of one block come from one worker; the number of recoveries is bounded; the sweep ends |
| driver factory and URL poll (`validate.py`, `modal_endpoint.py`, `rpc_driver.py`) | the open driver; what the poll has read so far | poll the Dict, close the old driver, open and probe the new one | at most one open driver, each newer than the last |
| Modal worker (`scripts/python/modal_bench_rest_grpc_server.py`) | the handshake Dict: four URLs, `ready`, a token | clear, publish key by key, pop key by key | a client never connects to a worker that is gone |
| deployment handshake (`modal_endpoint.py`) | the Dict, the running function call | clear, spawn, wait for `ready`, check the token, tear down, hard stop | the endpoints belong to this run |
| request pools (`runner.py`, `rest_cohort.py`, `network_probe.py`) | a semaphore or a queue, a list of results | gather under a bound, one probe per cohort | the bound holds, a failing request does not lose the others |
| sweep monitor (`scripts/python/monitor_m6_2_sweep.py`) | the events it has read, what it knows of the process | read the log, the process id and the artifact, one after the other; decide whether to go on | no death that did not happen, no completion over an old artifact, no block shown that was not measured; the watch ends |
| deploy scripts (`scripts/python/`: `bench_modal.py`, `modal_frontend_serve.py`, `modal_frontend_smoke.py`, `modal_vllm_rest.py`) | the Dict with addresses, cold starts and stop signals; a local proxy; a server process in each container | deploy two sides in turn, measure, stop, write reports; supervise a server | what is measured is this run's, nobody is stopped early, no server is left behind |
| measurement algorithms (`crossover.py`, `anchor_trajectory.py`, `null_anchor.py`, `prompts.py`, ...) | none | classify verdicts, gate the anchor drift, choose prompts and seeds | agreement with their specification |
| reports, command line, result types | none beyond one call | format | out of scope |

`_run_modal_backed` (`validate.py`) opens one driver, builds both dispatchers
over it, and calls `run_sweep`; the sweep calls the block dispatcher through
the retry wrapper and the anchor dispatcher directly, one after the other. The
worker runs elsewhere and shares only the Dict. Hard: the process is killed
between and inside appends and resumed by an operator; the worker is preempted
at any step, restarts, and publishes while it is polled; both dispatchers share
a factory that closes what the other one holds; an exception that should end
the sweep passes through a wrapper that catches `BaseException`.

Deployments meet their workers only in a `modal.Dict` of a fixed name, which
outlives every run, and the monitor meets the sweep only in files. Hard: what an
earlier run has left there, a second worker writing between two reads of the
first one's client, and everything that dies in between.

The hazards, each with the line where it bites and the properties that would
catch it, are listed in `PROJECT.json`.

## 2. The plan

Most important first; each step is a component, its abstract specification if
it has one worth stating, its run and its proofs.

| Step | Modules | State |
|---|---|---|
| 1 | `SweepLedger`, `SweepCheckpoint`: orchestrator, checkpoint, operator | modelled, checked, proved |
| 2 | `DriverLease`, `PreemptionRecovery`: dispatchers, factory, poll, worker | modelled, checked, proved (liveness checked only) |
| 3 | `BlockRetry`: the retry wrapper over any dispatcher | modelled, checked, proved |
| 4 | `TokenStream`, `StreamBridge`: the streaming path of proxy and frontend | modelled, checked, proved (liveness checked only) |
| 5 | `CallOnce`, `UnaryCall`: the unary paths of proxy, client library and frontend | modelled, checked, proved (liveness checked only) |
| 6 | `Handshake`: a deployment and its workers over a Dict that outlives runs | modelled, checked, proved (liveness checked only) |
| 7 | `ModalServe`: the deploy scripts and the servers they supervise | modelled, checked, proved (liveness checked only) |
| 8 | `SweepMonitor`: the monitor beside a sweep that dies and is launched again | modelled, checked, proved (liveness checked only) |
| 9 | the client library's `complete_stream` as a second reader in `StreamBridge` | left: the same loop without a deadline |
| 10 | stronger results about what is there: the streak, the dispatch discipline, the end anchor and the damage of torn lines as theorems, variants behind the liveness of the recovery and the unary calls, `UnaryCall` against an abstract call | proved |
| 11 | abstract specifications and variants for `Handshake`, `ModalServe` and `SweepMonitor` | left |

## 3. The modules and the code

`PROJECT.json` maps every definition to its lines. The correspondence in
outline:

**SweepCheckpoint** is `run_sweep` (`sweep.py:640-880`), `resume.py` and the
operator. `pc` is the place in the coroutine; `RunBlock`, `SkipBlock`,
`TupleEnd`, `SweepEnd` and `LastProbe` are the body of the loop, its `continue`,
the anchor at the end of a tuple, the end anchor and the last topology probe;
`WriteAnchor` is one append of `_capture_anchor_block`. Between two awaits a
kill is the action `Crash`; inside `_write_line_fsynced` it is `CrashInAppend`
or `CrashInHeader`, which leaves any of: nothing, part of a line, or the whole
line without its newline. `AppendLine` says what the next append does to such a
tail (mode "a" continues the unfinished line), and `file` is what
`load_checkpoint` would read. Measurements carry the iteration index from which
prompts and seeds derive, and the run identity the integrity gate compares.
Time is a number of ticks of 0.001 h, the unit of `START_GUARD_HOURS`.

**SweepLedger** is the abstract specification: a ledger that grows in dispatch
order, that crashes do not disturb. `SweepCheckpoint` without torn lines
implements it with `ledger` the blocks on disk.

**PreemptionRecovery** has the sweep task (`pc`, `call`, `results`), the factory
(`seen`, `cached`, `closed`), the two dispatchers (`held`, `events`, `streak`)
and the worker (`up`, `gen`, `dict`). A worker, its URLs and the driver opened
against them are all named by the worker's generation. RPCs of one gather end
one at a time (`RpcEnds`), so a preemption may cut a block in two; the poll gets
the four keys one at a time (`GetUrl`), so a publishing worker may be read half
way. `Raise` is what becomes of an exception: on the block path the retry
wrapper records a failed block, on the anchor path the sweep aborts with the
exit code of `_run_modal_backed`. A driver that was closed answers every RPC
with an exception that `rpc_driver.py` does not catch (`RuntimeError` of httpx,
`UsageError` of grpc.aio); this behaviour of the two libraries is the one
assumption of the module about code outside the repository.

**DriverLease** is its abstract specification: at most one open driver, each
newer than the last, at most `Budget` of them per sweep.

**BlockRetry** is `run_block_with_retry` with `block_start_utc`, the flag and
the row built from them. What a dispatcher may answer is the constant
`Outcomes`: `Contract` is everything the `BlockDispatcher` protocol allows,
`Modal(n)` what `build_modal_block_dispatcher` returns for n RPCs.

**StreamBridge** is one streaming request: `_stream_sse` of either router
(`ppc`, `chunk`, `events`, `told`), `stream_complete` and its call (`call`),
the server's side of the call and the transport (`rpc`, `wire`), the servicer's
`CompleteStream` (`spc`, `out`, `prev_text`, `token_index`, `trailers`), the
engine (`engine`, `made`) and the HTTP connection (`http`). Text is a position
in the engine's text, so an output with several tokens, or with none, is a step
by any number. The state names of a generator are its suspension points:
`ppc = "yield"` waits for the web server to take the event, `"next"` for a
chunk, `spc = "send"` for room in the transport, `"pull"` for the engine.
The two endpoints differ where the code does: only chat yields a role event
before the call starts, only completions asks `is_active` before it yields.
Both `grpc.aio` (messages in order, a status that may overtake them, cancelled
handlers, deadlines) and Starlette (a client that disconnects, a framework that
may cancel the task) are external and are modelled from how the code uses them;
`context.is_active()` may answer what the servicer's tests have it answer
(`test_completions_servicer.py:215`), or raise (`IsActiveRaises`): the context of
grpc.aio does not promise such a method, and the code silences the type checker
there (`completions.py:291`, `:300`). Three ends that nobody would call one are in
the model: a request whose conversion raises inside the SSE generator
(`ConversionFails`: a 200 response that just ends), an engine whose generator
runs out without a `finish_reason` (`EngineExhausted`: the servicer's loop runs
out with it, the status is OK, no finish chunk and no trailing metadata are sent,
and the proxy sends `[DONE]`), and a client that is gone.

**TokenStream** is its abstract specification: text is made, delivered in
order, and the stream is done only when it is complete and all was delivered.
"Complete" is `EndedItself`: the engine's generator ended by itself, whether or
not it said why.

**UnaryCall** is a set of unary requests that share one frontend. `route` says
which of the two routers, the two library clients, `/healthz` or a bare stub a
request takes; `Refuse`, `Call` and `Answer` are the caller's code up to the
stub, the stub and what is made of its status (`HttpStatus` is the table of the
routers). `Handle` is the servicer up to the engine, `Return` its answer with the
last output, `EngineInput` what `decode_embeds` and
`_resolve_prompt_embeds_input` make of prompt embeddings. `LoadEngine`, `Listen`
and `Crash` are the life of the frontend, `Enter` and `Leave` the context manager
that holds the library's one channel, `GiveUp` the call that the closing of it
cancels. Texts are numbers of outputs.

**CallOnce** is its abstract specification, without routes, statuses, deadlines
or processes: the engine works on a request at most once, a request is answered
once, a success hands over the whole text, a refusal means that no work was done
and that none will be. A failure promises nothing of the kind, so a caller who
retries after one may have the work done twice.

**Handshake** is one deployment: `client` is the place in the context manager
(spawn, clear, poll, read, the body, teardown, drain), `worker` that in the
function on Modal (early clear, load, put, serve, pop). A value in the Dict is
the worker that put it, `Earlier` for a previous run, so that "these endpoints
are mine" is a statement about values. Every `get`, `put` and `pop` is a step:
`Puts`, `Pops` and `Reads` are the keys in the order of the code, `kind` chooses
among the four deployments. The pops are best effort, as in the code
(`suppress(Exception)` at `modal_endpoint.py:323` and its twins): one that fails
leaves its key and the code goes on (`PopFails`), and the histories `missed`,
`missed_early` and `missed_late` say which keys the client's clear, a worker's early
clear and its `finally` have left. A pop that took effect although it raised is a
pop. `Preempt` restarts a worker while the old one may
still be in its `finally`; `ClientKilled` is anywhere; `Leftover` is every state
an earlier run can leave. The constants `StrayAlive` and `SameToken` say whether
a worker of that run is still about and whether it had the same token.

**ModalServe** is each of the four deploy scripts. `pc`, `side` and `stage` are
the main program's place, the deployment in hand and the measurement; `worker`
and `child` are the supervising function and the server it started. A
measurement is abstracted to the worker it went to (`TargetOf`), through a local
proxy that an earlier run may still own (`orphan`, `Healthz`). `bench_modal.py:425-433`
asks whatever answers on port 8000 and does not look whether its own proxy lives;
that a foreign proxy does not pass is an assumption of `Healthz`: the frontend
behind it is the earlier run's, which is gone. `Dies` preempts a worker or loses it
with its container; `Raises` ends its function with an exception, which no
`finally` follows: the tunnel closes, and the server it started goes on in a
container that stays. `ChildStep` lets a server become healthy, exit, or block on a
pipe that nobody reads.

**SweepMonitor** is `main` of the monitor, `ReadLog`, `CheckPid` and the decision
as three steps, next to the sweep as far as its files go: `Launch` with a new or
an appended log, afresh or from the checkpoint, the events in the order in which
`run_sweep` prints them (those that only change the display, as of tuples, anchors
and the sub-probe, are left out), `WriteReport` in two steps (the file is there as
soon as it is opened), and `End` anywhere. A resume may find fewer blocks than were announced, because the loader drops lines it cannot
read (which ones is `SweepCheckpoint`'s subject, here any number); the history
`lost` counts them over the resumes of a run.

The `MC*` modules hold the small instances and, where section 7 refers to one,
the statement of a document that the code does not satisfy. Operators whose
comment begins with "Mutant" are altered copies of the definition that follows
them: for every property of the runs there is one with which, in its place, the
property fails, which shows that the property constrains the code.

## 4. The runs

| Run | Question | Instance |
|---|---|---|
| `sweep_clean` | Kills between appends: is a resumed sweep the uninterrupted one? | 5 blocks in 2 tuples, 3 cohorts, 4 invocations, 2 block durations, publish mode |
| `sweep_torn` | Kills inside appends as well: is every block still measured exactly once, under one configuration, and how much is lost? | the same, 1 duration, anchors that may fail, 2 configurations |
| `recovery` | Does the preemption recovery keep its promise against a worker preempted at any step, and does the sweep end? | 4 dispatcher calls of 2 RPCs, 3 worker generations, budget 1, threshold 2, 1 interrupt |
| `block_retry` | What do a row's flag, reason and window say of its attempts? | 3 blocks over any dispatcher, one label for each way a failure is treated |
| `stream` | Does the client get the text, the whole text and one ending, and is the engine released? | both endpoints, 4 positions of text, a transport of 2 chunks |
| `unary` | Is a request worked on and answered once, is a success whole, does a failure name its cause, and does a call with a deadline end? | a call on any of six routes with any input beside one of the chat client, 1 output |
| `handshake` | Whose endpoints does a handshake yield, whose teardown stops a worker, what is left, and does it end? | four deployments, any remainder of an earlier run with the same token, 1 restart, 1 pop that fails |
| `modal_serve` | Does a script measure its own servers, stop them late enough and leave none behind? | four scripts, any remainder, the port free or taken, 1 restart, an exception anywhere in a worker |
| `monitor` | What may the monitor say of a sweep that is launched again, and does the watch end? | 3 launches, 1 block, any loss on a resume |
| `claim_*` | three statements of documents and comments, each violated | see section 7 |

Why the bounds are enough:

- *Two tuples, five blocks.* The loop's decisions look at one block, its
  membership in the skip set and whether its tuple ends with it. Two tuples of
  two and three blocks give a first, a middle and a last block, a crash inside
  and between tuples, and a tuple that is left and could be come back to.
- *Four invocations.* A fresh start, a resume, a resume of the resume, and one
  more: the longest chain in which a torn line is created, damaged by an append,
  and both results are loaded again.
- *Ticks.* One duration shorter and one longer than the cadence window, so that
  a cadence mark is met by some schedules and stepped over by others.
- *Two configurations.* The integrity gate compares fields for equality, so one
  that matches and one that does not are all the cases.
- *Two RPCs per block.* The smallest block that can fail as a whole or in part.
  A budget of 1 is exhausted by the second preemption; a threshold of 2 tells
  the immediate trigger from the streak. Three generations allow the recovery
  itself to be preempted. The schedule calls each dispatcher before and after
  the other.
- *Three blocks of retries.* A block before, under and after the one that is
  retried; the wrapper looks at a failure's reason only for its membership in
  the list of transient ones.
- *Four positions, two chunks of transport.* Outputs with no text, with one and
  with several tokens, a full transport with a delta waiting behind it, and
  chunks that remain unread when the call ends.
- *Two calls, one output.* Calls share the frontend and the library's channel,
  nothing else; one call on each route beside one that shares its channel meets
  both. No output and one output are the cases the servicers tell apart.
- *One restart.* A worker in its `finally` beside its successor, each able to
  undo what the other put; the code knows no third. `StrayAlive` is false in the
  run: with two clients' workers in one Dict the properties are not claimed
  (`Undisturbed`), and section 7 says what goes wrong.
- *One failing pop*, any of those of the client or of a worker: `NoStaleStop` and
  `CleanExit` then meet what they except by name. An old URL passes a handshake only
  when the client's clear fails on the URL's key and on `ready`; with one failure
  the run shows that `OwnEndpoints` needs no exception, and for any number of
  failures the theorem `EndpointsAreOwn` says that there is no other.
- *Three launches.* A run, a second one that leaves or finds an artifact, and one
  more while the monitor still reads the log of the first two. One block is
  enough for a counter that can lag, and for one that is ahead of a checkpoint
  that has lost it.

`CHECK_DEADLOCK FALSE` is stated because the systems do stop: a sweep, a request,
a script or a monitor ends, the operator need not resume, and the numbers of
invocations, restarts and worker generations are bounded.

What the runs show. **Checkpoint.** With kills between appends the i-th
measurement is the i-th block with iteration index i - 1 across any resumes,
tuples are not interleaved, and a sweep that was not resumed has an anchor at its
end (a resumed one need not: section 7). With kills inside appends
some of this is lost (an append may land on an unfinished line), at most one acknowledged
block for each process that was killed, but every block is still measured
exactly once and configurations never mix.
**Recovery.** A block's timings come from one driver; the streak counts
consecutive dead blocks only; recoveries of the whole sweep stay within the
budget, because at most one of the two dispatchers can ever recover. That last
fact is a consequence of the shared factory and has a price (section 7). The
sweep ends whatever the workers do.
**Retry.** Three dispatches at most, only after transient failures, with an
honest flag and a window that holds all attempts. **Stream.** What the client
was told is always a prefix of what the engine made; `[DONE]` implies that the
engine ended by itself and that all its text was sent, and a finish event and the
trailing metadata come with it exactly when the engine gave a reason, which is
less than the documents promise (section 7); a connected client gets exactly one
terminator, unless its request cannot be converted, and then it gets no event at
all; every pull returns and every engine request is released, even when the client stays
connected and never reads. **Unary calls.** A 200 carries the whole text made
from the prompt or the tensor that was sent (bytes that hold no such tensor count
as a prompt, section 7), also when a deadline, a crash of the frontend and
the closing of a channel race the answer; each error status has its own cause;
a refused request was never worked on and a failed one at most once; a call with
a deadline ends, and the engine does not work on for a caller that has gone.
**Handshake.** Although the client clears the Dict after it has spawned the worker,
and a preempted worker pops its successor's keys, a handshake either fails or
yields endpoints of this run, unless both the pop of an old URL and that of the old
`ready` have failed; only the real-engine worker, which clears the Dict itself, is
safe from an old teardown, as far as its pop of it succeeds; an orderly teardown
leaves nothing in the Dict but keys that the worker's own pops have failed on.
**Scripts.** No measurement goes to a server of an earlier run, although the proxy's
port may be held by one; nobody is stopped before the last measurement; a worker
that returns leaves no server in its container, and one whose function ends with an
exception may (section 7).
**Monitor.** A death it reports has happened; a completion it announces for a run
launched afresh is not an earlier run's; the blocks it shows were measured, and are
ahead of the checkpoint by no more than what the resumes of the run could not read;
and the watch over a process ends with the process.

## 5. Fairness

- `SweepCheckpoint`: none. The loop is a `for` over a finite list, and nothing
  obliges the operator to start or resume it.
- `PreemptionRecovery`: `WF(Sweep)`, because the event loop runs the coroutine while
  the process lives, and `SF(PollTimesOut)`.
  The step is enabled between polls, again and again but not continuously,
  while the deadline of 600 s is a point in time: once it is past, the next test
  of the loop sees it. Nothing is assumed of the worker: it may publish never,
  or be preempted for ever.
- `StreamBridge`: weak fairness of the proxy's and of the servicer's steps (two
  event loops), of `DeadlinePasses` (a call has a deadline of 30 s) and of
  `ServerLearns` (the cancellation arrives). No fairness for the engine, the
  client or the framework. The deadline alone carries both parts of
  `RequestEnds`: without it a stalled engine holds the request for ever, which
  is what the mutant of `DeadlinePasses` shows.
- `UnaryCall`: weak fairness of each call's caller and servicer, and of its
  deadline, which is only enabled for a call that has one. None for the engine,
  and none for the frontend, which may stay down.
- `Handshake`: weak fairness of the client and of each worker, of the client's
  handshake timeout and of a worker's own deadline (30 s before the timeout of
  its function). The body of the context manager may run for ever, a worker may
  never publish, and Modal need not restart one.
- `ModalServe`: weak fairness of the main program and of each side's worker,
  whose polls and deadlines are among their steps. A server need never become
  healthy and nobody need press Ctrl-C, which is why `ServeEnds` lets "serve"
  stay in its block.
- `SweepMonitor`: weak fairness of the monitor's tick, none of the sweep. With
  neither a process id nor an artifact to look for, the loop has no exit, and
  the property does not claim one.
- `BlockRetry` and the abstract modules have no liveness properties either.

## 6. What is proved

The proof modules prove, for every value of the constants that satisfies the
named assumptions of the module (`OrderAssumption`: blocks of the dispatch order
are distinct; `TupleAssumption`: the blocks of a tuple follow each other in it,
as `iter_block_dispatch_order` yields them; `ClockAssumption`, `HeaderAssumption`, `EnvironmentAssumption`,
`RecoveryAssumption`, `RetryAssumption`, `StreamAssumption`, `UnaryAssumption`,
`HandshakeAssumption`, `ServeAssumption`, `MonitorAssumption`: ranges), the
theorems listed in `PROJECT.json`.

**SweepCheckpoint_proofs.** `SweepInv` is inductive for any crashes, torn lines
included. `MeasuredOnce` alone is not: that a block about to run has no
measurement follows from `MemoryInv`, which says that the blocks in memory are
exactly those preloaded and those passed by the loop; and that this survives a
resume needs `FileInv`, because the new memory comes from the file, which an
interrupted append may have shortened but never extended by a repeated block.
`NoMixedParams` rests on the same invariant: whatever header is on disk while a
process runs is its own or unreadable. `LedgerInv` is the stronger invariant
that holds without torn lines: the file is a prefix of the dispatch order and
equal to the memory. It gives `SeedsPreserved`, `DiskMirrorsMemory`,
`AckedSurvives` without torn lines (what `claim_acked` refutes with them),
`DisciplineKept` (the measurements are a prefix of a dispatch order whose tuples
are contiguous, so no tuple is left and come back to), and the refinement
`ImplementsLedger`, in which `RunBlock` is `Record`, `StartFresh` is `Restart`, `LastProbe` is `Finish`, a death after the end is `Retire`, and all
else stutters.

With torn lines, `FinishedLinesStay` says that no step reaches a line that ends in
a newline, and `LossBounded` what that leaves at risk. `LossBounded` is not
inductive: a line that has just been torn is not lost yet, an append has to land
on it. `LossInv` therefore counts blocks that are on no finished line, adds one for
an unfinished last line, whoever left it, and compares the sum with the number of
processes that have died. `EndIsAnchored` needs `EndInv`, which says that no mark of
a sweep that was not resumed lies ahead of its clock, and that the marks of the end
anchor are near the end while they wait to be written.

**PreemptionRecovery_proofs.** `RecoveryInv` has eight parts. The core is
`EventsInv`: a dispatcher that recovered has cost the other one its driver, and
that one never recovered. To preserve it one needs that a dispatcher with a
closed driver cannot trigger (`ResultsInv`: its RPCs end "raised", which is no
endpoint death), that a dispatcher that is recovering holds the factory's
current driver (`RecoveringInv`, `HeldInv`), and that the URL that is adopted is
newer than the cached one although the Dict changes while it is read (`UrlInv`,
`PollInv`). From it follow `OneDispatcherRecovers`, `SweepWideBudget`,
`LostStaysLost`, `BlockFromOneDriver` and `ImplementsLease`. `StreakEarned` is
about the calls a dispatcher returned since some earlier moment of the log; the
step proof moves that moment to the end of the log when the streak is reset and
keeps it otherwise, which avoids an induction over filtered sequences.
`CallsGoForward` is the argument behind `SweepEnds`: every step of the sweep task
leads to a later call, a further recovery, a later stage of the call, one more
result or one more URL, or it polls once more. All but the last are bounded, the
recoveries by `SweepWideBudget`, and the deadline bounds the last.

**BlockRetry_proofs.** `RetryInv` joins what the wrapper knows of the block under
way (`AttemptInv`, `WindowInv`) with the four properties of the rows recorded so
far; each row's facts follow from the former when it is recorded.

**StreamBridge_proofs.** `ToldIsPrefix` alone is not inductive: whether the next
chunk continues the text depends on every chunk between the engine and the
client. `StreamInv` therefore follows the text through all its places.
`ChunkInv` and `WireInv` chain the chunk at hand and those on the wire to what
was told, each beginning where the one before it ends and with the next index;
`TipInv` joins the last of them to the servicer's delta while the call is
active, and says that it is the finish chunk exactly when the servicer has
returned after an output with a reason;
`ServicerInv` and `CallInv` tie the places of the two coroutines to the engine
and to the call. `DoneIsWhole` then follows when the call has ended OK with an
empty wire: the tip is what was told and all that was made. The lemmas
`ReadFacts`, `SentFacts` and `WriteFacts` state what taking a chunk off the wire
and putting one on it do to these places. In the refinement `ImplementsStream`,
`Output` is `Produce`, `CheckAndYield` of a delta is `Deliver`, `ReadEnd` is
`Finish`, `ReadError`, the failed conversion, the framework's cancellation and the
return on a disconnect are `GiveUp`, `EngineExhausted` completes the text without
adding to it, and all else stutters.

**UnaryCall_proofs.** The calls meet only in the frontend and the channel, so
`UnaryInv` is a statement about each call (`Local`) and the proof one about a
step of one call and the others that keep still (`OthersKept`). `SuccessIsWhole`
is not inductive: `Progress` adds what the server's status says before the
caller has read it (OK only with the whole text, `UNKNOWN` only for a reason),
and that the engine was asked with what the input decodes to. `FailureHasCause`
needs it for statuses that overtake each other. In the refinement
`ImplementsCall`, `Handle` that reaches the engine is `Ask`, `Output` is `Work`,
the engine's regular end is `Complete`; `Answer` with OK is `Succeed`, which needs
what `Progress` says of that status, and with `INVALID_ARGUMENT` is `Reject`, as
are the refusals before the call; whatever else ends a call is `Fail`, of several
calls at once when the channel is closed. A crash, a cancellation and the end of
a health probe stutter. `CallsSettle` is the argument behind `CallEnds`: each step
of a call leaves its caller or its servicer less to do (`Left`), and no step of
another call, of the engine or of a dying frontend leaves it more.

**Handshake_proofs.** The hazard is that clearing and publishing overlap.
`FreshInv` says how far the Dict is free of earlier values, key by key, while the
client clears (and the real-engine worker, in its early clear): each key popped
stays clean because nobody is left to put an earlier value back (`NotRestored`),
and the keys whose pop has failed are excepted by the `missed` histories.
`ReadyInv` is what makes one failure harmless: `ready` is put last, so where it is
this run's the URLs are too, and a client that popped the old one reads none of the
old URLs its clear has left; `OwnEndpoints` therefore needs two failures to fail.
`OrderInv` says that workers follow each other, one past its puts before the next
starts, and that a teardown of this run exists only once the client has nothing
left to read; `CleanInv` follows the last worker through its pops. All of it is
conditional on `Undisturbed`: no worker of an earlier run is alive.

**ModalServe_proofs.** `DictInv` (what an earlier run left is gone before a worker
exists) carries `MeasuresOwn` and `NoEarlyStop`; `PhaseInv` ties the main
program's place to the side in hand; `OneWorker` and `ChildInv` follow a server
from its start to the worker's end and give `NothingLeft`: a server without a
worker is that of one that has raised.

**SweepMonitor_proofs.** The maximum of a set of naturals is found by
well-founded induction over its bounds (`MaxIsLargest`), without a recursive
operator. `ClockInv` orders launches and artifacts in time, `LogInv` says whose
events a log can hold, also in what the monitor has read and not yet used. Its
clause on blocks is about `Measured`, the blocks on record and those its resumes
have lost, because the former alone may shrink under a log that has announced them;
`CompletionIsFresh` follows because an artifact that is younger than the start
in the log cannot be older than the launch that printed it.

Only model-checked: the liveness properties (`SweepEnds`, `RequestEnds`, `CallEnds`,
`HandshakeEnds`, `ServeEnds`, `MonitorReturns`), because the prover has no support for `ENABLED`. For `SweepEnds` and
`CallEnds` the variant is proved and only the step from it to termination, by
fairness and well-founded induction, is left to the runs. A stream has no such
variant before its deadline, since an engine may yield empty outputs for ever.
Every invariant, action property and refinement of
the runs is stated by a theorem.

Proved and not repeated in a run: `DiskMirrorsMemory`, `SweepInv`, `LedgerInv`,
`FinishedLinesStay` and the type invariant of the sweep,
`SweepWideBudget`, `CallsGoForward`, `RetryFlagHonest`, `OnlyTransientRetried`,
`ToldIsPrefix`, `IndexCountsEvents`, `DoneIsWhole`, `SuccessIsWhole`, `CallsSettle`
and `NeverAhead`; most of those of the recovery, of the retry, of the stream and of the
call are also conjuncts or consequences of an invariant or a refinement that a run
checks. `AckedSurvives` is proved for files without torn lines; the run that
checks it is the one with torn lines, where it fails.

## 7. Where documents and code disagree

Three of these have a run of their own with a counterexample.

| Run | Statement | What the code does |
|---|---|---|
| `claim_acked` | the on-disk state survives `kill -9` | a kill inside an append leaves an unfinished line; the first append after the resume lands on it, its measurement is acknowledged and is not readable at the next resume |
| `claim_survives` | non-zero `preemption_events` mean that the sweep survived | a recovery closes the driver the other dispatcher holds; the next anchor ends the sweep with exit code 5 |
| `claim_monitor` | a stale leftover of a preempted sweep does not trip the monitor's exit | a resumed sweep prints the start of the original run, so an artifact its dead predecessor left, half-written perhaps, counts as its own and the watch ends before the report is written; comparing the file's time with that of the event itself would repair it |

Disagreements noted, without a run. The sweep:

- "Anchor blocks fire at sweep start, every 4 h [...], and at sweep end"
  (`sweep.py:626-628`). The marks a resumed process loads are on the clock of the
  process that died, and its own starts at 0 (`sweep.py:827`): a resumed sweep that
  is shorter than its predecessor takes an old mark for its end anchor.
  `EndIsAnchored` therefore speaks of sweeps that were not resumed.
- An anchor block writes one line per cohort (`sweep.py:676`, `1173`); a crash
  between them leaves cohorts without a t = 0 baseline, and a resume that finds
  any snapshot does not anchor t = 0 again.
- The cadence is tested at tuple ends only (`sweep.py:803`): a tuple that is
  longer than the window steps over a mark without an anchor.
- A resumed sweep that skips its first tuple within `START_GUARD_HOURS` takes
  that tuple's end for the start and anchors t = 0 again (`sweep.py:804`).
- The prompt window starts at `iter_idx`, which advances with every block, so
  the cohorts of a tuple do not share prompts (`sweep.py:733`,
  `prompts.py:68-70`; `specs/027-m6-2-token-budget/spec.md:41`).
- The topology probe runs at the start and at the end only (`sweep.py:525-527`).
- `preemption_events` is kept by the dispatchers, so the artifact of a resumed
  sweep counts the recoveries of its last process only (`validate.py:1715`).

Retries and recovery:

- A transient exception followed by a transient-coded result leads to a third
  dispatch (`sweep.py:355`); the docstring says "retries ONCE" (`sweep.py:298`)
  and `test_retry_policy.py:173-174` expects two calls. `DispatchesBounded` is
  what does hold.
- Over the Modal dispatcher every network error arrives as a text that is in no
  list of transient reasons (`validate.py:798-808`, `rpc_driver.py:337-344`), so
  no block is retried, although the quickstart says that the retry "handles
  transient errors automatically" (`specs/027-m6-2-token-budget/quickstart.md:477`).
- `run_block_with_retry` catches `BaseException` (`sweep.py:317`), so an
  exhausted budget, a failed recovery or Ctrl-C on the block path is recorded as
  a failed block and the sweep goes on.
- The poll does not read `ready` (`modal_endpoint.py:392`): a half published Dict
  makes a recovery fail after the old driver was closed, with the worker up,
  while `validate.py:445-446` says that such a failure means the endpoint "never
  came back online".
- `OneDispatcherRecovers` is proved of the code, while
  `specs/027-m6-2-token-budget/quickstart.md:266` counts up to two recoveries of
  each dispatcher in one sweep.

The serving path:

- FR-002 has every stream end in `[DONE]`, "including on error"
  (`specs/009-streaming-chat/spec.md:70`). The code ends an error with an error
  event and no `[DONE]`, as a later contract has it
  (`specs/009-streaming-chat/contracts/sse-format.md:68`, ADR 0003), and a request that
  cannot be converted with nothing: `openai_request_to_proto` runs inside the
  generator and outside its `try` (`chat_router.py:30`, `completions_router.py:29`), so
  embeddings that are no base64 (`completions_translate.py:47`) or a number too large
  for its field end a 200 response without any event. `OneTerminator` says that
  this is the only such end.
- "`[DONE]` MUST follow the final delta chunk" (`sse-format.md:89`), but it follows any
  regular end of the call (`chat_router.py:37`), also that of an engine whose
  generator ran out without a `finish_reason`. `DoneIsWhole` says what `[DONE]` is worth.
- FR-005 has a disconnected client's generation stopped "within 2 seconds"
  (`specs/009-streaming-chat/spec.md:73`). While the engine stalls the proxy does not
  look at the connection, and only the call's deadline of 30 s ends it;
  `RequestEnds` says that it ends, not when.
- The completions servicer asks `context.is_active()` behind a `type: ignore`
  (`completions.py:291`, `:300`); where the context has no such method, every
  streamed completion with text ends in an error event.
- `VllmGrpcClient` stores a `timeout` (`client.py:26`) that no call uses: without
  one of its own a call to a stalled engine waits for ever, while
  `specs/008-grpc-client-library/spec.md:71` says that it "MUST NOT hang
  indefinitely". `CallEnds` therefore speaks of calls with a timeout.
- Prompt embeddings of another type or rank become a text digest and are
  answered with 200 (`completions.py:49-64`), where
  `specs/010-phase-6/contracts/completions-proto.md:80` has `INVALID_ARGUMENT`;
  the routers' mapping of `INVALID_ARGUMENT` to 422 is met by no request they
  build.

Deployments and scripts:

- The token, the URLs and `ready` are separate reads (`modal_endpoint.py:446`): a
  worker of an earlier run that is still alive can have its URL read before the
  worker of this run puts its token, which the check of the token is meant to
  exclude. `OwnEndpoints` assumes that no such worker is there.
- The smoke check of the real engine is a task that nothing awaits
  (`modal_bench_rest_grpc_server.py:323`): the servers start whatever it finds,
  although its docstring has it surface failures "before the gRPC + REST servers
  begin accepting traffic" (`:297-303`).
- A target of the three-way benchmark that dies turns its requests into failed
  results, and `bench_modal.py` writes its reports and exits with 0
  (`bench_modal.py:478`), against FR-008
  (`specs/008-grpc-client-library/spec.md:76`).
- A worker function that raises after it has started its server (opening the tunnel
  or a call on the Dict, `bench_modal.py:174-184`, `:270-280`,
  `modal_frontend_serve.py:156-168`; starting the proxy,
  `modal_frontend_smoke.py:166`) has no `finally` that kills it. `NothingLeft` says
  that this is the only such case.
- The clean-up of the benchmark's Dict (`bench_modal.py:188`, `:284`) is neither
  suppressed nor in a `finally`; keys it leaves are cleared by the next run before
  it spawns anything.

The monitor:

- Without `--pid` and `--json-out` the loop has no exit, although the docstring
  lists the closing of stdin as one (`monitor_m6_2_sweep.py:23-25`).
- The largest `i=` of the log wins (`monitor_m6_2_sweep.py:289`). After a resume that
  has lost a line and appends to the old log, the display stays ahead of the
  checkpoint until the sweep has measured as many blocks again.
- Events of skipped blocks are not parsed: after a resume the display lags until
  the first block is measured.
- `write_m6_2_report` opens the artifact in place, so a reader may find it half
  written.

## 8. What is not modelled

- The client library's `complete_stream`: the read loop of the proxy's
  `stream_complete`, which `StreamBridge` has, without a deadline of its own and
  with the application in place of the web server.
- The request pools of `runner.py` and `rest_cohort.py` and the topology probe.
  The dispatchers' gather is in `PreemptionRecovery`; the loops of `runner.py` turn
  each exception into a result inside the gather, and `run_rest_cohort` has no
  caller outside its tests.
- The REST shim: the frontend's generator protocol with HTTP as its wire format.
- The measurement algorithms: medians, bootstrap intervals and thresholds over
  reals. Over a few integers a reference definition would repeat the code.
- Two clients whose workers share one Dict at the same time, beyond a stray
  worker of an earlier run; the code detects some of these by the token.
- The content of text, prompts, metadata and timings; formatting; logging.
- Scripts that download or compute corpora, reports, command line: no state
  beyond one call.
