# A verification project for Samosa

Samosa (this repository) runs a 35-billion-parameter mixture-of-experts model on
a laptop: an engine in C streams experts from disk through a bounded cache,
serves one generation at a time over a loopback HTTP server, and saves every
conversation as a sealed snapshot; a Python gateway chooses, starts and stops
the engine and downloads models. This directory holds TLA+ models of the parts
whose correctness depends on order, limits and failures, the TLC configurations
that check them on small instances, and proofs, checked by TLAPS, of the
properties that matter most, for every value of the constants.

`PROJECT.json` lists the components, the runs, the mutants that show that every
property can fail, the map from definitions to lines of the source, the hazards
and the theorems.

## 1. The system, part by part

| part | state | operations | who it meets | what is hard |
|---|---|---|---|---|
| Expert cache, `src/expert_cache.c` | entries (key, base, residual, charges, clock stamps, queue), counters per layer and in all, a probe table | get, peek, insert_base, promote, remove, apply_pressure, destroy | the engine calls it and owns the payloads it releases through a callback | admission plans with one set of counters and evicts with another; unsigned counters in three places; a clock that overflows |
| Expert streaming, `mlp_moe` and the ESlot pool in `src/qwen36b.c` | scratch slots, a pool of handles, slabs that change places, pointers to cached experts | look up a batch, read what is missing, compute, offer it, react to memory pressure | cache, its release callback | pointers kept over admissions that evict; swaps undone by a refusal |
| Serve scheduler, `serve_scheduler_*` | mutex, condition variable, two ticket counters, active, waiting, stopping | acquire, release, stop | every handler that needs the model | lost wakeups, bounds, the order of admission, stop |
| Serve handlers, `samosa_serve_*` | cancel flag, image buffer, context settings, saved conversations | chat, compact, settings, cancel, shutdown, the signal handler | scheduler, snapshots, HTTP server | state read before a wait and used after it; early returns that must release |
| HTTP server, `src/samosa_http.h` | listener, stopping, the count of connections | accept, one thread per connection, stop, drain | handlers | a connection accepted while the server stops, or never started; a client that stops reading |
| Session persistence and generation, `session_*`, `generate*`, `run_chat` | transcript, KV rows, recurrent state, snapshot file | prefill, step, cancel, trim, save, resume | handlers, file system | crash between write and rename; state ahead of its tokens; a cancel between two steps |
| Compaction, `compact_session` | old and new transcript | summarise, cut, rebuild, replace | sessions | where it cuts; a failure must keep the old snapshot |
| Context policy, `context_*`, `compaction_should_run` | limit, mode, threshold | start-up limit, preflight, settings | handlers | integer percentages, guarded sums, a limit lowered under queued turns |
| Generation control, `thinking_budget.h`, `repetition_guard.h`, `choose_controlled_token`, `adjust_threads` | thinking open (twice), transition position, tail of tokens, thread count | choose a token, force a close, stop a loop, follow the heat | generation loop, sink | off by one at the budget and at the repeats; two flags for one block; a count that outlives its turn |
| Gateway, `tools/samosa_gateway.py` | child process, selection, generating, upstream response, ledgers | select, cancel, restart, chat, compaction, proxy, shutdown | engine or llama-server, browser, downloads | checks under a lock and actions outside it |
| Model downloads, `tools/samosa_models.py` | partial and final files, worker thread, curl, state | start, cancel, resume, verify, install | gateway, curl | resume after a crash, orphaned curl, wrong digests, a cancel while the network hangs |

Left aside for good: tensor kernels, attention and the vision encoder
(floating-point results), tokenizer, JSON and safetensors readers (sequential
parsers that fixtures reach), measurement modes (routing trace, teacher metrics,
refinement report), the converter, packaging and experiment scripts, and the
vendored `stb_image.h`.

What makes each part correct, in a sentence:

* cache: the budget and the layer floors always hold, every handle is owned by
  exactly one entry and released exactly once, accounts equal contents, an
  admission either gets its room or changes nothing, victims leave in the
  policy's order, every call returns;
* scheduler: one admission at a time, in ticket order, a bounded queue, no
  sleeper whose turn has come, nothing admitted after a stop;
* handlers: every path gives the model back once, no turn overwrites another,
  every turn fits the limit in force, a cancel reaches its turn and no other, a
  server told to stop stops if its clients read, having served all of them;
* sessions: at every moment the file at the snapshot's path is a complete
  snapshot whose states are those of its tokens, and a resumed conversation
  continues as if it had never stopped;
* streaming: every buffer is in one place, cached bytes are those of their key, a
  batch is computed with the experts it was routed to;
* generation: a thinking block that outlives its budget is closed by the whole
  transition, a loop is stopped at its first repetition, client and generator
  agree on what is reasoning, threads are added only in a cool machine;
* context: what fits is the sum, a turn that does not fit is offered a
  compaction first, a compaction that starts has room;
* gateway: no child is forgotten, one model in memory and the selected one, a
  turn's flag always comes back, a Prism server whose pass was cancelled is ended;
* downloads: a file's name is given to the pinned bytes only and complete means
  installed, both until two downloads meet at a file; a cancel ends the thread.

## 2. Modules

| module | models | runs | theorems |
|---|---|---|---|
| `RangeSums`, `RangeSumTheorems` | sums of a function over 1..n, and what a change of one value does to them | | lemmas |
| `ExpertCache` | the residency state machine of the cache | `cache` | `ExpertCacheProofs` |
| `ExpertStreaming` | a layer of experts on top of the cache, EXTENDS `ExpertCache` | `streaming` | `ExpertCacheProofs` |
| `DecodeControl` | what steers the decode loop | `decode` | `DecodeControlProofs` |
| `ECacheHash` | the probe table behind the cache's lookups | `cache_hash` | `ECacheHashProofs` |
| `FifoAdmission` | what the scheduler promises: a queue, a holder, a stop | as a property of `scheduler` | `SamosaServeProofs` |
| `ServeScheduler` | what it does: tickets, a condition variable, wakeups | `scheduler` | `SamosaServeProofs` |
| `ContextPolicy` | the arithmetic of limits and thresholds | in `serve_*` | `SamosaServeProofs` |
| `SamosaServe` | HTTP server and handlers, EXTENDS `ServeScheduler`, `ContextPolicy` | `serve_turns`, `serve_stop`, `serve_image` | `SamosaServeProofs` |
| `SessionTurn` | one conversation: prefill, decode, cancel, trim, save, crash, resume, compaction | `session` | `SessionTurnProofs` |
| `GatewaySupervisor` | the threads that start, stop, use and cancel the gateway's child | `gateway` | `GatewaySupervisorProofs` |
| `ModelDownload` | installing a model's files from two processes | `downloads`, `download_pipe` | `ModelDownloadProofs` |
| `MC...` | constants and symmetry for TLC | | |

### ExpertCache

A call into the cache is a sequence of steps, because its loops choose one
victim at a time. `call` holds the call under way (its phase is `idle` between
calls): an insertion or a promotion goes through `StartAdmission` (the tests of the call),
`PlanVictim`/`PlanSucceeds`/`PlanFails` (the loop of `can_make_room`, on the
`plan_*` counters), `MakeRoomDemote`/`MakeRoomEvict` (the loop of `make_room`,
on the live ones) and `CommitInsert`/`CommitPromote`. `ApplyPressure` and
`Destroy` have their loops too. `ReleaseBase` and `ReleaseResidual` are the two
functions through which every payload leaves; `lent` is the set of handles the
cache holds. `plan` holds the planning fields, the marks on the entries
(`planned_base_evict`, here `plan.victims`) among them: they outlive the call
unless it clears them (`Unmarked`), and a marked base is evicted by no loop.
The policy order is `Precedes`, the victim `First`, the clock `NextClock` with
`Rescaled` at `MaxClock` (the source's `UINT64_MAX`). Sizes are logical bytes
that `Charge` rounds up to the alignment.

Left out: hit, waste and read telemetry (no decision reads it), null and magic
checks, and the probe table: here a lookup is a search of the entries, which
`ECacheHash` justifies.

### ECacheHash

`bucket` is the table and `entry` the keys of the slots; `home` is the hash, any
function from keys to buckets. The loop of `hash_find` is given by what ends it:
`Probe(k, i)` is its i-th bucket, `StopsAt` the first one that ends the search,
`Finds` a search that ends at its key, `FreeBucket` the bucket a miss returns.
`Erase` is the table part of `release_base`, with the test that starts a
rebuild; `RebuildSlot` is one turn of the loop of `hash_rebuild`; `Place` is the
end of an insertion. Which entries a call evicts is `ExpertCache`'s business:
here any, any number of times (`call = "room"`).

### ExpertStreaming

The composition of the engine with its cache: the steps of a cache call are
those of `ExpertCache`, and its release callback (`eslot_release`) is applied
to whatever a step releases, so an eviction in the middle of an admission feeds
the pool at that moment. `moe` holds the locals of `mlp_moe`: the experts left
to do, where each expert of the batch was found (`use`), the slot being offered.
A slab is a buffer; `bytes` says whose bytes it holds, `slot` which slab is
behind each handle, `ws` which is in each scratch slot. `StartLayer`,
`ServicePressure`, `PressureServed`, `Route`, `WholeLayer`, `LookUp`, `Load`,
`Compute`, `OfferPooled`, `OfferNew`, `Admitted`, `Refused`, `NextBatch` and
`TurnEnds` are the stretches of code between two cache calls. The offer swaps
slab and handle before the cache is asked, and `Refused` swaps them back.

Left out: precision masks of the refinement shelves, read-ahead hints, what the
whole-layer read of a long prompt does inside its own buffer, and all numbers.

### DecodeControl

One request after another in one process; each token may be any token.
`Choose` is `choose_controlled_token` (the budget, `thinking_budget_next`, then
the model), `Sink` is `serve_token_sink`, `Guard` the repetition guard and the
limit, `Top` the top of the loop with its look at the temperature every few
tokens (`adjust_threads`, whose statics survive the turn). `thinking` and
`sinkOpen` are the two flags that follow the block, in the generator and in the
sink. `StopsAtFirstLoop` and `BudgetHolds` compare the code's index arithmetic
with definitions by sequences (a word said `Repeats` times at the end; the
transition as a prefix of what follows the budget).

### ContextPolicy

Operators only. `FitsIn` keeps the three guarded comparisons of `context_fits`,
`ShouldCompact` the 64-bit sum and the ceiling of `compaction_should_run`,
`AutoLimit` the host tiers, `KvBytesPerToken` the guarded product,
`CanSummarize` the room of `compact_session`. `SamosaServe` instantiates them
with its settings, and `MCSamosaServe` evaluates the examples of
`tests/test_samosa_serve.c` on every run.

### ServeScheduler and FifoAdmission

Each critical section of the mutex is one action: `Acquire` up to a refusal, an
admission or the wait; `Recheck` from a wakeup to the next wait or the return;
`Release`; `Stop`. A waiting thread is `asleep`, or `woken` and has not looked yet;
`SpuriousWake` wakes anyone. `FifoAdmission` has a queue as a sequence, the set of
who holds the model, a stop, and why each thread was last turned away, and nothing
else: a refusal is a step of it, `Refuse`, which asks for a full queue or a stop.
`ServeScheduler` implements it (`ImplementsFifo`) with the queue read off the
tickets: `Ordered(Queued, ticket)`, the waiting threads listed by ticket.

### SamosaServe

`Threads` are connection threads; `phase[t]` is the place of t's handler between
the points where it can be interrupted by another thread, and `request[t]`,
`resume[t]`, `base[t]` are its locals. `Accept`, `Count`, `Connect`,
`ConnectFails`, `StopAccepting` and `AcceptFails` are the accept loop, with
`active_connections` as the code counts it: one more before the thread exists,
one less where it cannot be started or ends. `Drain` is the wait for the count to
be zero, on the condition variable that `Disconnect` broadcasts.
`ClientStopsReading` blocks a thread that writes (`blocked`): `samosa_send_all`
has no timeout, and neither a cancel nor a stop reaches it.
`SignalCancels` and `SignalStops` the two halves of the signal handler; the rest
are the handlers, one action per stretch of code between two interactions:
`ParseMessages`, `CheckTurn`, `Enter` (the scheduler), `Remeasure`,
`StartCompact`, `EndSummary`, `RecheckContext`, `ChangeSettings`, `BeginTurn`,
`EndPrefill`, `EndTurn`, `GiveBack`, `DisposeImage`, `RaiseCancel`,
`StopScheduler`, `CloseListener`, `Disconnect`. A conversation's snapshot is its
length and the number of turns it remembers; `saved` counts the turns written,
and `asked` notes whether a cancel came since the turn under way began. Failures
that the environment decides (memory, disk, client) are alternatives that are
always open.

### SessionTurn

One conversation in one process. A token is its kind (a message start, an end,
`<think>`, `</think>`, an image pad, a piece that ends a sentence, other text): the
code looks at nothing else when it stops, trims, resumes or cuts. `rows` is K and
V, one record per position with the kind it was computed from and its rotary
position; `recurrent` is the DeltaNet state as the sequence of what was stepped
into it, which is why it cannot be truncated as the rows can. `Generate` and
`Resume` are the two prefills of `run_chat` (`StartTurn` clears the cancel flag
first, as the handler does); `ChooseToken`, `TokenSink` and `StepToken` are the
three parts of a turn of the decode loop, between which `RaiseCancel` may come;
`Finish` is the trim; `SaveCreates`, `SaveWrites`, `SaveRenames` the steps of
`session_save`, each of which may fail (`SaveFails`) or be the last one
(`Crash`). `StartCompact`, `EndSummary` and `PrefillStep` are `compact_session`
and share the save. The summary turn itself is one step: it runs on a resumed
copy and its state is thrown away.

The order of a cancel and a step matters: the flag is read at the top of the
loop, after the last token was stepped, and in the sink, before. So a cancelled
turn may save a recurrent state that is ahead of its tokens, by those it dropped
or, when nothing is dropped, by the last one. The comment on `cancelled_turn_trim`
accepts this as a residue; `residue` marks such a conversation, and
`StateIsOfTheTokens` says that nothing else ever leaves one.

### GatewaySupervisor

A step is one hold of `supervisor.lock`, or one call outside it that waits (for
a child's end, an answer, the network). `pc[a]` is where an actor is: request
threads, the helper thread a cancel starts, and `main`. `StopTake`, `StopWait`
and `StartChild` are `stop()` and `start()`; `Select`, `DownloadCompleted`,
`RestartForContext`, `HelperRestart`, `ShutdownAll` and `Terminate` are made of
them. `Chat*`, `Pass*` and `Compact*` are a turn, whose passes stream from the
child it connected to (`turn[t].by`), `Proxy*` the requests passed through,
`Cancel*` the cancel handler. The engine is asked to cancel (`CancelEngine`); when
that request fails, for whatever reason and however alive the engine is, and
always for a Prism server, the handler closes what is registered (`CancelClose`),
which need not be what the pass reads from; only a Prism server is then restarted.
`turn[t].cut` notes how the close left a pass. A child may end at any moment.
`raced`, `cut` and `ledger` are history.

### ModelDownload

`install_model` in the gateway's thread and in `samosa pull`, which know nothing
of each other: `Check`, `Verify`, `Fetch`, `CancelCurl`, `CurlEnded`, `Hash`,
`Replace`, `Unpack`, `Complete`. A file is a sequence of blocks; a curl writes
right or damaged ones at the place its `--continue-at` found, and its
descriptor follows the file through a rename or an unlink (`Follow`), so a curl
that outlives its process keeps writing. `Dies` ends a process at any step. Two
downloads may meet at a file, or one may meet a curl that was left: both go on,
and `met` notes that it happened.

## 3. What the runs show

| run | instance | shows |
|---|---|---|
| `cache` | 2Q; 3 slots, 2 layers x 2 experts, 4 handles, sizes that round up to 2 and 4, budget 6; one layer with an entry floor and a byte floor; clock bound 4 | accounts, budget, ownership, room promise, policy order, floors, rescale; a refused admission changes nothing |
| `streaming` | LRU of 2 entries, 4 experts in batches of 2, a pool of 1, 6 slabs of two sizes, pressure | buffers in one place, cached bytes those of their key, a batch computed with its experts; every cache call returns |
| `decode` | turns of 2 or 6 tokens, budgets 0 to 2, a transition of 3, loops of 3 repeats and period up to 2, four machines | budget, loop guard against its definition, agreement of sink and generator, threads |
| `cache_hash` | 2 slots, 4 buckets, 5 keys, every hash | lookups agree with the entries, an EMPTY bucket is left |
| `scheduler` | 4 threads, queue of 2, 5 tickets | tickets, wakeups; implements `FifoAdmission`; every queued request is answered |
| `serve_turns` | 2 threads, 4 connections, limits 4..7 | model returned, limit, no lost turn, cancel reaches its turn |
| `serve_stop` | 3 threads, 3 connections, 2 clients that may stop reading, chats and shutdowns, signals | stop leads to exit if clients read on; a clean exit is drained |
| `session` | 3 turns or compactions, answers of up to 2 tokens, a 1x2 image, a tail of 10 tokens, prefill chunks of 2 | snapshots whole, rows and states those of the tokens, history kept, a turn reported saved is on disk |
| `gateway` | 3 request threads, a helper and main, 3 child processes, 2 models, 1 tool round | children accounted for, the flag comes back, one model while no two operations meet, a cancelled Prism server ends |
| `downloads` | gateway and command line, 3 downloads of an archive of 1 block and a file of 2, 3 curls | until two downloads meet: installed means verified, complete means installed; always: a cancel ends the thread |
| `serve_image`, `download_pipe` | 2 threads; 1 download with a pipe of 1 line | findings |

Bounds. Two layers are needed for floors to differ, three slots for a plan with
two victims and a protected entry, two sizes for a victim that is not enough;
with a budget of three small bases both limits (bytes, slots) bind, and plans
fail after they have marked a victim (`RefusalChangesNothing` needs that); the
fourth handle is the one to offer when three are in use. Pressure asks for
everything or for half. `MaxClock` makes the clock
rescale in every run; with 4, three stamps still differ after a rescale.
For the table, four buckets are the fewest that two slots may have; with every
hash and five keys all probe paths occur, those that wrap around included, and
the rebuild starts at the second tombstone. For the scheduler, four threads and
a queue of two are one holder, a full queue and one that is refused; tickets
beyond the thread count let a thread come back.
For the server, two threads and one conversation are the smallest instance with
a race between measuring and running; the third of `serve_stop` lets two
handlers be anywhere while another stops the server.
For a conversation, three calls are a text turn, a turn with an image and a
compaction or a resume; two answer tokens let a sentence be followed by more, or a
block be closed first. With a tail of 10 the image's message can lie in the tail
of a transcript that is still worth compacting, which is when the cut must move;
the branch of `compaction_tail_start` for a long last message (`before`) is not
reached at this size. `MaxTickets`, `MaxConnections` and `MaxTurns` bound the
length of a behaviour.
For streaming, a layer of three experts in batches of two has a second batch
whose admissions evict what the first left; the small expert makes slabs of two
sizes, so a pooled slab must sometimes be replaced; a pool of one is full when
two are evicted. For decoding, six tokens hold a loop of three repeats of a word
of two, and a transition of three with `</think>` in the middle after a budget of
two. The gateway needs one thread that uses the model, one that changes it and
one that cancels; a third child exists only when two operations race. Two
processes, one of which dies, are the fewest that leave an orphaned curl to
another; `MaxDownloads` lets a third begin at what two have left. `MaxExtra` bounds
how far a file that two curls append to grows beyond its size. Meetings are followed
to their end: `CancelEnds` holds in them too, `VerifiedUntilMet` and
`CompleteUntilMet` speak of what comes before (see the disagreements for what comes
after). Of three handlers one serves the stop and two may be blocked by their clients.

Deadlock is checked for streaming, decoding, the scheduler, the probe table and
the conversation. The cache ends destroyed, the server and the gateway exit, and
the downloads are used up (`MaxDownloads`), so those configurations switch
the check off; `CallsReturn`, `StopLeadsToExit`, `CancelledServerEnds` and
`CancelEnds` say what stopping early would violate.

Fairness. `StreamSpec` (and `FairSpec` of the cache alone) is weak fairness of
the steps inside a cache call: a sequential loop runs on; nobody owes it a next
call. `SchedFairSpec` is weak
fairness of a woken thread's `Recheck` and of `Release` by the thread that has
the model. The second is what the lock's user owes it, so `QueuedIsAnswered` is a
promise to users that pay; the server pays as long as its clients read. `FairSpec`
of the server is weak fairness of each handler thread that is not blocked in
`send()`, of the accept loop and of the second half
of a signal handler that has begun. The operating system schedules runnable
threads, a turn is bounded by `max_tokens` and a read by its timeout; clients,
signals and accept errors are owed nothing, so `StopLeadsToExit` is stated under
the condition that clients at last read on (`<>[](blocked = {})`), without which
it is false. Of the gateway only the threads inside `stop()` and `start()` are
fair: the wait for a child has a timeout and a kill. A model may generate for as
long as it likes, and a browser read as slowly. The download
thread is scheduled; curl and the network are owed nothing, except in
`NetworkSpec`, under which `download_pipe` still fails. Strong fairness is used
nowhere.

### Findings

* `serve_image`: the image buffer is freed and replaced by handlers that do not
  have the model, while another waits with its image or prefills from it.
* `download_pipe`: curl's progress meter goes into a pipe that is read only after
  curl has ended. In a download long enough to fill it, curl waits for the
  gateway to read and the gateway for curl to end.

### Disagreements kept as configurations

These configurations are expected to end in a counterexample; each states what a
document or comment says and the code does not do.

* `MCSessionTurnThinking.cfg` (`CancelledOutsideThinking`): the trim of a
  cancelled answer looks for `<think>` in the answer, but the prompt has opened
  the block (`qwen36b.c:3855`); a turn cancelled while it thinks is saved up to a
  sentence of its thoughts, with the block still open, where the comment and the
  work log promise the previous snapshot.
* `MCSessionTurnImages.cfg` (`PositionsConsecutive`): on resume the position
  offset of an image is computed from the square root of its pads
  (`qwen36b.c:3981`), during its own turn from the larger side of its grid; after
  an image that is not square the resumed conversation continues at other
  positions. With square grids they agree.
* `MCSamosaServeShutdown.cfg` (`ShutdownCancelsTurn`): `/v1/shutdown` raises the
  cancel flag before it stops the scheduler (`qwen36b.c:5423`); a request admitted
  in between clears the flag and decodes on. `docs/APP_TASKS.md:91-93` counts
  clean shutdown among the things that cancel.
* `MCSamosaServeSignal.cfg` (`NoAdmissionAfterSignal`): SIGINT and SIGTERM do not
  stop the scheduler (`qwen36b.c:5448`), so queued requests still run in turn.
* `MCSamosaServeDeaf.cfg` (`StopAlwaysLeadsToExit`): one client that keeps its
  connection and stops reading blocks its handler in `send()` (`samosa_http.h:46`;
  only the read has a timeout, `:181`), with the model if it is generating.
  Neither a cancel nor a stop is seen there, and the drain (`:262`) does not end.
* `MCGatewaySupervisorEngine.cfg` (`CancelledEngineEnds`): a request to cancel that
  a live engine does not answer within three seconds, or drops, is followed by a
  close that may reach another response, and no restart (`samosa_gateway.py:414-435`):
  the cancel says it has cancelled and the engine may generate on.
* `MCGatewaySupervisorInterrupt.cfg` (`DownloadInterruptsNothing`): a model that is
  started between the test of a finished download and its `select` is stopped, where
  the comment says it is not interrupted (`samosa_gateway.py:569-577`).
* `MCGatewaySupervisorModels.cfg` (`OneModelInMemory`): while one operation waits
  for its child to end, another may start one (`README.md:25` says one at a time).
* `MCGatewaySupervisorOrphan.cfg` (`NoneOutlivesGateway`): a helper that has looked
  at `stopping` (`samosa_gateway.py:439`), or a selection, starts its child after
  `main` has stopped the last one, and the child outlives the gateway.
* `MCModelDownloadMet.cfg` (`InstalledIsVerified`): two downloads at one file, or a
  curl that outlives its process, change a file between its digest and its rename,
  or after it; `docs/INSTALL.md:63-65` says it has its name only once validated.
* `MCGatewaySupervisorLedger.cfg` (`LedgerOfOneModel`): a turn that a switch cut
  off saves its messages in the ledger of the model selected meanwhile
  (`samosa_gateway.py:1646` after `:382`), against
  `docs/MODELS_AND_INTERNET.md:63-64`.

One more configuration passes and is kept for its instance: `MCExpertCacheCalls.cfg`,
an LRU cache of two slots and four keys on its own, with promotions and
`destroy`: calls return and refusals change nothing.

Met while modelling, and not stated as properties of a run:

* A partial file of full size with a wrong digest is kept
  (`samosa_models.py:294`); the next attempt asks to continue at its end, so no
  retry succeeds (`INSTALL.md:152-153` suggests one).
* The free-space reserve of a download does not count the unpacked runtime.
* A conversation whose last turn left fewer than 256 tokens beside the
  instruction cannot be compacted, and with automatic compaction every later turn
  is answered `compaction_failed` (`SummaryFits`, `RefusedTurnIsCandidate`).
* When `accept` fails for another reason than a stop, the server returns at once
  without waiting for its connections (`samosa_http.h:248`); `CleanExitIsDrained`
  is about clean exits only.

## 4. What is proved

Every invariant and every action property that a passing run checks is also a
theorem, for all values of the constants. Those about `ContextPolicy` are about
all numbers; the others are of the form `Spec => []P`, `Spec => [][A]_vars` or,
for a refinement, `Spec => Abstract`.

### Assumptions

All are named, and evaluated by TLC on the instances.

* Numbers are natural where the code has unsigned counters, and positive where it
  refuses or never has zero: `CacheAssumption`, `HashAssumption` (two buckets per
  slot, as the table is sized), `NumbersAssumption`, `BoundsAssumption`,
  `FilesAssumption`. `MaxClock >= 3` stands for the source's `UINT64_MAX`.
* The threads that may queue are finitely many (`SchedulerAssumption`), as are the
  gateway's (`ActorsAssumption`); the first limit is between 2 and the model's
  (`ServeAssumption`), which `LimitIsTheModels` proves of the code's start-up.
* A routing lists no expert twice, and what the engine asks of the cache is among
  what callers of the cache may ask (`StreamAssumption`, `CallerAssumption`).
* The transition that closes a thinking block contains `</think>`, since
  `run_chat` refuses another one (`TransitionAssumption`).
* The values that stand for "none" differ from those that stand for something
  (`SlabAssumption`, `TokensAssumption`, `ValuesAssumption`, `NoneAssumption`,
  `ProcsAssumption`, the last conjuncts of `CacheAssumption`, `ServeAssumption`
  and `SessionAssumption`).

### Expert cache

* **Accounts** (`AccountingCorrect`, `TypeCorrect`). The counters are sums over
  the slots. `RangeSums!Total(n, f)` is a recursive function, and the lemmas of
  `RangeSumTheorems` say what changing one value does to it: that is all an
  operation does. The two are proved together, since "no counter goes below zero"
  (typing) needs "the counter is a sum that contains this charge".
* **Budget** (`BudgetKept`). `Payload <= Budget` alone is not inductive: the step
  that adds a charge knows only that `make_room` stopped. The invariant adds that
  in the room phase the call's charge fits the budget, so `Short` being false
  means the addition fits.
* **Room promise** (`RoomPromise`). While planning, what the plan has freed is the
  sum of the marked charges and all residuals; after it, what is left of the plan
  (`schedule`, a history variable) is a sequence of victims that are each the first
  of those the floors then allow, and whose charges cover what is still required.
  The live loop takes the head of it, because its counters are those the plan
  started from and because no mark is left on an entry (`MarksOK`, proved for every
  step): a plan that left its marks would hide its victims from the live loop.
* **Ownership** (`HandlesOwned`). `OwnedInv`: the handles lent to the cache are
  the union of what the slots hold, no two planes hold the same one, no two
  entries have the same key. An insertion may only offer a handle that is not
  lent, and a lookup by key is what keeps keys apart.
* **Floors** (`FloorsHold`), an action property: both places that evict test the
  live counters of the victim's layer, which `Accounting` ties to the entries.
* **Recency** (`RecencyKept`). Halving the clock (`Rescaled`) keeps the order of
  both stamps, the one of use and the one of admission; only the entry that a call
  touched is then the last used, and only an admitted one is the last admitted. The
  invariant is that no stamp is ahead of the clock (`Stamped`).
* **Order** (`PolicyIsFollowed`) and **refusals** (`RefusedAdmissions`). Both
  compare the entries with those at the start of the call (`call.before`).
  `OrderOK` says what a call in its room phase may have changed by then: the
  slots that moved were ranked before those that stayed, the ranks of those that
  stayed are as before, and a base has left only when it had to and when no
  residual is left. A refused call never reaches the room phase, by `RoomPromise`,
  and clears the marks of its plan.

* **Calls end** (`CallsGoOn`, `CallsAreShort`): all of `CallsReturn` but the use of
  fairness. `Precedes` is a strict order on any entries, so a nonempty set has a
  first one (`FirstExists`, by least elements of ranks and slot numbers), and no
  loop waits for a victim that is not there; `StepsLeft` counts the slots the plan
  may still pick and the planes that are left, and every step of a call takes
  from it. It never exceeds `3 * MaxEntries + 2`.

### Expert streaming

* **The engine uses the cache as its callers may** (`StreamUsesCache`): every step
  of `ExpertStreaming` is one of `ExpertCache` or leaves it alone, so every
  theorem about the cache holds inside the engine.
* `EngineInv` is the cache's invariant and `OwnedInv` together with `StreamInv`;
  from it `BuffersOwned`, `HitsAreTheirExperts`, `ComputesRouted`. None of the
  three is inductive alone. That a slab behind an offered handle is in one place
  needs that the cache took the handle exactly if the call ended well
  (`CallerOK`), which needs that no call of the cache is under way in the other
  phases. That a refusal undoes the swap needs that eviction during the same call
  cannot have released the offered handle (it is not lent: `HandlesOK`). That a
  hit of the batch is still there when it is computed needs that offers come after
  all computations of the batch, and that each miss has its own scratch slot
  (`BatchOK`); that what is offered under a key is the bytes read for it is
  `ContentsOK`.

### Probe table

* `LookupsAgree` and four more. The invariant `HashInv` says that every resident
  entry is reached: its bucket is on its key's probe path and no bucket before it
  is EMPTY. Erasing writes a tombstone, so it keeps every other path; placing
  fills the first usable bucket, so it ends no path. During a rebuild the same
  holds of the entries already put back. That an EMPTY bucket remains is a count:
  entries in use map one to one into the slots, tombstones are at most a quarter,
  and the table has two buckets for every slot.

### Scheduler

* `SchedInv`: the tickets of waiting threads are distinct and fill the interval
  between the counters; from it, that whoever is asleep is either not next or
  behind a holder, or has been woken (`NoWakeupLost`).
* **It implements `FifoAdmission`** (`SchedulerIsFifo`), step by step: a wait
  appends to the abstract queue, an admission takes its head, a woken thread that
  goes back to sleep and a spurious wakeup are stutters, a refusal is one for its
  reason, and after a stop a thread leaves from any place. The lemmas are about `Ordered`: the listing of a finite
  set by distinct keys is the one sequence that is increasing in the keys and
  lists the set, so adding a greatest key appends, and removing an element removes
  it. After a stop the tickets of waiting threads are no longer an interval;
  `QueueInv` keeps what the listing needs, that they are distinct and handed out.

### Server

* `ServeUsesScheduler` first: every step of the server is a step of
  `ServeScheduler` or leaves it alone, so the theorems about it hold here, the
  refinement included (`HandlersAreServedInOrder`). Then
  `InStep` (phase and admission agree), `StoreInv` (snapshot, base and limit
  belong together: nothing changes a snapshot or a limit while a thread is between
  its measure and its save, because whoever does must have the model).
* **The drain** (`ConnectionsCounted`, `CleanExit`). `CountInv`: the count is the
  number of threads that serve a connection, and one more from the count to the
  start of the thread. The accept loop is one thread, so when the drain reads the
  count there is no such one, and zero means that nobody is there; nothing in the
  drain looks at the threads themselves.
* **Context policy**, for all numbers: the guarded comparisons are the sum, and
  each difference is an int when it is taken (`FitsIsTheSum`,
  `FitsNeverOverflows`); the threshold is the percentage rounded up, so whoever
  does not fit has passed it (`RefusedTurnIsCandidate`); a compaction has room
  exactly when 256 tokens remain (`SummaryFits`), which a tenth of the limit
  guarantees below every threshold the settings accept
  (`BelowThresholdCanSummarize`); the start-up limit is what `ServeAssumption`
  assumes (`LimitIsTheModels`); no product in the size of K and V wraps
  (`KvBytesNeverWrap`).

### Sessions

* **Snapshots** (`SnapshotRows`, `SnapshotState`, `HistoryKept`). `SessionInv`
  follows the call under way: how many rows there are at each phase, that the
  recurrent state is exact or marked, that while a turn decodes the history on
  disk is a prefix that ends before the answer (so that no trim reaches it), and
  that what a save writes is already a snapshot that may follow the last one.
  Crashes and failures then need nothing: they leave the file alone.
* **A whole snapshot or none, and what a client was told** (`SessionTyped`,
  `SavedBeforeTold`). `TypeInv`, on top of `SessionInv`, adds that the rows to be
  saved are typed, that the temporary file is a snapshot of this transcript when
  it is renamed, and that the file under the name is that one when the reply is
  sent. Rotary positions need that the distance between tokens and positions is an
  integer, for an image of any grid and for a resumed transcript with any number
  of images: `RunLength` and `HistoryDelta` are sums by `Total`, so no induction
  over the transcript is needed.

### Generation control

* **Budget** (`BudgetKept`). `BudgetHolds` is inductive with one fact more: the
  generator's flag says that no `</think>` is among its tokens (`ThinkingTrue`).
  The lemmas say how the sequence after the budget grows by one token. That the
  transition ends with `</think>` is not assumed: it is said to its end wherever
  the `</think>` in it is.
* **What the client reads** (`ClientReadsWhatWasDecoded`). `SinkOK`: the sink's own
  flag is a function of the tokens it has taken, and the i-th piece is that of the
  i-th word. It is proved by the place of a word among the words.
* **Loops** (`LoopsStop`). `GuardOK`: wherever the loop goes on, no prefix of the
  tokens ends in a loop; the guard's loops over indices are the definition by
  sequences, for every period and every number of repeats.
* **Threads** (`ThreadsAreBounded`). `ThreadsOK` ties the counter of cool samples to
  the samples taken: the last `greens` were cool and at the present number of
  threads.

### Gateway

* **No child is forgotten** (`NoChildForgotten`): whoever replaces
  `supervisor.process` does so when the child there has ended, and whoever clears
  it holds the child. It holds however many lifecycle operations race.
* **One model** (`OneModel`), while no two lifecycle operations meet. `OneAtATime`
  adds what is true between the steps of an operation: after the wait nothing
  runs, and what runs is what is selected.
* **The flag** (`FlagReturns`): only a thread that begins a turn takes the flag,
  and only the end of a turn leaves the places of a turn (`TurnsKept`).

### Downloads

* Nothing in the code keeps two downloads from meeting at a file, so the theorems
  are about what holds until then, in any behaviour: `VerifiedInstalls` and
  `CompleteInstalls` are the properties the run checks. `OpenFilesExist` says that a
  curl follows its file through renames and unlinks; `FilesOwnedOnce` (`FilesOwned`)
  that nobody but the curl of the process that waits for it writes to a file, so
  that what was hashed is what is renamed, and that no curl that is left has an
  installed file open; `InstalledSoFar` is the progress of the loop over the files.

### Only model-checked

Liveness (`CallsReturn`, `QueuedIsAnswered`, `StopLeadsToExit`,
`CancelledServerEnds`, `CancelEnds`): fairness and `ENABLED` are out of the
prover's reach. Induction over data is too: recursive definitions are sums
(`Total`), of which only what one changed value does is used.

## 5. Not modelled

* Tensor kernels, attention, DeltaNet, the vision encoder, sampling: floating-point
  results, which no finite model distinguishes. They are most of `qwen36b.c`, all
  of `kernels.h` and of `vision.c`; with the vendored `stb_image.h` (7988 of the
  18252 lines under `src/src`) they are why the map stays far below a third of
  the engine's lines.
* Tokenizer, JSON and safetensors readers, document extractor: sequential parsers
  of one input, without state between calls; fixtures reach them.
* Request parsing of the HTTP server, and the bytes of a response.
* Of the session file, the rejection of foreign or damaged snapshots; of
  compaction, the text of the summary.
* The gateway's settings, document and web-search code, and the contents of its
  ledgers: files written whole by one thread.
* Measurement modes (routing trace, teacher metrics, refinement report), the KV
  cache prototype under `tests/`, the converter, packaging, experiments,
  installer and launcher.

## 6. Plan

1. Proofs: shorter ones where two actions are treated alike; for the loops of the
   handlers and of the download thread, counts of steps like the cache's.
2. Sessions: an instance of `session` whose last message is longer than the tail
   (the `before` branch of `compaction_tail_start`), which the present bounds do
   not reach.
3. Downloads: a property of what is left after a damaged file of full size, which
   is a disagreement and not yet a run.
