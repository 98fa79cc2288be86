# A TLA+ model of the Vidhi trading platform

Vidhi runs contestants' trading algorithms against an exchange simulator and ranks them.
This directory holds TLA+ models of the parts where the platform's correctness is decided by
interleavings, crashes, late messages and pointer structures; TLC configurations that check them; and TLAPS
proofs of the main safety properties. `PROJECT.json` maps every definition to the source
lines it stands for and lists runs, findings, hazards and theorems. Paths below are relative
to the repository root.

## 1. The system

A submission travels through four programs:

1. The **control plane** (`backend/main.go`, Go) accepts code over HTTP, takes a credit,
   writes a row to the `runs` table and starts one goroutine per submission. The goroutine
   scans, transpiles, compiles and validates the code (`backend/forge/*`,
   `backend/validator`), with the compiled `.so` cached under the hash of the code, and then
   pushes a job to Redis, or runs the Game Master itself when Redis is not there.
2. The **worker pool** (`backend/worker/job_worker.go`), goroutines of the same process,
   pops jobs, asks the sandbox manager for a container, runs the Game Master on a pair of
   reserved cores and records the outcome. A reaper puts the jobs of crashed workers back.
3. The **Game Master** (`game-master/main.cpp`, C++) simulates the exchange tick by tick:
   order book, bots, profit and loss. It shares a memory block with the sandbox process
   (`loader.cpp`) that calls the contestant's `on_tick`. A watchdog thread kills a sandbox
   that is too slow, a telemetry thread turns per-tick latencies into percentiles, which
   break ties in the ranking.
4. The **browser application** (`vidhi_context`, React) is where contestants write code, run
   it and see results, and where contests are made. Its engine (`engine/VidhiEngine.js`) runs
   code locally, in a Web Worker with a simulator of its own (`engine/simulation.worker.js`,
   which also translates Python to JavaScript), or in the cloud, through the control plane,
   whose progress arrives over a WebSocket and by polling. `store/ContestStore.js` keeps
   contests, registration and results in memory and in `localStorage`.

### Components

| Component | State | Operations | What makes it correct |
|---|---|---|---|
| Rendezvous (`rendezvous.hpp`, tick loop, `loader.cpp`) | shared memory: two sequence numbers, snapshot, orders, fills | signal, bounded wait, pack, answer | an accepted answer is the whole answer to this tick, decided on this tick's data; the loop ends whatever the contestant does |
| Watchdog (`watchdog.hpp`) | a loaded sequence number, flag | poll, expire, kill | kills only a sandbox that is late |
| Order book (`persistent_lob.hpp`) | node pool with free stack, sorted level arrays, intrusive queues, open-addressing map | `add_limit`, `cancel`, `market_order` | price-time priority; pool, queues, levels and map agree; no volume lost |
| Telemetry (`telemetry.hpp`) | ring of cache lines, two heads, two histograms | record, drain, swap, stop | no unread event damaged; windows whole; the report is of the last complete window |
| Run queue (`job_worker.go`) | two Redis lists, heartbeats, core pairs, status column | pop, run, retry, reap | no run lost; cores never shared or leaked; the queue drains |
| Forge pipeline (`main.go`) | lock table with reference counts, `.so` cache, run cache and table | submit, lock, forge steps, hand over, release | one forge per hash; locks freed exactly when unused; a job's `.so` stays; an end is recorded; a row has one writer at a time |
| Local simulator (`simulation.worker.js`) | order book, bots' rings, contestant's queue and position, run flag | start, load, batch, bots, contestant's orders, stop | book consistent; resting orders capped; position limit; the messages of the contract; a start ends, if `on_tick` returns |
| Python translator (same file) | stack of indentations, open braces | one pass over the lines | the JavaScript has the blocks of the Python |
| Browser engine (`VidhiEngine.js`, `api/client.js`) | status, current run, poll flag, key, socket, worker | start, stop, submit, poll, messages, timers | a run ends once, with its own result; what is shown agrees with what was told |
| Contest store and creator (`ContestStore.js`, `ContestCreator.jsx`) | contests, selection, role, `localStorage`, form, uploads | create, publish, fetch, register, edit, upload, monitor | no duplicates; a reload finds what memory held; uploads belong to known rounds |
| Browser pages (`App.jsx`, `Layout.jsx`, `pages/*`) | route, role, dialog, timers, leaderboard rows | clicks, timers, answers, engine notifications | a result shown leads on; no dialog is left over; the leaderboard shows its filter |
| Sandbox manager, credits, bots and profit of the Game Master, scanner, price signal, schema, API keys, tools | – | – | not modelled, section 5 |

### How they interact, and what is hard

* Game Master ↔ sandbox: plain loads and stores in shared memory, ordered by two sequence
  numbers. The Game Master gives up on a tick without telling the sandbox, so a late sandbox
  reads a snapshot that is being overwritten and writes orders into a later tick.
* Game Master → telemetry thread: single-producer ring with non-temporal stores.
* Goroutine → Redis → worker → table: each hop is a separate call; the process may crash
  between any two, and the pipeline and the worker both write the same row.
* Submissions of the same code share one lock entry and one file.
* Page ↔ Web Worker: messages both ways. STOP may arrive while START waits for its data set;
  a new start may find the worker of the run before still talking.
* Page ↔ server: requests, a WebSocket that drops messages while it reconnects, and polls, for
  successive runs that share one set of fields in the engine.
* Store ↔ server: `createContest` holds on to JavaScript objects over several awaited requests
  while other operations replace, copy and delete them.
* Pages ↔ engine and router: timers and requests outlive the page that began them.

## 2. Modules

### Rendezvous, RendezvousProofs, MCRendezvous
Three threads, one memory access per step. Program counters `gmPc`, `sbPc`, `wdPc` follow the
statements of `run_simulation`, the loader's loop and `Watchdog::start`. Data is reduced to
the tick that produced it: a snapshot word, the fill block and an order hold a sequence
number. `on_tick` may return any number of orders, never return, or crash. The clock is
abstract: `gm_wait_sandbox` spins `SpinBudget` times (its `max_spins`), and the watchdog's
deadline may pass at any poll. SIGKILL and SIGTERM act as in the code, the latter only where
the loader looks at `g_stop`. Left out: core pinning, `persistent_state` (touched by the
sandbox alone), `sandbox_wait` (no caller). Loads and stores are sequentially consistent,
which x86 and the acquire/release pairs provide for this pattern.

### PersistentLOB, OrderBook, MCPersistentLOB, GameMasterProofs
`PersistentLOB` keeps the code's representation: node pool and free stack, level arrays with
head, tail, count and total, and the hash map with linear probing and tombstones. `add_limit`
and `cancel` are one action each; `market_order` is one action per iteration of its loop, so
that its progress can be checked (it is single-threaded: nothing else happens between
iterations). `OrderBook` says what a book promises: a function from ids to orders, trades
with the oldest order at the best price. `AbstractBook` is the refinement mapping. The `is_bid` and `is_buy` flags are
the side they select ("bids" or "asks"; for a market order the side it takes from). An order
that finds the pool or the level table full is refused, as in the code, which in `OrderBook` is a
stuttering step. Prices and volumes are natural numbers, although the tick loop passes on the contestant's 64-bit values
unchecked (`main.cpp:300-322`); where an order rests does not depend on their sign. `due` is a history variable: what is still owed to an id. The specification is `BookSpec`, from
`EmptyBook` by `BookStep`: `GameMasterProofs` extends this module and `TelemetryRing`, whose `Init`, `Next` and `Spec`
keep the usual names.

### TelemetryRing, MCTelemetryRing, GameMasterProofs
The producer stores the words of an event in any order (non-temporal stores) and publishes
after the fence; the consumer loads `running_` and `write_head` separately, reads events one
at a time, swaps the histograms at window ends, and gives the slots back at the end of a
batch. Only `record_metrics` is there because nothing calls the other recorders. A histogram is
the set of ticks recorded in it; the bucket arithmetic is not modelled.

### JobQueue, JobQueueProofs, MCJobQueue
One step per Redis or database call. Workers and reaper have program counters; a crash takes
all goroutines of the process and restarts them, Redis and the table survive. A payload is
unique in the code because it carries its enqueue time; in the model it carries the chain of
who re-enqueued it, whose length is the retry count. `processJob` is reduced to its outcomes
(file missing, refused, start failed, completed, failed, time limit) with the core pair and
status writes of each. `BRPOP` may take a job off the list and lose its reply, `Enqueue` may be refused; the other
Redis and database calls, whose errors the worker ignores or logs, are assumed to succeed, and a payload to be readable.
Two calls have no time limit and are steps of their own that may never end (`Unlimited`): the request to
`/spawn-async` (`job_worker.go:325`, `http.DefaultClient` without a context) and the wait for the Game Master
(`446`: the context kills the process, but a child that keeps its output open keeps `Wait` waiting). `settled` and `lost` are history variables.

### ForgePipeline, ForgePipelineProofs, MCForgePipeline
One pipeline per submission. The lock table is modelled at the grain of `hashLocksMu`'s
critical sections and `entry.mu`; an entry is named after the pipeline that allocated it. A
compilation writes the `.so` in place, so it is `partial` until it ends; the 60 s limit of
`forge.py`, or a crash, leaves it so. That limit kills the direct child only: a compiler it leaves behind may go on
writing the file after the lock was freed (`orphaned`, `OrphanWrites`). Every external tool may fail, and so may
`persistRun`, which logs the error of the database and goes on; `unwritten` has the runs whose last write it was. The worker
appears through its writes to the row of a run it was handed (`handed`), all of them and in any order: "running",
"complete", "error" on a refusal, "tle", the "queued" of a retry and the reaper's "error". The final evaluation
(`main.go:1102-1128`) puts stored code into the queue without passing this pipeline, and is not modelled;
`JobsHaveSo` says nothing of its jobs. `unsure` remembers enqueues whose reply was lost (Redis did the
push, the client saw an error), `interrupted` the hashes whose compilation was cut short.
Entries exist once per pipeline, because a pipeline allocates at most one.

### WorkerProtocol, SimulationWorker, SimulationWorkerProofs
`WorkerProtocol` is the contract between page and worker: which message follows which. `SimulationWorker` has the worker from
`START_SIMULATION` to its report. A tick is a sequence of steps (the price signal, each bot, each order
of the contestant, the end of the tick); messages are handled only between batches or while
START waits for its data set, as in the event loop. The book has the code's form: levels with
volume and orders, and a best price tracked beside them. Prices are whole ticks; numbers that
only feed a price, side or volume (averages, inventory skew, random streams) are the choice of
the value they decide. A contestant's volume is any natural number, capped by the limit as in lines 691-694; the code
would also let a negative or fractional one through, which the model leaves out. `on_tick` is called synchronously and
without a limit, and `while` loops are translated: in `OnTickRuns` the worker may stay for ever. `KeepsProtocol` is the refinement of the contract.

### PythonTranspiler
One action per kind of line (block header, statement, `elif`/`else`, nested `def`, one-line block,
blank line) and one for the end of the text. The model reads an arbitrary program and keeps
Python's view of it (`py`) and the translation's (`stack`, which is `indentStack`, and `js`, the
open braces). What a line says is left out. `wide` says that
every block was indented by four or more, `split` that no `elif` or `else` had its body on its own line, which
the translator drops, and `kept` that every statement so far is in the blocks it is in in Python. Both modules model one file, and their proofs are in one module;
hence the names `Begin`, `Line`, `Transpile` and `WellFormed` for what elsewhere is called `Init`, `Next`, `Spec` and
`TypeOK`.

### VidhiEngine, VidhiEngineProofs
One turn of the event loop per action: buttons, answers, messages, timers, what the server does.
The worker is the one of `WorkerProtocol`. Starts are numbered; another user's run is there because the
server broadcasts to everyone, and its reports may come at any time. A stop is possible while a run
is under way, and after its error as long as the dialog waits for the log. A key is a number; the server may have expired the stored one. The
path for an automatic backend (`VidhiEngine.js:399-413`, `529-613`) has no caller.

### ContestStore, ContestCreator, ContestCreatorProofs
`ContestStore` has the operations of the store, each awaited request split into the steps
before and after it. Object identity matters: a contest carries in `by` the `createContest` call that
still holds a reference to that very object. `ContestCreator` adds the creator's form, whose
handlers write back what they read when they were created, uploads, and the monitor panel.
A reload drops memory and everything under way and reads `localStorage`; a write to a full
`localStorage` is swallowed, as in `_save`.

### ArenaPages, ArenaPagesProofs
The page shown, the role, and for each page the state it has while it shows. Leaving a page
forgets its state but not its timers (`late`, `calc`) and requests. A route checks the role (`Route`); that the contest
is over is an effect of Layout, which runs after the forbidden page was mounted and its own effects ran, and is
therefore an action of its own (`Redirect`). The dialog covers the Code Arena only: Layout's links and tabs can be used beside it. Rows of the
leaderboard are named after the filter whose request they answer; an answer may be empty, and the page then shows the store's
rows, or be none, and the old rows stay. What the server puts into an answer is not the page's affair: `handleLeaderboard`
(`main.go:589-629`) ignores the phase, and builds a round's list from all runs when the database is not there. The engine is seen through the
status and state it tells the pages.

## 3. Runs

| Run | Instance | States | Result |
|---|---|---|---|
| `rendezvous_ticks` | 3 ticks, 2 words, 1 order slot, 2 spins | 479k | passes |
| `lob_run` | 2 nodes, 2 levels a side, 3 prices, 4 orders, map of 4 | 109k | passes |
| `telemetry_ring` | ring of 8, margin 3, window 3, 20 ticks | 14k | passes |
| `jobqueue_recovery` | 1 run, 2 workers, 1 core pair, 1 retry, 1 crash, 1 fault of Redis | 84k | passes |
| `forge_lock` | 3 submissions of one code, 1 crash, 1 run not written | 1905k | passes |
| `worker_run` | 5 prices, 3 sets of bots, 2 ticks, 1 stop | 149k | passes |
| `worker_best` | the same | – | violated by the code |
| `engine_run` | 2 starts, 1 stop, 1 historic state, 1 expired key | 972k | passes |
| `engine_poll` | 1 start | – | violated by the code |
| `creator_run` | 2 saves, 2 registrations, 2 rounds, 1 upload, 4 clicks | 1592k | passes |
| `pages_run` | 2 filters, 2 runs, 3 timers | 304k | passes |
| `transpile_run` | 7 lines, depth 3, indentation 2, 4, 8 | 204k | passes |

**rendezvous_ticks.** `AnswerIsComplete`, `DecidedOnThisTick`: when `gm_wait_sandbox`
succeeds, the orders applied are exactly those `on_tick` returned for this tick, on this
tick's unmixed snapshot and the previous tick's fills. `AnswersAdvance`: answers never go
backwards or ahead. `TickLoopEnds`, `ExitsWhenOnTickReturns`: liveness.

**lob_run.** The four representations of an order (pool, queue, level totals, map) agree
through all mixes of operations, collisions, tombstones, a full pool and a full level table
(`BookConsistent`); the pointer structure implements `OrderBook` (`PriceTimePriority`); matching ends
even with empty levels at the top.

**telemetry_ring.** The ring wraps twice and fills up; the report is of the last complete
window after everything was drained.

**jobqueue_recovery.** `LossNeedsFault`: a run is dropped only by a crash while no list holds
it, a refused enqueue or a lost reply to `BRPOP`. `WorkersSound`: core pairs are neither shared nor leaked on any
return path. `QueueDrains`: with crashes, expiring heartbeats and spurious reaps, retries run
out and the queue becomes empty, provided that no worker stays for ever in one of the two calls without a limit, which
the property states as its premise.

**forge_lock.** `MutualExclusion`: the reference-counted table works although entries are freed
and allocated while others wait. `JobsHaveSo`: nobody rewrites or removes a `.so` that a queued
or running job needs, except a compiler that outlived its time limit. `RowHasOneWriter`: the pipeline writes the row only until the hand-over and the
worker only from then on, and the pipeline never writes over its own verdict; the exception is a run whose enqueue was executed although its reply
was lost. A verdict of the worker may still be overwritten by the worker's own retry, see below.

**worker_run.** `LevelsConsistent`: volumes, ids and time priority of every level. `RestingCapped`:
what rings and the flood guard push out is cancelled. `LimitHolds`: the limit is tested
against the position at the start of the tick, so one tick may overshoot it, but no tick starts
beyond it and goes further. `KeepsProtocol`: the messages are those of `WorkerProtocol`, a STOP at
any turn included. `EveryStartEnds`: a start ends with a report, an error or a stop, provided that `on_tick` always
returns.

**engine_run.** `IdleIsQuiet`, `DoneIsShown`: status, flag and shown state agree although polls,
sockets, workers and timers of earlier runs go on. `RecordedPerAnnouncement`: a result is recorded
at most once per announcement. `NoStaleRetry`: a refused key is not sent again. `LocalLeavesQueue`:
a local run starts, fails or is stopped.

**creator_run.** `UniqueIds`: no contest is in the list twice and no two have one id. `DiskFollows`: what
a reload would find is what memory holds, ids received by calls still under way and swallowed writes
excepted. `UploadedIsKnown`: an upload ends at a round the server knows.

**pages_run.** `ResultsMoveOn`: while the results page shows a result, a timer that leads on to the leaderboard is pending,
whether the run ended before the page was opened, while it showed or while another tab hid it. `ModalIsJustified`: no dialog is left over.
`RowsFollowFilter`: a leaderboard left alone comes to show, and from then on shows, what the server answered for its filter,
or the store's rows if that is empty, although late answers for other filters are still applied; the premise is a server that answers
some of the requests for that filter.

**transpile_run.** `CompiledKeepsNesting`, `BracesMatch`: for blocks that are indented by four or more and
have lines of their own, a translation that compiles has every statement in the blocks it is in in Python, and without nested functions it
compiles.

### Where code and comments disagree

* `engine_poll`: the comment calls polling a fallback for the WebSocket; its callback ignores
  "complete", so a run that completes while the socket is down stays "queued" on the page.
* `worker_best`: `_rebuildBest` invents a best price for an empty side, and `addOrder` replaces
  it only by a better one. The best price then names a level where nothing rests.

Seen in the models or while reading, without a run of its own:

* *Game Master.* After a time-out the tick loop stores `order_count = 0` and reads it again
  (`main.cpp:296`), so a late sandbox's orders can enter a tick meant as a HOLD. The watchdog waits for
  `sb_sequence` to *equal* a number loaded once (`watchdog.hpp:40`) and can kill a sandbox that answered
  this tick and the next. `add_limit` makes the level before it allocates the node
  (`persistent_lob.hpp:272`). `waitpid` has no deadline when `on_tick` hangs in the last tick
  (`main.cpp:389`; hence the premise of `ExitsWhenOnTickReturns`).
* *Queue and forge.* A crash between `BRPOP` and `LPUSH` loses the run (`job_worker.go:200`). "queued" is
  written after the retry is visible (`job_worker.go:235`) and can overwrite the final status of an attempt
that was faster. A `/spawn-async` that is not answered, or a Game Master whose child keeps its output open, holds its worker and
core pair for ever (`325`, `446`). The reaper
  judges an old `LRANGE` snapshot (`job_worker.go:533`). A truncated `.so` makes the next submission of the
  same code fail once, and a compiler left behind by the time limit may write while the next one reads. A row that
`persistRun` could not write is only mentioned in the log (`main.go:1627`). A lost enqueue reply runs a submission twice.
* *Local simulator.* Fills of the bots against the contestant's resting orders never change the
  contestant's position. A STOP that meets the wait for the data set throws in `buildFinalReport`; the start
  goes on. An `on_tick` that does not return keeps STOP from being handled (`simulation.worker.js:698-707`). Custom bots are created and never computed. `idb.js` keeps a rejected open promise for ever.
* *Translator.* A block indented by two is closed before its first line, so its code always runs; the
  body of a one-line `else: x = 1` is dropped; a nested `def` leaves a surplus brace.
* *Engine.* `_pollStopped` is shared by all polls and cleared by a start. While a submission is awaited,
  `currentRunId` is null or old, and another run's `RUN_UPDATE` is taken for the new one's. A cloud
  start does not terminate the local worker. `COMPILE_ERROR` leaves `isSimulating` set. A stop ends
  neither polling nor a submission. The end of a run does not notify the state subscribers: a results
  page that is open waits on.
* *Store and creator.* Saving or publishing again posts a new contest. `leave` does not stick, because
  `getActiveContest` selects while rendering; for the same reason a fetch that drops the selected contest, or a save that
  renames it, moves the selection to another one (`ContestStore.js:383-389`). The connection state "online" is persisted, so that after a
  reload no socket is opened. An upload writes back the rounds as they were when it began. A monitored
  contest that is deleted or renamed makes the panel throw (`ContestCreator.jsx:744`; `PanelThrows`).
* *Pages.* Navigation timers outlive their page; the log request of one run closes the dialog of the next;
  when time is up the results page and the leaderboard send the contestant to and fro.
  An empty answer of the server makes the leaderboard show the store's rows, whatever the filter (`Leaderboard.jsx:224`).

### Bounds

*Rendezvous*: a late answer must meet the next tick and the one after it, so three ticks; two
words are the least that can be mixed; two spins separate a wait that goes on from one that
ends. One order slot suffices for a batch to be stale; the theorems cover any number.
*Order book*: two nodes give a queue a head and a tail and a pool that runs out; two levels with
three prices fill the level table; four ids in a map of four slots with even hashes collide and leave
tombstones.
*Ring*: twenty ticks wrap an eight-slot ring twice, and 20 is no multiple of the window.
*Queue*: one run is enough, since all conflicts are between several executions of one run; two
workers and the reaper make three holders; one retry makes first and last attempts distinct.
One core pair for two workers makes them wait. *Forge*: three submissions of one code are an
owner, a waiter and one that arrives while the entry is freed; the row of one of them may not be written (rows are independent). They are interchangeable, hence the
symmetry set; the run has no liveness property.
*Worker*: five prices around the base price; three sets of bots, so that each bot meets the
market maker, without which nothing rests; rings of one order are pushed out in the second tick; two
orders per tick and a queue of one overflow it; batches of one tick let a STOP in everywhere.
*Engine*: two starts are needed for a poll, key, worker or socket of one run to meet the next; one
stop, one historic state, one expired key and one new one. One announcement per run keeps the run small; the
theorem covers any number.
*Creator*: two saves, two registrations, two rounds, one upload, and four clicks for what else the
user, the sockets and the quota do.
*Pages*: two runs so that answers for one meet the other, three timers pending.
*Translator*: seven lines in three nested blocks hold an `if`/`else` chain within a loop that ends
together with it; 2, 4 and 8 columns are below, at and above the four the code assumes.

### Fairness

*Rendezvous*: weak fairness for the Game Master, the loader and the watchdog (pinned threads of
their own), none for `on_tick`, and strong fairness for the deadline: while the watchdog polls,
time passes. *Order book*: weak fairness of the matching loop, which is sequential code.
*Ring*: weak fairness of both threads. *Queue*: weak fairness of each worker except in the two
calls without a time limit (the other calls end, with an answer or an error), of the reaper (a ticker) and of key expiry. *Local simulator*: weak fairness of
the worker's own steps, since its loop re-arms a timer, except while `on_tick` runs. *Engine*: weak fairness of the event loop's
work (messages, timers, answers to requests), none of the user, the server's runs or the network.
*Pages*: weak fairness of the leaderboard's interval and of the end of each request, with an answer or without; that
requests which never stop are answered again and again is a premise of `RowsFollowFilter`. Crashes and faults are
never required to happen. The forge, creator and translator runs check safety only.

Deadlock is checked where the program always has a next step or an explicit finished state
(rendezvous, book, ring, queue, forge, local simulator, pages). In the engine, creator and translator runs a behaviour ends
when the user, whose clicks are bounded, does nothing more and nothing is under way, or when the text ends.

## 4. Proofs

All hold for every value of the constants under the named `ASSUME`s, which TLC evaluates on
the instances.

**RendezvousProofs** (`RendezvousAssumption`: at least one tick, word, slot and spin). Theorems
`TypeCorrect`, `CompleteAnswer`, `ConsistentDecision`, `TornViewTheorem`,
`AnswersAdvanceTheorem`. The properties speak only of the moment at which an answer is taken,
so they are not inductive. `IndInv` adds what each side has published and copied while the
tick is *live*: `SequenceInv` (where the sequence numbers stand at each program
counter), `PublishedInv` (the snapshot and the fills are of this tick), `ViewInv` and
`AnswerInv` (what the sandbox has copied and written of it, up to its current word or slot),
`BatchInv` (what the Game Master has taken), `AlternationInv` (without a time-out the sides
alternate strictly). Everything is conditional on the tick being live: once the Game Master
gave up, nothing is known of what a late sandbox writes, and nothing needs to be, since
its answer carries an old sequence number.

**GameMasterProofs**, the telemetry ring (`RingAssumption`: the margin is smaller than the ring, windows are not
empty). Theorems `TypeCorrect`, `RingIsSafe`, `WindowsAreWhole`, `ReportIsExact`. `IndInv` adds
the order of the four heads and their distance (`HeadsInv`), the words already stored
(`StoreInv`), what the consumer knows when it leaves (`DrainInv`), and the arithmetic of
windows (`WindowInv`, `RowsInv`). Two indices less than a ring apart with the same remainder are
equal: that lemma carries the argument that no unread slot is overwritten.

**GameMasterProofs**, the order book (`LOBAssumption`: a pool and a level table that are not empty, a map with more
slots than the pool has nodes, as the code demands, any hash multiplier, positive prices). Theorems `BookInvariant`,
`BookStaysConsistent` (that is, `BookConsistent`) and `BookImplementsPriority` (`PriceTimePriority`).
`BookConsistent` speaks of what `find`, `map_find` and a walk along a queue return, and is not inductive. `BookInv` states
what they rely on, in terms of who rests where: `Rests` says that a node is in the queue of a side's level of a given price.
* `ShapeInv`: the levels are sorted, and each heads a chain of nodes that ends in its tail, meets no node twice, along which
  ids rise, and whose number and volume the level states (`Good`). That ids rise is needed for the priority of time.
* `PlaceInv`: the free stack has no node twice, and a node rests in one place exactly when it is not on the stack.
* `OrderInv`: nodes that rest have different ids, all of them handed out.
* `SlotsTrue`, `MapInv`: a used slot describes an order that rests, no two slots have one id, and probing for the id of
  an order that rests meets its slot before an unused one (`Chain`). A tombstone keeps chains whole; that an insertion
  finds a slot at all is a counting argument, for which the map must be larger than the pool.
* `DueInv`: what is owed to an id is the volume that rests under it.

The operations are proved in layers. `Queue`, the binary search and the sums are recursive functions and folds; least
counterexamples show that they return the chain of the links (`Linked`), the place of a price in a sorted array, and sums that do
not depend on the order. Next comes what appending a node, unlinking one and shrinking one do to a single queue and its
level, then what follows for `Rests`: a step adds one node to one place (`Gains`), takes one out (`Loses`) or moves
none (`Keeps`). Each part of `BookInv` is shown to be preserved by these three effects, so that the actions only have to be
classified; a level left empty by an exhausted pool, and its removal by the matching loop, move no node.
For the refinement, `Shows` relates the rows of the abstract book to `Rests`. The effects on the places are the abstract
`Add`, `Cancel` and `Fill`, and the head of the first level is the abstract book's `First` because levels are sorted
and ids rise.

**ForgePipelineProofs** (`PipelineAssumption`: finitely many pipelines). Theorems `TypeCorrect`,
`OneForgePerHash`, `LocksAreFreed`, `SoIsThere`, `RefusalsExplained`, `NoSilentEnd`
(an end is recorded unless the database refused the write), `OneWriterPerRow`. `IInv` has four parts. `LockInv`: the count is the number of goroutines with a
pointer (`Counted`), a pointer is held exactly from lookup to release (`Entered`), whoever has
one has the entry in the map (`Shared`), an entry in the map is used for its hash (`Mapped`,
`OneHash`), and whoever is past the lock owns it (`Holds`). Mutual exclusion follows from
`Shared` and `Holds`; that an entry is not freed early follows from `Counted`. `SoInv`: what a
pipeline knows of its `.so` at each step, for which mutual exclusion is needed, and which is nothing once a compiler
has outlived its time limit. `CauseInv`: a
truncated file is being written or was cut short. `StatusInv`: a row exists or could not be written, and
until the hand-over it has no verdict.

**JobQueueProofs** (`QueueAssumption`: finitely many runs, workers and core pairs, none of them the name
for "none"). `CoresAreSound`: `WorkersSound`. `CoreInv` is inductive once `HandInv` says where each worker is and
that it holds a payload exactly then. `RunsAreKept`: `LossNeedsFault` is not inductive. A worker at "mark" has
already enqueued its run again, and another worker may have finished the run since, so its hand must not count
(`Kept`); and a worker that has reported success removes its payload from the active list, which loses nothing
only because the run is settled (`OkInv`). The bound on retries needs that whoever is about to enqueue again has one
left (`HandInv`).

**ArenaPagesProofs** (`PagesAssumption`). `ResultsLeadOn` (`ResultsMoveOn`): a result that is heard while the page shows, or found
when it is mounted, arms a timer, and no timer of the page is taken back; one that fires leaves the page.
`DialogIsJustified`: `ModalInv` adds which of the two refs are set while the dialog is open and who will
clear them; the dialog alone is not inductive because a status that returns to idle leaves its closing to a
timer or to the log request. `PagesKeepShape` (the type invariant): the bounds on timers and log requests are not
inductive one by one. `CountInv` adds that the timers of the page and those that outlived it are bounded
together, and that a run makes one log request, or one more once an error was shown.

**VidhiEngineProofs** (`EngineAssumption`). `QuietWhenIdle` is inductive as it stands. `RetryUsesNewKey`: `KeyInv` adds
that a key some submission saw refused never is the stored key again: keys are handed out in rising order and
a refusal removes the key it is about. `ResultStaysShown`: `ShownInv` adds that the last message
queued by a worker at rest is one that ends a run, so that handling the queue ends with a state marked done.
`ResultsRecordedOnce`: `WireInv` counts the announcements on the only open socket, which together with those
recorded never exceed those made; `LocalInv` says that a local run's single report is queued, recorded or to
come. `TypeCorrect` needs `WireInv` because a type includes that at most one socket is open.

**ContestCreatorProofs** (`StoreAssumption`, `CreatorAssumption`). `TypeCorrect`, `IdsAreUnique`, `StorageFollows`,
`UploadsAreKnown`. The store's operations find,
replace, copy and delete contests that a `createContest` call still holds a reference to, so uniqueness of ids
depends on what every call under way may still write. `IInv` has four parts. `StoreInv`: the lists in memory and in
`localStorage` have no id twice, and none that the server has yet to give (`ListOK`); a contest in memory that a call
holds carries that call's id, and while the call waits for the server's id no other contest has that one (`HeldOK`);
`localStorage` holds no reference (`BareOK`). `CreatorInv`: the server's contests come from POSTs that were made
(`ServerOK`), the id a call knows (`CallOK`), and the rounds that the form and every upload under way will write back,
each with its id if it shows a dataset (`FormOK`, `UploadOK`). `PageInv`: a call writes to the form only while its
page shows. `Follows`: `DiskFollows`, which needs that equal lists stay equal under each operation. `find` and the
filter of `deleteContest` are handled by their first position, a least number (`LeastNumber`): facts about sequences
are proved from a least counterexample, for which no induction theorem is needed.

**SimulationWorkerProofs**, the translator (`TranspilerAssumption`). `NestingIsKept`, `TranslationCompiles`, for any length, depth and indentation.
`TInv`: as long as all blocks are indented by four or more, `indentStack` has one entry, header plus
four, for each block open in Python, in the same order, and the open braces are those blocks, unless a nested
function has taken a closing brace too many. Popping the
entries greater than a line's indentation then closes exactly the blocks that Python closes; the statements are in
their blocks as long as no body was dropped (`split`).
`TranslatorKeepsShape` (the type invariant) holds for smaller indentations, too, where the two sides no longer
correspond: `ShapeInv` adds only that Python's blocks are nested, and the ground level of `indentStack` ends every
search.

**SimulationWorkerProofs**, the simulator (`WorkerAssumption`: volumes are natural numbers, capacities are positive, and the grid is a range that holds every quote and a tick around every
value of the signal and the base price, so that it excludes nothing the bots compute). Theorems `WorkerKeepsShape`,
`BookStaysConsistent`, `RestingStaysCapped`, the action property `LimitIsKept`, and `WorkerFollowsProtocol`, the
refinement `KeepsProtocol`.

The operators of the book add up volumes with the library's folds, which take elements in an unspecified order.
The first lemmas show, from a least counterexample, that the order does not matter (`SumFunctionOnSet` over a set is an element
plus the sum over the rest), and from that what appending, removing and cutting orders does to the volume
of a level. Next come the operations: `AddOrder`, `CancelOrder` and `MarketOrder` take a sound book (`Sound`: each level
has orders, its volume is theirs, ids rise along it and are below `nextOrderId`, and no id rests at two prices) to a sound
book and say which orders the new one holds. `BookStaysConsistent` follows.

`RestingCapped` counts orders in the book, of which no step knows the number. `WorkerInv` therefore adds where each of them is
remembered (`Accounted`): an order of the market maker is its current quote of that side, one of the mean reversion bot
is in the ring of its side, and one of the contestant in `contestantOrdersQueue`, each with its price, without which
`cancelOrder` would not find it. The number of resting orders is then at most the length of the list, and a ring that
is pushed, a quote that is replaced and the flood guard cancel exactly the order they forget. The noise trader's ring is
not accounted for: it cancels what it evicts on the side of the new order, which may be the wrong one. `SnapOK` keeps the mean
reversion bot's price within the grid; `FillsOK` says that a tick that starts at the limit adds up no fills that
lead further, although the test reads the position of its start. `PlaceOK` and `BookOK` say that there is no book while the
data set is awaited, which is why a STOP that meets the wait is not answered (`WorkerFollowsProtocol`). TLC has checked
`WorkerInv` on the instance of `worker_run`.

**Only model-checked**: liveness (`TickLoopEnds`, `ExitsWhenOnTickReturns`, `MarketOrderEnds`,
`ReportIsMade`, `QueueDrains`, `LocalLeavesQueue`, `RowsFollowFilter`, `EveryStartEnds`), which is out of the prover's reach.

## 5. Not modelled

* **Sandbox manager** (`sandbox-manager`): its answer is a choice in `JobQueue`. Its registry and warm pool are decided
  by what Docker does, which the repository does not state.
* **Game Master's bots and profit tracking**: the bots of `simulation.worker.js`, which have the same logic, are
  modelled; the C++ copies and the sums of fills, fees and penalties are sequential arithmetic.
* **Latency histogram**: bucket arithmetic over powers of two, data of the telemetry model.
* **Credits, API keys, other HTTP handlers**: a Redis script or a query each, atomic where they run.
* **Rewriting of source text**: the C++ and Python scanners and transpilers of the backend, and what the browser's
  translator does inside a line.
* **Numbers of the browser's simulator**: cash, metrics, charts, price path; rendering of the pages.
* **Code without a caller**: `VidhiEngine.js:399-413` and `529-613`, `CustomBotRunner`, `setDataset`, `shadow_lob.hpp`,
  `position_limits.hpp`, `sandbox_wait`, `backend/sandbox`, `backend/jobs`, `sandbox/sandbox_runner.cpp`.
* **The final evaluation** (`handleFinalEval`, `main.go:1102-1128`): enqueues stored submissions without the forge pipeline.
* `GMTimer` of the creator's page: a clock that calls the store operations which are modelled.
* The copy of the repository in `test_extract`, the schema, scripts and infrastructure.
