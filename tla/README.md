# Verification of scrig, the SnapCoin miner

This directory holds TLA+ models of the C++ miner in `src/src` and `src/include/scrig`
(called *the code* below; paths are relative to the repository), the TLC
configurations that check them on small instances, and TLAPS proofs of the
results that matter most.

## 1. Inventory

| Component | State | Operations | Interacts with |
|---|---|---|---|
| Worker pool (`miner.cpp`: `ensure_mining_workers_started`, `mining_worker_loop`, `mine_block`, `stop_mining_workers`) | `work_mutex_` with two condition variables; generation, job, completion count, finished, error; atomics `stop_`, `work_quit_`, `work_found_` (+ nonce, hash), `paused_` | publish a job, hash, claim a solution, report, stop, join | the thread running `run()`; hotkey and signal threads |
| Solo mode (`run_solo`) | chain event version, stream flag, per-round `stale` | build job, watch for staleness, mine, submit | `NodeClient` twice (requests, events), stale watcher, event thread |
| Native pool mode (`run_pool`) | `latest_job` under `job_mutex`, atomic `job_version`, prepared job cache | receive job, prepare, mine, submit share | `NodeClient` three times, event thread, node-height thread |
| Stratum mode (`run_pool_stratum`) | active job + version under `job_mutex`/`job_cv`, `pending_shares` under `share_mutex` | poll, publish, hash, queue share, submit | `StratumClient`, its own worker threads |
| Stratum client (`stratum_client.cpp`) | socket, receive buffer, request ids, queued jobs, mode, session | login ladder, request/response matching, poll, submit | a pool over TCP |
| Node client (`node_client.cpp`) | socket, `io_mutex_`, `subscribed_`, pool handshake; global set of active sockets | request, handshake, subscribe, wait for an event, interrupt | a node or a pool over TCP |
| Reward transaction mining (`mine_reward_transaction`) | `found`, its nonce and hash, an error | fork, hash, join | solo job building |
| Job building (`build_solo_job`, `build_pool_job`, `filter_mempool`) | mempool cache with its time, nonce seed | read the mempool page by page, filter it, assemble a block, trim expired transactions | node client, consensus data |
| Consensus data (`crypto.cpp`, `types.cpp`) | none | targets, binary encoding with a nonce patched in, base 36 and JSON forms, Merkle tree, address filter, reward schedule | everything above |
| RandomX runtime (`crypto.cpp`) | cache, dataset, flags, one VM per thread | initialise with fallbacks, hash, pipeline | all hashing threads |
| Process (`main.cpp`, `Miner::run`) | which threads exist, `stop_`, `shutdown_ui_`, `g_miner` | start, join, release, exit | every part |
| Statistics, wallet and dashboard threads (`refresh_stats_loop`, `run`, `ui.cpp`) | counters, log ring, hashrate window | sample, render | all threads, read only |
| Hotkeys and signals (`runtime_platform.cpp`, `main.cpp`) | watcher thread, saved terminal mode, `g_miner` | stop, pause, resume, report | `Miner`, `NodeClient::interrupt_all` |
| JSON (`json.cpp`) | none | read a text, write a value | every message, the configuration |
| Configuration, CLI (`config.cpp`, `main.cpp`) | none | parse, validate, print | start-up |
| Performance placement (`perf.cpp`, `*/perf_platform.cpp`) | none | affinity and priority plans | worker threads |
| RandomX (`third_party/RandomX`) | - | the hash function | vendored |

### How the parts interact

`main` creates a `Miner`, the hotkey watcher and a signal handler, and calls
`Miner::run`. `run` initialises RandomX, starts the statistics thread, the wallet
thread and the worker pool, and then gives its own thread to one of three modes:

- **solo** (`run_solo`): an event thread counts the blocks a node announces; each
  round builds a job over a request connection (which includes a fork/join search
  for the reward transaction's nonce), starts a *stale watcher*, calls `mine_block`,
  joins the watcher, and submits.
- **native pool** (`run_pool`): an event thread stores the blocks a pool announces;
  the main loop turns the stored block into a job, calls `mine_block`, and submits.
- **stratum** (`run_pool_stratum`): its own worker threads hash the active job and
  queue shares; the main loop polls the pool for jobs and submits the shares.

`mine_block` is the meeting point of the pool's workers with their caller. Threads
share `std::atomic` flags read with relaxed order, three mutexes with condition
variables (`work_mutex_`, `job_mutex`, `share_mutex`) and the `io_mutex_` of each
`NodeClient`. Nothing is persisted: a crash loses everything and there is no
recovery to model.

### What is hard here, and what makes each component correct

- *Worker pool*: workers and caller meet in a barrier made of a generation number, a
  completion count and two condition variables, while three other threads stop,
  pause and cancel. Correct if a call returns a solution of **its** job with that
  solution's hash, or nothing only when it was cancelled or stopped; if an exception
  is neither lost nor raised twice; if no worker touches the cancel objects of a
  call that has returned; and if no wakeup is lost.
- *Stratum mode*: a job is replaced while shares for it are found, queued and
  submitted. Correct if no share goes out under a job that is no longer active, if
  each share has one fate, and if a new job reaches every worker, awake or asleep.
- *Native pool and solo*: block and block number travel in two steps; the number is
  sampled at one moment and compared at another. Correct if old work is given up and
  never submitted.
- *Reward transaction*: `found`, nonce and hash are written in three steps, and the
  hash pipeline runs one input behind. Correct if the nonce that is kept is the one
  that was hashed, and no nonce is skipped.
- *Node client*: a connection breaks at any system call, is reopened and re-greeted
  in the middle of a request. Correct if an answer is read by the request it belongs to.
- *Event stream*: two threads take one connection up and down. Correct if a trusted
  stream is a subscribed one, and if it comes back and stops.
- *Stratum client*: it finds out which dialect a pool speaks by trying, on a
  connection that carries jobs in between. Correct if jobs keep their order, nothing
  of an old connection survives, and an answer is matched with its request.
- *Job building*: a job takes five or more requests, any of which may fail, while the
  node's mempool changes and a cache stands in for it. Correct if the cache is no older than
  its time says, if pages neither repeat nor miss what stays put, and if a
  transaction that can be mined is.
- *Consensus data, JSON, placement*: sequential, but with carries, widths that depend on
  values, and orders that serve many cases at once. Correct if the target is exact, if what is
  hashed is what is sent, if text is read back as what was written, and if workers
  do not share a CPU while another is idle.
- *RandomX runtime and process*: memory shared by all hashing threads, initialised by
  a ladder of fallbacks, and released on every way out. Correct if no thread hashes
  without it, and if the process ends with its threads joined and its terminal restored.

## 2. Plan

Order of work: what all modes rest on first (worker pool), then the mode with the
most shared state (stratum), then the other two modes, the connections, the
process around it, job building, and last the sequential algorithms. All of these
are done; section 8 has what is left.

Abstract specifications: `MiningRound` says what `mine_block` promises; `WorkerPool`
is shown to implement it (by TLC and by proof). `PoolJobs` and `SoloMining` use that
promise in place of the pool. `PoolSession` says what a `StratumClient` promises
`run_pool_stratum`; `StratumClient` is shown to implement it (by TLC and by proof), and
`StratumMining` uses the outcomes it allows. `SubmitClient` says what a request over a connection is;
`SoloJobs`, which says what the requests are for, is proved to implement it. The algorithms are
checked against what they are meant to compute: the target against a product and a
quotient, the patched bytes against an encoding from scratch, base 36 against the number a text denotes, readers against writers.

The modules are written to be proved about: bounds and sets are CONSTANTS with named
assumptions, one action per critical section or access to shared data, invariants as
conjunctions of named parts. Recursive operators occur only in `JsonText` and
`ChainJson`, which no proof uses; the other recursions are recursive functions.

## 3. The modules

| Module | Models | State and actions |
|---|---|---|
| `MiningRound` | the contract of `mine_block` | phase, current job, last result |
| `WorkerPool`, `WorkerPoolInv` | the pool in `miner.cpp` | variables named after the members (`generation` is `work_generation_`, ...), a program counter per worker, for the caller and for the thread in `request_stop`; one action per critical section of `work_mutex_` or access to an atomic. `WorkerPoolInv` holds the inductive invariants: `PoolInv`, and `WakeInv` about lost wakeups |
| `StratumMining` | `run_pool_stratum` | `job_version`, `active_job`, `pending_shares`; one action per critical section. A worker that has found the wait predicate false keeps `job_mutex` until it sleeps (`"block"`), as with a real condition variable. `ledger` is a history variable: what became of each share |
| `PoolJobs` | `run_pool`'s event thread and main loop | a block is the number under which it was announced; storing and counting it are two actions |
| `SoloMining` | `run_solo`, its event thread, the stale watcher | the chain is its height; a job is the height it was built for |
| `RewardMining` | `mine_reward_transaction` | the hash function is the set of good nonces; the pipeline is explicit: `next` takes an input and hands out the hash of the one before |
| `NodeClient` | one connection of `NodeClient` and its peer | `sock` is `none`, `live`, or `dead` (the peer is gone and the client does not know yet) |
| `SubmitClient` | `send_request`, request after request | extends `NodeClient`; one action per system call; `owed` counts the answers on their way |
| `SoloJobs` | what `run_solo` asks its node for: `build_solo_job`, `mempool_all`, `filter_mempool`, the watcher's polls, the submission | extends `SubmitClient`; `at` is the question at hand, each answer is an action that updates what the code makes of it. The node's mempool is a sequence that changes between pages; `age` and `asked` are clocks up to the two seconds of the cache; `gone_asked`, `outdated` and `still` are history variables |
| `EventStream` | the event threads on their `NodeClient`, and the end of `run_solo`/`run_pool` | extends `NodeClient`; an operation that waits for the peer is two actions and holds `io_mutex_` in between |
| `PoolSession` | the contract of `StratumClient` | log in, return a job that waits, ask for one, judge a share, throw; jobs are numbered as the pool sends them. Methods, variants, connections and messages do not occur |
| `StratumClient` | the login ladder, request/answer matching, `poll_job`, `submit_share` | one action per message sent, message read, or read that failed or threw; `Session` is the mapping to `PoolSession` |
| `RandomXRuntime` | `initialize_hashing` to `shutdown_hashing` | a machine is what it supports and what it lacks; one action per attempt, chunk, VM |
| `MinerProcess` | `main`, `Miner::run`, hotkeys, signals | extends `RandomXRuntime`; the program counter of `main`, each thread's life, the handler and the thread it interrupted |
| `BlockTarget` | `calculate_block_difficulty_target`, `multiply_divide_target` | one action per byte multiplied or divided; the carry and the remainder are state, the size of a byte and of a target are constants |
| `PowBuffer` | the binary encoding, `transaction_pow_buffer`, `block_pow_buffer`, `patch_nonce_in_pow_buffer`, the templates of `miner.cpp`, `write_nonce_le` | the encoding is made of pure operators over sequences of bytes of any base; the state is the buffer of one worker, and the one action writes the next nonce into it, over the last one |
| `Base36` | `encode_base36`, `decode_base36` | pure operators and recursive functions, for any size of a byte, radix and length; a character is the digit it stands for, in either case |
| `JsonText` | `parse_json`, `to_json` | pure operators; a text is a sequence of characters, a character is a word (`"quote"`, `"a"`) |
| `ChainJson` | the `*_to_json` and `*_from_json` of `types.cpp`, the chain events of `node_client.cpp` | one table of fields and their types drives reading and writing, with the checks each reader makes and the defaults it puts in |
| `Placement` | `os_build_affinity_plan` (Linux, without hwloc) and the slot of a worker | a machine is what can be read of the kernel about each CPU, which may be nothing; the slots are fixed once, and one action starts the next worker on the CPU of its number |

`MC...` modules give TLC its constants; `MCAlgorithms` brings the sequential modules
together, with one state per input (and, for the target, the nonces and the workers, per step). `...Proofs` modules hold the
theorems. A definition `D_<Fault>` is `D` with a plausible bug, used to see that the
properties notice it; no specification refers to it.

Shared-memory order: all models are sequentially consistent. The flags the code reads
with relaxed order (`stop_`, `paused_`, `found`) are independent of each other, and
the data that depends on an order is under a mutex or behind a `join`; a flag that is
seen late is an interleaving the models have. The one pair that is not ordered by a
mutex, the nonce and the hash of a solution, is written in two actions and read after
the barrier.

## 4. The runs

| Run | Asks | Bounds | Why they are enough |
|---|---|---|---|
| `pool` | workers stay in their round; refinement of `MiningRound`; a cancelled or solved round ends; a stop ends with every worker joined | 2 workers, 1 job, 2 calls, control check every 2 iterations | a worker left over from call 1 meets call 2; two workers claim one round; one is asleep while the other works. Rounds have numbers of their own, so the same job twice tells them apart; more is covered by the proofs |
| `stratum` | shares go out under the active job, one fate per share, the nonce format settles, the queue drains, a new job reaches the workers, a stop ends unless its wakeup was missed | 1 worker, 2 job ids, 2 jobs, 2 shares | the worker and the main loop are the only two actors on a share; two jobs give replacement with same and other id. More workers are covered by the proofs |
| `pool_jobs` | no old block submitted, a new block is mined | 4 blocks | one mined, one prepared, one stored, one counted at the same time |
| `solo` | invariant, a stale job is given up, by polling or by events | height 3 | a block before, during and after a round |
| `solo_missed_block` | *violated*: with chain events every new block ends the round | height 2 | see section 7 |
| `reward` | solution with its own hash, no nonce missed, the call ends | 2 threads, batch 2, nonces 0 to 5, every set of good nonces | two full batches; a good nonce at each place of a batch |
| `solo_jobs` | answers paired and greeting in order for a real sequence of requests, the cache is no older than its date, pages add up while only what is behind them changes, polls recover, a waiting transaction is mined | 2 transactions, pages of 1, 2 pages read, height 2, 1 dropped connection; room for both or for one of them; one dated too far ahead | a mempool longer than a page; a block, an arrival, an expiry and a failure between any two pages, in what has been read and behind it. Any number of failures is covered by `JobsKeepClient` |
| `event_stream` | invariant, the stream recovers, a stop ends | 4 failures | one for each stage of connecting, and one more |
| `event_ctrl_c` | *violated*: a stop ends on a silent connection | 1 failure | see section 7 |
| `algorithms` | the target is exact; the hash found is the hash of what is sent; workers are spread out; text is read back as what was written, and text that means nothing is refused | bytes of 4 values, targets of 3 bytes, 0 to 3 transactions; encodings in base 8, written over with the nonces 4096, 4097, 8191 and 2^23 in any order; base 36 with radix 3, bytes of 5, texts up to 6 characters; JSON values two levels deep, texts up to 4 lexemes; machines of up to 4 CPUs, and of 3 of which anything may be unreadable or negative, up to 8 workers | carries, remainders and saturation in every byte; every width of a number before the nonce on both sides of its border; nonces that differ in every byte, and from 4096 on all of the widest form, as the code's are from 2^32 on; every wrong place for each mark of JSON; every mixture of speeds, siblings and missing data, and two CPUs taken for one core though they are not; twice as many workers as CPUs |
| `client` | invariant (types, job order, nothing of an old connection), honest verdicts, settled login, refinement of `PoolSession`, calls end | all five login methods (two variants of the fourth), 2 authorizations, 2 forms of a share, 1 share, 2 unasked messages, 2 messages on the wire | a late answer meets the next request; a job, and a difficulty that is not a number, arrives in each phase of a login. More shares are covered by the proofs |
| `process` | memory of the hashing threads, live miner, terminal, ladder, dataset, the process ends | 1 pool worker, 1 mode thread, 5 items for 4 init threads (a short chunk and an idle thread), 2 requests for features on every machine, 2 signals | the second signal comes after the first has ended `run`; each pair of optional features but large pages with JIT or full memory fails together; the rest is covered by the proofs |

Deadlock is checked except in `solo_jobs`, `event_stream`, `event_ctrl_c`, `client`,
`process` and `algorithms`, whose systems stop: a request without a `catch` has failed, the
connection is closed, the login has failed, the process is over, the result is there.

## 5. Fairness

Weak fairness for a thread's next step, strong fairness for a step that needs a mutex
other threads keep taking (the operating system's mutex does not starve a waiter for
ever). Where a thread waits for a condition variable, being notified is part of the
model and not of the fairness. Signals, keys, pauses, stops, found solutions, new blocks,
dropped connections and exceptions are never fair: nothing obliges them to happen.

`SoloJobs` adds strong fairness of `Answers` (a peer that is up does not refuse every
request for ever) and of `Tick` (time passes between two readings of the clock).

What is assumed of the outside is stated in the property or next to the specification:
`PollsRecover` assumes a node that comes back for good and `WaitingTxMined` one that
keeps the transaction, `StreamRecovers` and `StopEnds` of
`EventStream` a peer that stays and that never falls silent for ever (`NeverSilent`:
`recv` has no timeout), `SharesDrain` and `ProcessEnds` that calls to the outside return.
`StopEndsUnlessMissed` of `StratumMining` leaves out the one wakeup that the code can miss
(section 7).

## 6. What is proved

Every theorem is checked by TLAPS for all values of the constants that satisfy the named
assumptions in the module that declares them; these say only that bounds are naturals and that sets are
what the code makes them (there is a worker, a "none" is not a value). One says more:
`PowBufferAssumption` has a byte take more than five values and the nonces be of the widest form, since
`next_nonce_base` sets bit 32 and the templates start there. There are no assumptions about the behaviour of the code.

Each proof has the same shape: an inductive invariant, one step per action, and under it
one per conjunct that the action disturbs; the properties follow from the invariant.

- **WorkerPool** (`PoolInv`, in `WorkerPoolInv`). The properties speak of the result of a
  call; the invariant has to say why nothing changes it after the barrier: a worker that
  is hashing has observed the current generation and copied the current job
  (`BusyWorkers`), a finished round has no busy worker (`Barrier`: the completion count is the
  number of workers that reported to this generation), nonce and hash have one writer
  per round (`FoundPair`). From it: `RoundShared`, `HonestOutcome`, and
  `PoolImplementsRound`, the refinement: each action maps to a step of `MiningRound`
  or a stutter. On top of it, `NoLostWakeup` proves `WakeInv`: a worker sleeps through a new
  generation, or through the end of the pool, and `mine_block` through a stop, only until the thread that made the change gets
  to its `notify_all`. It is inductive because a thread between its predicate and its sleep
  keeps `work_mutex_`, so whoever makes the predicate true has to pass it first. `PoolIsAwake`
  follows: when `mine_block` or the final join sleeps, somebody it waits for is awake or
  about to be woken. These two are safety, the part of `RoundEnds` and `StopEnds` that holds for any number of
  workers; TLC has checked both invariants on 2 workers and 2 rounds, and no run repeats it.
- **StratumMining** (`StratumInv`): number and job change together, the worker's copy is
  the job of the number it observed, a queued share that carries the active job's id is filed under
  the job it was hashed for, and share, queue and ledger are disjoint. `NoJobIsSleptThrough`: a worker that
  is asleep on a job that has been replaced will be notified; the main loop publishes under
  `job_mutex`, so the window that the shutdown leaves open (section 7) does not exist for a new job.
- **StratumClient** (`ClientInv` of `StratumClientProofs`). `Ordered` puts everything that may
  still become a job into one order: the last job taken, then the queue, then the jobs on the
  wire. `Exchange` says that an id belongs to one request and to one answer; with it
  `Honest` follows the answer to the share in progress, so that "accepted" is said only of a
  share the pool took. `SentOnce` gives the converse: outside `LOGIN_CAPS_SUBMIT` a
  share is sent again only after the pool said that it did not take it, so one that is
  rejected is lost for good. `LoginPath` and `Settled` tie the mode to the attempt that succeeded.
  `ClientImplementsSession` is the refinement of `PoolSession`. Most steps stutter: what a login tries, what it
  reads on a connection it then gives up, an answer that is late. A message read maps to `Keep`, `ReturnNew` or
  `Judge` by its kind; that the jobs waiting are in order and the newest is the last comes from `Ordered`, and that a
  verdict may be given from `Honest` and `SentOnce`.
- **Jobs** (`JobProofs`). `ClientInv` of `SubmitClient`: the flags describe the connection
  at hand. `JobsAreRequests`: each step of `SoloJobs` is a step of `SubmitClient` or
  stutters, so `JobsKeepClient` needs no second proof. `PoolJobsInv`: the event thread stores
  before it counts, so what is read under the mutex is never behind the number it is filed
  under. `JobsInv` of `SoloJobs`: between two requests nothing is owed; nothing that had left
  before the fetch began is among the pages read so far, and these are the first pages of the mempool as long as
  they stay where they were read, whatever comes and goes behind them. From it `CacheAlwaysDated` and `PagesAlwaysAddUp`. `filter_mempool`'s loop is a
  recursive function, so the lemmas about it go by induction (see below).
- **PowBuffer** (in `JobProofs`). `PowInv`: the buffer is what comes before the nonce, the
  nonce, and what comes after. The work is in the lemmas: each part of the encoding is a sequence
  of bytes, the offset recorded by the template is the length of what comes before, nonces of the
  widest form have all the same length, and writing the bytes of one over another in place gives the
  encoding of the new one. `HashAlwaysAsSent` says that what is hashed is what is encoded
  for what is sent, for any block or reward transaction and any order of nonces.
- **SoloMining** (`SoloInv`): the watcher lives within its round; announced and received
  events never exceed the chain's height.
- **BlockTarget** (in `SoloMiningProofs`). `TargetAlwaysExact`: after each byte, what has been multiplied and
  what is still to come add up to the product, and likewise for the quotient and its remainder; the loops are
  therefore exact, or saturated, for any size of a byte and of a target.
- **Base36** (in `SoloMiningProofs`). `WrittenIsReadBack`: an array of bytes comes back from its text;
  `TextIsItsNumber`: a text of one digit or more is accepted exactly if its number fits, and what it gives is that number. Only
  `Base36Assumption` is used (a radix and a byte of more than one value, some length). Digits are related to numbers by a
  function that adds them up; a carry, one division and one multiplication are each shown to be the arithmetic they stand for, and a number
  has one writing without leading zeros, so equal numbers give equal arrays.
- **Placement** (in `WorkerPoolProofs`). `PlacementInv`: worker `w` is on slot `w % UsedCount`, and of `n`
  workers each slot in use has `q`, the first `n % UsedCount` one more. Why that spreads them well is
  a matter of the order of the slots: tiers do not mix, a core's first CPU comes before the second CPU
  of any core of its tier, so a shared core means that every core of the tier is taken, and fewer slots
  than cores have come before. `AlwaysSpread` holds for any machine and any number of workers, whatever can be read of the kernel; what it says of
  cores, only where all CPUs of a core come out in one tier (`CoresAlike`).
- **RewardMining** (`RewardInv`): where each thread is in its batch determines the nonce
  in its pipeline; one thread at a time is between the claim and the hash. `NoncesAlwaysCovered`: the nonces a
  thread is done with are all those of its residue below its place.
- **EventStream** (`EventInv`): who holds `io_mutex_` follows from the event thread's place.
- **MinerProcess** (`ProcessInv`): which threads can exist at each point of `main`, that the
  memory is there at those points, who may hold the `Miner`; plus the runtime's invariant.
  That the dataset's chunks partition it rests on three lemmas about division.

Induction over data goes through sets: the library's `WFMin` gives `NatInductionOnSets`, where a
predicate is the set of the numbers it holds of, and from it `BoundedRecursion`, that a recursion
has a value at every number. What the recursive functions of `SoloJobs` and `PowBuffer` compute is proved with these.
For `Base36`, whose encoder recurses on quotients and whose other loops recurse on sequences,
`RankedRecursion` generalises it: a recursion whose calls have a smaller rank has a value everywhere.

Only model-checked: all liveness, which is out of this prover's reach, and the JSON part of `TextIsExact`, whose
readers and writers call each other over nested data by `RECURSIVE` operators, which the prover cannot use; its
base 36 part is what the two theorems above state.

## 7. Where the code departs from what it says, or from what one would expect

Two are shown by runs:

- `solo_missed_block`: a block announced while a job is being built is absorbed by the
  number sampled afterwards (miner.cpp:1035); in the events mode the watcher does not
  compare heights, so the stale job is mined until the *next* block.
- `event_ctrl_c`: after a stop, `disconnect` waits for the `io_mutex_` that the event thread
  holds in a `recv` without timeout (node_client.cpp:401); Ctrl+C works only when the peer
  sends something or goes away.

The others were met while modelling; each is in a model as the code has it, or is named as
left out.

Threads and stopping:

- miner.cpp:1602: the stratum shutdown stores `quit_workers` and notifies without holding `job_mutex`, and
  `request_stop` does not notify `job_cv`: a worker between its predicate and its sleep misses
  the wakeup, and the join waits for a worker that nobody wakes (the exception in `StopEndsUnlessMissed`).
- miner.cpp:185, main.cpp:253: the signal handler locks `work_mutex_`, which the thread it
  interrupts may hold (left out of `MinerProcess`); after an exception `g_miner` still points to
  the destroyed `Miner` (the exception in `LiveMiner`).
- miner.cpp:1030, 1360, 1643: an exception while a `std::thread` is joinable ends in
  `std::terminate`, which leaves the terminal raw (the exception in `TerminalRestored`).
- miner.cpp:357: a paused worker hashes 15 of every 16 iterations; the pause only slows it down.
- crypto.cpp:656: the ladder means to keep AES and JIT as long as it can, yet where only the dataset's memory is
  missing it drops both before it tries light mode.

Pools:

- node_client.cpp:167: a failed greeting of a pool throws outside the `try` that closes the socket;
  every later request finds the dead socket and fails the same way.
- miner.cpp:1388: a stratum worker that left its loop for a pause waits, after the resume, for a
  job it has not seen; on a quiet pool it stays idle.
- miner.cpp:1476: a clean job empties the queue after it is installed, and may drop shares
  already found for the new job; the log calls them stale.
- miner.cpp:1492: after a broken stream the status says "reconnecting", and nothing reconnects.
- miner.cpp:1432: `pending_shares` has no limit.
- stratum_client.cpp:1004: in the `LOGIN_CAPS_SUBMIT` mode a share that timed out is sent again; if
  the first was credited, the share is reported rejected.
- stratum_client.cpp:324, 329: a difficulty that is not a number throws out of `login`, `poll_job` or `submit_share`,
  although each of them reports its errors; nothing catches it before a thread is left joinable (`ReadThrows`).
- stratum_client.cpp:674: an authorization whose result is `false` counts as success.
- stratum_client.cpp:435: when the first job comes before the answer to `login`, the session id in
  that answer is never read.

Jobs:

- miner.cpp:45: `filter_mempool` keeps transactions however old they are and drops only those
  dated far in the future; `trim_expired_transactions` (crypto.cpp:1048) drops the old ones, but
  solo jobs do not call it.
- miner.cpp:501: the cached mempool may be two seconds old, so a job may hold transactions that the
  block which started the round has just mined; one that cannot be refreshed is reused
  without a limit. miner.cpp:529: when the previous block's hash is not known, the genesis hash is used.
- node_client.cpp:320: pages of the mempool are read at different moments, so a transaction
  can be missed or read twice when others leave or arrive in what has been read; the loop reads `max_pages + 1` pages.
- crypto.cpp:868: `(1 + 0.005 n) * 1000` is computed in floating point and cut, which for some
  `n` gives one less (1004 for `n = 1`). `BlockTarget` takes the scale as it comes out.

Text and placement:

- json.cpp:452: control characters are written as `\u00XX`, which the reader does not decode; written
  again, their backslash is doubled. json.cpp:483: a double is printed with 16 digits, which do not
  always give it back. json.cpp:419: of two members of one name the first is kept. types.cpp:272, 378, 443:
  a number in an array of bytes is cut to eight bits without a word.
- types.cpp:26: base 36 is read in either case and written in lower case, so a text comes back but for its case.
- perf_platform.cpp:81 (Linux): a CPU of which nothing can be read, because it is offline, gets a slot like any other, on package 0
  and the core of its own number, which may be another CPU's; a worker is then pinned to it, and the call fails unnoticed.
- miner.cpp:301: with `numa_bind`, the thread is bound to a node after it was pinned, which overrides the pin.
- README.md:299 says that `performance_cores_only` limits the number of threads; the code does
  not, and on Linux the option has no effect without `pin_threads`.
- README.md:300 says that `randomx_pipeline_batch` scales up to 128; the batch is clamped to 32.
- perf.cpp:372: the summary of the mapping ignores `performance_cores_only`, and shows other slots than the
  workers get.

## 8. What is not modelled, and what comes next

Not modelled, and why:

- configuration and command line: parsed once, before any thread exists; the constants and
  initial choices of the modules stand for their outcomes;
- statistics, wallet figures, dashboard: they read the mining state and decide nothing;
- floating point: numbers with a point or an exponent in JSON, the address filter's sizes, the pool
  difficulty's conversion to a target; TLA+ as checked here has integers only;
- the Merkle root, SHA-256 and RandomX: what they return is compared with nothing but itself in this
  program, so no property depends on how they are computed; the RandomX library is vendored;
- the amounts of the reward transaction and its schedule: straight-line arithmetic on one number;
- `trim_expired_transactions`, called once per native pool job, one pass over a list;
- the texts of JSON-RPC messages: `StratumClient` knows them by their kind;
- NUMA binding, priorities, huge pages, hwloc, and the macOS and Windows variants: advice to the
  operating system, whose answers are ignored;
- `interrupt_all`: called only by a process about to exit.

Next, in this order:

1. `PoolJobs` and `SoloMining` as users of `MiningRound` by refinement instead of by abstraction in
   words; `StratumMining` as a user of `PoolSession`, which needs a share resubmitted after a mismatch to be two shares of the contract.
2. JSON values with a rank, and reader and writer as recursive functions over it, so that they can be proved about.
3. The odd levels of the Merkle tree and the stratum target's encodings (stratum_client.cpp:1196)
   against reference definitions.
