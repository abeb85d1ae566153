# workstation-probe in TLA+

This directory holds TLA+ models of workstation-probe's monitor, TLC
configurations that check them on small instances, and TLAPS proofs of the
properties that matter most. `PROJECT.json` lists the components, the runs, the
properties and the mutation that breaks each of them, the source lines every
definition models, the findings, the hazards and the theorems.

    tlc -workers 2 -config RingBuffer.cfg RingBuffer     # a run
    tlapm RingBufferProofs.tla                           # a module's proofs

## 1. The system

`monitor` is one Go process that samples a workstation and serves the samples
over HTTP. `cmd/monitor/main.go` takes a PID lock, loads the configuration,
builds the enabled modules, starts one sampling goroutine for each, serves HTTP
until a signal or a listener error, and shuts down.

| Component | State | Operations | Talks to |
|---|---|---|---|
| Ring buffer (`metrics/ringbuffer.go`) | `data`, `head`, `full`, an `RWMutex` | `Push`, `Snapshot`, `Latest`, `Len` | the sampling goroutine pushes, handlers read |
| Sampling base and loop (`metrics/base.go`) | `latest` (atomic pointer), `buf`, `lastSampleUnix` (atomic) | `Publish`, `Latest`, `LastSampleAge`, `HistoryWithin`, `RunLoop`, two routes | a ticker, the root context, handlers |
| CPU, memory, gpu modules | a Base and a collector | `New` (first sample), `Start`, `collectOnce`, `History`, `Peak` | gopsutil, NVML |
| Storage module (`storage/module.go`, `mounts.go`) | a Base, the mounts | mount validation, `collectOnce` | the disk collector, the mount table |
| Disk collector (`storage/collector.go`) | `inFlight` map, one `diskUsageCall` per path | `Usage`, `callFor` and its worker goroutine | `statvfs`, which cannot be interrupted |
| PID lock (`lock/lock.go`) | one file | `Acquire`, `Release` | other processes, through the file system |
| Health, combined and profile handlers | none of their own | one request each | every module |
| Rate limiter (`middleware/ratelimit.go`) | a token bucket per address | `Reserve`/`Cancel` per request, idle sweep | requests, a ticker |
| Middleware chain (`middleware/chain.go`, `server/server.go`) | the request under way | recovery, request id, access log | requests, handlers that panic |
| CORS (`cors/`) | the parsed patterns | `Parse`, `Match`, preflight | requests, the configuration |
| Lifecycle (`main.run`) | root context, server, modules | start-up, select, shutdown | everything |
| Configuration | the loaded record | defaults, `Validate` | start-up only |
| Web view (`webview/.../poller.js`) | one poller per (api, refresh, query) | subscribe, tick, profile retries | `/metrics`, `/profile` |

What is hard in it:

* *Shared state without one lock.* `Publish` makes a sample visible in three
  separate stores while handlers read `latest`, `buf` and the time stamp
  independently; two handlers look at a module twice in one request.
* *Time.* A ticker drops ticks while a collection is slow; staleness is judged
  against twice the interval; the window of a history request is cut off before
  the buffer is read.
* *System calls that hang.* `statvfs` on a dead mount never returns; callers
  give up on workers that go on.
* *Processes.* The PID file outlives crashes, pids are reused, and the file is
  read, checked and written in separate steps.
* *Aliasing.* The buffer copies samples, not the slices inside them.
* *Tokens on loan.* A request reserves a token, finds out that it would have to
  wait, and gives it back, while other requests of the address do the same and
  the sweep may forget the bucket.
* *Shutdown.* A signal, a listener that fails, handlers that never end and a
  gpu that is being read meet in any order.
* *Timers and failures in the browser.* Two loops keep themselves going through
  errors, aborts and panels that throw.

What makes each part correct:

* Ring buffer: every read is of one instant, and no goroutine is locked out.
* Base: the history is exactly the newest samples; the three stores are only
  ever seen in one order; a hang shows in `/health`, and a sampler that keeps
  up is never called stale.
* Handlers: answers never go back in time; a history answer is the window that
  was asked for; `/health` contradicts itself only for a reason.
* Disk collector and storage module: one worker per path, no answer older than
  an earlier one, every call and every round ends, a mount that comes back is
  asked afresh.
* PID lock and lifecycle: one monitor runs and the file names it; what is
  accepted as a configuration can be built; a signal ends the process;
  what is read from a released NVML is not served.
* Rate limiter: nobody gets more than burst and rate allow, as far as forgotten
  buckets let it, and `Retry-After` is long enough.
* Chain and CORS: the headers are on exactly the answers to admitted origins, a
  preflight is never charged, the log line is of the answer that was sent.
* Peak: the maxima are those of the window, and the subtractions wrap only where
  the figures they are given had wrapped already.
* Poller: one chain of requests per poller, which neither forks nor ends, and
  panels that show what the poller has.

## 2. The modules

| Module | Models | Notes |
|---|---|---|
| `BoundedLog` | what the ring buffer promises | abstract: the newest `Cap` values, atomic reads |
| `RingBuffer` | `ringbuffer.go` statement by statement | implements `BoundedLog` |
| `Sampler` | one module's `New`, `Start`, `RunLoop`, `collectOnce`, `Publish` | uses the bounded log for `buf` |
| `MetricsAPI` | `Sampler` with the routes of `base.go` and `/health` | EXTENDS `Sampler` |
| `DiskCollector` | `storage/collector.go` | |
| `StorageSampler` | `storage/module.go`, `mounts.go` | EXTENDS `DiskCollector` |
| `CpuPeak` | `cpu.Peak` and the cpu section of `GET /metrics?mode=peak` | slices as references into a heap |
| `CombinedPeak` | `GET /metrics` in both modes; memory, gpu and storage modules | EXTENDS `CpuPeak` |
| `PidLock` | `lock/lock.go` and the processes around it | |
| `Cors` | `cors/origin.go` | operators, with the documented grammar as reference |
| `Config` | `config.go`: `Load`, `applyDefaults`, `Validate` | operators; EXTENDS `Cors` |
| `Lifecycle` | `main.run` of several processes | EXTENDS `PidLock`, `Config` |
| `RateLimiter` | `middleware/ratelimit.go` on `x/time/rate` (external) | |
| `Pipeline` | `server.go`'s chain: `chain.go`, `cors/middleware.go`, the limiter, the mux | EXTENDS `RateLimiter`, `Cors` |
| `Poller` | the web view's `poller.js` | |
| `SamplerProofs` | theorems about `Sampler` and `MetricsAPI` | |
| `RingBufferProofs`, `PollerProofs` | theorems about the module of that name | |
| `PipelineProofs` | theorems about `RateLimiter` and `Pipeline` | |
| `LifecycleProofs` | theorems about `PidLock` and `Lifecycle` | |
| `StorageProofs` | theorems about `DiskCollector` and `StorageSampler` | |
| `PeakProofs` | theorems about `CpuPeak` and `CombinedPeak` | |
| `Recursion` | induction over the naturals and recursive functions, as lemmas about sets and functions | used by `SamplerProofs` and `PeakProofs` |
| `MCStorageSampler`, `MCCombinedPeak`, `MCLifecycle`, `MCPipeline`, `MCPoller` | constants for TLC | |

**RingBuffer.** `data`, `head` and `full` are the fields of the struct. A `Push`
is a call, the two halves of `RWMutex.Lock`, one step for each of its three
assignments, and the unlock. `Snapshot` makes its slice and its two copies in
separate steps. The mutex is Go's: a writer announces itself (new readers then
wait), waits for the readers inside, and releases all waiting readers when it
unlocks. A push takes effect, for the refinement, when it stores its value:
`Log` reads `head` and `full` as they will be at the end of the critical
section.

**Sampler.** `latest`, `buf` and `lastSample` are the fields of `Base`; `pc`
follows the goroutine through the construction (`collect` to `built`), `Start`,
and the `select` of `RunLoop`. The clock is a number; the ticker has a channel
of one tick and drops a tick that finds it full. A select with both cases ready
takes either. A collection takes any time unless `Prompt` is TRUE. A sample is
its number, the time its oldest value was read, its `Timestamp` and whether it
failed. The first two differ: the cpu, memory and storage modules take the
timestamp when they have the values, the gpu collector before it queries the
devices, and a failed cpu sample has none (`CpuSample`, `MemorySample`,
`StorageSample`, `GpuSample`). Values are read while the collection lasts,
except that a usage of the storage module may come from a `statvfs` that an
earlier round began (`ReadTimes`). `stamped` is a history variable.
The model's clock never steps back; the code's age is computed from the wall
clock, which may (see the hazards).

**MetricsAPI.** Each client has one request under way. `HistoryWithin` takes its
cutoff in one step and its snapshot in another; `/health` reads the age for the
answer and again for the comparison. `seen` and `mark` are history variables. A
query parameter is a parsed value or one that is refused. The filter (`Keep`) is
a recursive function, the loop of `HistoryWithin` sample by sample. A disabled
gpu module (`Enabled = FALSE`) is part of the model and of the theorems; the
runs have an enabled one.

**DiskCollector.** A `diskUsageCall` is a member of `Calls` with a `phase`
(registered, in `statvfs`, about to close `done`, about to remove its entry,
gone); objects that nothing refers to are used again, which stands for garbage
collection. The critical section of `callFor` is one step, the `go` statement
another. A file system's usage is a version number, and a `statvfs` returns a
version the file system had during the call, or an error. Version 0 is the
zero `Usage` a caller would see if it read the result too early.

**StorageSampler.** Start-up checks the configured paths against the mount
table; `collectOnce` asks for the mounts in turn, in the order of the
configuration, and publishes one sample. Its only caller is the sampling
goroutine.

**CpuPeak, CombinedPeak.** `cell[i]` is the backing array of sample *i*'s
`PerCorePercent`. `Peak` walks its snapshot newest first, one step per sample,
per comparison and per store, and stores where the code's slice points: into
the array of the published sample it was seeded from, until a longer slice has
been copied. For the cpu module the clock is the sampler, one sample per
instant. `CombinedPeak` adds the other modules, whose `Peak` works on values of
its own and is a recursive function over the snapshot (newest first for memory,
oldest first for gpu, as the loops go), the handler around them
(its window, its fallback, which reads the latest sample in a step of its own,
the section it leaves out), and
`usedWithoutReclaimable` with subtraction modulo `Word`. A behaviour has one
module, since the handler asks one after another and they share nothing.
The kernel's figures are arbitrary, also more available or free than there is,
and gopsutil's `Used` is the total less what is available, modulo `Word`
(`memory/module.go:147-149`). A gpu device's five stress fields are treated
alike and are one load. Times are counted from an `Epoch` longer ago than any
window, so that the missing timestamp of a failed cpu sample is before every
cutoff.

**PidLock.** A process is free, foreign, or a monitor at some statement of
`Acquire`. `os.WriteFile` is an open with truncation followed by a write; a
write over another pid may leave a mixture; a file removed while a starter has
it open becomes an orphan. Crashes happen anywhere and clean nothing up, and a
freed pid may be taken by a monitor or by anything else. The file's initial
content is arbitrary. A file that is there and cannot be read counts as none
(`ReadFails`, `lock.go:26`), and a live process the starter may not signal as
dead (`CheckDenied`, `lock.go:59`). Two history variables: `overlapped`, a start
has begun while another was inside `Acquire`; `blind`, a start has gone past a
monitor in one of these two ways.

**Cors, Config.** An origin is its scheme, whether it has userinfo, and its
host split at the dots; a label is plain or contains a `*`. `Parse` and `Match`
follow the code; `Admits` is the grammar the comments document, written
independently. `Config` keeps the keys something is built from: 0 is a key that
is missing, and `applyDefaults`, `Validate` and the places that would panic on
a bad value (`NewRingBuffer`, `time.NewTicker`) are operators on the record.

**Lifecycle.** `run[p].at` is the statement `run` has reached: `flags`, `load`,
`build`, `serve` (the select), `drain` (the server's `Shutdown`), `stop` (the
modules' `Shutdown`), `leave` (the deferred calls). The listener's goroutine, a
handler (one stands for all) and the gpu module's loop take steps of their own;
the other modules' `Shutdown` does nothing. `InGpu(p)` says that `run` itself is
in a call of the gpu's library, building the module or shutting it down. An
address is a host and a port; a wildcard host meets every other (`SameAddr`),
and one process binds it.
`Acquire` and `Release` are `PidLock`'s steps.

**RateLimiter.** `limiterFor` under the limiter's mutex is one step, `Reserve`,
`Delay` and `Cancel` one each, since the library takes the bucket's own mutex in
each of them. A token is `Cost` units and a bucket gains one unit per unit of
time; the library's floating point is left out. `Reserve` reads the clock and
takes the mutex at one instant. `Cancel` is `CancelAt` as the library has it:
nothing once the time has come, otherwise the token less what reservations made
later have taken. `Hold` bounds how long a request stays between its look-up
and its last step, and `LimiterAssumption` says that `IdleEvictAfter` is at
least that. Nothing relates it to the time a bucket takes to fill: it is ten
minutes, and `Validate` accepts any burst and rate. `made` is a history
variable that counts the buckets made for an address.

**Pipeline.** Each request goes through `stage`s; the layers outside the limiter
only have state of that request. A panicking handler unwinds past the access
log to Recovery. `clientIP` and the exempt paths are part of `EnterLimiter`.

**Poller.** JavaScript runs to the next `await`, so an action is what runs
between two awaits. `at` and `profileAt` are the await a loop has reached,
`timers` the pending timeouts. `up` means that a request is answered before the
poller's own timeout aborts it.

## 3. What the runs check

All passing runs end well within five minutes.

| Run | Instance | Distinct states | Shows |
|---|---|---|---|
| `ring_buffer` | 3 slots, 2 values, 2 writers, 1 reader | 210,792 | `ReadsAreConsistent`, `ImplementsBoundedLog`; `PushReturns` and `ReadReturns` under fairness |
| `metrics_api` | memory module, interval 1, 2 slots, clock 4..8, 1 client | 1,590,736 | `PublishOrder`, `HistoryExact`, `HangIsReported`, `NoBackwardReads`, `HealthContradictionExplained` |
| `metrics_api_prompt` | gpu module, interval 3, collections of at most 2, start within 1, clock 4..13, 1 client | 292,913 | `NoFalseAlarm`, `HealthyMeansFresh`, `HistoryIsTheWindow`; `TickIsServed` under fairness |
| `lifecycle` | 2 pids, 14 configuration files | 271,516 | `SerialExclusion`, `HolderIsNamed`, `SettledHolderIsSafe`, `AcceptedMeansSound`, `ReleasedReadsUnseen`; `SignalEndsMonitor`, `RaceResolves` under fairness |
| `pid_lock_race` | 3 pids | violation | finding 1 |
| `pid_lock_reuse` | 3 pids | violation | finding 2 |
| `storage_sampler` | 2 mounts; lists of two, of one and of none; 2 versions, 2 calls | 355,120 | `OneWorkerPerPath`, `RoundIsComplete`, `AnswersNeverGoBack`; `HungMountRecovers`, `RoundEnds` under fairness |
| `peak` | 3 samples in 2 slots, windows 1 and 2; cpu with 1 client and 1 or 2 cores or with 2 racing clients, and each other module | 1,330,008 | `OverallIsMaximum`, `PeakNeverUnderstates`, `SharedArraysHonest`, `MemoryAddsNoOverflow`, `MemoryPeakExact`, `GpuPeakExact` |
| `cpu_peak_stale` | 1 client, 1 core, 3 samples | violation | finding 3 |
| `pipeline` | 2 concurrent requests of 8 kinds, 3 settings, burst 1, buckets forgotten before they refill, clock 0..3 | about 2,900,000 | `GrantsWithinRate`, `RetryAfterSuffices`, `PreflightNeverCharged`, `CorsHeadersExact`, `LogMatchesAnswer`, `OnePeerOneBucket` |
| `rate_limit_charge` | 1 address, 2 goroutines, tokens of 3 units | violation | finding 4 |
| `poller` | 1 poller, 3 panels of which 1 throws, 3 versions | 9,369 | `OneChain`, `PanelsAreCurrent`; `PageRecovers` under fairness |

The type invariants and the inductive invariants (`TypeOK`, `IndInv`,
`SamplerInv`, `PromptInv`, `DiskInv`, `FreshInv`, `StorageInv`, `LifeInv`,
`RateInv`, `ChainInv`, `PageInv`, `CombinedInv`, `SectionInv`, `HealthInv`,
`ReadInv`, `TimeInv`, `SeenInv`, `CutoffInv`) are proved and no part of the
configurations. Deadlock is checked in every run: each system can always do
something.

**Bounds.** Three slots let `head` be at either end and in the middle, and the
runs wrap several times; two writers and a reader show every conflict of the
mutex, whose rules are pairwise. In `metrics_api` the clock has room for a
collection longer than two intervals and for a full history that evicts; two
slots distinguish the oldest from the newest. In `metrics_api_prompt` at least
two ticks follow the slowest permitted start. Two mounts and two versions are
what going back in time needs; one caller leaves at most one live call per other
mount behind, so two calls are enough (with several callers the property is
proved). Two processes are what the lock and the port are between; the theorems
about the lock are for any number, and the two violations have a third. The
fourteen files are an unreadable one, the empty one, three that are accepted (on
the loopback, on an address of the host, on all of them) and one for each check
that refuses; all of them meet every order of signals and failures. One of the
accepted ones has a gpu. Three samples in two slots are the fewest in which a
sample is evicted and a load leaves the window after it has been copied; the
racing clients have three loads, so that a store may lower an entry another
client has raised. Two requests of an address are what reservations on one
bucket need to get in each other's way, and a third refills the slot of the
first. A token is 3 units and `Idle` is 1, so that a bucket that is forgotten at
time 2 has not refilled and the address is indeed let through more often than
one burst allows; that a bucket which refills in time brings no burst is proved,
for every burst, rate and idle time. The eight kinds of request differ in what a
layer looks at: method, origin (a match by wildcard, one label too many, a star,
userinfo, a literal), path, `X-Forwarded-For`, request id. `r1` and `r2` are
symmetric: they are goroutines with the same steps, and no property
distinguishes them. Three versions let a panel be behind by two. The bounds that
cut counters are `MaxTime`, `MaxClock`, `MaxVersion`, `MaxSamples` and
`MaxRequests`.

**Fairness.** `RingBuffer`: goroutines that hold or wait for the read lock and
writers past the announcement run on (weak fairness); the announcement is
`sync.Mutex.Lock`, whose starvation mode hands the mutex over to a goroutine
that has waited too long (strong fairness). Calls are never forced.
`Sampler`: the goroutine runs, collector calls return and a ready select is
taken (weak fairness); the cancellation and the clock are not fair.
`StorageSampler`: the sampling goroutine runs and its deadlines pass, workers
run and a `statvfs` on a mount that answers for good returns (weak fairness).
Nothing makes a hung mount answer, so `RoundEnds` holds although every `statvfs`
may hang for ever, and `HungMountRecovers` takes the recovery as its hypothesis.
`Lifecycle`: `run` and the goroutine of the listener run on (weak fairness);
nothing is assumed of handlers, whose client may be slow, of signals, or of the
gpu: `run`'s own calls of its library (`InGpu`) are left out of the fairness, and
the two properties say what holds while they do not return. `Poller`: timers
fire, and a request of a loop ends, since the poller aborts it itself after a
while (weak fairness); the server owes nothing, and `PageRecovers` takes a
server that stays up as its hypothesis.

## 4. What is proved

The theorems hold for every value of the constants allowed by the named
assumptions, which TLC evaluates on the instances: `CapAssumption`,
`ProcessAssumption`, `SamplerAssumption`, `APIAssumption`, `PidAssumption`,
`RawConfigAssumption` (a file decodes to a record of the right types, or is
unreadable), `DiskAssumption`, `StorageAssumption`, `LimiterAssumption`,
`PipelineAssumption` (the accepted patterns parse, which `Validate` sees to),
`PollerAssumption`, `PeakAssumption` and `CombinedAssumption` (loads are
numbers, a sample has at least one core, and the machine word holds the total).

*RingBufferProofs.* For every capacity and any sets of goroutines: the types,
`ReadsAreConsistent`, `OnlyPushedValues`, and that `RingBuffer` implements
`BoundedLog`. None of them is inductive alone. `IndInv` adds that the mutex
works (`LockInv`: at most one writer is announced, and no reader holds the lock
while it is inside), that the log holds pushed values only (`LogInv`), and how
much of its result each reader has copied (`ReaderInv`). The refinement is
proved step by step: `PushStore` is the abstract push, `ReadReturn` the abstract
read, everything else a stutter; the lemmas say how the chronological contents
change when a slot is overwritten and `head` moves on, wrapping or not.

*Recursion.* The loops over a history are recursive functions, and what they
compute is proved by induction. The library's induction theorems take an operator
as parameter, which the provers cannot instantiate, so this module derives what
is needed from a statement about sets: that `<` is well-founded on the naturals.
A non-empty set of naturals has a least element (`LeastElement`); therefore a set
that has 0 and with each number the next has them all (`SetInduction`);
therefore a recursive function over `0 .. N` exists and stays in the set its
steps stay in (`Iteration`, `IterationType`).

*SamplerProofs.* For every interval, capacity, kind of module and clock:
`PublishOrder`, `HistoryExact` and `HangIsReported`. `SamplerInv` ties the
program counter to which of the three stores already belong to the sample under
way (`LoopInv`), and the start of a collection to the last publication
(`HangInv`). `NoFalseAlarm` is proved for every choice of bounds with
`StartDelay + CollectBound <= Interval`, assuming `Prompt`; `PromptInv` bounds
the age of the last publication at every place of the loop, relative to when
the next tick is due. `HandlersOnlyRead` carries all of it over to the module
while its routes and `/health` are served. `HealthContradictionExplained` needs
`HealthInv`: between the two reads of a request the age can only have grown,
unless the number of the stamped sample has. `HealthyMeansFresh` needs `ReadInv`
(assuming `Prompt`): values are read after their collection has begun and at
most `CollectBound` before they are published. It says nothing of the storage
module, whose usages may be of an earlier round; how old they can be is
`AnswersNeverGoBack`'s subject.

`HistoryIsTheWindow` and `NoBackwardReads` rest on what the filter returns.
`KeepSelects` shows by induction over the history that it returns the entries
that are not before the cutoff, all of them and in order: there is an increasing
map from the positions of the result to those of the history that hits every
entry that passes. `HistoryAnswers` adds the limit, which leaves the newest.
`TimeInv` says that the history's timestamps do not go back (a failed cpu sample,
which has none, aside), and how they lie to the times of the values: the gpu's
before, the others' after (`Stamped`). So the gpu module shows no value read
before the window, and the others miss none that was read in it; the converses
are false of the code. `CutoffInv` says that a cutoff is later than the zero
time, which keeps failed cpu samples out of every answer and its order intact:
`HistoryIsTheWindow` holds of every module. A non-empty answer ends with the
newest sample of the module if all samples have timestamps. `SeenInv` says that
no client has been shown more than has been published, and the stores of
`Publish` let the history lag the latest by one. `NoBackwardReads` assumes
`Kind # "cpu"`: a failed cpu sample is shown as the latest and is missing from a
later history, so of the cpu module it is false. What holds there as well is
`LatestNeverGoesBack`: `GET /metrics/<name>` serves nothing older than the client
has seen on either route.

*LifecycleProofs.* For any set of pids: `SerialExclusion` and `HolderIsNamed`
from `IndInv`, which says that, until two starts overlap or one goes past a
holder unseen, one process at a time is in `Acquire` and what it has read is
still true when it acts on it; and `SettledHolderIsSafe` with no such condition,
which names the two failures that can get past a settled holder.
`MonitorUsesLock` shows that `LifeSpec` implements the lock's specification:
each step of `main.run` is a step of the lock or leaves it alone. So all three
hold of whole monitors (`MonitorsAreExclusive`), with their files, ports,
signals and crashes. For any set of configuration files, `LifeInvariant` keeps
every process in `GoodRuns`. `SoundInv`: a configuration in use is one that
`Validate` has accepted, from which `AcceptedMeansSound` follows by going
through the checks of `Validate` (the `MaxPort` bound, the duplicate mounts, the
origins that must parse). `ReleaseInv`: NVML is released only after the listener
is closed, and a handler that is still there was given up on, from which
`ReleasedReadsUnseen` follows; alone that property is not inductive, since it
does not say that a handler cannot begin after the release.

*StorageProofs.* For any mounts, callers and calls: `OneWorkerPerPath`,
from `DiskInv`, in which the map's entries and the live workers are in
one-to-one correspondence; and `AnswersNeverGoBack`, from `FreshInv`. The second
needs to know what every call can still answer. `KnownInv`: nobody knows a
version newer than the file system's. `OrderInv`: a call that can still answer a
caller answers with nothing older than what that caller has, because its
`statvfs` began later, or because what the caller has came from this very call.
The hard case is a call whose worker has gone while somebody still waits for it:
its late answer must not outdate a later call. `LateInv` says that it cannot,
since the later call began after the earlier one had ended.

`StorageUsesCollector` shows that the storage module implements
`DiskCollector`: its rounds are calls of one caller, and what `module.go` does
between them leaves the collector alone. This carries `OneWorkerPerPath` and
`AnswersNeverGoBack` over to it (`StorageIsServed`). `RoundIsComplete` needs
`StorageInv`: a round has asked for the first mounts, in order, and while the
goroutine waits there is one more to ask for (`RoundInv`); a worker is for a
configured mount (`WorkersInv`). With one worker per path, the number of
workers is then bounded by the number of distinct mounts, by an injection from
the one set into the other.

*PipelineProofs*, the limiter. For any addresses, any finite set of goroutines,
any burst, rate and idle time: `GrantsWithinRate`, from `RateInv`. It is an
account of each address: what has been granted, what is reserved and what the
bucket holds together never exceed the bursts of the address (`Bursts`) and the
time that has passed (`BucketInv`), and the grants that can still come by any
later time fit the rate at that time (`PromiseInv`). `Cancel` is what endangers
it: if it gave back more than was taken, the account would grow. `LadderInv`
shows that it does not: the reservations that still wait are whole tokens apart
and end at `lastEvent`, so what `CancelAt` computes is a whole token for the
last of them and nothing for any other. `UsingInv` says that a bucket somebody
is using is still in the map, which is where `Hold` is needed, and `UnknownInv`
that a bucket the sweep has forgotten had filled up, if `Idle` is long enough
for that: then the address has one burst for good. If it is not, a new bucket
brings a burst of its own, and `MadeInv` says that this happens at most once in
`Idle`.

`RetryAfterSuffices` follows from `RateInv` and `RetryInv`: the `Retry-After` of
a request that is about to cancel covers the wait that is left, which is the
rounding of `ratelimit.go:83` and the fact that the clock only shortens it.

*PipelineProofs*, the chain. `MatchIsTheGrammar`: for every pattern that parses
and every origin, `Match` admits what the documented grammar admits. For any
requests, origins and settings, `ChainInv` says what each stage of a request
knows: it is in the limiter exactly while the chain waits for it, under the
address the chain gave (`InLimiter`), and its headers, status and log line are
the ones its stage allows (`ResponseInv`). It is proved together with `RateInv`,
since the limiter's answers decide where the chain goes. `ChainUsesLimiter`
shows that the chain implements `RateLimiter`, so `GrantsWithinRate` and
`RetryAfterSuffices` hold behind the chain (`ChainStaysWithinRate`,
`ChainRetryAfterIsEnough`). `PreflightNeverCharged` and `LogMatchesAnswer` are
read off `ChainInv`, `CorsHeadersExact` off `ChainInv` and the grammar, and
`OnePeerOneBucket` from `GrantsWithinRate` and `PeerInv` (no other bucket has
granted anything).

*PollerProofs.* For any keys, panels and versions: `OneChain` and
`PanelsAreCurrent`, from `PageInv`. `Chained` says that a poller that exists has
either a request under way or one timer, for each of its two loops; `Unborn`
that one that does not exist has no subscribers and no timers; `OwnKeys` that a
panel is subscribed to what it asked for. Without the last two the creation of
a poller could start a second chain, and a result could reach a panel of
another poller.

*PeakProofs.* For any clients, loads, core counts, windows and capacity:
`OverallIsMaximum`, `PeakNeverUnderstates` and `SharedArraysHonest`, of cpu peaks
behind the combined handler. None is inductive: between the comparison and the
store of a request the array it stores into may be changed by others, and the
array belongs to a published sample. `PeakInv` says of the arrays that each
entry was measured on its core and is at least its own sample's (`HeapOK`), and
of each request (`RequestOK`) where it is in its snapshot (`PlaceOK`), that its
overall maximum is that of the samples it has gone through (`OverallOK`), that
what it is about to store was measured on that core (`HonestOK`), and, while it
has been alone over samples of one width, that its array covers what it has gone
through (`CoverOK`). `ReplyOK` says the same of answers, and `SoloInv` that a
request that has been alone still is. `CombinedInv` adds the handler's state,
that the samples' times are in order, and that a memory sample uses more than
there is only if more is available than there is. The last rests on
`UsedAddsNoWrap`: for every figure the kernel can give, `usedWithoutReclaimable`
is between 0 and the total, although its subtractions are modulo the word, unless
it falls back on a `Used` that had wrapped.

`MemoryPeakExact`, `GpuPeakExact` and `MemoryAddsNoOverflow` are about the scans
of the other two `Peak`s, by induction over the snapshot. `MemoryFound` says what
the memory scan has after the newest samples: nothing if none is in the window,
otherwise the time, status and total of one of them that is the newest in the
window, a use that one of them has, and that none has a larger one. `GpuFound`
says the same of the oldest samples and each device. In both the time needs the
order of the samples: the memory module's comes from the first sample in the
window, the gpu module's from the last. The percentage is at most 100 if the
seed was read, and so has the machine's total, and no sample of the window uses
more. `SectionInv` carries this to the sections of the answers, and to the
fallback of the gpu module to the sample that is the newest when it is read.

Only model-checked: all liveness (`PushReturns`, `ReadReturns`, `TickIsServed`,
`RoundEnds`, `HungMountRecovers`, `SignalEndsMonitor`, `RaceResolves`,
`PageRecovers`), since the prover has no support for fairness and `ENABLED`.
Every safety property of the passing runs is also the statement of a theorem.

## 5. Findings

1. `pid_lock_race`: two monitors started together both run, since `Acquire`
   reads, checks and writes the file in separate steps (`lock.go:26-36`).
   `SerialExclusion` and `SettledHolderIsSafe` say how far the lock can be
   relied on, and `RaceResolves` that two such monitors with the same address
   do not go on side by side.
2. `pid_lock_reuse`: a monitor that finds its own pid in a leftover file refuses
   to start although nothing else runs (`lock.go:29`).
3. `cpu_peak_stale`: `Peak` stores maxima into the array it shares with a
   published sample (`cpu/module.go:103,118`). The next peak answer may report a
   load from outside its window, and `/metrics/cpu` and its history serve the
   altered sample. A client that polls peak mode more often than its window is
   long keeps a spike alive for ever.
4. `rate_limit_charge`: "if the caller is denied the caller was never charged"
   (`ratelimit.go:72-74`) is true of one request at a time only. When two
   requests of an address are denied together, the one that reserved first gets
   nothing back, and the address waits a token longer for each such denial. What
   `GrantsWithinRate` allows is never exceeded by it.

Four more disagreements between the code and its comments have no run. The models
behave as the code does, and the properties named say what holds nevertheless:

* `Peak` of an empty window is a nil `*Sample` in a non-nil interface for the cpu
  and memory modules, so `combined.go:87` does not fall back to the latest
  sample, as its comment and `peakable.go:15-16` say, and the section is left
  out. `OverallIsMaximum` and `MemoryPeakExact` ask for a section when the window
  has a sample; `GpuPeakExact` asks for the fallback, which the gpu module's
  untyped nil does reach.
* A memory peak whose newest sample failed has that sample's zeros and error next
  to the largest use of an older one, although `memory/module.go:90-94` wants the
  peak self-consistent and `README.md:178` of the program says that a sample with
  an error has zeros. `MemoryPeakExact` says where each field comes from;
  `MemoryAddsNoOverflow` leaves the case out in so many words.
* A request whose handler panics has no access-log line, since the line is not
  deferred (`chain.go:153-154`), while `chain.go:146` promises one per request.
  `LogMatchesAnswer` asks for a line when the handler did not panic.
* A handler that panics after it has sent its status is answered with that
  status, not with the 500 of `chain.go:68`. `LogMatchesAnswer` asks for an
  answer in any case.

Known limits, visible in the models and without a run of their own: a failed cpu
sample has no timestamp (`cpu/collector.go:65`), takes a slot of the history and
never appears in it, which is why `NoBackwardReads` is checked for the memory
module and proved for every module but cpu; where burst / rate exceeds ten
minutes, an address gets a new burst when its bucket is forgotten before it has
refilled (`ratelimit.go:134`), at most one in ten minutes; a start that cannot
read the PID file or may not signal the process it names overwrites the lock of
a running monitor (`lock.go:26,59`); a gpu that hangs in `gpu.New` or in
`Shutdown` keeps `run` from ending (`main.go:88,139`); where the kernel reports
more memory available than there is, the used bytes wrap in gopsutil and are
passed on (`memory/module.go:179`); with a varying number of cores
`cpu/module.go:113` drops maxima already collected; two cpu peak requests at once
may overwrite each other's stores, within what `SharedArraysHonest` allows.

## 6. Not modelled, and the plan

Not modelled for good: JSON encoding, log output and the profile handler's
static metadata (no state), YAML decoding and HTTP parsing (library code), the
readings of gopsutil and NVML (environment), rendering in the web view, the
shell scripts. Left out of modelled parts: the text of request ids and paths,
byte counts and latencies of the access log, swap figures, keys of the
configuration that only have a default text, the end of `cleanupLoop` at
shutdown, the lengths of the poller's timeouts, the enumeration of devices when
NVML is initialised.

Done, in this order: the ring buffer and its abstraction, the sampler and its
routes, the disk collector and the storage rounds, the PID lock, the cpu peak;
then the rate limiter and the chain around it, CORS and the configuration, the
life of a process, the other modules' peaks, the poller; then the proofs about
them, with `Lifecycle`, `StorageSampler` and `Pipeline` shown to implement the
specifications of the components they use, and the inductions over a history.
What is left:

1. The error codes of the combined handler.
2. `/health` over several modules: the status is the worst entry; a wall clock
   that steps, and storage rounds of several timeouts against the threshold.
