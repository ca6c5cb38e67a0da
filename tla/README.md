# LATTester in TLA+

A verification development for the benchmark tool of this repository: the
kernel modules `latfs` and `repfs` (`src/src/kernel`), the scripts that drive
them (`src/src/testscript`) and the parser of the results
(`src/src/parse_data`).  Paths below are relative to the repository's root,
that is to `src/`; the files of `src/kernel` are mostly named without it.

## 1. The system

| component | source | state | operations |
|---|---|---|---|
| ReportFS (`repfs`) | `src/kernel/rep.c` | `g_report_sbi` | module init and exit, mount (`reportfs_fill_super`), umount |
| LatencyFS (`latfs`) | `src/kernel/lat.c` 355-508 | `rep_sbi`, `global_sbi`, the superblock's `latency_sbi` | module init and exit, mount, umount |
| command handler | `src/kernel/proc.c` | the parameters in the shared `latency_sbi`, the module's reference count | one `write` to `/proc/lattester`: parse, check, start the task |
| task control | `src/kernel/lat.c` 136-352 | `workers`, `timing`, `ctx`, `worker_cnt` | create the workers, wake them, sample the counters each second, stop them |
| workers | `src/kernel/tasks.c` | their locals, their counter, the medium | twelve jobs; batches, `kthread_should_stop`, `wait_for_stop` |
| access kernels | `src/kernel/memaccess.c`, `memaccess.h` | registers, the medium | the inner loops, and the random chain of the pointer-chasing test |
| performance counters | `src/kernel/perf_util.c` (with `USE_PERF`) | a list of perf events for each CPU | create, reset, enable, disable, read, release |
| option parser, random fill | `src/kernel/misc.c` | none | tokenise an option, fill a buffer |
| basic latency operations | `src/kernel/common.c` | none in the program; the CPU's buffers | one timed access, or eight, each |
| result layout and parser | `tasks.c` 94-265, `src/parse_data` | the ReportFS device | write and read the per-access results |
| log parser | `src/testscript/parse_bw.py` | its timer, its samples, its queue | lines of the log to rows and uploads |
| scripts | `src/testscript` | `output.txt` | mount, write the commands of a sweep, poll the log, cut a test's lines out of it, unmount |

How they interact:

- **Shared state.** All commands, and all workers of all commands, share one
  `latency_sbi`: its parameters, `worker_cnt`, and the three array pointers
  `workers`, `timing`, `ctx`.  `latencyfs_lock` is declared and never taken.
  Mounts, unmounts and commands share three global pointers.
- **Calls.** `write()` parses into the shared parameters, then calls
  `latencyfs_start_task`, which allocates the arrays, creates kernel threads
  and, for the multi-thread tasks, runs the monitor loop in the writer's own
  context until the runtime is over.
- **Threads.** A worker first runs when the monitor (or
  `setup_singlethread_op`) wakes it, reads its parameters from the shared
  `latency_sbi` then, and at the end parks in `wait_for_stop` until
  `kthread_stop`.  The single-thread tasks are never stopped.
- **Messages.** The only way back to the scripts is the kernel log:
  `LATTester_START`, a line each second, `LATTester_END`,
  `LATTester_LAT_END`.  The scripts look into it and cut each test's lines out
  of it for `parse_bw.py`; the rest of the kernel prints to it, too.
  Per-access results go through the ReportFS device to `parse_data`.
- **The CPU.** What a test measures is the distance of two reads of the clock.
  Stores and flushes reach memory behind them, in an order of the CPU's, as
  far as the fences of the instruction sequences let it.

What is hard here, and what must hold:

| component | hard behaviour | what makes it correct |
|---|---|---|
| ReportFS, LatencyFS | every step of a mount may fail after a global has been set; nothing but unloading resets the globals | a command finds a mapped region and a live report area, mapped whenever a ReportFS is mounted; nothing is unloaded under a user of it |
| command handler | early returns after `try_module_get`; defaults are written before the checks | every reference is returned; a rejected command disturbs nobody |
| task control | workers read the parameters later than they are parsed; `kthread_stop` of threads that have returned; wake-ups against `schedule()` | a worker runs with its own command's parameters, alone; every write returns; counters count this run |
| workers, access kernels | cursors and masks with strides, batches and alignments; loops that test their counters last | accesses stay on the worker's DIMM, and go beyond its pool by no more than the sizes give; what is counted is what was moved |
| pointer chasing | rejection sampling with interrupts off; loads that follow what stores left | one cycle through all lines; both passes come home; no access outside |
| result layout | the device is shared by info, random pool and results, and by other jobs' data | each result is found under its own name by `parse_data all` |
| basic latency operations | stores, flushes, loads and the clock are reordered but for the fences and flushes written between them | a stamp finds what is before it complete and persistent, and nothing behind it begun; a load after a flush comes from memory |
| performance counters | lists and pointers that stay after their release; allocations and counters refused; counters that run on between operations | nothing is used after its release, nothing is left; an operation's counts are its own |
| scripts, log parser | two threads and the rest of the kernel print to one log, of which a script sees the last lines; refused and repeated tests | each test's lines are found under its name, in order, again only behind a refused command; one test at a time; no row is lost but in a batch that the store refuses; the sweep ends |

The `hazards` list of `PROJECT.json` gives each of these at its line.

## 2. The modules

| module | models | composed with |
|---|---|---|
| `BenchmarkContract` | what a series of commands promises, without threads or shared parameters | abstract specification of `LatTester` |
| `LatTester` | `latencyfs_proc_write`, `latencyfs_start_task`, creation, monitoring and stopping of workers, the life of each kernel thread | refines `BenchmarkContract` |
| `MCLatTester` | lines of commands for TLC | extends `LatTester` |
| `LatTesterProofs` | its theorems | extends `LatTester` |
| `PointerWalk` | a pass of stores and a pass of loads that visit every line of every block | abstract specification of `ChasingIndex` |
| `ChasingIndex` | `read_after_write_job`, `init_chasing_index`, `chasing_storeclwb`, `chasing_loadnt` | refines `PointerWalk` |
| `ChasingIndexProofs` | its theorems | extends `ChasingIndex` |
| `MountLifecycle` | insmod, rmmod, mount, umount of both modules, and the part of `latencyfs_proc_write` that holds the module | stands alone |
| `MountLifecycleProofs` | its theorems | extends `MountLifecycle` |
| `WorkerRegions` | the addresses of `latencyfs_new_threads`, the cursors and masks of the looping jobs, the lines their kernels move, the bytes they count | stands alone |
| `MCWorkerRegions` | parameter lists for TLC | extends `WorkerRegions` |
| `WorkerRegionsProofs` | its theorems | extends `WorkerRegions` |
| `ResultLayout` | `latency_job`, the jobs that write over its results, `parse_data` | stands alone |
| `MCResultLayout` | three tasks for TLC | extends `ResultLayout` |
| `ResultLayoutProofs` | its theorems | extends `ResultLayout` |
| `AccessPrograms` | the instruction sequences of `common.c`, of the passes of `read_after_write_job`, of `cachefence` and of `overwrite_job` | operators only |
| `TimedAccess` | one sequence on a CPU that reorders it | run on `AccessPrograms` |
| `MCTimedAccess` | the sequences for TLC | extends `TimedAccess` and `AccessPrograms` |
| `TimedAccessProofs` | its theorems: for any sequences, and that the code's are such | extends `TimedAccess` and `AccessPrograms` |
| `PerfEvents` | `perf_util.c` as `strided_latjob` calls it | stands alone |
| `PerfEventsProofs` | its theorems | extends `PerfEvents` |
| `LogPipeline` | a subtest, the lines that the handler, the monitor and the workers print, `output.txt`, `parse_bw.py` | stands alone |
| `MCLogPipeline` | sweeps for TLC | extends `LogPipeline` |
| `LogPipelineProofs` | its theorems | extends `LogPipeline` |

The modules cut the program along what they need to tell apart.  `LatTester`
keeps every shared access of the control path and abstracts a batch to one
step and a parameter to the command that wrote it.  `WorkerRegions` keeps the
values of the parameters and the addresses, and needs nothing of the control
path but that a worker reads its own command's parameters, which is
`OwnParams` of `LatTester`.  `ChasingIndex`, `ResultLayout`, `TimedAccess` and
`PerfEvents` look at one worker alone, which is `ExclusiveMeasurement`; both
take for granted a client that writes no command while a worker of an earlier
one runs, and `OneTestAtATime` of `LogPipeline` is that the scripts are such
clients, with the exception its violation run shows and, for `60_raw.sh`, as
long as the script's sleep of two seconds outlasts the start of the worker.

### LatTester

`sbi` is the shared `latency_sbi`; its `params` is the number of the command
whose values it holds, 0 for the defaults.  `writer[w]` is a process inside
`write()`, with its program counter and the locals that live across shared
accesses; `thread[<<r, c>>]` is the kernel thread of command r on core c, with
its task state, its stop flag and the copies it has taken of the parameters.
Every read or write of shared state is a step of its own: defaults and options
are two, each turn of the creation, wake-up and stop loops is one,
`kthread_stop` is two (flag and wake-up, then the wait), and `wait_for_stop` is
three (set the state, test the flag, sleep).  The jobs with the same control
are one: "latency" for tasks 1, 2, 5, 6 and 7, "bandwidth" for 3, 8, 9 and 12.
`sizebw`, `imcprobe` and `cacheprobe` are apart because they end differently.

`Client` is the environment.  "script" is what `testscript/subtests` do: one
write at a time, and for a single-thread task the next one after
`LATTester_LAT_END`.  "serial" only waits for `write()` to return;
"concurrent" waits for nothing.

### ChasingIndex

Sizes in bytes as in the code, the region line by line, one step for each
random number that is accepted, for each store and for each load.  A draw that
is rejected changes nothing and is a stutter; `DrawFails` is RDRAND failing
all its retries, which returns from between `BENCHMARK_BEGIN` and
`BENCHMARK_END`; `DivideError` is the division by `csize` when the access is
smaller than a line.  `cindex` and `medium` begin with stale values.

### MountLifecycle

The three pointers, the private data of each file system and device by whether
its `virt_addr` is set (`mapped`), and one program counter for each process inside
`mount()`: the test of the global, the claim, the probe of the device, the
root inode, each of them able to fail.  Reference counts are computed from who
is inside a module (`LatRefs`, `RepRefs`) and what proc_write's early returns
have leaked (`leaked`).  A mount that fails gives no global back: after a
failed ReportFS mount LatencyFS can be mounted, and a command run, on a report
area without an address.  `PublishedWhole` says when it has one, namely
whenever a ReportFS is mounted.

### WorkerRegions

The unit is the cache line.  A step is one batch: where it begins and ends
(`at`), the lines the kernel has moved (`moved`), and what is added to
`timing->v` (`timing`).  Of a batch of random accesses one is observed, any
one: the masks give all of `Offsets`.  `RoundUp` is what a do-while that tests
its counter last adds up to, and `Overrun` how far a batch can go beyond the
pool when its cursor's test has not counted all of it: the gaps of a strided
batch, the rest of a sequential one, the last turn of a size test.

### ResultLayout

The words of the device, each abstracted to what was written there: which
test, which report, which index.  `latency_job` goes call by call.  The jobs
that write over its results (`overwrite_job`, the pointer-chasing index,
`latencyfs_create_seed`) are one step each, as only their extent matters here.
A parser that finds no info, or half of one, may do anything: it is "failed",
and `ParsedRight` says that this never happens to a `parse_data all` when the
device was left alone.  `ReadOne` is the code's: `parse_data <n>` reads slot n,
which is not the report that `latency_job` has given this number (section 6).

### AccessPrograms and TimedAccess

An instruction is its kind, the memory it touches ("region" is what is tested,
"results" and "index" are on the ReportFS device) and the line.  The operators
of `AccessPrograms` bear the names of the macros and functions they translate
and are put together as these are: `StoreHelp` is `store_help`, with
`TimingBeg` and `TimingEnd` around the instructions, `Steps` the functions
with a `REC_TIME` after each access, `SequentialLoop` a few turns of
`latency_job`.

`TimedAccess` has what the core has finished with (`done`) and what has left
its buffers (`drained`).  `CanExecute` and `KeepsOrder` are the CPU, from the
manuals: loads pass earlier stores and flushes but no earlier load, `lfence` or
`mfence`; everything but a load or an `rdtsc` waits for all that is before it,
an `mfence` for the buffers too; stores and flushes drain in any order but for
stores among themselves, one line, `clflush` and `sfence`.

### PerfEvents

One action for each turn of the loops over the CPUs or the events when it
creates, releases or frees, one for `PERF_START` and one for `PERF_STOP`.  An
event knows in which operations it was enabled (`counted`).  `list` is what
the pointer of a CPU points to: it stays "freed" after the release until the
next run overwrites it.  A dereference of NULL, which the code has on two of
its error paths, ends in "oops".

### LogPipeline

The log is a sequence of lines, each with who printed it for which test.  The
script goes test by test: it writes (`Write` is the handler up to the first
thing another thread can come between), waits for the `write` to return,
then polls ("stridelat" for `20_stridelat.sh`, "raw" for `60_raw.sh`) or not
("stridebw", "flushfence"), and cuts.  `TextGreater` is `[[ a > b ]]` on the
digits.  `WorkerBegins`, `WorkerMeasures` and `WorkerReports` are the lines of
a latency test's worker, one for each kind; the code prints several of the
first two, and more lines only push an older `LATTester_LAT_END` out sooner.
The parser is started when the sweep is over, as `run.example.sh` does, with a
duration (`TimerStop`) that is part of the sweep: `run.example.sh` gives 20
for tests of 5 seconds.

What the script cannot know is how long a worker takes to its first line.
`20_stridelat.sh` needs not know it.  `60_raw.sh` sleeps two seconds before it
looks; `Poll` may come before the worker has printed anything, and then notes
in `script.sleep`, a history that no guard reads, that the sleep was "short".
`OneTestAtATime` and `CollectsEachTest` are about behaviours in which it never
was.

The store that the rows go to is external.  `parse_bw.py` looks for repeated
names in a batch of task 9 and not in one of task 3; the model lets the store
refuse a batch that has a name twice (`Refused`), or take it.

## 3. The runs

All passing runs give exhaustive results for their bounds.

| run | what it asks | bounds, and why they are enough |
|---|---|---|
| `LatTesterScript` | with a client that waits as the scripts do: own parameters, exclusive measurement, no stop of an exited worker, a throughput of this run's batches; every write returns, every latency test reports; implements `BenchmarkContract` | one writer, two commands out of six kinds (a rejected one included), two workers, counters that saturate at 2.  Every hazard is between two successive commands, or between two workers of one |
| `ChasingIndex` | one cycle, walks that close, loads that find the stores, no access outside, an end; implements `PointerWalk` | lines of 2 bytes, a region of 12 lines, at most 3 blocks; accesses from below a line to four lines, all strides to five lines: strides equal to, above and below the access, blocks capped by the region and by the count |
| `MountAdmin` | any order of the operations with any failure: live pointers, a mapped LatencyFS, a mapped report area whenever a ReportFS is mounted, no unloading under a writer | three devices, one process in `mount()`, two writes per load.  Three devices let a failed mount, a mounted file system and a new attempt differ |
| `MountScript` | `mount.sh`, a test, `umount.sh`, for ever: a command always finds what it needs, and the module is always unloaded again | two devices, nothing fails |
| `WorkerRegions` | how far batches go beyond their pools, DIMMs, pools, accounting | three workers (two neighbours, two on one DIMM), pages of 4 lines, pools of 8 pages, batches of 8 lines; strides that tile the pool, whose rest the cursor's test notices and that overrun it, all alignments, rates that divide and rates that do not |
| `ResultLayout` | results, info and pool keep apart; no page fault between two time stamps; `parse_data all` finds every result under its name | three tasks with 1, 2 and 4 results a call, reports of 12 words, three commands: a test, something that writes over it, another test, with the parser at any time |
| `LayoutPool` (violation) | "For random latency tests: Random Pool" in its own slot | one test |
| `TimedAccess` | complete sections, closed and opened at their stamps; persistent data at a stamp and behind a fence; loads from memory; fences where these need them | two calls of every function of `latency_tasks` with every skip (the second call is the first that has stamps before it and results on their way), random places equal and different, the longer table's functions of 64 and 256 bytes, the three tests of task 6 over two blocks of two lines, `cachefence` with one or two flushes a fence and one to four fences; all orders of execution and draining |
| `OverwriteStamps` (violation) | the same of `overwrite_job` | two calls |
| `PerfEvents` | no use after release, no leak, counts of the operation alone | three CPUs, four events, three operations, three runs: a run after a run that ended well, after one whose allocation or counter was refused |
| `LogPipeline` | each polled test has its averages under its header and one test runs at a time, as long as the sleep is enough; a row for each bandwidth test, in order, again only behind a refused command; which rows the store has; the end of a sweep | sweeps of three or four tests: sizes that differ as numbers and as text, a refused, a passed over and a repeated test; two seconds a test, and a parser that is given three; uploads of two rows; one line of somebody else, anywhere |
| `StrideLatSweep` (violation) | the first of these for the first tests of `20_stridelat.sh` | three tests |

The three violation runs show what the code does against what it says of
itself; `findings` in `PROJECT.json` quotes both:

- `latency_job` writes its random numbers to the second slot and takes its
  random places from the first, which holds the task info.
- `repeat_256byte_ntstore`, which `overwrite_job` times, has no fence between
  its last store and the clock.
- `20_stridelat.sh` compares sizes as text, and after some of its commands
  goes on without waiting for the test or collecting its lines.

`FencedThroughout` is about the sequences alone: that each has a fence or a
flush wherever the theorems of `TimedAccessProofs` want one.  It is what ties
those theorems, which are about any sequences, to the code's; that it holds for
all sizes is a theorem, too.

Deadlock checking is off where the system may stop: when the bounded number
of commands has been written, when the kernel has crashed, when a job or a
sequence has ended.  `MountScript` goes on for ever and checks for deadlock.

### Fairness

`LatTester` has weak fairness for the steps of each writer that is inside
`write()` and of each kernel thread: the scheduler runs what is runnable.
`WriteCommand` is in neither, nobody has to write.  `ChasingIndex` has weak
fairness for its progress, a draw included: RDRAND's numbers are independent,
so an acceptable one comes with probability one if there is one (which
`CanDraw` says there is); nothing obliges RDRAND to fail.  `MountScript` has
weak fairness for `Next`: the script goes on to its next command.
`LogPipeline` has weak fairness for the script, for the workers and for the
parser, which are runnable processes; nobody else has to print.  No time is
assumed anywhere: `60_raw.sh` may look before the worker has begun, finds the
`LATTester_LAT_END` of the test before among its four lines, and goes on.
`20_stridelat.sh`, which does not sleep, looks at three, and never does.

## 4. The proofs

`tlapm` checks every proof; they hold for all values of the constants that
satisfy the named assumptions of the modules.

**LatTesterProofs.**  `TypeCorrect`: the types, for every client.  `ScriptOwnParams` and
`ScriptExclusive` have the hypothesis `Client = "script"`.  Neither property is
inductive: a worker may read `sbi` long after it was woken.  The invariant
`ScriptInv` says that at most one command is inside the handler, the latest,
and from which of its steps on `sbi` holds its parameters and arrays
(`OneCommand`); and that as long as some worker has not finished it belongs to
the latest command, `sbi` holds that command's parameters and arrays, and no
writer is at a step that overwrites them (`PendingIsLatest`).  Most steps are
quiet: they leave what the invariant looks at alone (`QuietStep`,
`WakingKeepsView`); the others are taken one by one.

`ServedStopsOnlyLiveWorkers` and `ServedThroughput` have the hypothesis
`Served`: one write at a time, of a client that may or may not wait for a
latency test.  Their invariant says at which of its steps the handler has
which of its workers behind it: while it monitors, none is stopped; when it is
at the stop of worker c, those below c are, and the others have neither the
flag nor an exit of their own, for a job that waits for its stop.  `Supported`
excludes the one that does not: `sizebw_job` returns at once on the alignments
it has no kernel for (`tasks.c:352`), and then `kthread_stop` is called on a
task that is gone.  For the throughput the invariant adds that every counter
of the command's array is zero until its worker starts and never less than at
the last sample; that the sums compare like their terms is an induction over
the cores.  `ScriptKeepsContract` takes the steps of `LatTester` one by one to
those of `BenchmarkContract`: with `OwnParams` and `ExclusiveMeasurement` a
measuring step is the contract's, and every other step a stutter.

**ChasingIndexProofs.**  `IndexIsOneCycle`, `AlwaysALineToDraw`, `WalksClose`,
`LoadsSeeStores`, `StaysInRegion`, `TypeCorrect`, for every number of lines,
every draw and every stale content.  The invariant carries a witness: during
the building of the index a path p of i + 1 different lines that begins at
line 0 and ends at `curr_pos`; after it the same path closed to a cycle.  That
a line is left to draw is the pigeonhole principle on p; that a walk is home
after a multiple of csize steps follows from its position on p (`line` is
`p[touched % csize]`); that no block overwrites another's numbers follows from
`Sane` (`PlacesApart`).  `KeepsWalk` takes the two passes to `PointerWalk`,
step by step: what has been touched of a block is the first part of the path,
so a line is touched a second time only when all have been, and the lap ends
there.

**MountLifecycleProofs.**  `TypeCorrect`, `ReportKept`, `PublishedLast`,
`WriterHolds`, for any devices and any order of operations and failures, under
the hypothesis `OneMounter`: one process at a time is in `mount()`.  The
hypothesis is needed: the globals are tested and set without a lock, and TLC
finds `ReportPointerValid` violated with two.  The invariant adds who holds
which module (`ModulesHeld`: without latfs its pointers are null) and what a
mount knows at each of its steps (`MountKnows`: at the claim the pointer is
still null).  For `PublishedLast` it is that `g_report_sbi` points to a mapped area as
long as a ReportFS is mounted (`AreaMapped`), which does not follow from
LatencyFS being mounted.

`ScriptOnMounted` has the hypothesis `ScriptRuns`, too: the client does what
`mount.sh`, a test and `umount.sh` do, and nothing fails.  `PublishedWhole` is
about what a command finds through the pointers; that the file systems behind
them are mounted at that time is a matter of the order of the script, and the
invariant says for each of its commands what is loaded, mounted and published
before it (`ScriptInv`), across any number of unloadings and reloadings.

**WorkerRegionsProofs.**  `WorksetKept`, `RightlyCounted`, `DimmOwned`,
`PoolsApart`, `TypeCorrect`, for every number of workers, every size of page,
pool and batch and every command that the parser accepts.  `ParsedIsSound`
turns the parser's checks into what the jobs rely on.  `WorksetReach` is not
inductive: the cursor has to be a number of spans from the start and what the
test counts of the next batch has to fit (`Cursor`).  For the strided job the
test of `tasks.c:400` keeps the whole batch inside exactly when the rest of the
division is no more than what it counts (`LastBatch`); otherwise the batch goes
on by its gaps, and `PoolsApart` is about pools that are no neighbours.  `RightlyCounted` needs that the rates of
task 9 divide one another, so that no do-while overshoots (`FenceMovedExact`).
`DimmOwned` and `PoolsApart` follow from where the accesses were drawn
(`Drawn`) by the uniqueness of quotients (`QuotientUnique`, `GroupPages`).

**ResultLayoutProofs.**  `TypeCorrect`, `AreasKeptApart`, `NoFaultMeasured`,
`ParserAgrees`, for every number of tasks, operations, results a call and
words in a name, a page and a device that fit (`LayoutAssumption`).  Three
layers: where `latency_job` and the parser are (`Job`, `Reader`): `rbuf` is at
the current report and j a multiple of what a call returns, from which, with
`OpsCount` a multiple too, no call writes past its report; what the report
that is being written has so far (`Filled`), which becomes `KeepsLayout` at
its end; what a `parse_data all` has read since the device was last written (`Fresh`).

**TimedAccessProofs.**  For any set of instruction sequences:
`StampsCloseSections`, `StampsOpenSections`, `StampsFindDataPersistent`,
`LoadsComeFromMemory`, `FencesMakePersistent`, each with a part of
`WellFenced` as hypothesis: if the fences stand where that part wants them,
no order of execution and draining shows a stamp the wrong memory.  The invariant
says what has been done before an instruction that has been done (`InOrder`,
`LoadsFenced`), that a passed `mfence` has emptied the buffers (`FenceDrains`)
and that the buffers drain in their order (`DrainsInOrder`).

`CodeIsFenced`, `FencesWhereNeeded` and `CodeMeasuresItsSections` are about the
program: `CodePrograms` has its sequences for every number of calls, blocks and
lines, every size, skip and rate, and they are `WellFenced`.  A random access
is to the beginning of a line, as `BASIC_OP_MASK` makes it, and the skips are
those of `latency_tasks`, also whole lines: `StoreSkip` and `store_4_clwb` ..
`store_32_clwb` flush the line at `rsi`, and would leave a store unflushed that
begins elsewhere.  The rates of `cachefence` are only not zero.  `overwrite_job`
is not among them: it has no fence (the run `OverwriteStamps`).

A fence stands between two instructions of a loop's different turns, so the
argument goes by parts, each with what it asks of its neighbours and what it
does for them:

- a part is `Emptied` if an `mfence` of its own follows all its stores and
  flushes, and `Guarded` if one precedes its stamps and loads; of two parts
  that are in order themselves (`Fenced`) the whole is, if the first is
  emptied or the second guarded (`FencedTogether`);
- the sequences of emptied parts (`Sections`) and those of guarded parts
  (`Calls`) therefore may be repeated at will.  A call of `latency_tasks` is
  both; the results written behind it are guarded, which is why the next call
  needs a fence before its stamp; the reading passes are emptied, for a load
  must not be the first;
- the `lfence` of a clock is next to it (`Tidy`), and a store's flush comes
  before any clock or `sfence` (`Flushed`), for `cachefence` as many
  instructions later as the chunk has lines (`ChunkIn`): neither depends on the
  neighbours, so any of these parts may follow each other.

`FlattenIn` carries such a class through the repetitions, which the model
writes with `FlattenSeq`; that its recursion is well defined is
`FlattenDefined`.

**PerfEventsProofs.**  `TypeCorrect`, `LiveEventsUsed`, `LeavesNothing`,
`OwnOperationCounted` for every number of CPUs, events, operations and runs,
under the hypothesis `Self = 0`, which `lat.c:164` makes true: worker i is
bound to CPU i, and task 2 has one worker.  It is needed: on another CPU the
first turns of the release would release the worker's events and leave their
pointers to the next turn.  The invariant says of each CPU's list whether it
is there, depending on how far the loops are (`Lists`, `FreesUpTo`), that only
the worker's list has events, those created so far (`Slots`), and that exactly
these are alive (`LiveEvents`).

**LogPipelineProofs.**  `TypeCorrect`, `ScriptsTakeTurns`, `RowsAreTests`,
`RowsAreUploaded`, `AveragesAreCollected`, for any sweeps, runtime, size of an
upload and number of lines that others print.  The hypotheses are about the
sweep: `SweepsAsWritten`, each script writes its own task (2, 6, 3 and 9);
`NothingPassedOver`, the sizes of a `20_stridelat.sh` compare as text the way
they do as numbers, which is what `StrideLatSweep` shows to be needed.  The
duration given to `parse_bw.py` may be any, and so may the store's answers.
None of the properties is inductive, since each depends on what is in the log
and where:

- `ScriptsTakeTurns`: the script takes an `LATTester_LAT_END` for that of its
  test if it is among the last lines.  `OldEndsFarBack` says that an older one
  is as many lines from the end as the handler and the worker have printed
  since the command, which is more than the tail has whenever the script
  looks, as long as `60_raw.sh` has not looked before the worker began
  (`TurnsInv`).
- `RowsAreTests`: the invariants label each line of the log, and each of
  `output.txt`, with the test that is open behind it.  What a cut takes from
  the log fits what the file had (`Fits`), so that the parser, wherever it is,
  has read the seconds of one test from the first (`RowsInv`).  For the order
  of the rows they say of which test the last end of the log is, and that none
  was measured since (`LogOrder`); the same end is cut out again only when the
  command behind it was refused (`CutAgain`), and so the ends in `output.txt`,
  and with them the rows, keep the order of the sweep (`OutputOrder`,
  `RowsOrder`).
- `RowsAreUploaded`: uploads, flattened, and queue are the rows, and one more
  if the store has refused the batch (`UploadsInv`, `FlattenAppend`).  That it
  never refuses one of task 9 is that the queue has a name once
  (`NamesOnceAppend`).
- `AveragesAreCollected`: when the script cuts, the last start and the last
  end of the log are those of its test and the averages between them its own
  (`PollInv`), and grep of those lines is the averages (`GrepOne`).

Inductions over the length of a sequence are written over sets of numbers
(`SetInduction`, from `WFMin`).

Type correctness is a theorem of every module.

Model-checked only: all liveness (`CommandReturns`, `LatencyReports`, `Ends`,
`Reloads`, `SweepFinishes`), which needs fairness and ENABLED, and with it the
liveness part of the two refinements.

## 5. Abstractions

- The kernel is modelled from how the modules use it: `mount_bdev`,
  `kill_block_super`, module references, `kthread_stop`, `wake_up_process`,
  `schedule`, `kmalloc` (its memory holds anything).
- Time is a count of seconds; the order of samples and batches is free.
- Memory is sequentially consistent but for `TimedAccess`.  The shared fields
  are words; the interleavings modelled are those of whole reads and writes.
- The CPU of `TimedAccess`, the performance counters and the perf subsystem
  under `PerfEvents` are external: what the code has to cope with.  Register
  moves, nops and the arithmetic on stamps are left out; the cycle of the
  chasing passes is 0, 1, 2, .. there, `ChasingIndex` has any.
- In `LogPipeline` a message stands for its test, a second's throughput for
  the second; `Noise` bounds the lines of the rest of the kernel, and the log
  buffer does not wrap.  Of the store it is only known that it may refuse a
  batch in which a name is twice.
- Counters saturate at `MaxBatch` in TLC's instances; the code's are 64 bits
  wide and would take centuries.
- In `WorkerRegions` the random offsets of one access are independent of those
  of the next, and the two sides of a channel group are independent of the
  offset in the page (in the code they share a bit).
- `CommandsAssumption` has what the scripts' commands satisfy and the parser
  does not check: the sizes are bounded by `LFS_ACCESS_MAX`, a block divides
  the region, random accesses are aligned to a power of two.

## 6. Not modelled, and why

- The text of options (`misc.c`), usage and messages: formatting.
- The `store_*` functions that no table lists: the prefetching variants of
  `store_*_clwb` and `store_8_skip_*_clwb`, and `repeat_256byte_load`.
- `straight_write_job`, `cacheprobe_job` beyond their control: they pass once
  through their region.  The instructions of `cacheprobe`, `imcprobe` and the
  sequential kernels.
- The subtests beyond those of `LogPipeline` repeat its loops with other
  options; `perf_stridelat.sh` and the rewriting of macros with sed are left
  out.  The uploads to the data store end at `put_multi`.
- A failing `register_filesystem`, `kthread_create` or `kmalloc` in
  `latencyfs_new_threads`: the code does not look at the last two.
- `debug.c`, data, plots and notebooks: nothing that runs with the module.

Seen on the way, where no run says so:

- Task control.  `latencyfs_lock` is never taken (`lat.c:57`), so that two
  writers share everything.  `sizebw_job` returns without `wait_for_stop` on
  the alignments it refuses (`tasks.c:352`); `kthread_stop` is then called on
  a task that has exited.  `exit_latencyfs` does not look for workers that
  still wait (`lat.c:502`).  The `flags` of `BENCHMARK_BEGIN` are static and
  shared by the workers of a job; `latency_job` disables preemption and never
  enables it (`tasks.c:118`).
- Mounts.  A ReportFS mount that fails leaves `g_report_sbi` set
  (`rep.c:73`), so that LatencyFS mounts without one, in spite of "Mount
  ReportFS first" (`lat.c:373`).  Two mounts may pass the tests of the globals
  together (`rep.c:68`, `lat.c:365`).  On newer kernels the error path of
  `lat.c:398` returns success for a device without DAX.  When
  `register_filesystem` fails `/proc/lattester` stays behind (`lat.c:495`).
- Addresses.  `strided_bwjob` tests the next batch without its strides
  (`tasks.c:400`); `imcprobe_job` does not add the offset of its DIMM, so all
  its workers are on the first (`lat.c:180`, `proc.c:211`);
  `straight_write_job` adds up a total after a loop that leaves its counter
  below zero (`tasks.c:643`); the side of a channel group is chosen by bit 60
  of a number whose bits of the offset overlap it (`tasks.c:716`).
- Timed accesses.  The two strided tests of task 6 never read: what follows
  their labels LDNT are the stores of `SIZEBTNT_64_AVX512`
  (`memaccess.c:326`, `:441`).  The links that `init_chasing_index` stores are
  not fenced from the stamp behind them (`tasks.c:570`); `SectionsClosed`
  leaves them out.  `TIMING_BEG` has no lfence behind its `rdtsc`
  (`common.c:96`).  The prefetching variants of `store_*_clwb` flush at r10,
  which only the others set (`common.c:141`, `:163`).  `seq_store` flushes
  like `seq_clwb`.  `strided_latjob` names its results after `latency_tasks`
  instead of `bench_size_map` (`tasks.c:318`).
- Counters.  When a counter is refused `perf_event_enable` is given NULL
  (`perf_util.c:141`); when a list is, `lattest_perf_exit` reads through it
  (`perf_util.c:49`).
- Scripts.  `30_stridebw.sh` compares sizes as text, too: it passes over valid
  tests and writes refused ones, after which the segment before is appended
  once more, its row is printed twice, and the batch that has it twice may be
  refused.  `run.example.sh:36` gives
  `parse_bw.py` its number of repetitions, 20, as the duration of a test,
  which is 5.  A polling script hangs when three lines of others push
  `LATTester_LAT_END` out of its tail, and `60_raw.sh` takes the one of the
  test before for its own when its sleep was too short.  A failed assertion of
  `parse_bw.py`, which the 20 of `run.example.sh:36` leads to, or a batch that
  the store refuses loses the rows still in its queue.
- Results.  `parse_data` numbers reports by slot when asked for one and by
  report when asked for all (`main.rs:36`, `:50`): of the numbers from 1 to the
  count that it offers (`main.rs:113`), which are those that `latency_job`
  prints (`tasks.c:201`), 1 reads the random pool, and the last two reports
  cannot be asked for.  It reads for ever past the end
  of a device (`data.rs:26`).  The layout that
  `lattester.h` gives for task 2 is written by no job.

## 7. Plan

Done, in this order: `LatTester` with its contract, `ChasingIndex`,
`MountLifecycle`, `WorkerRegions`, `ResultLayout`, `TimedAccess`,
`LogPipeline`, `PerfEvents`, and the proofs above.

Next, the most important first:

1. `straight_write_job` and `cacheprobe_job` in `WorkerRegions`.
