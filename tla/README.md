# ReproMPI in TLA+

This directory models the part of ReproMPI that is concurrent: the processes of
an MPI job that measure collective operations together, from their command line
to the printed results. It has TLA+ modules of the synchronisation modules, of
the collectives they are built on, of the agreement on what to measure, of the
former clock synchronisation and of the programs that test it, and of the
guideline checker; TLC configurations that check them on small instances; and
proofs, checked by TLAPS, of the properties that matter most.

`PROJECT.json` maps every definition to the lines it models, lists the runs and
the mutants that show each property can fail, and lists the hazards the
properties are for. Source paths below are relative to `src/` of the repository.

## The system

`benchmarkMPIcalls.c` (the program `mpibenchmark`) and `pgcheck/pgchecker.cpp`
start MPI, register the synchronisation and caching modules and call
`run_collective` (`benchmarkCollective.c`) - once, or, in the checker, once for
every implementation of every test case. `run_collective` is executed by all
processes: they agree on a list of jobs, and for each job repeat

    start_sync  ->  read clock, call, read clock  ->  stop_sync

until enough valid repetitions are measured or the time is used up; then the
results are combined at rank 0 and printed.

| Component | State it keeps | Operations | Talks to |
|---|---|---|---|
| measurement loop, `benchmarkCollective.c` | `i`, `job.n_rep`, time stamps | one repetition, end of job, report | a synchronisation module by function pointers |
| round-time synchronisation, `round_time_sync.c` | statics: `invalid`, `start_sync`, `job_start_time`, `stop_flag`, `time_slot`, `barrier_sync_mode`, `switch_count` | parse, init, init_round, start, stop | barrier, broadcast, allreduce, the clock |
| window synchronisation, `window_sync.c` | statics: `start_sync`, `repetition_counter`, `invalid[]` | init, init_round, start, stop, get_errorcodes | one broadcast per job, then only the clock |
| barrier modules, `barrier_sync.c`, `double_barrier_sync.c`, `dissem_barrier_sync.c` | none | start_sync | `MPI_Barrier`, dissemination barrier |
| module registry, `process_synchronization.c` | the chosen module | `--proc-sync` | the modules' init functions |
| dissemination barrier, `dissem_barrier_impl.c` | none between calls | one call | `MPI_Sendrecv` |
| own collectives, `reprompi_collectives.c` | none between calls | `ReproMPI_Allreduce`, `ReproMPI_Bcast` | point-to-point messages |
| operations under test, `collective_ops/` | buffers | one MPI collective, or one ping-pong | MPI |
| option parsers, `option_parser/`, `caching/` | option structs and statics | one per group of options | `getopt_long`; a broadcast after the output file was tried |
| job list, `benchmark_job.c`, `misc.c` | `job_list_t` | read or build, broadcast, check, shuffle | `MPI_Bcast`, the input file |
| results, `runtimes_computation.c`, `results_output.c` | none | reduce runtimes and error codes, drop flagged ones, gather and print | `MPI_Reduce`, `MPI_Gather` |
| key-value store, `keyvalue_store.c` | hash table | add, get, remove, list keys, parse `--params` | nothing |
| guideline checker, `pgcheck/` | result tables, comparers | run all test cases, compare, print | `run_collective`, files |
| clock synchronisation of the benchmark | residual error per process | library `mpits`, not in the repository | `get_global_time` |
| former clock synchronisation, `clock_sync_old/` | a global clock per process: clock models applied one on another | learn, send, merge, scatter, propagate models | ping-pongs that measure offsets |
| offset measurement, `clock_offset_algs/` | minimal ping-pong time or round-trip time per pair | `measure_offset` | messages between two processes |
| sanity checks, `sanity_check/` | result arrays | synchronise, measure, gather, print | the former clock synchronisation |

What is hard: processes are in different phases of a round at the same time;
messages of consecutive collectives share a tag; a start time may already have
passed when it arrives; a time slot ends at different moments on different
processes; module state outlives the call that set it; only the root sees input
errors; and nearly every operation is collective, so one process that takes
another branch hangs all others. Nothing is persisted, MPI does not lose or
duplicate messages, and a failed process ends the job, so crash recovery and
unreliable delivery do not arise.

What makes each component correct:

- *Measurement loop with round-time*: in one round all processes are at the same
  repetition of the same job, in the same mode; nobody starts the call before all
  others wait for it; what is reported was measured in time on every
  process; all processes report equally many repetitions; a job ends, early only
  when its time is used up.
- *Measurement loop with windows*: flags stay with their measurement; all
  processes use the same windows; what is kept was measured inside its window.
- *Barrier, allreduce, broadcast*: what MPI promises, for any number of
  processes, whether or not a send is buffered, and (barrier, allreduce) while some
  processes are in the next call already.
- *Synchronisation modules together with the measured call*: rounds of different
  processes do not overlap, and no message is taken for another's.
- *Start*: whatever the command line, all processes exit or all run the same
  jobs in the same order with the same timing method.
- *Results*: a printed row holds what was measured for it, a kept runtime fits
  its window.
- *Key-value store*: every call is that of a map, but for the removal of the head of
  a longer bucket.
- *Guideline checker*: the processes make the same measurements and leave
  together; a row names the fastest mockup and the verdict on it.
- *Clock synchronisation*: afterwards every global clock shows the time of
  rank 0, whichever algorithms are nested; the true offset of two clocks lies
  within the measured bounds.

## Modules

| Module | Models | State and actions |
|---|---|---|
| `MeasurementLoop` | the verdict of `stop_sync` and what the loop does with it | operators only, shared by the next two |
| `RoundTime` | `run_collective` with round-time synchronisation | one variable per static or local; one action per stretch of code between two blocking calls |
| `WindowSync` | `run_collective` with window synchronisation up to the printed results | the same |
| `Output` | the reductions and gathers of `reprompib_print_bench_output`, and what the root makes of them | operators: what a process contributes, in the order of the code, and the rows and summary of the root |
| `ProcessSync` | the communication of every other synchronisation module around the measured call | each process's program (the calls its module makes) and its place in it; composes the next four |
| `DissemBarrier` | `dissemination_barrier` | channels per pair of processes; a `Sendrecv` is a send, a receive and the end of the round |
| `Allreduce` | `ReproMPI_Allreduce` | data are bags of contributions; the four cases of a census step |
| `Bcast` | `ReproMPI_Bcast`, root 0 | the binomial tree, message by message |
| `PingPong` | `collective_ops/pingpong.c` | each operation as what its MPI calls start and wait for |
| `Barrier`, `Reduction`, `Broadcast` | what a barrier, an allreduce, a broadcast promise | calls and returns |
| `Options` | what each parser makes of a command line | operators: results and reasons to reject |
| `JobList` | `generate_job_list`, `read_input_jobs`, `shuffle` | the sequence of the root's broadcasts and each process's position in it |
| `Startup` | the way from the command line to the first job | extends `JobList`, uses `Options`: one action per parser with communication, one for the others |
| `KeyValueStore` | `keyvalue_store.c`, the parser of `--params` | buckets as sequences of entries |
| `Dictionary` | what the store promises | a map |
| `ClockModels` | clocks, linear models, their flattening | a frame: whose time a clock shows once its models are applied |
| `ClockSyncAlgorithms` | `clock_sync_old/sync_methods` | each algorithm as the sequence of operations of one process |
| `ClockSync` | modules, loader and execution of the algorithms | what each process still has to do, and its clocks and models |
| `SanityTests` | the programs of `sanity_check` | extends `ClockSync`: tested processes, result arrays, printed rows |
| `OffsetMeasurement` | `measure_offset` of both algorithms and of the drift programs | one action per stretch of code between two messages, and the clock |
| `PGCheck` | `main` of `pgcheck/pgchecker.cpp` on every process | the collective operations each process has entered; one action per stretch of `main` between two of them; a whole `run_collective` is one operation |
| `GroupedComparer` | `GroupedViolationComparer::get_results` with `ComparerData` and its test object | one action per mockup; extended by `PGCheck`, whose root runs it |

How they compose: `RoundTime` uses a barrier, a broadcast and an allreduce as
single steps (`BarrierComplete`, `bcast`, `AllContributed`). `ProcessSync` runs
`DissemBarrier`, `Bcast`, `Allreduce` and `PingPong` message by message in the
order in which the measurement loop calls them, and shows that the first three
implement `Barrier`, `Broadcast` and `Reduction`, the abstractions those steps
stand for (in `round_time_sync.c` the barrier is `PMPI_Barrier` itself).
`Startup` ends where `RoundTime` and `WindowSync` begin: with a job list that is
the same everywhere. `SanityTests` takes a measurement of an offset as one
operation of two processes, `OffsetMeasurement` opens it up. `PGCheck` takes
`run_collective`, the subject of the modules above, as a single operation that
nobody leaves before all have entered it, and extends `GroupedComparer`, whose
steps are steps of its root.

### Time

`RoundTime` and `WindowSync` have one clock `now`, the master's, counted in
ticks. A process reads `now + err[r]`; `err[r]` is chosen anew in every job, as
the synchronisation library leaves it. A measured call takes at least one tick.
Time passes freely while everybody waits for it, and at most `MaxStall` ticks
while somebody could act: this is what lets a process be late. Without the
bound the number of states is infinite; the proofs do not use it.

`OffsetMeasurement` has the same kind of clock, read by one process as `now` and
by the other as `now + diff`; at most `MaxTime` ticks pass. `SanityTests` has no
time: a clock is right if it is in the frame of rank 0, because all models are
taken to be learnt exactly.

### Messages

Channels are FIFO per pair of processes, as MPI guarantees for one tag and
communicator. A send may be buffered or wait for its receive: the choice
(`eager`) is made once, so both kinds of MPI library are covered.

## Runs

| Run | Instance | Shows |
|---|---|---|
| `roundtime` | 3 processes, 2 jobs of 3 and 2 repetitions, the second in barrier mode, time slot 6, wait 1, errors 0 and 1, 1 stall tick | same repetition, mode and start time in one round, synchronised start, only valid measurements reported, at most one dropped, equal results, no round after time-up, short only when time is up, every job ends |
| `roundtime_default` | 2 processes, the two calls `pgchecker` begins with | **violated**: see Findings |
| `collectives` | 1 to 4 processes, 2 repetitions, with every module; 5 processes with the dissemination barrier and with round-time; the five ping-pongs with 1 to 3 processes, right and wrong ranks | messages never mix, rounds do not overlap, the own collectives implement `Barrier`, `Reduction` and `Broadcast` next to each other, every call returns |
| `window` | 2 processes, jobs of 2 and 1 repetitions, windows of 2, 2 stall ticks, chunks of 1 row, verbose and short reports | flags belong to their measurement, windows agree, kept measurements are in their window and their runtimes fit it, the verbose rows hold what was measured, every job ends |
| `verbose_chunks` | the same, verbose | **violated**: see Findings |
| `startup` | 3 processes, 1426 command lines, every file of up to 3 lines of 5 kinds | room for the next job, collectives match on every path, same schedule, timing method set and the same, every process ends |
| `kvstore` | 3 keys, 2 buckets, every hash function | but for the removal of the head of a longer bucket every call is that of a dictionary, `--params` rejects exactly what it should |
| `kvstore_remove` | the same | **violated**: see Findings |
| `clocksync` | every algorithm and module: flat ones on 1 to 7 processes, hierarchical ones on 5 placements; every program of `sanity_check` with 1 to 6 processes | global clocks agree, processes agree on who is tested, rows hold what they are labelled with, every program ends |
| `offsets` | 2 processes, 2 measurements in a row with each algorithm, clocks 1 behind or 2 ahead, up to 6 ticks | messages belong to the measurement that reads them, the bounds hold the true offset, both results estimate it, every measurement ends |
| `pgcheck` | 3 processes, 15 combinations of options, files and failures, one or two test cases of up to 2 mockups (one listed twice, one unknown collective), 2 counts | collective operations match on every path, what makes a process other than the root leave makes all leave (a root that leaves alone strands the others, as in the code), the row names the fastest mockup in any order, the t-test's verdict is that of the named mockup |
| `pgcheck_verdict` | the same with 2 processes | **violated**: see Findings |

Why the bounds are enough: five processes are the first number at which the
collectives have set and clear bits below the highest bit of `size - 1` and a
tree with inner nodes besides the root's children; two calls in a row are needed
for messages of one call to meet the next, and a third adds nothing since no
process can be two calls ahead of a partner (a barrier precedes every broadcast, so
broadcasts do not overlap at all). A ping-pong has two ranks; a third process checks that it
stays out of it. In `roundtime` a stall tick makes any one of the processes miss
a start time in any round, and a slot of 6 ends the first job before, in and
after its last repetition, in valid and in invalid rounds. Two stall ticks in
`window` make a process miss a start, overrun a window, or both; with chunks of
one row the first job has two of them. In `startup` every parser meets, before
and after the required options, values it accepts and values it rejects, and a
file of three lines makes the job array (in batches of two) grow. In `clocksync`
all processes of a flat algorithm are on nodes of their own, so that a model in
any wrong frame shows, and seven processes make HCA merge twice in its second
step; the placements have equal, interleaved and unequal nodes. In `offsets` two
measurements make the second find what the first has stored and left behind; six
ticks let each of the messages of a measurement be late. In `pgcheck` a mockup is
faster (significantly or not), as fast or slower than the default, two of them
give both orders, and any data file may lack a count or all of them; counts do
not influence each other otherwise. Deadlock is not checked there: a process
whose root has left really waits for ever (until `mpirun` ends the job).

Each property of a passing run has a mutant in `PROJECT.json`: a definition
changed the way a plausible bug would change it, which violates the property.

### Fairness

Liveness assumes weak fairness of every process and of the clock: an MPI process
is scheduled by the operating system, its busy waits and blocking calls go on as
soon as their condition holds, messages arrive, and clocks advance. No strong
fairness is used. Where every behaviour is finite (`collectives`, `clocksync`,
`offsets`) weak fairness of the whole next-state relation says as much: as long
as some process can take a step, one does.
`EveryJobEnds` needs a positive time for every call and no other assumption: a
round that is always invalid is ended by the time slot.

## Findings

- `verbose_chunks`: with more than one chunk of 3000 rows, the verbose output
  normalises the start of the arrays for every chunk and gathers the later parts
  unnormalised, and takes the error codes from the start of the array each time
  (`results_output.c:262`, `:234`), against "gather global times in case global
  clocks are used" (`:254`).
- `roundtime_default`: `barrier_sync_mode` and `switch_count` are static and no
  later parse resets them, so after the barrier measurement of `pgchecker` test
  cases without `--rt-barrier-count` run in barrier mode, although "default -1
  means never" (`round_time_sync.c:67`).
- `kvstore_remove`: removing the key at the head of a bucket drops all other
  keys of the bucket (`keyvalue_store.c:226`, "only one key in the bucket").
  The program itself never removes a key; the test program does.
- `pgcheck_verdict`: a Wilcoxon test keeps its `z_value`, and the grouped
  comparer judges every mockup of a count with the statistic of the first one
  visited. The violation printed for the fastest mockup is then not its own
  ("@return true if samples violate test hypothesis", `comparer_data.h:49`).

Met on the way and not checked by a run. The derived type in which the jobs are
broadcast does not know the padding of `job_t`: the upper four bytes of `n_rep` are
not sent and stay 0 at all processes but the root (`benchmark_job.c:133`). The model
has this (`Carried`); a job of 2^32 repetitions would find no memory anyway. Every option that the timing parser does
not know resets the timing method to local, so `--runtime-type=global` counts only
as the last option; with no option at all the variable would be read
uninitialised (`parse_timing_options.c:112`), which `TimingMethodSet` shows not to
happen because other parsers reject that command line first. Both offset
measurements invert the test whether a pair of processes is known
(`SKaMPIClockOffsetAlg.cpp:60`, `PingpongClockOffsetAlg.cpp:49`): the SKaMPI one
never stops early, contrary to its comment (`:29-35`), the other one corrects its
first measurement by a round-trip time of 0 (`BoundsHold` and `OffsetIsEstimate`
hold nevertheless). `mean` and `median` of a summary are computed even if all
repetitions were dropped (`results_output.c:382`). If all of several processes fail to
parse their options the sum of the statuses is not -1 and the checker goes on
(`pgchecker.cpp:148`, part of `PGCheck`). The grouped comparer puts the barrier
mark into a column its table does not have (`grouped_violation_comparer.cpp:99`),
although `pgcheck/README.md` lists a barrier warning for it. Result files are
named after the collective, so that a second test case of it overwrites the
first one's (`pgdata_printer.cpp:37`). The list of
comparers is made unique before it is sorted (`pgcheck_options.cpp:149`). The
rank sum of Wilcoxon-Mann-Whitney indexes its vector from 1 to its size
(`wilcoxon_mann_whitney.cpp:57`).

## Proofs

Every theorem below holds for all values of the constants that the ASSUMEs of its
module allow; each is about a property that a run checks on a small instance.

**Round-time synchronisation** (`RoundTimeProofs`), for every number of
processes, all jobs, options, clock errors and waiting times:

- `TypeCorrect`: `Spec => []TypeOK`.
- `RoundsStayInStep`: `Spec => []InStep`.
- `StartIsSynchronised`: `Spec => []SynchronisedStart`.
- `ReportIsValid`: `Spec => []ReportedAreValid`.
- `ResultsAreSame`: `Spec => []SameResults`.
- `StopsTogether`: `Spec => []NoRoundAfterTimeUp`.
- `ShortForTime`: `Spec => []ShortOnlyWhenTimeUp`.
- `FewAreDropped`: `Spec => []AtMostOneDropped`.

The inductive invariant `IInv` has one conjunct per idea. `RoundsAligned`
(nobody is past the barrier of a round that somebody has not entered) is
nearly inductive, but the decision of a round needs to know that every packet
belongs to it: `PacketInv` relates a process's last packet to its position and
`PacketsCover` says that nobody has a verdict of a round without all packets.
`LateInv` says that a round somebody missed is, or will be, flagged by a packet
before anybody decides on it; with it `SlotInv` keeps all array elements below
`i` free of missed rounds and in order, which is `ReportedAreValid` at the end
of the loop. `BcastInv` says that everybody who waits has the start time of this
very round, `WaitInv` where each process stands relative to it, and the two give
`SynchronisedStart`. Each conjunct has its lemma with one step per action.

A second invariant, `RInv`, compares processes: those with the
verdicts of the same rounds are at the same repetition of the same job with the
same results (`SameProgress`), and one that is a verdict ahead is where the
others will be with it (`OneAhead`); a stop flag is raised when the slot is used
up and is sent with the next packet (`StopInv`); above the measurements a process
keeps there is none that it might keep, but for the one it gets the verdict on
(`NoneAbove`). `InStep` adds the modes to it (`ModeInv`): processes that have begun
the same number of jobs agree on switch and mode, and one that has begun one more
has what beginning that job would give the other, so that at the barrier of a job
all come to the same mode, whatever former jobs have set. The four theorems about
reports follow; `FewAreDropped` counts
array elements with the cardinality theorems of the library.

**Dissemination barrier and ping-pongs** (`DissemBarrierProofs`,
`ProcessSyncProofs`), for every number of processes, any buffering and any number
of repetitions:

- `BarrierImplemented`: `Spec => ImplementsBarrier`, the refinement of `Barrier`
  by `DissemBarrier` in the midst of the other communication. The initial states
  map to initial states and every step maps to a step or a stutter; the step that
  needs an argument is the return, at which all must have entered. A process that
  comes to the round with distance `h` knows that the `h` ranks from its own
  downwards are in the call (`KnowInv`), and at the end `h` is no less than their
  number. Instead of `2 ^ k` the proof has `IsHop`: the numbers in every set that
  contains 1 and with a number its double. There is none between one of them and
  its double (`HopGap`).
- `MessagesStayMatched`: `Spec => []MessagesMatch`. A channel of the barrier holds
  the messages of the calls between those the sender has sent and those the
  receiver has got, in order (`ChanInv`); for the ping-pongs `ChanOf` says the
  same of each channel and `TodoOf` that what remains of a call evens out its
  sends and receives.
  `NoneAssumption` says that the value for "no ping-pong" is no sequence of calls.
- `RoundsStayApart`: `Spec => []RoundsDoNotOverlap`, for every module that
  synchronises. What a process does in a job has a shape (`Shaped`): something
  before the rounds, then `nrep` equal blocks, each begun by a barrier
  (`Fenced`), and with the dissemination barrier blocks of two steps, the barrier
  and the call (`Alternating`). Behind an `MPI_Barrier` nobody is before every
  process has come to it (`ReachedInv`); for the dissemination barrier the same
  follows from how often a process has returned from it, which its place in the
  program tells (`CountInv`), and the invariant of the barrier. A process in the
  measured call has the barrier of its round behind it, so the others have come
  to that round (`BarrierReached`), and none is past the barrier of the next.

**Broadcast and allreduce** (`ProcessSyncProofs`), for every number of processes,
as the round-time synchronisation calls them:

- `BroadcastImplemented`: `Spec => ImplementsBroadcast`, the refinement of
  `Broadcast` by `Bcast`. `FirstD[r]` is the least power of two above `r`, so a
  rank has one parent, and the ranks a process sends to are those whose parent it
  is: between one power of two and the next there is no other. A channel of the
  tree carries the values of the calls between the last one the parent has sent
  on (`BcSent`) and the last one the child has got (`BcGot`), in order
  (`BcChanInv`), and nobody has got a value the root has not yet passed
  (`BcRootInv`). So a process returns with the value of its own call. (The argument
  needs no barrier before the call; the program always makes one.)
- `ReductionImplemented`: `Spec => ImplementsReduction`, the refinement of
  `Reduction` by `Allreduce`. `flp2[n]` is the highest power of two in `n`, and at
  the bit `b` the processes have read `n \div b` (`ArRead`): `recvbuf` is the
  reduction of a process's own contribution and those of as many ranks above it,
  `partbuf` that without its own (`ArDataInv`). A message may only meet the
  receive of the same bit of the same call: distances of different bits
  differ, but for the highest bit and the next, which share a channel if the
  second is 0; there the messages of call `k` are number `2k - 1` and `2k`
  (`ArNumber`). Each channel holds the messages between those sent and those got
  (`ArChanInv`), and what has been received at a bit comes only from processes
  that have called (`ArReachInv`). At the end `n` ranks above and the process
  itself are all ranks, each once. The contributions to the two operands of
  `Reduce_local` are of different ranks, so nothing is counted twice.

**Window synchronisation** (`WindowSyncProofs`), for every number of processes,
all jobs, window sizes and clock errors:

- `FlagsFiled`: `Spec => []FlagsBelongToMeasurement`.
- `WindowsStayAgreed`: `Spec => []WindowsAgree`.
- `KeptStaysInWindow`: `Spec => []KeptInWindow`.
- `KeptRuntimesStayBounded`: `Spec => []KeptRuntimesBounded`.
- `VerboseRowsStayRight`: `Spec => []VerboseRowsRight`.

`WindowOf` says that a process's start time is the broadcast one plus as many
windows as it has made repetitions; `Within` what the two checks make of a
measurement, once for the finished ones (`FinishedOf`), once for the one being
made (`CurrentOf`). `PostedOf` carries it into what a process contributes to the
output, and `Printed` into the summary: the root keeps a repetition if the sum of
the codes is 0, hence if every process's code is. That the maximum over the
processes is one of their values uses the least element of a set of numbers
(well-founded induction over a set) in place of an induction over ranks.

The verbose rows need the arithmetic of the chunks, for any chunk size: `x =
c * CHUNK + k` is one to one between repetitions and elements of chunks
(`RepOfChunk`, `ChunkOfRep`), so no row is missing; and no chunk before `c` is as
long as the first index of chunk `c`, so none has normalised its times
(`NotNormalized`). The same lemma is why global times are wrong in later chunks.

**Start** (`StartupProofs`), for every number of processes, any command lines and
files, any batch size and any shuffling:

- `ArrayHasRoom`: `Spec => []RoomForNextJob`.
- `CollectivesStayMatched`: `Spec => []CollectivesMatch`.
- `SchedulesAreSame`: `Spec => []SameSchedule`.
- `TimingIsSet`: `Spec => []TimingMethodSet`.

`Published` says what the root's broadcast number `k` is (`Made`), `PositionOf`
how many broadcasts a process at each place has taken part in, so that a waiting
process and the broadcast it gets are of one kind. `ListOf` follows the list from
the root to the others, `ReasonOf` says that a process exits only for a reason
that all others come to as well, and `Shuffled` that the order stays a
permutation. `SameSchedule` compares numbers of repetitions by what is sent of them,
their lower halves. The assumptions are on types: command lines are sequences, the
parsers return lists of calls and of sizes, a line that can be converted has
numbers, and the marker `Uninitialized` is no timing method.

**Guideline checker** (`PGCheckProofs`), for every number of processes, mockups,
counts and test cases:

- `NamesTheFastest`: `Spec => []FastestIsMinimum`.
- `TTestJudgesTheFastest`: `Spec => []TTestVerdict`.
- `OperationsMatch`: `Spec => []CollectivesMatch`.
- `TypesHold`: `Spec => []TypeOK`.

The invariant of the first two says of every count that the entry is right about the mockups
visited so far (`EntryInv`), that the entry names nobody exactly if its median is
0, the sentinel of `set_fastest_mockup`, and that the root's data are data files
(`DataInv`), which needs the loop of `main` (`LoopInv`).

`OperationsMatch` has an invariant of its own, `CallsInv`. A process's next
operation follows from what it has still to measure (`Ahead`): processes that have
entered equally many operations have the same positions before them, or one has
entered the operation the other comes to next (`Pair`). Test cases without
implementations are positions nobody stops at, so one process may be any number of
cases ahead without being ahead in operations. The three operations before the
first measurement are the same for everyone (`Own`); after them nobody is two
operations ahead, because all synchronise. The assumptions are on types: the
input file and the comparers are lists of names, every implementation configured
can be measured, and the markers `NoMockup` and `NoResults` are neither an
implementation nor a table.

**Offset measurement** (`OffsetMeasurementProofs`), for any numbers of
measurements, rounds and exchanges, any difference of the clocks, any travelling
times of the messages, with and without buffered sends:

- `PingPongsStayMatched`: `Spec => []PingPongsMatch`.
- `BoundsAlwaysHold`: `Spec => []BoundsHold`.
- `OffsetStaysEstimate`: `Spec => []OffsetIsEstimate`.

The invariant (`IInv`) says where the two processes are together, by the message
on its way: one disjunct for each stretch of the protocol (`TripTo`, `MeanSent`,
`ExchangeBack`, `FirstBack`, `LoopTo`, ...), with the times the message has left
behind in order. It is needed because neither the bounds nor the matching follow
from one process's variables: that `t - Time(p)` is a lower bound rests on when
the other process looked at its clock. Two messages are on their way only in
`EndAndFirst`, where the reference has ended a measurement and begun the next
before the client got the end. That the ping-pong algorithm finds a sample equal
to the median rests on the median being an element (`SortedIsElement`), which uses
the least element of a set of numbers. The assumptions: no clock is read below 0,
because a negative time is the sign for the end of the loop (`ClocksAssumption`),
and the marker `None` is no number.

**Key-value store** (`KeyValueStoreProofs`), for any keys, any number of buckets and
any way in which the keys collide, and any calls in any order:

- `IsDictionary`: `Spec => ImplementsDictionary`: the initial state is that of
  `Dictionary`, a map, and every call is a step of it, but for the removal of a key
  at the head of a longer bucket (`LossyRemoval`), where the code loses keys
  (`kvstore_remove`). The benchmark never removes, so it has a dictionary.
  The invariant (`KeyInv`) says that a key is in no bucket but its own, and there
  once; so a lookup finds the value last added, and writing one bucket changes no
  lookup in another (`WriteBucket`). The list of keys is the buckets, one behind
  the other: that it names every stored key once is shown for the first `n`
  buckets, with the least `n` for which it would be wrong in place of an induction
  over `n`, whose form in the library takes an operator as a parameter.

Only model-checked, and why:

- the liveness properties: fairness and ENABLED are out of TLAPS's reach;
- the former clock synchronisation (`GlobalClocksAgree`, `TestedAgree`,
  `RowsAreMeasured`): recursive over the nesting of algorithms.

## Not modelled

- `measure_bcast_runtime` is modelled as communication; its result is the
  constant `Wait`.
- The collective operations under test other than the ping-pongs, buffers, cache
  clearing: single MPI calls and local memory. The text of all output.
- Results with other synchronisation modules than windows (the same reductions
  without error codes), the statistics of a summary, the printed settings.
- The clock synchronisation of the benchmark (external library). Of the former
  one, regression and rounding: a model learnt is taken to be exact, and the
  ping-pongs of `learn_model` are single steps. `hwloc` is taken at its word.
- `benchmark_lib/`: its code calls interfaces that no longer exist, no
  configuration builds it. `libtests/` test that library.
- Splitting and converting the text of arguments, arguments written apart from
  their option (getopt permutes them), help texts.
- A broadcast from another root than 0, which nobody calls.
- A median of exactly 0, which `set_fastest_mockup` cannot tell from "no mockup".
- Floating point: times are integers, so rounding at the boundaries is not seen.
- Repetition numbers that are zero or negative in an input file: the loop would
  overrun its arrays at once.
- In the checker: merged tables and their counts of violations, the files and
  their text, the values of the statistics (a class each), `run_collective` ending
  the program by itself, and nodes that do not see the same files.
- Scripts, vendored logging.

## Plan

Done, in this order: `RoundTime` and its proofs; the collectives it rests on;
`WindowSync`; `JobList`; `KeyValueStore`; `GroupedComparer`, `PGCheck` and its
proofs; the former clock synchronisation with the sanity checks and the offset
measurement; `ProcessSync` over all synchronisation modules and the ping-pongs;
`Options` and `Startup`; `Output`.

The theorems came in the order of the section above.

Next: the branches of `Output` for modules without error codes, and the merged
tables of the checker.
