----------------------------- MODULE WindowSync -----------------------------
(***************************************************************************)
(* The measurement loop of run_collective (benchmarkCollective.c) run by   *)
(* NP MPI processes that synchronise with the window module                *)
(* (sync/process_sync/window_sync.c), and print the results of each job    *)
(* (Output), whose summary leaves flagged repetitions out.                 *)
(*                                                                         *)
(* The master broadcasts the start of the first window of a job.  After    *)
(* that the processes do not communicate: repetition k is measured in the  *)
(* k-th window, and a process that is late flags the repetition.           *)
(*                                                                         *)
(* Time is as in RoundTime: `now' is the master's local clock, in ticks,   *)
(* and get_global_time of rank r reads now + err[r].  The measured call    *)
(* takes at least one tick and does not synchronise the processes.         *)
(***************************************************************************)
EXTENDS Integers, Sequences, FiniteSets, MeasurementLoop, Output

CONSTANTS
    NP,          \* number of MPI processes
    NReps,       \* the number of repetitions of each job
    WaitTime,    \* --wait-time, in ticks
    WindowSize,  \* --window-size, in ticks
    Errs,        \* residual clock errors a clock synchronisation may leave
    Reports,     \* the output options considered
    MaxStall     \* bound: ticks that pass while some process could act

ASSUME NPAssumption == NP \in Nat \ {0}
ASSUME NRepsAssumption == NReps \in Seq(Nat \ {0})
\* Enforced by winsync_parse_options.
ASSUME TimesAssumption == WaitTime \in Nat \ {0} /\ WindowSize \in Nat \ {0}
ASSUME ReportsAssumption == Reports \subseteq Report
ASSUME ErrsAssumption == Errs \subseteq Nat
ASSUME StallAssumption == MaxStall \in Nat

VARIABLES
    now, stall,
    pc, job, i,         \* the position, jindex + 1 and i of run_collective
    start_sync, repetition_counter, invalid,  \* module state, per process
    sent,               \* the first window start broadcast for each job
    err,                \* residual clock error of each process
    tstart, tend,       \* the measurements of this job (run_collective)
    posted,             \* what each process has measured, and contributed to
                        \* the output of each job
    report,             \* the output options
    summary, results    \* what the root has printed for each job

measured == <<tstart, tend, report>>
printed == <<summary, results>>
vars == <<now, stall, pc, job, i, start_sync, repetition_counter, invalid,
          sent, err, measured, posted, printed>>

FLAG_START_TIME_HAS_PASSED == 1
FLAG_SYNC_WIN_EXPIRED      == 2

Rank == 0 .. NP - 1
Master == 0
NJobs == Len(NReps)
Rep(j) == 0 .. NReps[j] - 1

GlobalTime(r) == now + err[r]

Init ==
    /\ now = 0 /\ stall = 0
    /\ pc = [r \in Rank |-> IF NJobs = 0 THEN "done" ELSE "init_job"]
    /\ job = [r \in Rank |-> 1] /\ i = [r \in Rank |-> 0]
    /\ start_sync = [r \in Rank |-> 0]
    /\ repetition_counter = [r \in Rank |-> 0]
    /\ invalid = [r \in Rank |-> <<>>]
    /\ sent = <<>>
    /\ err = [r \in Rank |-> 0]
    /\ tstart = [r \in Rank |-> <<>>] /\ tend = [r \in Rank |-> <<>>]
    /\ posted = [r \in Rank |-> <<>>]
    /\ report \in Reports
    /\ summary = <<>> /\ results = <<>>

\* The arrays of the job, init_sync and the clock synchronisation.
InitJob(r) ==
    /\ pc[r] = "init_job"
    /\ repetition_counter' = [repetition_counter EXCEPT ![r] = 0]
    /\ invalid' = [invalid EXCEPT ![r] = [k \in Rep(job[r]) |-> {}]]
    /\ \E e \in Errs : err' = [err EXCEPT ![r] = e]
    /\ tstart' = [tstart EXCEPT ![r] = [k \in Rep(job[r]) |-> 0]]
    /\ tend' = [tend EXCEPT ![r] = [k \in Rep(job[r]) |-> 0]]
    /\ i' = [i EXCEPT ![r] = 0]
    /\ pc' = [pc EXCEPT ![r] = "init_round"]
    /\ UNCHANGED <<now, stall, job, start_sync, sent, posted, report, printed>>

\* init_sync_round, master: the first window starts WaitTime from now, by the
\* normalised clock, and everybody is told so.
SendFirstWindow(r) ==
    /\ pc[r] = "init_round"
    /\ r = Master
    /\ start_sync' = [start_sync EXCEPT ![r] = GlobalTime(r) + WaitTime]
    /\ sent' = Append(sent, GlobalTime(r) + WaitTime)
    /\ pc' = [pc EXCEPT ![r] = "first_poll"]
    /\ UNCHANGED <<now, stall, job, i, repetition_counter, invalid, err,
                   measured, posted, printed>>

\* Mutant: every process takes its own time.
OwnFirstWindow(r) ==
    /\ pc[r] = "init_round"
    /\ r # Master
    /\ Len(sent) >= job[r]
    /\ start_sync' = [start_sync EXCEPT ![r] = GlobalTime(r) + WaitTime]
    /\ pc' = [pc EXCEPT ![r] = "first_poll"]
    /\ UNCHANGED <<now, stall, job, i, repetition_counter, invalid, sent, err,
                   measured, posted, printed>>

\* init_sync_round, the others: PMPI_Bcast of the start time.
RecvFirstWindow(r) ==
    /\ pc[r] = "init_round"
    /\ r # Master
    /\ Len(sent) >= job[r]
    /\ start_sync' = [start_sync EXCEPT ![r] = sent[job[r]]]
    /\ pc' = [pc EXCEPT ![r] = "first_poll"]
    /\ UNCHANGED <<now, stall, job, i, repetition_counter, invalid, sent, err,
                   measured, posted, printed>>

\* start_sync, first look at the clock: a window that has already begun is
\* used all the same, but flagged.
FirstPoll(r) ==
    LET missed == GlobalTime(r) >= start_sync[r]
    IN  /\ pc[r] = "first_poll"
        /\ invalid' = IF missed
               THEN [invalid EXCEPT ![r][repetition_counter[r]] =
                         @ \cup {FLAG_START_TIME_HAS_PASSED}]
               ELSE invalid
        /\ pc' = [pc EXCEPT ![r] = IF missed THEN "call" ELSE "poll"]
        /\ UNCHANGED <<now, stall, job, i, start_sync, repetition_counter,
                       sent, err, measured, posted, printed>>

\* The look at the clock that ends the busy wait.
Poll(r) ==
    /\ pc[r] = "poll"
    /\ GlobalTime(r) >= start_sync[r]
    /\ pc' = [pc EXCEPT ![r] = "call"]
    /\ UNCHANGED <<now, stall, job, i, start_sync, repetition_counter, invalid,
                   sent, err, measured, posted, printed>>

StartCall(r) ==
    /\ pc[r] = "call"
    /\ tstart' = [tstart EXCEPT ![r][i[r]] = now]
    /\ pc' = [pc EXCEPT ![r] = "in_call"]
    /\ UNCHANGED <<now, stall, job, i, start_sync, repetition_counter, invalid,
                   sent, err, tend, report, posted, printed>>

EndCall(r) ==
    /\ pc[r] = "in_call"
    /\ now > tstart[r][i[r]]
    /\ tend' = [tend EXCEPT ![r][i[r]] = now]
    /\ pc' = [pc EXCEPT ![r] = "stop"]
    /\ UNCHANGED <<now, stall, job, i, start_sync, repetition_counter, invalid,
                   sent, err, tstart, report, posted, printed>>

\* Mutant: an expired window is not counted.
StopSyncRepeats(r) ==
    LET expired == GlobalTime(r) > start_sync[r] + WindowSize
    IN  /\ pc[r] = "stop"
        /\ invalid' = IF expired
               THEN [invalid EXCEPT ![r][repetition_counter[r]] =
                         @ \cup {FLAG_SYNC_WIN_EXPIRED}]
               ELSE invalid
        /\ start_sync' = [start_sync EXCEPT ![r] = @ + WindowSize]
        /\ repetition_counter' =
               [repetition_counter EXCEPT ![r] = IF expired THEN @ ELSE @ + 1]
        /\ i' = [i EXCEPT ![r] = NextIndex(CORRECT, @)]
        /\ pc' = [pc EXCEPT ![r] = IF LoopEnds(CORRECT, i[r], NReps[job[r]])
                                   THEN "report" ELSE "first_poll"]
        /\ UNCHANGED <<now, stall, job, sent, err, measured, posted, printed>>

\* stop_sync, and what the loop does with its verdict, which is always that
\* the measurement is correct.
StopSync(r) ==
    LET expired == GlobalTime(r) > start_sync[r] + WindowSize
    IN  /\ pc[r] = "stop"
        /\ invalid' = IF expired
               THEN [invalid EXCEPT ![r][repetition_counter[r]] =
                         @ \cup {FLAG_SYNC_WIN_EXPIRED}]
               ELSE invalid
        /\ start_sync' = [start_sync EXCEPT ![r] = @ + WindowSize]
        /\ repetition_counter' = [repetition_counter EXCEPT ![r] = @ + 1]
        /\ i' = [i EXCEPT ![r] = NextIndex(CORRECT, @)]
        /\ pc' = [pc EXCEPT ![r] = IF LoopEnds(CORRECT, i[r], NReps[job[r]])
                                   THEN "report" ELSE "first_poll"]
        /\ UNCHANGED <<now, stall, job, sent, err, measured, posted, printed>>

NextJob(r) == /\ job' = [job EXCEPT ![r] = @ + 1]
              /\ pc' = [pc EXCEPT ![r] = IF job[r] = NJobs THEN "done" ELSE "init_job"]

\* The error codes of an array of flags.
Codes(flags) == [k \in DOMAIN flags |->
    (IF FLAG_START_TIME_HAS_PASSED \in flags[k] THEN FLAG_START_TIME_HAS_PASSED ELSE 0)
    + (IF FLAG_SYNC_WIN_EXPIRED \in flags[k] THEN FLAG_SYNC_WIN_EXPIRED ELSE 0)]

\* reprompib_print_bench_output: a process contributes its arrays to all
\* reductions and gathers, and only the root waits for the others.
Contribute(r) ==
    LET m == [codes |-> Codes(invalid[r]), tstart |-> tstart[r], tend |-> tend[r],
              err |-> err[r]]
    IN  /\ pc[r] = "report"
        /\ posted' = [posted EXCEPT ![r] = Append(@,
               [measured |-> m, calls |-> Calls(m, NReps[job[r]], report)])]
        /\ IF r = Master THEN pc' = [pc EXCEPT ![r] = "collect"] /\ UNCHANGED job
                         ELSE NextJob(r)
        /\ UNCHANGED <<now, stall, i, start_sync, repetition_counter, invalid,
                       sent, err, measured, printed>>

\* Mutant: the root waits for one contribution more than there are.
PostedOneMore(j) == \A q \in Rank : Len(posted[q]) > j

AllPosted(j) == \A q \in Rank : Len(posted[q]) >= j

\* reprompib_print_bench_output, at the root.
Collect(r) ==
    LET calls == [q \in Rank |-> posted[q][job[r]].calls]
        n == NReps[job[r]]
    IN  /\ pc[r] = "collect"
        /\ AllPosted(job[r])
        /\ summary' = Append(summary, SummaryPrinted(calls, n, report))
        /\ results' = Append(results, ResultsPrinted(calls, n, report))
        /\ NextJob(r)
        /\ UNCHANGED <<now, stall, i, start_sync, repetition_counter, invalid,
                       sent, err, measured, posted>>

Step(r) == \/ InitJob(r)   \/ SendFirstWindow(r) \/ RecvFirstWindow(r)
           \/ FirstPoll(r) \/ Poll(r)            \/ StartCall(r)
           \/ EndCall(r)   \/ StopSync(r)        \/ Contribute(r)
           \/ Collect(r)

\* Whether a process could act now.
CanAct(r) ==
    /\ pc[r] # "done"
    /\ pc[r] = "init_round" /\ r # Master => Len(sent) >= job[r]
    /\ pc[r] = "poll"    => GlobalTime(r) >= start_sync[r]
    /\ pc[r] = "in_call" => now > tstart[r][i[r]]
    /\ pc[r] = "collect" => AllPosted(job[r])

AwaitsClock(r) == pc[r] \in {"poll", "in_call"} /\ ~CanAct(r)

Finished == \A r \in Rank : pc[r] = "done"

\* Time passes: freely while nobody can act and somebody waits for the clock,
\* and at most MaxStall ticks in all while some process is slow to act.
Tick ==
    /\ now' = now + 1
    /\ \/ /\ \A r \in Rank : ~CanAct(r)
          /\ \E r \in Rank : AwaitsClock(r)
          /\ UNCHANGED stall
       \/ /\ \E r \in Rank : CanAct(r)
          /\ stall < MaxStall
          /\ stall' = stall + 1
    /\ UNCHANGED <<pc, job, i, start_sync, repetition_counter, invalid, sent,
                   err, measured, posted, printed>>

\* The program has ended: nothing happens any more.
Ended == Finished /\ UNCHANGED vars

Next == Tick \/ (\E r \in Rank : Step(r)) \/ Ended

\* Every process runs and the clock advances.
Fairness == WF_vars(Tick) /\ \A r \in Rank : WF_vars(Step(r))

Spec == Init /\ [][Next]_vars
FairSpec == Spec /\ Fairness

-----------------------------------------------------------------------------
InLoop == {"first_poll", "poll", "call", "in_call", "stop"}

\* The loop counts repetitions with i and the module with repetition_counter:
\* a flag is filed under the repetition that is being measured.
FlagsBelongToMeasurement ==
    \A r \in Rank : pc[r] \in InLoop => repetition_counter[r] = i[r]

\* Without any communication after the first broadcast, all processes agree on
\* when repetition k is to start, however late some of them are.
WindowsAgree ==
    \A r \in Rank : pc[r] \in InLoop =>
        start_sync[r] = sent[job[r]] + i[r] * WindowSize

\* What process r measured in job j.
Measured(r, j) == posted[r][j].measured

\* A repetition kept in the summary was, at every process and by its own
\* global clock, measured within its window; so kept repetitions of different
\* processes never overlap, whatever the delays (window-based
\* synchronisation, print_summary).
KeptInWindow ==
    \A j \in DOMAIN summary : \A k \in DOMAIN summary[j] : \A r \in Rank :
        LET m == Measured(r, j)
        IN  /\ sent[j] + k * WindowSize <= m.tstart[k] + m.err
            /\ m.tend[k] + m.err <= sent[j] + (k + 1) * WindowSize

\* The runtime that enters the summary, be it the longest of the processes or
\* the time from the first start to the last end, is no shorter than that of
\* any process and no longer than the window (compute_runtimes, print_summary).
KeptRuntimesBounded ==
    \A j \in DOMAIN summary : \A k \in DOMAIN summary[j] :
        /\ summary[j][k] <= WindowSize
        /\ \A r \in Rank : Measured(r, j).tend[k] - Measured(r, j).tstart[k] <= summary[j][k]

\* The verbose rows of a job, one for each process and repetition: the local
\* times are those that were measured, although the array they are gathered
\* from is normalised in place; in the first chunk the global times are the
\* normalised local times and the error codes those of the repetition
\* (print_measurement_results).
RowIsRight(row, j) ==
    LET m == Measured(row.rank, j)
    IN  /\ row.code = m.codes[row.rep]
        /\ row.gl_tstart = m.tstart[row.rep] + m.err
        /\ row.gl_tend = m.tend[row.rep] + m.err
VerboseRowsRight ==
    report.verbose => \A j \in DOMAIN results :
        /\ {<<row.rank, row.rep>> : row \in results[j]} =
               IF PrintsResults(report) THEN Rank \X Rep(j) ELSE {}
        /\ \A row \in results[j] :
               /\ row.tstart = Measured(row.rank, j).tstart[row.rep]
               /\ row.tend = Measured(row.rank, j).tend[row.rep]
               /\ row.rep < OUTPUT_NITERATIONS_CHUNK => RowIsRight(row, j)

\* "gather global times in case global clocks are used" and the "errorcode"
\* column of every row (print_measurement_results): all chunks are like the
\* first one.
EveryRowRight ==
    report.verbose => \A j \in DOMAIN results : \A row \in results[j] : RowIsRight(row, j)

\* Every job ends at every process: a late process does not delay the others
\* for ever.
EveryJobEnds == <>Finished
=============================================================================
