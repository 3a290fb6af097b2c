------------------------------ MODULE RoundTime ------------------------------
(***************************************************************************)
(* The measurement loop of run_collective (benchmarkCollective.c) run by   *)
(* NP MPI processes that synchronise with the round-time module            *)
(* (sync/process_sync/round_time_sync.c).                                  *)
(*                                                                         *)
(* Each process executes, for every job, rounds of                         *)
(*                                                                         *)
(*   start_sync : barrier, broadcast of a start time, busy wait for it     *)
(*   the call   : the measured collective operation                        *)
(*   stop_sync  : allreduce of {invalid, stop_flag}, verdict               *)
(*                                                                         *)
(* and keeps, redoes or drops the measurement according to the verdict.    *)
(*                                                                         *)
(* Time.  `now' is the time shown by the local clock of rank 0, in ticks.  *)
(* get_global_time of rank r reads now + err[r]: err[r] is the residual    *)
(* error of the clock synchronisation, chosen anew by every                *)
(* MPITS_Clocksync_sync.  A call takes at least one tick, which is what    *)
(* bounds the number of rounds that fit in a time slot.                    *)
(*                                                                         *)
(* Collectives.  `round' counts the barriers a process has entered.  A     *)
(* barrier lets a process go when all have entered it, a broadcast when    *)
(* the master has sent, an allreduce when all have contributed (modules    *)
(* DissemBarrier, Bcast and Allreduce justify this abstraction).           *)
(***************************************************************************)
EXTENDS Integers, Sequences, FiniteSets, MeasurementLoop

CONSTANTS
    NP,        \* number of MPI processes
    Jobs,      \* the jobs of all run_collective calls of the program
    Wait,      \* bcast_runtime * bcast_multiplier, in ticks
    Errs,      \* residual clock errors a clock synchronisation may leave
    MaxStall,  \* bound: ticks that pass while some process could act
    NoOption   \* an option absent from the command line

NJobs == Len(Jobs)
Rank == 0 .. NP - 1
Master == 0

\* A job.  `first' marks the first job of a run_collective call: the options
\* bench_time (--rt-bench-time-ms) and barrier_count (--rt-barrier-count) of
\* that call are parsed before it.
JobType == [first : BOOLEAN,
            bench_time : Nat \cup {NoOption},
            barrier_count : Int \cup {NoOption},
            count : Nat,
            nrep : Nat \ {0}]

ASSUME NPAssumption == NP \in Nat \ {0}
ASSUME JobsAssumption == Jobs \in Seq(JobType)
ASSUME WaitAssumption == Wait \in Nat
ASSUME ErrsAssumption == Errs \subseteq Int
ASSUME StallAssumption == MaxStall \in Nat
ASSUME NoOptionAssumption == NoOption \notin Int

VARIABLES
    now,      \* the master's clock
    stall,    \* ticks that passed while some process could act
    pc,       \* where each process is
    round,    \* number of rounds (barriers) each process has entered
    job,      \* jindex + 1
    i, n_rep, \* the loop index and job.n_rep
    barrier_sync_mode, switch_count, time_slot,          \* module state,
    invalid, stop_flag, start_sync, job_start_time,      \* one per process
    bcast,    \* the last broadcast: its round and the start time sent
    packet,   \* the last contribution of each process to the allreduce
    err,      \* residual clock error of each process
    first,    \* when each process first read its clock in this round
    tstart,   \* when each process started the call of this round
    slot,     \* the round whose measurement each array element holds
    late,     \* rounds whose start some process missed
    result    \* the number of repetitions each process reported, per job

module == <<barrier_sync_mode, switch_count, time_slot>>
clocks == <<err, first, tstart>>
vars == <<now, stall, pc, round, job, i, n_rep, module, invalid, stop_flag,
          start_sync, job_start_time, bcast, packet, clocks, slot, late,
          result>>

GlobalTime(r) == now + err[r]

Init ==
    /\ now = 0 /\ stall = 0
    /\ pc = [r \in Rank |-> IF NJobs = 0 THEN "done" ELSE "init_job"]
    /\ round = [r \in Rank |-> 0]
    /\ job = [r \in Rank |-> 1]
    /\ i = [r \in Rank |-> 0] /\ n_rep = [r \in Rank |-> 0]
    /\ barrier_sync_mode = [r \in Rank |-> 0]
    /\ switch_count = [r \in Rank |-> -1]
    /\ time_slot = [r \in Rank |-> 0]
    /\ invalid = [r \in Rank |-> CORRECT]
    /\ stop_flag = [r \in Rank |-> 0]
    /\ start_sync = [r \in Rank |-> 0]
    /\ job_start_time = [r \in Rank |-> 0]
    /\ bcast = [round |-> 0, value |-> 0]
    /\ packet = [r \in Rank |-> [round |-> 0, invalid |-> 0, stop |-> 0]]
    /\ err = [r \in Rank |-> 0]
    /\ first = [r \in Rank |-> 0] /\ tstart = [r \in Rank |-> 0]
    /\ slot = [r \in Rank |-> [k \in 0 .. -1 |-> 0]]
    /\ late = {}
    /\ result = [r \in Rank |-> <<>>]

-----------------------------------------------------------------------------
\* Mutant: init_sync_round forgets to reset the stop flag.
InitJobKeepsStopFlag(r) ==
    LET J == Jobs[job[r]]
        Parsed(opt, old) == IF J.first /\ opt # NoOption THEN opt ELSE old
        switch == Parsed(J.barrier_count, switch_count[r])
    IN  /\ pc[r] = "init_job"
        /\ switch_count' = [switch_count EXCEPT ![r] = switch]
        /\ time_slot' = [time_slot EXCEPT ![r] = Parsed(J.bench_time, @)]
        /\ barrier_sync_mode' = [barrier_sync_mode EXCEPT ![r] =
                IF switch > -1 /\ J.count >= switch THEN 1 ELSE @]
        /\ \E e \in Errs : err' = [err EXCEPT ![r] = e]
        /\ job_start_time' = [job_start_time EXCEPT ![r] = now]
        /\ i' = [i EXCEPT ![r] = 0]
        /\ n_rep' = [n_rep EXCEPT ![r] = J.nrep]
        /\ slot' = [slot EXCEPT ![r] = [k \in 0 .. J.nrep - 1 |-> 0]]
        /\ pc' = [pc EXCEPT ![r] = "start"]
        /\ UNCHANGED <<now, stall, round, job, invalid, stop_flag, start_sync,
                       bcast, packet, first, tstart, late, result>>

\* Parsing of the options (first job of a call), init_sync, the clock
\* synchronisation, init_sync_round, and the start of the loop: i = 0.
\* Options that are absent leave the module's static variables alone.
InitJob(r) ==
    LET J == Jobs[job[r]]
        Parsed(opt, old) == IF J.first /\ opt # NoOption THEN opt ELSE old
        switch == Parsed(J.barrier_count, switch_count[r])
    IN  /\ pc[r] = "init_job"
        /\ switch_count' = [switch_count EXCEPT ![r] = switch]
        /\ time_slot' = [time_slot EXCEPT ![r] = Parsed(J.bench_time, @)]
        /\ barrier_sync_mode' = [barrier_sync_mode EXCEPT ![r] =
                IF switch > -1 /\ J.count >= switch THEN 1 ELSE @]
        /\ \E e \in Errs : err' = [err EXCEPT ![r] = e]
        /\ job_start_time' = [job_start_time EXCEPT ![r] = now]
        /\ stop_flag' = [stop_flag EXCEPT ![r] = 0]
        /\ invalid' = [invalid EXCEPT ![r] = CORRECT]
        /\ i' = [i EXCEPT ![r] = 0]
        /\ n_rep' = [n_rep EXCEPT ![r] = J.nrep]
        /\ slot' = [slot EXCEPT ![r] = [k \in 0 .. J.nrep - 1 |-> 0]]
        /\ pc' = [pc EXCEPT ![r] = "start"]
        /\ UNCHANGED <<now, stall, round, job, start_sync, bcast, packet,
                       first, tstart, late, result>>

\* start_sync up to and including the call of PMPI_Barrier.
StartSync(r) ==
    /\ pc[r] = "start"
    /\ round' = [round EXCEPT ![r] = @ + 1]
    /\ invalid' = [invalid EXCEPT ![r] =
                       IF barrier_sync_mode[r] = 1 THEN @ ELSE CORRECT]
    /\ pc' = [pc EXCEPT ![r] = "barrier"]
    /\ UNCHANGED <<now, stall, job, i, n_rep, module, stop_flag, start_sync,
                   job_start_time, bcast, packet, clocks, slot, late, result>>

\* Mutant: the last process to arrive is not waited for.
BarrierMissesOne(r) == \A q \in Rank : round[q] > round[r]

BarrierComplete(r) == \A q \in Rank : round[q] >= round[r]

\* Barrier mode: the barrier is the whole synchronisation.
LeaveBarrierOnly(r) ==
    /\ pc[r] = "barrier"
    /\ BarrierComplete(r)
    /\ barrier_sync_mode[r] = 1
    /\ pc' = [pc EXCEPT ![r] = "call"]
    /\ UNCHANGED <<now, stall, round, job, i, n_rep, module, invalid,
                   stop_flag, start_sync, job_start_time, bcast, packet,
                   clocks, slot, late, result>>

\* Clock mode, master: fix the start time (its own clock, not the
\* normalised one) and broadcast it.
SendStartTime(r) ==
    /\ pc[r] = "barrier"
    /\ BarrierComplete(r)
    /\ barrier_sync_mode[r] = 0
    /\ r = Master
    /\ start_sync' = [start_sync EXCEPT ![r] = now + Wait]
    /\ bcast' = [round |-> round[r], value |-> now + Wait]
    /\ pc' = [pc EXCEPT ![r] = "first_poll"]
    /\ UNCHANGED <<now, stall, round, job, i, n_rep, module, invalid,
                   stop_flag, job_start_time, packet, clocks, slot, late,
                   result>>

\* Clock mode, the others: leave the barrier and enter the broadcast.
EnterBcast(r) ==
    /\ pc[r] = "barrier"
    /\ BarrierComplete(r)
    /\ barrier_sync_mode[r] = 0
    /\ r # Master
    /\ pc' = [pc EXCEPT ![r] = "bcast"]
    /\ UNCHANGED <<now, stall, round, job, i, n_rep, module, invalid,
                   stop_flag, start_sync, job_start_time, bcast, packet,
                   clocks, slot, late, result>>

RecvStartTime(r) ==
    /\ pc[r] = "bcast"
    /\ bcast.round = round[r]
    /\ start_sync' = [start_sync EXCEPT ![r] = bcast.value]
    /\ pc' = [pc EXCEPT ![r] = "first_poll"]
    /\ UNCHANGED <<now, stall, round, job, i, n_rep, module, invalid,
                   stop_flag, job_start_time, bcast, packet, clocks, slot,
                   late, result>>

\* Mutant: a missed start time does not invalidate the measurement.
FirstPollUnchecked(r) ==
    LET missed == GlobalTime(r) >= start_sync[r]
    IN  /\ pc[r] = "first_poll"
        /\ first' = [first EXCEPT ![r] = now]
        /\ late' = IF missed THEN late \cup {round[r]} ELSE late
        /\ pc' = [pc EXCEPT ![r] = IF missed THEN "call" ELSE "poll"]
        /\ UNCHANGED <<now, stall, round, job, i, n_rep, module, stop_flag,
                       start_sync, job_start_time, bcast, packet, err,
                       tstart, slot, invalid, result>>

\* The first iteration of the busy wait (is_first = 1): if the start time
\* has already passed, the measurement about to be made is invalid.
FirstPoll(r) ==
    LET missed == GlobalTime(r) >= start_sync[r]
    IN  /\ pc[r] = "first_poll"
        /\ first' = [first EXCEPT ![r] = now]
        /\ invalid' = [invalid EXCEPT ![r] = IF missed THEN INVALID ELSE @]
        /\ late' = IF missed THEN late \cup {round[r]} ELSE late
        /\ pc' = [pc EXCEPT ![r] = IF missed THEN "call" ELSE "poll"]
        /\ UNCHANGED <<now, stall, round, job, i, n_rep, module, stop_flag,
                       start_sync, job_start_time, bcast, packet, err,
                       tstart, slot, result>>

\* The iteration of the busy wait that ends it.
Poll(r) ==
    /\ pc[r] = "poll"
    /\ GlobalTime(r) >= start_sync[r]
    /\ pc' = [pc EXCEPT ![r] = "call"]
    /\ UNCHANGED <<now, stall, round, job, i, n_rep, module, invalid,
                   stop_flag, start_sync, job_start_time, bcast, packet,
                   clocks, slot, late, result>>

\* tstart_sec[i] = REPROMPI_get_time(), and the call begins.
StartCall(r) ==
    /\ pc[r] = "call"
    /\ tstart' = [tstart EXCEPT ![r] = now]
    /\ pc' = [pc EXCEPT ![r] = "in_call"]
    /\ UNCHANGED <<now, stall, round, job, i, n_rep, module, invalid,
                   stop_flag, start_sync, job_start_time, bcast, packet, err,
                   first, slot, late, result>>

\* The call returns, tend_sec[i] is stored, and stop_sync runs up to the
\* call of ReproMPI_Allreduce.
StopSync(r) ==
    LET stop == IF now - job_start_time[r] >= time_slot[r]
                THEN 1 ELSE stop_flag[r]
    IN  /\ pc[r] = "in_call"
        /\ now > tstart[r]
        /\ slot' = [slot EXCEPT ![r][i[r]] = round[r]]
        /\ stop_flag' = [stop_flag EXCEPT ![r] = stop]
        /\ packet' = [packet EXCEPT ![r] =
               [round |-> round[r], invalid |-> invalid[r], stop |-> stop]]
        /\ pc' = [pc EXCEPT ![r] = "allreduce"]
        /\ UNCHANGED <<now, stall, round, job, i, n_rep, module, invalid,
                       start_sync, job_start_time, bcast, clocks, late,
                       result>>

\* Mutant: the minimum (MPI_MIN) of the invalid flags.
DecisionOfMinimum ==
    LET allInvalid == \A q \in Rank : packet[q].invalid # CORRECT
        anyStop    == \E q \in Rank : packet[q].stop = 1
    IN  IF anyStop
        THEN IF allInvalid THEN OUT_OF_TIME_INVALID ELSE OUT_OF_TIME_VALID
        ELSE IF allInvalid THEN INVALID ELSE CORRECT

\* The verdict, from the maximum (MPI_MAX) of the packets.
Decision ==
    LET anyInvalid == \E q \in Rank : packet[q].invalid # CORRECT
        anyStop    == \E q \in Rank : packet[q].stop = 1
    IN  IF anyStop
        THEN IF anyInvalid THEN OUT_OF_TIME_INVALID ELSE OUT_OF_TIME_VALID
        ELSE IF anyInvalid THEN INVALID ELSE CORRECT

\* Mutant: the result is taken without the contributions still missing.
MasterContributed(r) == packet[Master].round >= round[r]

AllContributed(r) == \A q \in Rank : packet[q].round >= round[r]

\* Mutant: a process that was in time keeps its measurement, whoever missed
\* the start.
DecideByOwnFlag(r) ==
    LET own == IF Decision = INVALID /\ packet[r].invalid = CORRECT
               THEN CORRECT ELSE Decision
    IN  /\ pc[r] = "allreduce"
        /\ AllContributed(r)
        /\ i' = [i EXCEPT ![r] = NextIndex(own, @)]
        /\ n_rep' = [n_rep EXCEPT ![r] = NextNRep(own, i[r], @)]
        /\ pc' = [pc EXCEPT ![r] =
                      IF LoopEnds(own, i[r], n_rep[r]) THEN "report" ELSE "start"]
        /\ UNCHANGED <<now, stall, round, job, module, invalid, stop_flag,
                       start_sync, job_start_time, bcast, packet, clocks,
                       slot, late, result>>

\* The allreduce returns and the loop acts on the verdict of stop_sync.
Decide(r) ==
    /\ pc[r] = "allreduce"
    /\ AllContributed(r)
    /\ i' = [i EXCEPT ![r] = NextIndex(Decision, @)]
    /\ n_rep' = [n_rep EXCEPT ![r] = NextNRep(Decision, i[r], @)]
    /\ pc' = [pc EXCEPT ![r] =
                  IF LoopEnds(Decision, i[r], n_rep[r]) THEN "report" ELSE "start"]
    /\ UNCHANGED <<now, stall, round, job, module, invalid, stop_flag,
                   start_sync, job_start_time, bcast, packet, clocks, slot,
                   late, result>>

\* The results of the job are printed: job.n_rep repetitions.
Report(r) ==
    /\ pc[r] = "report"
    /\ result' = [result EXCEPT ![r] = Append(@, n_rep[r])]
    /\ job' = [job EXCEPT ![r] = @ + 1]
    /\ pc' = [pc EXCEPT ![r] = IF job[r] = NJobs THEN "done" ELSE "init_job"]
    /\ UNCHANGED <<now, stall, round, i, n_rep, module, invalid, stop_flag,
                   start_sync, job_start_time, bcast, packet, clocks, slot,
                   late>>

Step(r) ==
    \/ InitJob(r)       \/ StartSync(r)     \/ LeaveBarrierOnly(r)
    \/ SendStartTime(r) \/ EnterBcast(r)    \/ RecvStartTime(r)
    \/ FirstPoll(r)     \/ Poll(r)          \/ StartCall(r)
    \/ StopSync(r)      \/ Decide(r)        \/ Report(r)

\* Whether a process could act now: it neither waits for time to pass nor for
\* another process.
CanAct(r) ==
    /\ pc[r] # "done"
    /\ pc[r] = "barrier"   => BarrierComplete(r)
    /\ pc[r] = "bcast"     => bcast.round = round[r]
    /\ pc[r] = "poll"      => GlobalTime(r) >= start_sync[r]
    /\ pc[r] = "in_call"   => now > tstart[r]
    /\ pc[r] = "allreduce" => AllContributed(r)

AwaitsClock(r) == pc[r] \in {"poll", "in_call"} /\ ~CanAct(r)

Finished == \A r \in Rank : pc[r] = "done"

\* Time passes: freely while nobody can act and somebody waits for the clock,
\* and at most MaxStall ticks in all while some process is slow to act.
Tick ==
    /\ now' = now + 1
    /\ \/ /\ \A r \in Rank : ~CanAct(r)
          /\ \E r \in Rank : AwaitsClock(r)
          /\ UNCHANGED stall
       \/ /\ \E r \in Rank : CanAct(r)
          /\ stall < MaxStall
          /\ stall' = stall + 1
    /\ UNCHANGED <<pc, round, job, i, n_rep, module, invalid, stop_flag,
                   start_sync, job_start_time, bcast, packet, clocks, slot,
                   late, result>>

\* The program has ended: nothing happens any more.
Ended == Finished /\ UNCHANGED vars

Next == Tick \/ (\E r \in Rank : Step(r)) \/ Ended

\* Every process runs and the clock advances.
Fairness == WF_vars(Tick) /\ \A r \in Rank : WF_vars(Step(r))

Spec == Init /\ [][Next]_vars
FairSpec == Spec /\ Fairness

-----------------------------------------------------------------------------
\* Program positions.
InRound == {"bcast", "first_poll", "poll", "call", "in_call"}
Between == {"init_job", "start", "report", "done"}
Position == InRound \cup Between \cup {"barrier", "allreduce"}

Bit == {0, 1}
Packet == [round : Nat, invalid : Bit, stop : Bit]

\* Where a process is, and that only a finished one has no job left.
ControlOK ==
    /\ pc \in [Rank -> Position]
    /\ job \in [Rank -> 1 .. NJobs + 1]
    /\ \A r \in Rank : pc[r] # "done" => job[r] <= NJobs

\* Types of the variables: the locals of run_collective, the statics of
\* round_time_sync.c and the history variables.
TypeOK ==
    /\ ControlOK
    /\ now \in Nat /\ stall \in 0 .. MaxStall
    /\ round \in [Rank -> Nat]
    /\ i \in [Rank -> Nat] /\ n_rep \in [Rank -> Nat]
    /\ barrier_sync_mode \in [Rank -> Bit]
    /\ switch_count \in [Rank -> Int] /\ time_slot \in [Rank -> Nat]
    /\ invalid \in [Rank -> Bit] /\ stop_flag \in [Rank -> Bit]
    /\ start_sync \in [Rank -> Nat] /\ job_start_time \in [Rank -> Nat]
    /\ bcast \in [round : Nat, value : Nat]
    /\ packet \in [Rank -> Packet]
    /\ err \in [Rank -> Errs \cup {0}]
    /\ first \in [Rank -> Nat] /\ tstart \in [Rank -> Nat]
    /\ DOMAIN slot = Rank
    /\ \A r \in Rank : \A k \in DOMAIN slot[r] : slot[r][k] \in Nat
    /\ late \subseteq Nat
    /\ result \in [Rank -> Seq(Nat)]

\* In one round all processes measure the same repetition of the same job,
\* synchronise in the same mode and wait for the same start time.  Each finds
\* all that by itself, from options of this and of former calls, from its own
\* loop index and from the verdicts it got; one that differs would store its
\* time for another repetition, or wait in a broadcast the others do not make.
InStep ==
    \A p, q \in Rank :
        (/\ round[p] = round[q]
         /\ {pc[p], pc[q]} \subseteq InRound \cup {"barrier", "allreduce"})
        => /\ job[p] = job[q] /\ i[p] = i[q] /\ n_rep[p] = n_rep[q]
           /\ barrier_sync_mode[p] = barrier_sync_mode[q]
           /\ (/\ barrier_sync_mode[p] = 0
               /\ {pc[p], pc[q]} \cap {"barrier", "bcast"} = {})
              => start_sync[p] = start_sync[q]

\* In clock mode a process that does not flag the round invalid read its
\* clock for the first time before any process started the call, up to the
\* difference of the two clock errors: everybody was already waiting.
SynchronisedStart ==
    \A p, q \in Rank :
        (/\ round[p] = round[q]
         /\ barrier_sync_mode[p] = 0 /\ barrier_sync_mode[q] = 0
         /\ pc[p] \in {"poll", "call", "in_call", "allreduce"}
         /\ invalid[p] = CORRECT
         /\ pc[q] \in {"in_call", "allreduce"})
        => first[p] + err[p] < tstart[q] + err[q]

\* Every repetition a process reports holds a measurement, of a later round
\* than the one before it, and none comes from a round whose start time was
\* missed by any process (the redo and out-of-time cases of run_collective).
ReportedAreValid ==
    \A r \in Rank : pc[r] = "report" =>
        \A k \in 0 .. n_rep[r] - 1 :
            /\ slot[r][k] \in (1 .. round[r]) \ late
            /\ k > 0 => slot[r][k - 1] < slot[r][k]

\* At most one valid measurement is left out of the report (the one that
\* MY_MAX(0, i-1) drops when time runs out in an invalid round).
AtMostOneDropped ==
    \A r \in Rank : pc[r] = "report" =>
        Cardinality({k \in DOMAIN slot[r] : slot[r][k] \notin late \cup {0}})
            <= n_rep[r] + 1

\* All processes report the same number of repetitions for every job; the
\* collective operations of the output rely on it.
SameResults ==
    \A p, q \in Rank :
        \A k \in DOMAIN result[p] \cap DOMAIN result[q] :
            result[p][k] = result[q][k]

\* Once one process has told the others that its time slot is used up, no
\* process starts another round of that job.
NoRoundAfterTimeUp ==
    \A p, q \in Rank :
        (/\ packet[p].stop = 1
         /\ pc[p] \in {"allreduce", "report"}
         /\ round[q] > packet[p].round)
        => job[q] > job[p]

\* A job is cut short only if some process has used up its time slot for
\* this job (and has said so in the last round).
ShortOnlyWhenTimeUp ==
    \A r \in Rank : pc[r] = "report" /\ n_rep[r] # Jobs[job[r]].nrep =>
        \E q \in Rank :
            /\ packet[q].round = round[r] /\ packet[q].stop = 1
            /\ job[q] = job[r] => now - job_start_time[q] >= time_slot[q]

\* Every job ends at every process: redone rounds do not go on for ever.
EveryJobEnds == <>Finished

\* The job at which the run_collective call of job j began.
CallOf(j) == CHOOSE f \in 1 .. j :
                 Jobs[f].first /\ \A k \in f + 1 .. j : ~Jobs[k].first

\* Without --rt-barrier-count a call synchronises its processes by clock: the
\* switch to the barrier is off by default (switch_count, round_time_sync.c).
ClockModeByDefault ==
    \A r \in Rank :
        (pc[r] \in InRound /\ Jobs[CallOf(job[r])].barrier_count = NoOption)
        => barrier_sync_mode[r] = 0
=============================================================================
