------------------------------ MODULE JobList ------------------------------
(***************************************************************************)
(* How the processes agree on the jobs to run and on their order           *)
(* (generate_job_list, read_input_jobs: benchmark_job.c; shuffle: misc.c). *)
(*                                                                         *)
(* With an input file the root reads the jobs and broadcasts an error      *)
(* flag, their number and the list; without one every process builds the   *)
(* list from its command line.  Every process then checks the list, and    *)
(* the root shuffles and broadcasts the order.  On an error every process  *)
(* exits on its own.                                                       *)
(*                                                                         *)
(* `bcasts' is the sequence of the broadcasts the root has made; pos[r]    *)
(* counts those process r has taken part in.  MPI matches the broadcasts   *)
(* of a communicator by their order alone.                                 *)
(***************************************************************************)
EXTENDS Integers, Sequences, SequencesExt, Options

CONSTANTS
    NP,             \* number of MPI processes
    LEN_JOB_BATCH,  \* size of the steps in which the root's array grows
    Half,           \* 2 ^ 32: what the lower half of a long can hold
    NoFile,         \* no --input-file
    Unreadable,     \* an input file that cannot be opened
    BadLine         \* a line fscanf cannot convert

\* A job: a line of the file that could be converted.
Jobs == [call : STRING, msize : Int, n_rep : Int]

ASSUME NPAssumption == NP \in Nat \ {0}
ASSUME SizesAssumption == LEN_JOB_BATCH \in Nat \ {0} /\ Half \in Nat \ {0}

VARIABLES
    input,                \* the parsed options and the lines of the file
    pc, pos, bcasts,
    jobs, n_jobs,         \* each process's jlist
    job_indices,
    line, capacity,       \* root: next line, allocated size of jlist->jobs
    shuffled              \* root: loop index of shuffle

vars == <<input, pc, pos, bcasts, jobs, n_jobs, job_indices, line, capacity,
          shuffled>>

Rank == 0 .. NP - 1
Root == 0

\* exit(0) and exit(1).
Exits == {"exit0", "exit1"}
Ended == Exits \cup {"ready"}

\* Where a process is about to take part in a broadcast, and of what.
Waits == {"output", "error", "number", "jobs", "indices"}

\* Where generate_job_list begins.
Begin(r) == IF input.file = NoFile THEN "build"
            ELSE IF r = Root THEN "open" ELSE "error"

\* No job has been read and nothing broadcast.
InitJobList ==
    /\ pos = [r \in Rank |-> 0]
    /\ bcasts = <<>>
    /\ jobs = [r \in Rank |-> <<>>]
    /\ n_jobs = [r \in Rank |-> 0]
    /\ job_indices = [r \in Rank |-> <<>>]
    /\ line = 1 /\ capacity = 0 /\ shuffled = 0

-----------------------------------------------------------------------------
\* read_input_jobs, fopen; the array has been allocated.
OpenFile ==
    /\ pc[Root] = "open"
    /\ capacity' = LEN_JOB_BATCH
    /\ pc' = [pc EXCEPT ![Root] = IF input.file = Unreadable THEN "error" ELSE "read"]
    /\ UNCHANGED <<input, pos, bcasts, jobs, n_jobs, job_indices, line, shuffled>>

\* Mutant: the array grows by nothing.
ReadJobNoGrowth ==
    /\ pc[Root] = "read"
    /\ line <= Len(input.file)
    /\ input.file[line] # BadLine
    /\ input.file[line].call \in KnownCalls
    /\ jobs' = [jobs EXCEPT ![Root] = Append(@, input.file[line])]
    /\ line' = line + 1
    /\ UNCHANGED <<input, pc, pos, bcasts, n_jobs, job_indices, capacity, shuffled>>

\* A line with a known call becomes a job; the array grows when it is full.
ReadJob ==
    /\ pc[Root] = "read"
    /\ line <= Len(input.file)
    /\ input.file[line] # BadLine
    /\ input.file[line].call \in KnownCalls
    /\ jobs' = [jobs EXCEPT ![Root] = Append(@, input.file[line])]
    /\ LET len == Len(jobs[Root]) + 1
       IN capacity' = IF len % LEN_JOB_BATCH = 0 THEN len + LEN_JOB_BATCH ELSE capacity
    /\ line' = line + 1
    /\ UNCHANGED <<input, pc, pos, bcasts, n_jobs, job_indices, shuffled>>

\* A line with an unknown call is skipped.
SkipLine ==
    /\ pc[Root] = "read"
    /\ line <= Len(input.file)
    /\ input.file[line] # BadLine
    /\ input.file[line].call \notin KnownCalls
    /\ line' = line + 1
    /\ UNCHANGED <<input, pc, pos, bcasts, jobs, n_jobs, job_indices, capacity,
                   shuffled>>

\* The end of the file, or a line that is not a job: what has been read so far
\* is used.
EndRead ==
    /\ pc[Root] = "read"
    /\ line <= Len(input.file) => input.file[line] = BadLine
    /\ n_jobs' = [n_jobs EXCEPT ![Root] = Len(jobs[Root])]
    /\ capacity' = IF Len(jobs[Root]) > 0 THEN Len(jobs[Root]) ELSE capacity
    /\ pc' = [pc EXCEPT ![Root] = "error"]
    /\ UNCHANGED <<input, pos, bcasts, jobs, job_indices, line, shuffled>>

\* What the datatype job_info_dt carries: its displacements end four bytes
\* before the structure does, so that the upper half of n_rep is left out.
Carried(job) == [job EXCEPT !.n_rep = @ % Half]

\* A broadcast: the root sends, another process waits for the root's broadcast
\* number pos[r] + 1, whatever that is.
Broadcast(r, value) == IF r = Root THEN bcasts' = Append(bcasts, value)
                       ELSE Len(bcasts) > pos[r] /\ UNCHANGED bcasts
Received(r, value) == IF r = Root THEN value ELSE bcasts[pos[r] + 1]
Counted(r) == pos' = [pos EXCEPT ![r] = @ + 1]

\* Mutant: the receivers expect the list before its length.
BcastErrorThenJobs(r) ==
    LET error == [kind |-> "error",
                  value |-> IF input.file = Unreadable THEN 1 ELSE 0]
    IN  /\ pc[r] = "error"
        /\ Broadcast(r, error) /\ Counted(r)
        /\ pc' = [pc EXCEPT ![r] = IF Received(r, error).value # 0 THEN "exit0"
                                   ELSE IF r = Root THEN "number" ELSE "jobs"]
        /\ UNCHANGED <<input, jobs, n_jobs, job_indices, line, capacity, shuffled>>

\* PMPI_Bcast of the error flag: on an error everybody exits.
BcastError(r) ==
    LET error == [kind |-> "error",
                  value |-> IF input.file = Unreadable THEN 1 ELSE 0]
    IN  /\ pc[r] = "error"
        /\ Broadcast(r, error) /\ Counted(r)
        /\ pc' = [pc EXCEPT ![r] = IF Received(r, error).value # 0 THEN "exit0" ELSE "number"]
        /\ UNCHANGED <<input, jobs, n_jobs, job_indices, line, capacity, shuffled>>

\* PMPI_Bcast of the number of jobs.
BcastNumber(r) ==
    LET number == [kind |-> "number", value |-> n_jobs[r]]
    IN  /\ pc[r] = "number"
        /\ Broadcast(r, number) /\ Counted(r)
        /\ n_jobs' = [n_jobs EXCEPT ![r] = Received(r, number).value]
        /\ pc' = [pc EXCEPT ![r] = IF Received(r, number).value > 0 THEN "jobs" ELSE "check"]
        /\ UNCHANGED <<input, jobs, job_indices, line, capacity, shuffled>>

\* PMPI_Bcast of the jobs.
BcastJobs(r) ==
    LET list == [kind |-> "jobs", value |-> jobs[r]]
        carried(l) == [k \in DOMAIN l |-> Carried(l[k])]
    IN  /\ pc[r] = "jobs"
        /\ Broadcast(r, list) /\ Counted(r)
        /\ jobs' = [jobs EXCEPT ![r] = IF r = Root THEN @
                                       ELSE carried(Received(r, list).value)]
        /\ pc' = [pc EXCEPT ![r] = "check"]
        /\ UNCHANGED <<input, n_jobs, job_indices, line, capacity, shuffled>>

\* The conversion of a long to an int.
ToInt(n) == ((n + Half \div 2) % Half) - Half \div 2

\* Without an input file: for every size, every call; the number of
\* repetitions is passed as an int.
List ==
    LET calls == input.calls
        sizes == input.msizes
    IN  [k \in 1 .. Len(sizes) * Len(calls) |->
           [call |-> calls[((k - 1) % Len(calls)) + 1],
            msize |-> sizes[((k - 1) \div Len(calls)) + 1],
            n_rep |-> ToInt(input.n_rep)]]

BuildList(r) ==
    /\ pc[r] = "build"
    /\ jobs' = [jobs EXCEPT ![r] = List]
    /\ n_jobs' = [n_jobs EXCEPT ![r] = Len(List)]
    /\ pc' = [pc EXCEPT ![r] = "check"]
    /\ UNCHANGED <<input, pos, bcasts, job_indices, line, capacity, shuffled>>

\* The message sizes of the jobs a process has fit the datatype.
SizesFit(r) == \A k \in DOMAIN jobs[r] : jobs[r][k].msize % input.typesize = 0

\* Mutant: only the root checks the message sizes.
CheckAtRoot(r) ==
    /\ pc[r] = "check"
    /\ pc' = [pc EXCEPT ![r] =
           IF n_jobs[r] <= 0 THEN "exit1"
           ELSE IF r = Root /\ ~SizesFit(r) THEN "exit0"
           ELSE IF r = Root /\ input.shuffle THEN "shuffle" ELSE "indices"]
    /\ job_indices' = [job_indices EXCEPT ![r] =
           IF r = Root THEN [k \in 1 .. n_jobs[r] |-> k - 1] ELSE @]
    /\ UNCHANGED <<input, pos, bcasts, jobs, n_jobs, line, capacity, shuffled>>

\* The check of every process: no job is exit(1), a message size that is no
\* multiple of the datatype's size exit(0).
Check(r) ==
    /\ pc[r] = "check"
    /\ pc' = [pc EXCEPT ![r] =
           IF n_jobs[r] <= 0 THEN "exit1"
           ELSE IF ~SizesFit(r) THEN "exit0"
           ELSE IF r = Root /\ input.shuffle THEN "shuffle" ELSE "indices"]
    /\ job_indices' = [job_indices EXCEPT ![r] =
           IF r = Root THEN [k \in 1 .. n_jobs[r] |-> k - 1] ELSE @]
    /\ UNCHANGED <<input, pos, bcasts, jobs, n_jobs, line, capacity, shuffled>>

\* Mutant: one element is overwritten instead of swapped.
ShuffleOverwrites ==
    LET n == n_jobs[Root]
        a == job_indices[Root]
    IN  /\ pc[Root] = "shuffle"
        /\ shuffled < n - 1
        /\ \E j \in shuffled .. n - 1 :
               job_indices' = [job_indices EXCEPT ![Root] =
                   [a EXCEPT ![shuffled + 1] = a[j + 1]]]
        /\ shuffled' = shuffled + 1
        /\ UNCHANGED <<input, pc, pos, bcasts, jobs, n_jobs, line, capacity>>

\* One iteration of shuffle: array[i] is swapped with an element not before it.
Shuffle ==
    LET n == n_jobs[Root]
        a == job_indices[Root]
    IN  /\ pc[Root] = "shuffle"
        /\ shuffled < n - 1
        /\ \E j \in shuffled .. n - 1 :
               job_indices' = [job_indices EXCEPT ![Root] =
                   [a EXCEPT ![shuffled + 1] = a[j + 1], ![j + 1] = a[shuffled + 1]]]
        /\ shuffled' = shuffled + 1
        /\ UNCHANGED <<input, pc, pos, bcasts, jobs, n_jobs, line, capacity>>

EndShuffle ==
    /\ pc[Root] = "shuffle"
    /\ shuffled >= n_jobs[Root] - 1
    /\ pc' = [pc EXCEPT ![Root] = "indices"]
    /\ UNCHANGED <<input, pos, bcasts, jobs, n_jobs, job_indices, line, capacity,
                   shuffled>>

\* PMPI_Bcast of the order, and the return of generate_job_list.
BcastIndices(r) ==
    LET order == [kind |-> "indices", value |-> job_indices[r]]
    IN  /\ pc[r] = "indices"
        /\ Broadcast(r, order) /\ Counted(r)
        /\ job_indices' = [job_indices EXCEPT ![r] = Received(r, order).value]
        /\ pc' = [pc EXCEPT ![r] = "ready"]
        /\ UNCHANGED <<input, jobs, n_jobs, line, capacity, shuffled>>

RootStep == OpenFile \/ ReadJob \/ SkipLine \/ EndRead \/ Shuffle \/ EndShuffle

Step(r) == \/ BcastError(r) \/ BcastNumber(r) \/ BcastJobs(r) \/ BuildList(r)
           \/ Check(r) \/ BcastIndices(r)

-----------------------------------------------------------------------------
\* The root's array has room for the job of the next line.
RoomForNextJob == pc[Root] = "read" => Len(jobs[Root]) < capacity

\* The jobs of a process in the order it runs them.
Schedule(r) == [k \in DOMAIN job_indices[r] |-> Carried(jobs[r][job_indices[r][k] + 1])]
=============================================================================
