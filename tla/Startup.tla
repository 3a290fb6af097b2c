------------------------------ MODULE Startup ------------------------------
(***************************************************************************)
(* mpibenchmark from its command line to its first job (main and the first *)
(* part of run_collective, benchmarkCollective.c): NP processes parse the  *)
(* same command line, each on its own (Options), the root tries to open    *)
(* the output file, and the processes agree on the jobs (JobList).         *)
(*                                                                         *)
(* A process that finds an error calls MPI_Finalize and exits by itself:   *)
(* nothing tells the others, which must come to the same end.              *)
(***************************************************************************)
EXTENDS JobList

CONSTANTS
    CommandLines,    \* the command lines considered
    Uninitialized    \* what a variable holds that nobody has set

VARIABLES
    argv,
    timing           \* runtime_type, a local variable of run_collective

ovars == <<argv, timing>>

\* What generate_job_list gets from the parsers.
JobInput(a) ==
    [file |-> Arg(a, "input-file", NoFile),
     shuffle |-> Args(a, "shuffle-jobs") # {},
     calls |-> Arg(a, "calls-list", <<>>),
     msizes |-> IF CommonRejected(a, NP) THEN <<>> ELSE Sizes(a),
     n_rep |-> NRep(a),
     typesize |-> IF CommonRejected(a, NP) THEN 1
                  ELSE TypeSize[Arg(a, "datatype", "MPI_BYTE")]]

\* Command lines are sequences, and the parsers make lists of calls and sizes
\* and lines of the file out of them.
ASSUME CommandLinesAssumption ==
    \A a \in CommandLines :
        /\ Len(a) \in Nat /\ DOMAIN a = 1 .. Len(a)
        /\ JobInput(a).calls \in Seq(STRING) /\ JobInput(a).msizes \in Seq(Int)
        /\ JobInput(a).file \in {NoFile, Unreadable} \cup Seq(Jobs \cup {BadLine})

\* What nobody has set is told from what has been set.
ASSUME UninitializedAssumption == Uninitialized \notin RuntimeTypes

Init ==
    /\ argv \in CommandLines
    /\ input = JobInput(argv)
    /\ timing \in [Rank -> {Uninitialized}]
    /\ pc = [r \in Rank |-> "common"]
    /\ InitJobList

\* reprompib_parse_common_options up to the output file.
ParseCommon(r) ==
    /\ pc[r] = "common"
    /\ pc' = [pc EXCEPT ![r] =
           IF CommonRejected(argv, NP) THEN "exit1"
           ELSE IF Args(argv, "output-file") # {} THEN "output" ELSE "modules"]
    /\ UNCHANGED <<input, pos, bcasts, jobs, n_jobs, job_indices, line, capacity,
                   shuffled, ovars>>

\* The root opens the output file; all learn whether that worked.
BcastOutputError(r) ==
    LET error == [kind |-> "output",
                  value |-> IF Arg(argv, "output-file", NULL) = Unreadable THEN 1 ELSE 0]
    IN  /\ pc[r] = "output"
        /\ Broadcast(r, error) /\ Counted(r)
        /\ pc' = [pc EXCEPT ![r] = IF Received(r, error).value # 0 THEN "exit1"
                                   ELSE "modules"]
        /\ UNCHANGED <<input, jobs, n_jobs, job_indices, line, capacity, shuffled, ovars>>

\* One of the other parsers, or a module that is selected, ends the program,
\* or the check of the number of repetitions does.
ModulesRejected ==
    \/ RuntimeRejected(argv) \/ BenchRejected(argv)
    \/ CachingRejected(argv) \/ ProcSyncRejected(argv)
    \/ input.file = NoFile /\ input.n_rep <= 0

InitModules(r) ==
    /\ pc[r] = "modules"
    /\ timing' = [timing EXCEPT ![r] = TimingMethod(argv, @)]
    /\ pc' = [pc EXCEPT ![r] = IF ModulesRejected THEN "exit1" ELSE Begin(r)]
    /\ UNCHANGED <<input, pos, bcasts, jobs, n_jobs, job_indices, line, capacity,
                   shuffled, argv>>

ParseStep(r) == ParseCommon(r) \/ BcastOutputError(r) \/ InitModules(r)

Finished == (\A r \in Rank : pc[r] \in Ended) /\ UNCHANGED <<vars, ovars>>

Next == \/ RootStep /\ UNCHANGED ovars
        \/ \E r \in Rank : Step(r) /\ UNCHANGED ovars
        \/ \E r \in Rank : ParseStep(r)
        \/ Finished

\* The processes run.  None of them loops, so that it does not matter which.
Fairness == WF_<<vars, ovars>>(Next)

Spec == Init /\ [][Next]_<<vars, ovars>>
FairSpec == Spec /\ Fairness

-----------------------------------------------------------------------------
\* A process never takes part in another broadcast than the root made: its
\* branches are those of the root, error paths included, through all parsers
\* and generate_job_list.
CollectivesMatch ==
    \A r \in Rank : pc[r] \in Waits /\ pos[r] < Len(bcasts) =>
        bcasts[pos[r] + 1].kind = pc[r]

\* Processes that get past generate_job_list run the same jobs in the same
\* order, each job once, and no process exits if another runs.  Numbers of
\* repetitions are compared in their lower halves, which is what is sent.
SameSchedule ==
    \A p, q \in Rank : pc[p] = "ready" =>
        /\ pc[q] \notin Exits
        /\ ToSet(job_indices[p]) = 0 .. n_jobs[p] - 1
        /\ Len(job_indices[p]) = n_jobs[p]
        /\ pc[q] = "ready" => Schedule(p) = Schedule(q)

\* The processes that run jobs have the same, defined, timing method, so that
\* they will take part in the same reductions (compute_runtimes).  The parser
\* gives it no default: it relies on the required options of other parsers.
TimingMethodSet ==
    \A p, q \in Rank : pc[p] = "ready" /\ pc[q] = "ready" =>
        timing[p] # Uninitialized /\ timing[p] = timing[q]

\* No process waits for ever for a broadcast that is not made.
EveryProcessEnds == <>(\A r \in Rank : pc[r] \in Ended)
=============================================================================
