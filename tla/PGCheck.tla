------------------------------ MODULE PGCheck ------------------------------
(***************************************************************************)
(* The guideline checker: main of pgcheck/pgchecker.cpp on every process.  *)
(*                                                                         *)
(* All processes parse the options and agree on the sum of their statuses, *)
(* measure the barrier, then measure every implementation of the           *)
(* collective of every test case with run_collective.  The root alone      *)
(* reads the results and runs the comparers (GroupedComparer in detail),   *)
(* so it alone can stop there, and the others wait for it in their next    *)
(* collective operation.                                                   *)
(*                                                                         *)
(* `calls[r]' is the sequence of the collective operations process r has   *)
(* entered.  run_collective is one of them: no process leaves it before    *)
(* all have entered it.  All processes see the same files.                 *)
(***************************************************************************)
EXTENDS GroupedComparer, Sequences, FiniteSetsExt

CONSTANTS
    NP,             \* number of MPI processes
    Envs,           \* the options, files and failures considered
    Results,        \* implementation -> what its data file may hold
    Missing         \* an input file that cannot be read

ASSUME NPAssumption == NP \in Nat \ {0}
\* The input file, if it can be read, and the option give lists of names;
\* every implementation of the configuration file can be measured.
ASSUME EnvsAssumption ==
    \A e \in Envs :
        /\ e.input = Missing \/ e.input \in Seq(STRING)
        /\ e.comparers \in Seq(STRING)
        /\ \A coll \in DOMAIN e.csv : e.csv[coll] \in Seq(DOMAIN Results)
\* A data file gives runtimes for some of the counts.
ASSUME ResultsAssumption ==
    \A a \in DOMAIN Results : \A d \in Results[a] : d \in [DOMAIN d -> Runtimes]
\* No implementation has the empty name.
ASSUME NoMockupAssumption == NoMockup \notin DOMAIN Results

\* The values of a ComparerData.
Entry == [median : Nat, z_value : Statistic, violation : BOOLEAN,
          fastest_mockup : DOMAIN Results \cup {NoMockup},
          fastest_mockup_median : Nat]

\* NoResults is not a table a comparer could fill.
ASSUME NoResultsAssumption ==
    \A a \in DOMAIN Results : \A d \in Results[a] : NoResults \notin [DOMAIN d -> Entry]

VARIABLES
    env,            \* options, input file and configuration of this run
    pc, calls,
    case_id, version,   \* the loops of main, counted from 1
    coll_data,      \* root: implementation -> data of this test case
    comparer        \* root: the comparer running, counted from 1

main_vars == <<env, pc, calls, case_id, version, coll_data, comparer>>
vars == <<main_vars, comparer_vars>>

Rank == 0 .. NP - 1
Root == 0
FAILURE == -1

\* EXIT_FAILURE returned from main, an uncaught exception, or MPI_Finalize.
Ended == {"left", "aborted", "done"}

\* The implementations of the current test case's collective.
Versions(e, case) ==
    IF e.input[case] \in DOMAIN e.csv THEN e.csv[e.input[case]] ELSE << >>

Init ==
    /\ env \in Envs
    /\ pc = [r \in Rank |-> "parse"]
    /\ calls = [r \in Rank |-> << >>]
    /\ case_id = [r \in Rank |-> 1]
    /\ version = [r \in Rank |-> 1]
    /\ coll_data = << >>
    /\ comparer = 1
    /\ ComparerInit

-----------------------------------------------------------------------------
Goto(r, l) == pc' = [pc EXCEPT ![r] = l]

\* Process r enters a collective operation and waits at l.
Enter(r, call, l) ==
    /\ calls' = [calls EXCEPT ![r] = Append(@, call)]
    /\ Goto(r, l)

\* The operation process r is in lets it go: all have entered it, in a
\* broadcast the root has.
Passed(r) ==
    LET k == Len(calls[r])
    IN  \A q \in IF calls[r][k] = <<"bcast">> THEN {Root} ELSE Rank :
            Len(calls[q]) >= k /\ calls[q][k] = calls[r][k]

\* options.parse: only the root checks the output directory and the list of
\* comparers ("root"); a bad option or -h fails everywhere ("all").
Status(e, r) ==
    IF e.status = "all" \/ (e.status = "root" /\ r = Root) THEN FAILURE ELSE 0

\* What MPI_Allreduce with MPI_SUM makes of the statuses.
Summed(e) == MapThenSumSet(LAMBDA r : Status(e, r), Rank)

Parse(r) ==
    /\ pc[r] = "parse"
    /\ Enter(r, <<"allreduce">>, "agree")
    /\ UNCHANGED <<env, case_id, version, coll_data, comparer, comparer_vars>>

\* Mutant: a process stops if its own options are wrong.
ParseFailedHere(r) == Status(env, r) = FAILURE

\* The condition under which main stops after parsing: the statuses are added
\* up (MPI_SUM), and -1 is what a single failure gives.
ParseFailed(r) == Summed(env) = FAILURE

Agree(r) ==
    /\ pc[r] = "agree"
    /\ Passed(r)
    /\ IF ParseFailed(r) THEN Enter(r, <<"finalize">>, "finalize")
                         ELSE Goto(r, "input") /\ UNCHANGED calls
    /\ UNCHANGED <<env, case_id, version, coll_data, comparer, comparer_vars>>

\* Only the root tests the input file, and returns without MPI_Finalize; the
\* others begin to measure the barrier.
CheckInput(r) ==
    /\ pc[r] = "input"
    /\ IF r = Root /\ env.input = Missing
       THEN Goto(r, "left") /\ UNCHANGED calls
       ELSE Enter(r, <<"run", "MPI_Barrier", Default>>, "barrier")
    /\ UNCHANGED <<env, case_id, version, coll_data, comparer, comparer_vars>>

\* get_barrier_runtime after run_collective: the root reads the data file,
\* and throws if the measurement has no rows, before it broadcasts the median.
BarrierMeasured(r) ==
    /\ pc[r] = "barrier"
    /\ Passed(r)
    /\ \/ Enter(r, <<"bcast">>, "config")
       \/ r = Root /\ Goto(r, "aborted") /\ UNCHANGED calls
    /\ UNCHANGED <<env, case_id, version, coll_data, comparer, comparer_vars>>

\* Mutant: the root does not look for the configuration file.
ConfigMissingElsewhere(r) == ~ env.config /\ r # Root

\* pgmpi_conf.csv or $PGCHECKER_CSV does not exist: main returns.
ConfigMissing(r) == ~ env.config

\* PGInput and PGTuneLibInterface.
ReadConfig(r) ==
    /\ pc[r] = "config"
    /\ Passed(r)
    /\ Goto(r, IF ConfigMissing(r) THEN "left" ELSE "cases")
    /\ UNCHANGED <<env, calls, case_id, version, coll_data, comparer, comparer_vars>>

StartVersion(r) ==
    /\ pc[r] = "cases"
    /\ case_id[r] <= Len(env.input)
    /\ version[r] <= Len(Versions(env, case_id[r]))
    /\ Enter(r, <<"run", env.input[case_id[r]], Versions(env, case_id[r])[version[r]]>>, "running")
    /\ UNCHANGED <<env, case_id, version, coll_data, comparer, comparer_vars>>

\* run_collective returns; the root reads the data file.  insert keeps the
\* data of an implementation that is listed twice.
EndVersion(r) ==
    /\ pc[r] = "running"
    /\ Passed(r)
    /\ version' = [version EXCEPT ![r] = @ + 1]
    /\ Goto(r, "cases")
    /\ LET alg == Versions(env, case_id[r])[version[r]]
       IN  IF r # Root \/ alg \in DOMAIN coll_data
           THEN UNCHANGED coll_data
           ELSE \E data \in Results[alg] :
                    coll_data' = [a \in DOMAIN coll_data \cup {alg} |->
                                    IF a = alg THEN data ELSE coll_data[a]]
    /\ UNCHANGED <<env, calls, case_id, comparer, comparer_vars>>

\* Mutant: every process compares.
EndCaseEverywhere(r) ==
    /\ pc[r] = "cases"
    /\ case_id[r] <= Len(env.input)
    /\ version[r] > Len(Versions(env, case_id[r]))
    /\ version' = [version EXCEPT ![r] = 1]
    /\ Goto(r, "compare")
    /\ UNCHANGED <<env, calls, case_id, coll_data, comparer, comparer_vars>>

\* The last implementation has been measured: the root compares.
EndCase(r) ==
    /\ pc[r] = "cases"
    /\ case_id[r] <= Len(env.input)
    /\ version[r] > Len(Versions(env, case_id[r]))
    /\ version' = [version EXCEPT ![r] = 1]
    /\ IF r = Root THEN Goto(r, "compare") /\ UNCHANGED case_id
                   ELSE /\ case_id' = [case_id EXCEPT ![r] = @ + 1]
                        /\ UNCHANGED pc
    /\ UNCHANGED <<env, calls, coll_data, comparer, comparer_vars>>

-----------------------------------------------------------------------------
\* Why a comparer other than the grouped one, or the table it fills, throws
\* on the data of a test case: "simple" stands for the simple, absolute
\* runtime and raw comparers, "relative" for the relative runtime and the
\* violation comparers, "detailed" for the detailed violation comparer.
Throws(kind, data) ==
    \/ DOMAIN data = {}
    \/ \E a \in DOMAIN data : DOMAIN data[a] = {}
    \/ /\ kind \in {"relative", "detailed"}
       /\ \/ Default \notin DOMAIN data
          \/ \E a \in DOMAIN data : ~ DOMAIN data[a] \subseteq DOMAIN data[Default]
    \/ kind = "detailed" /\ DOMAIN data = {Default}

\* A comparer that has nothing to loop over but rows.
CompareOther ==
    /\ pc[Root] = "compare"
    /\ comparer <= Len(env.comparers)
    /\ env.comparers[comparer] # "grouped"
    /\ IF Throws(env.comparers[comparer], coll_data)
       THEN Goto(Root, "aborted") /\ UNCHANGED comparer
       ELSE comparer' = comparer + 1 /\ UNCHANGED pc
    /\ UNCHANGED <<env, calls, case_id, version, coll_data, comparer_vars>>

StartCompare ==
    /\ pc[Root] = "compare"
    /\ comparer <= Len(env.comparers)
    /\ env.comparers[comparer] = "grouped"
    /\ \/ StartGrouped(coll_data) /\ Goto(Root, "grouped")
       \/ /\ Default \notin DOMAIN coll_data \/ DOMAIN coll_data[Default] = {}
          /\ Goto(Root, "aborted")
          /\ UNCHANGED comparer_vars
    /\ UNCHANGED <<env, calls, case_id, version, coll_data, comparer>>

Compare ==
    /\ pc[Root] = "grouped"
    /\ \E mockup \in todo :
           \/ CompareMockup(env.test, mockup) /\ UNCHANGED pc
           \/ MockupThrows(mockup) /\ Goto(Root, "aborted") /\ UNCHANGED comparer_vars
    /\ UNCHANGED <<env, calls, case_id, version, coll_data, comparer>>

\* The table is complete and printed (print_collective).
EndCompare ==
    /\ pc[Root] = "grouped"
    /\ todo = {}
    /\ EndGrouped
    /\ comparer' = comparer + 1
    /\ Goto(Root, "compare")
    /\ UNCHANGED <<env, calls, case_id, version, coll_data>>

\* Every comparer has run; coll_data goes out of scope.
NextCase ==
    /\ pc[Root] = "compare"
    /\ comparer > Len(env.comparers)
    /\ comparer' = 1
    /\ coll_data' = << >>
    /\ case_id' = [case_id EXCEPT ![Root] = @ + 1]
    /\ Goto(Root, "cases")
    /\ UNCHANGED <<env, calls, version, comparer_vars>>

-----------------------------------------------------------------------------
\* After the last test case; print_summary at the root.
Finish(r) ==
    /\ pc[r] = "cases"
    /\ case_id[r] > Len(env.input)
    /\ Enter(r, <<"finalize">>, "finalize")
    /\ UNCHANGED <<env, case_id, version, coll_data, comparer, comparer_vars>>

Finalized(r) ==
    /\ pc[r] = "finalize"
    /\ Passed(r)
    /\ Goto(r, "done")
    /\ UNCHANGED <<env, calls, case_id, version, coll_data, comparer, comparer_vars>>

RootStep == CompareOther \/ StartCompare \/ Compare \/ EndCompare \/ NextCase

Step(r) ==
    \/ Parse(r) \/ Agree(r) \/ CheckInput(r) \/ BarrierMeasured(r) \/ ReadConfig(r)
    \/ StartVersion(r) \/ EndVersion(r) \/ EndCase(r) \/ Finish(r) \/ Finalized(r)
    \/ r = Root /\ RootStep

Next == \E r \in Rank : Step(r)

Spec == Init /\ [][Next]_vars

\* Every process runs until it ends or waits for another (MPI progress).
FairSpec == Spec /\ \A r \in Rank : WF_vars(Step(r))

-----------------------------------------------------------------------------
TypeOK ==
    /\ env \in Envs
    /\ pc \in [Rank -> {"parse", "agree", "input", "barrier", "config", "cases",
                        "running", "compare", "grouped", "finalize"} \cup Ended]
    /\ \A r \in Rank : pc[r] \in {"compare", "grouped", "aborted"} => r = Root
    /\ \A r \in Rank : pc[r] \in {"cases", "running", "compare", "grouped"} =>
           /\ case_id[r] \in 1 .. Len(env.input) + 1
           /\ version[r] \in Nat \ {0}
    /\ \A a \in DOMAIN coll_data : coll_data[a] \in Results[a]
    /\ (def_res # NoResults) <=> (mockup2data # << >>)
    /\ pc[Root] = "grouped" => mockup2data = coll_data
    /\ todo \subseteq DOMAIN mockup2data
    /\ comparer \in 1 .. Len(env.comparers) + 1

\* The n-th collective operation is the same for all the processes that get
\* that far, and so is the implementation a measurement is made of: whoever
\* leaves, leaves before an operation the others wait in, and never joins
\* another one (the MPI_SUM of parse_status, the returns of main).
CollectivesMatch ==
    \A q, r \in Rank : \A n \in 1 .. Len(calls[q]) :
        n <= Len(calls[r]) => calls[q][n] = calls[r][n]

\* What makes a process other than the root leave makes all of them leave:
\* only a failure the root alone can see strands the others (the configuration
\* file and the summed status are tested by all).
OthersLeaveTogether ==
    \A r \in Rank \ {Root} :
        pc[r] \in Ended ~> \A q \in Rank : pc[q] \in Ended

\* The verdict of the t-test is about the mockup the row names.
TTestVerdict == env.test = "ttest" => VerdictOfFastest
=============================================================================
