---------------------------- MODULE SanityTests ----------------------------
(***************************************************************************)
(* The programs of src/sanity_check: they synchronise the clocks (module   *)
(* ClockSync), measure in rounds between rank 0 and the others or each     *)
(* process for itself, and print one row per measurement from the array    *)
(* they stored it in.                                                      *)
(*                                                                         *)
(* config.test names the program; config.ratio is floor(np * ratio) of     *)
(* --print-procs-ratio, or np - 1 for a ratio of 1; config.reps and        *)
(* config.steps are --nrep (or --nwaits) and --steps.                      *)
(***************************************************************************)
EXTENDS Integers, ClockSync, FiniteSetsExt

VARIABLES list,            \* list[r]: the processes r takes for the tested ones
          rows,            \* rows[r]: the result array of r
          printed          \* what rank 0 printed, row by row

vars == <<syncvars, list, rows, printed>>

Unset == [step |-> -1, p |-> 0, rep |-> 0, frames |-> {}]
root == 0

-----------------------------------------------------------------------------
(* generate_test_process_list: without a ratio rank np - 1 and the last    *)
(* one below the largest power of two; the others are picked at random by  *)
(* rank 0 and broadcast.                                                   *)

NTests == IF config.np = 1 THEN 0
          ELSE IF config.ratio >= 2 THEN config.ratio
          ELSE IF MaxPowerTwo(config.np) = config.np THEN 1 ELSE 2

AlwaysTested ==
    IF NTests > 1 /\ MaxPowerTwo(config.np) # config.np
    THEN {MaxPowerTwo(config.np) - 1, config.np - 1} ELSE {config.np - 1}

AllTested == NTests >= config.np - 1
PickedByRoot == ~AllTested /\ (NTests > 2 \/ (NTests > 1 /\ MaxPowerTwo(config.np) = config.np))

CandidatesAnyRank == Ranks \ AlwaysTested      \* mutant: rank 0 may be picked
Candidates == Ranks \ ({root, MaxPowerTwo(config.np) - 1} \cup AlwaysTested)
Ascending(S) == SetToSortSeq(S, <)

Lists == IF AllTested THEN {Ascending(Ranks \ {root})}
         ELSE IF PickedByRoot
         THEN {Ascending(AlwaysTested \cup S) :
                  S \in kSubset(NTests - Cardinality(AlwaysTested), Candidates)}
         ELSE {Ascending(AlwaysTested)}

-----------------------------------------------------------------------------
(* The programs, as operations of one process.                             *)

Sync == <<[op |-> "sync", who |-> <<>>]>>
Barrier == <<Collective("barrier", World)>>
For(seq, F(_, _)) == FlattenSeq([k \in DOMAIN seq |-> F(k - 1, seq[k])])
Others == [p \in 1 .. config.np - 1 |-> p]

\* A ping-pong (or an offset measurement) between q and p; q keeps the row
\* at index at, or nowhere (-1).  global: both read their normalised time.
PingPong(me, q, p, at, row, global) ==
    IF me \in {q, p}
    THEN <<[op |-> "pingpong", who |-> <<q, p>>, at |-> at, row |-> row, global |-> global]>>
    ELSE <<>>
NoRow == [step |-> 0, p |-> 0, rep |-> 0]
estimate_all_rtts(me, p) == PingPong(me, root, p, -1, NoRow, FALSE)
Alloc(n) == <<[op |-> "alloc", who |-> <<>>, size |-> n]>>
PrintAll(me, entries) == IF me = root THEN <<[op |-> "print", who |-> <<>>, entries |-> entries]>> ELSE <<>>
Row(step, p, rep) == [step |-> step, p |-> p, rep |-> rep]

\* Where a ping-pong of n processes in each step is kept.
TimeIndexDense(n, step, index, i) == step * n + index + i     \* mutant: n_rep forgotten
TimeIndex(n, step, index, i) == step * n * config.reps + index * config.reps + i

\* measure_clock_drift
DriftProgram(me, L) ==
    LET n == Len(L)
        at(step, index, i) == TimeIndex(n, step, index, i)
    IN  For(L, LAMBDA k, p : estimate_all_rtts(me, p))
        \o Alloc(n * config.reps * (config.steps + 1)) \o Sync
        \o Repeat(config.steps + 1, LAMBDA s :
              For(L, LAMBDA index, p :
                Repeat(config.reps, LAMBDA i :
                  PingPong(me, root, p, at(s - 1, index, i - 1), Row(s - 1, p, i - 1), TRUE))))
        \o PrintAll(me, Repeat(config.steps + 1, LAMBDA s :
              For(L, LAMBDA index, p :
                [i \in 1 .. config.reps |->
                  [at |-> at(s - 1, index, i - 1), label |-> Row(s - 1, p, i - 1)]])))

\* measure_clock_drift_new: once after the synchronisation and once after
\* the waiting time.
DriftNewProgram(me, L) ==
    LET n == Len(L)
    IN  Alloc(n * 2) \o Sync
        \o Repeat(2, LAMBDA o : For(L, LAMBDA index, p :
              PingPong(me, root, p, (o - 1) * n + index, Row(o - 1, p, 0), TRUE)))
        \o PrintAll(me, Repeat(2, LAMBDA o : For(L, LAMBDA index, p :
              <<[at |-> (o - 1) * n + index, label |-> Row(o - 1, p, 0)]>>)))

\* measure_clock_drift_rep: once after each of the synchronisations.
DriftRepProgram(me, L) ==
    LET n == Len(L)
    IN  Alloc(n * config.reps)
        \o Repeat(config.reps, LAMBDA i : Sync \o For(L, LAMBDA index, p :
              PingPong(me, root, p, (i - 1) * n + index, Row(0, p, i - 1), TRUE)))
        \o PrintAll(me, Repeat(config.reps, LAMBDA i : For(L, LAMBDA index, p :
              <<[at |-> (i - 1) * n + index, label |-> Row(0, p, i - 1)]>>)))

\* measure_real_clock_drift: the rows carry their labels, in the order of
\* the processes.
RealDriftProgram(me) ==
    For(Others, LAMBDA k, p : PingPong(me, root, p, -1, NoRow, FALSE))
    \o Alloc(config.reps * (config.np - 1))
    \o Repeat(config.reps, LAMBDA i : For(Others, LAMBDA k, p :
          PingPong(me, root, p, (p - 1) * config.reps + (i - 1), Row(0, p, i - 1), FALSE)))
    \o PrintAll(me, For(Others, LAMBDA k, p : [i \in 1 .. config.reps |->
          [at |-> k * config.reps + (i - 1), label |-> Row(0, p, i - 1)]]))

\* measure_local_clock_drift: an array with room for rank 0 as well.
LocalDriftProgram(me) ==
    LET at(step, p, i) == TimeIndex(config.np, step, p, i)
        all(F(_, _, _)) == Repeat(config.steps + 1, LAMBDA s : For(Others, LAMBDA k, p :
                              Repeat(config.reps, LAMBDA i : F(s - 1, p, i - 1))))
    IN  Alloc(config.np * config.reps * (config.steps + 1))
        \o For(Others, LAMBDA k, p : estimate_all_rtts(me, p))
        \o all(LAMBDA s, p, i : PingPong(me, root, p, at(s, p, i), Row(s, p, i), FALSE))
        \o PrintAll(me, all(LAMBDA s, p, i : <<[at |-> at(s, p, i), label |-> Row(s, p, i)]>>))

\* Each process fills an array of n elements; rank 0 gathers and prints
\* them all.
GatherProgram(me, n) ==
    Alloc(n)
    \o [s \in 1 .. n |-> [op |-> "own", who |-> <<>>, at |-> s - 1, row |-> Row(s - 1, me, 0)]]
    \o <<[op |-> "gatherrows", who |-> World, count |-> n]>>
    \o PrintAll(me, For(World, LAMBDA k, p : [s \in 1 .. n |->
          [at |-> p * n + (s - 1), label |-> Row(s - 1, p, 0)]]))

compare_clocks(me) == GatherProgram(me, config.reps + 1)
calibrate_frequency(me) == GatherProgram(me, config.reps + 1)
verify_clock(me) == GatherProgram(me, config.reps)

\* sync_duration: the maximum of what every process needed.
DurationProgram(me) ==
    Alloc(config.reps)
    \o Repeat(config.reps, LAMBDA i :
          Barrier \o Sync \o <<[op |-> "own", who |-> <<>>, at |-> i - 1, row |-> Row(i - 1, me, 0)]>>)
    \o <<[op |-> "reducerows", who |-> World]>>
    \o PrintAll(me, [i \in 1 .. config.reps |-> [at |-> i - 1, label |-> Row(i - 1, root, 0)]])

\* measure_rtt with rank config.root in the middle.
RTTProgram(me) ==
    LET partners == SelectSeq(World, LAMBDA p : p # config.root)
    IN  For(partners, LAMBDA k, p : PingPong(me, config.root, p, -1, NoRow, FALSE))
        \o Alloc(config.reps)
        \o For(partners, LAMBDA k, p :
              Repeat(config.reps, LAMBDA i :
                 PingPong(me, config.root, p, i - 1, Row(0, p, i - 1), FALSE))
              \o (IF me # config.root THEN <<>>
                  ELSE <<[op |-> "print", who |-> <<>>, entries |->
                           [i \in 1 .. config.reps |-> [at |-> i - 1, label |-> Row(0, p, i - 1)]]]>>))

\* clock_sync_stress_test
StressProgram == Repeat(config.reps, LAMBDA i : Sync)

\* The options a program refuses: it ends on every process.
DriftOptionsRefused == config.test = "drift" /\ (config.reps <= 0 \/ config.steps < 0)
NewOptionsRefused == config.test = "driftnew" /\ config.steps < 0
LocalOptionsRefused == config.test = "local" /\ (config.reps <= 0 \/ config.steps < 0)
TestOptionsRefused == config.test \in {"compare", "calibrate", "duration"} /\ config.reps <= 0
VerifyRefused == config.test = "verify" /\ config.reps <= 0
Refused == \/ DriftOptionsRefused \/ NewOptionsRefused \/ LocalOptionsRefused
           \/ TestOptionsRefused \/ VerifyRefused

TestsList == config.test \in {"drift", "driftnew", "driftrep"}

Main(me) ==
    IF Refused \/ (config.test # "real" /\ LeavesAtInit) THEN <<>>
    ELSE CASE TestsList -> <<[op |-> "list", who |-> World]>>
           [] config.test = "real" -> RealDriftProgram(me)
           [] config.test = "local" -> LocalDriftProgram(me)
           [] config.test = "compare" -> compare_clocks(me)
           [] config.test = "calibrate" -> calibrate_frequency(me)
           [] config.test = "verify" -> verify_clock(me)
           [] config.test = "duration" -> DurationProgram(me)
           [] config.test = "rtt" -> RTTProgram(me)
           [] config.test = "stress" -> StressProgram

-----------------------------------------------------------------------------
Init ==
    /\ config \in Configs
    /\ prog = [r \in Ranks |-> Main(r)]
    /\ mem = [r \in Ranks |-> FreshMemory(r)]
    /\ list = [r \in Ranks |-> <<>>]
    /\ rows = [r \in Ranks |-> <<>>]
    /\ printed = <<>>

\* The list is broadcast when rank 0 has picked processes; otherwise each
\* process makes it alone.
After(L) == [r \in Ranks |-> CASE config.test = "drift" -> DriftProgram(r, L)
                               [] config.test = "driftnew" -> DriftNewProgram(r, L)
                               [] config.test = "driftrep" -> DriftRepProgram(r, L)]

BcastList ==
    /\ PickedByRoot
    /\ Met(root, "list")
    /\ \E L \in Lists : list' = [r \in Ranks |-> L] /\ prog' = After(L)
    /\ UNCHANGED <<config, mem, rows, printed>>

OwnList(r) ==
    /\ Is(r, "list") /\ ~PickedByRoot
    /\ \E L \in Lists : list' = [list EXCEPT ![r] = L] /\ prog' = [prog EXCEPT ![r] = After(L)[r]]
    /\ UNCHANGED <<config, mem, rows, printed>>

AllocRows(r) ==
    /\ Is(r, "alloc")
    /\ rows' = [rows EXCEPT ![r] = [k \in 0 .. Cur(r).size - 1 |-> Unset]]
    /\ Step({r})
    /\ UNCHANGED <<config, mem, list, printed>>

\* The clock a test reads: normalised by the module, or the local one.
Read(r) == IF Cur(r).global /\ config.module # "None" THEN mem[r].global
           ELSE BaseClock(config.node[r])

Exchange(q) ==
    /\ Met(q, "pingpong")
    /\ LET o == Cur(q)
           p == o.who[2]
           new == [step |-> o.row.step, p |-> o.row.p, rep |-> o.row.rep,
                   frames |-> {Shows(Read(q)), Shows(Read(p))}]
       IN  /\ rows' = IF o.at < 0 THEN rows ELSE [rows EXCEPT ![q][o.at] = new]
           /\ Step({q, p})
    /\ UNCHANGED <<config, mem, list, printed>>

StoreOwn(r) ==
    /\ Is(r, "own")
    /\ rows' = [rows EXCEPT ![r][Cur(r).at] =
                   [step |-> Cur(r).row.step, p |-> r, rep |-> 0, frames |-> {}]]
    /\ Step({r})
    /\ UNCHANGED <<config, mem, list, printed>>

GatherRows ==
    /\ Met(root, "gatherrows")
    /\ LET n == Cur(root).count
       IN  rows' = [rows EXCEPT ![root] =
               [k \in 0 .. config.np * n - 1 |-> rows[k \div n][k % n]]]
    /\ Step(Ranks)
    /\ UNCHANGED <<config, mem, list, printed>>

\* The maximum over the processes: there is one when all have measured.
ReduceRows ==
    /\ Met(root, "reducerows")
    /\ rows' = [rows EXCEPT ![root] =
           [k \in DOMAIN @ |-> IF \E r \in Ranks : rows[r][k].step # @[k].step THEN Unset ELSE @[k]]]
    /\ Step(Ranks)
    /\ UNCHANGED <<config, mem, list, printed>>

PrintRows(r) ==
    /\ Is(r, "print")
    /\ printed' = printed \o [k \in DOMAIN Cur(r).entries |->
                      [label |-> Cur(r).entries[k].label, row |-> rows[r][Cur(r).entries[k].at]]]
    /\ Step({r})
    /\ UNCHANGED <<config, mem, list, rows>>

Ended == \A r \in Ranks : prog[r] = <<>>
Done == Ended /\ UNCHANGED vars

OwnStep(r) ==
    \/ OwnList(r) \/ AllocRows(r) \/ StoreOwn(r) \/ PrintRows(r)
    \/ SyncOwnStep(r) /\ UNCHANGED <<list, rows, printed>>

TestStep(r) ==
    \/ Exchange(r)
    \/ SyncStep(r) /\ UNCHANGED <<list, rows, printed>>

\* The statements of a process between two communications touch nothing
\* another process reads before the next communication with it, so taking
\* them at once, lowest rank first, loses no behaviour of the others.
Busy == {r \in Ranks : \/ Ahead(r) /\ Cur(r).op \in {"do", "level", "alloc", "own", "print"}
                       \/ Is(r, "list") /\ ~PickedByRoot}

Next ==
    \/ \E r \in Busy : (\A q \in Busy : r <= q) /\ OwnStep(r)
    \/ Busy = {} /\ ((\E r \in Ranks : TestStep(r)) \/ BcastList \/ GatherRows \/ ReduceRows)
    \/ Done

\* Every process is an operating-system process and MPI makes progress.
Fairness == WF_vars(Next)
Spec == Init /\ [][Next]_vars /\ Fairness

-----------------------------------------------------------------------------
(* When a process has synchronised, its global clock shows the time of the *)
(* node of rank 0, whichever algorithms learnt, merged, scattered, nested  *)
(* or propagated the models it is made of: sync_methods/*.cpp.             *)
GlobalClocksAgree ==
    config.module # "None" =>
        \A r \in Ranks : mem[r].returned > 0 => Shows(mem[r].global) = config.node[root]

(* The processes agree on which of them are tested, rank 0 is not among    *)
(* them, and the last rank is: generate_test_process_list.                 *)
TestedAgree ==
    \A r, q \in Ranks :
        /\ list[r] # <<>> /\ list[q] # <<>> => list[r] = list[q]
        /\ list[r] # <<>> => /\ root \notin ToSet(list[r])
                            /\ config.np - 1 \in ToSet(list[r])
                            /\ Cardinality(ToSet(list[r])) = Len(list[r])

(* Every row a test prints holds what was measured for the step, the       *)
(* process and the repetition it is labelled with, and normalised times    *)
(* are compared in the frame of rank 0: the index arithmetic of the mains. *)
RowsAreMeasured ==
    \A k \in DOMAIN printed :
        LET e == printed[k]
        IN  /\ e.row.step = e.label.step /\ e.row.p = e.label.p /\ e.row.rep = e.label.rep
            /\ TestsList /\ config.module # "None" => e.row.frames = {config.node[root]}

(* Every test ends, whatever the algorithms and the number of processes:   *)
(* the operations of the processes pair up.                                *)
EveryTestEnds == <>Ended
=============================================================================
