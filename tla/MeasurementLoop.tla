-------------------------- MODULE MeasurementLoop --------------------------
(***************************************************************************)
(* What run_collective's measurement loop does with the verdict that the   *)
(* process-synchronisation module returns for one repetition               *)
(* (benchmarkCollective.c, the while(1) of run_collective).  The loop is   *)
(* the same for every module, so these operators are shared by the modules *)
(* that compose the loop with one of them.                                 *)
(***************************************************************************)
EXTENDS Integers

\* The return values of stop_sync, with the numbers of the C enumeration.
CORRECT             == 0
INVALID             == 1
OUT_OF_TIME_VALID   == 2
OUT_OF_TIME_INVALID == 3

Verdict == {CORRECT, INVALID, OUT_OF_TIME_VALID, OUT_OF_TIME_INVALID}

\* Mutant: the loop ignores one of the two out-of-time verdicts.
OutOfTimeOnlyIfValid(v) == v = OUT_OF_TIME_VALID

OutOfTime(v) == v \in {OUT_OF_TIME_VALID, OUT_OF_TIME_INVALID}

\* Whether the repetition just measured counts as a measurement.
Accepts(v) == v \in {CORRECT, OUT_OF_TIME_VALID}

\* The array index the next repetition is stored at.
NextIndex(v, i) == IF v = CORRECT THEN i + 1 ELSE i

\* Mutants: no MY_MAX; all measurements dropped when the last one is invalid.
NextNRepNoFloor(v, i, n) ==
    IF v = OUT_OF_TIME_VALID THEN i + 1
    ELSE IF v = OUT_OF_TIME_INVALID THEN i - 1 ELSE n
NextNRepDropsAll(v, i, n) ==
    IF v = OUT_OF_TIME_VALID THEN i + 1
    ELSE IF v = OUT_OF_TIME_INVALID THEN 0 ELSE n

\* The number of repetitions of the job: cut short when time is up.
NextNRep(v, i, n) ==
    IF v = OUT_OF_TIME_VALID THEN i + 1
    ELSE IF v = OUT_OF_TIME_INVALID THEN (IF i > 0 THEN i - 1 ELSE 0)
    ELSE n

\* Both `break`s: out of time, or as many repetitions as asked for.
LoopEnds(v, i, n) == OutOfTime(v) \/ NextIndex(v, i) = n
=============================================================================
