------------------------------- MODULE Output -------------------------------
(***************************************************************************)
(* How the measurements of a job reach the printed results                 *)
(* (benchmarkCollective.c, output_management/), with window-based          *)
(* synchronisation and synchronised clocks.                                *)
(*                                                                         *)
(* The processes take part in a sequence of reductions and gathers that    *)
(* the options determine; only the root waits for the others.  What a      *)
(* process contributes is a sequence `calls', one array for each; the root *)
(* reads calls[q], those of all processes, by their positions.             *)
(*                                                                         *)
(* A process's measurements m are the arrays codes, tstart and tend, with  *)
(* the indices 0 .. n - 1, and err: get_global_time(t) is t + m.err.       *)
(***************************************************************************)
EXTENDS Integers, Sequences, FiniteSets

FX == INSTANCE FiniteSetsExt

CONSTANT OUTPUT_NITERATIONS_CHUNK

ASSUME ChunkAssumption == OUTPUT_NITERATIONS_CHUNK \in Nat \ {0}

Report == [summary : BOOLEAN, file : BOOLEAN, verbose : BOOLEAN,
           timing : {"local", "global"}]

-----------------------------------------------------------------------------
(* What a process contributes *)

\* compute_runtimes_global_clocks, compute_runtimes_local_clocks
GlobalTimes(m, times) == [k \in DOMAIN times |-> times[k] + m.err]
LocalRuntimes(m) == [k \in DOMAIN m.tstart |-> m.tend[k] - m.tstart[k]]

\* compute_runtimes: the error codes, then the times.
Reductions(m, timing) ==
    IF timing = "global"
    THEN <<m.codes, GlobalTimes(m, m.tstart), GlobalTimes(m, m.tend)>>
    ELSE <<m.codes, LocalRuntimes(m)>>

NChunks(n) == n \div OUTPUT_NITERATIONS_CHUNK
              + (IF n % OUTPUT_NITERATIONS_CHUNK # 0 THEN 1 ELSE 0)
ChunkNRep(n, c) ==
    IF c = NChunks(n) - 1 /\ n % OUTPUT_NITERATIONS_CHUNK # 0
    THEN n % OUTPUT_NITERATIONS_CHUNK ELSE OUTPUT_NITERATIONS_CHUNK

\* Mutant: the times are normalised before the local ones are gathered.
NormalizedBefore(m, times, n, c) ==
    [k \in DOMAIN times |->
        times[k] + m.err * Cardinality({d \in 0 .. c : k < ChunkNRep(n, d)})]

\* The times after c chunks: each chunk has normalised in place as many
\* elements as it has, from the start of the array.
Normalized(m, times, n, c) ==
    [k \in DOMAIN times |->
        times[k] + m.err * Cardinality({d \in 0 .. c - 1 : k < ChunkNRep(n, d)})]

\* The five gathers of chunk c: error codes from the start of the array, the
\* local times of the chunk, and after normalising its global times.
Gathers(m, n, c) ==
    LET slice(a, from) == [k \in 0 .. ChunkNRep(n, c) - 1 |-> a[from + k]]
        first == c * OUTPUT_NITERATIONS_CHUNK
    IN  <<slice(m.codes, 0),
          slice(Normalized(m, m.tstart, n, c), first),
          slice(Normalized(m, m.tend, n, c), first),
          slice(Normalized(m, m.tstart, n, c + 1), first),
          slice(Normalized(m, m.tend, n, c + 1), first)>>

\* print_measurement_results comes after print_summary if both are wanted;
\* verbose, it makes the gathers of one chunk after the other.
PrintsResults(report) == report.file \/ ~report.summary
Calls(m, n, report) ==
    (IF report.summary THEN Reductions(m, report.timing) ELSE <<>>)
    \o (IF ~PrintsResults(report) THEN <<>>
        ELSE IF ~report.verbose THEN Reductions(m, report.timing)
        ELSE [p \in 1 .. 5 * NChunks(n) |-> Gathers(m, n, (p - 1) \div 5)[((p - 1) % 5) + 1]])

-----------------------------------------------------------------------------
(* What the root prints.  at: the position of the first call. *)

MaxOf(calls, p, k) == FX!Max({calls[q][p][k] : q \in DOMAIN calls})
MinOf(calls, p, k) == FX!Min({calls[q][p][k] : q \in DOMAIN calls})

\* Mutants: the root's own error code; the latest start.
CodeOfRoot(calls, at, k) == calls[0][at][k]
RuntimeFromLatestStart(calls, at, k, timing) ==
    IF timing = "global" THEN MaxOf(calls, at + 2, k) - MaxOf(calls, at + 1, k)
    ELSE MaxOf(calls, at + 1, k)

\* The error code and the runtime of repetition k.
ErrorCode(calls, at, k) == MaxOf(calls, at, k)
Runtime(calls, at, k, timing) ==
    IF timing = "global" THEN MaxOf(calls, at + 2, k) - MinOf(calls, at + 1, k)
    ELSE MaxOf(calls, at + 1, k)

\* print_runtimes
Runtimes(calls, at, n, timing) ==
    [k \in 0 .. n - 1 |-> [code |-> ErrorCode(calls, at, k),
                           runtime |-> Runtime(calls, at, k, timing)]]

\* print_summary: the runtimes that are summarised, those without error code.
Summarized(calls, n, timing) ==
    [k \in {x \in 0 .. n - 1 : ErrorCode(calls, 1, x) = 0} |->
        Runtime(calls, 1, k, timing)]

\* print_measurement_results, verbose: a row for each process and repetition.
VerboseRows(calls, at, n) ==
    UNION {{[rank |-> q, rep |-> c * OUTPUT_NITERATIONS_CHUNK + k,
             code |-> calls[q][at + 5 * c][k],
             tstart |-> calls[q][at + 5 * c + 1][k], tend |-> calls[q][at + 5 * c + 2][k],
             gl_tstart |-> calls[q][at + 5 * c + 3][k], gl_tend |-> calls[q][at + 5 * c + 4][k]]
            : q \in DOMAIN calls, k \in 0 .. ChunkNRep(n, c) - 1} : c \in 0 .. NChunks(n) - 1}

\* reprompib_print_bench_output
SummaryPrinted(calls, n, report) ==
    IF report.summary THEN Summarized(calls, n, report.timing) ELSE <<>>

ResultsPrinted(calls, n, report) ==
    LET at == IF ~report.summary THEN 1 ELSE IF report.timing = "global" THEN 4 ELSE 3
    IN  IF ~PrintsResults(report) THEN {}
        ELSE IF report.verbose THEN VerboseRows(calls, at, n)
        ELSE {Runtimes(calls, at, n, report.timing)}
=============================================================================
