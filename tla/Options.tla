------------------------------ MODULE Options ------------------------------
(***************************************************************************)
(* What the option parsers of mpibenchmark make of a command line          *)
(* (option_parser/, caching/ and the modules of sync/process_sync/).       *)
(*                                                                         *)
(* Every parser walks over the whole command line with getopt_long, knows  *)
(* its own options and lets the others pass, so that a command line is a   *)
(* sequence of options [name, arg], arg already split into what it lists.  *)
(* A parser's ...Rejected says whether it ends the program (always with    *)
(* reprompib_print_error_and_exit), its other operators what it returns.   *)
(***************************************************************************)
EXTENDS Integers, Sequences, FiniteSets

SX == INSTANCE SequencesExt

CONSTANTS
    KnownCalls,   \* the calls get_call_index knows
    TypeSize,     \* the datatypes --datatype knows, with their sizes
    Operations,   \* the operations --operation knows
    IntBits,      \* the width of an int (here that of 1 << i)
    SizeBits,     \* the width of a size_t
    NotANumber,   \* an argument strtol reads no number from
    NULL          \* an option that is not given

-----------------------------------------------------------------------------
Occurrences(argv, names) == SelectSeq(argv, LAMBDA o : o.name \in names)
Args(argv, name) ==
    {argv[k].arg : k \in {j \in DOMAIN argv : argv[j].name = name}}

\* What most parsers keep: the argument of the last occurrence.
Arg(argv, name, default) ==
    LET given == Occurrences(argv, {name})
    IN  IF given = <<>> THEN default ELSE SX!Last(given).arg

\* reprompib_str_to_long reports what is no number; atoi and its like take it
\* for 0.
IsPositive(n) == n # NotANumber /\ n > 0
AToI(n) == IF n = NotANumber THEN 0 ELSE n

-----------------------------------------------------------------------------
(* reprompib_parse_common_options *)

\* --msize-interval: [min, max, step], each a number or NULL, which stands
\* for what the variables begin with.
IntervalRejected(iv) ==
    \/ iv.min # NULL /\ ~IsPositive(iv.min)
    \/ iv.max # NULL /\ ~IsPositive(iv.max)
    \/ iv.step # NULL /\ ~IsPositive(iv.step)
    \/ (IF iv.max = NULL THEN 0 ELSE iv.max) < (IF iv.min = NULL THEN 0 ELSE iv.min)

\* 1 << i: the processor takes the count modulo the width; the sign bit is
\* extended by the conversion to size_t.
PowerOf2(i) ==
    LET p == 2 ^ (i % IntBits)
    IN  IF p = 2 ^ (IntBits - 1) THEN 2 ^ SizeBits - p ELSE p

IntervalSizes(iv) ==
    LET min == IF iv.min = NULL THEN 0 ELSE iv.min
        max == IF iv.max = NULL THEN 0 ELSE iv.max
        step == IF iv.step = NULL THEN 1 ELSE iv.step
    IN  [k \in 1 .. (max - min + step) \div step |-> PowerOf2(min + (k - 1) * step)]

\* --msizes-list and --calls-list: non-empty, without an invalid element.
SizeListRejected(list) ==
    list = <<>> \/ \E k \in DOMAIN list : ~IsPositive(list[k])
CallListRejected(list) ==
    list = <<>> \/ \E k \in DOMAIN list : list[k] \notin KnownCalls

\* The sizes of the last list or interval.
Sizes(argv) ==
    LET given == Occurrences(argv, {"msizes-list", "msize-interval"})
    IN  IF given = <<>> THEN <<>>
        ELSE IF SX!Last(given).name = "msizes-list" THEN SX!Last(given).arg
        ELSE IntervalSizes(SX!Last(given).arg)

\* --pingpong-ranks: two different ranks.
RanksRejected(list, np) ==
    \/ Len(list) # 2
    \/ \E k \in DOMAIN list : list[k] = NotANumber \/ list[k] \notin 0 .. np - 1
    \/ list[1] = list[2]

\* --operation and --datatype: one of those the parser knows.
OperationRejected(op) == op \notin Operations
DatatypeRejected(type) == type \notin DOMAIN TypeSize

CommonRejected(argv, np) ==
    \/ \E list \in Args(argv, "calls-list") : CallListRejected(list)
    \/ \E list \in Args(argv, "msizes-list") : SizeListRejected(list)
    \/ \E iv \in Args(argv, "msize-interval") : IntervalRejected(iv)
    \/ \E op \in Args(argv, "operation") : OperationRejected(op)
    \/ \E type \in Args(argv, "datatype") : DatatypeRejected(type)
    \/ \E list \in Args(argv, "pingpong-ranks") : RanksRejected(list, np)
    \/ AToI(Arg(argv, "root-proc", 0)) \notin 0 .. np - 1
    \/ /\ Args(argv, "input-file") = {}
       /\ Sizes(argv) = <<>> \/ Args(argv, "calls-list") = {}

-----------------------------------------------------------------------------
(* reprompib_parse_timing_options *)

RuntimeTypes == {"local", "global"}

RuntimeRejected(argv) == ~(Args(argv, "runtime-type") \subseteq RuntimeTypes)

\* Mutant: options of the other parsers are let pass, as everywhere else.
LastRuntimeType(argv, uninitialized) == Arg(argv, "runtime-type", uninitialized)

\* The timing method.  Any other option sets it back to "local", so that it is
\* the last option of the command line that decides; without an option the
\* caller's variable keeps what it was.
TimingMethod(argv, uninitialized) ==
    IF argv = <<>> THEN uninitialized
    ELSE IF SX!Last(argv).name = "runtime-type" THEN SX!Last(argv).arg ELSE "local"

-----------------------------------------------------------------------------
(* reprompib_parse_options *)

SummaryMethods == {"mean", "median", "min", "max", "var", "stddev"}

NRep(argv) == Arg(argv, "nrep", 0)

\* --summary=<set of methods>
BenchRejected(argv) ==
    \/ \E n \in Args(argv, "nrep") \cup Args(argv, "max-nrep") : ~IsPositive(n)
    \/ \E list \in Args(argv, "summary") : ~(list \subseteq SummaryMethods)
    \/ Args(argv, "max-nrep") # {} /\ Arg(argv, "max-nrep", 0) < NRep(argv)

-----------------------------------------------------------------------------
(* reprompib_init_caching_module and reprompib_init_proc_sync_module *)

CachingModules == {"None", "memset"}

\* The memset module parses its own option when it has been selected.
MemsetRejected(argv) == AToI(Arg(argv, "cache-size-kb", 512)) <= 0

CachingRejected(argv) ==
    LET module == Arg(argv, "clear-cache", "None")
    IN  \/ module \notin CachingModules
        \/ module = "memset" /\ MemsetRejected(argv)

ProcSyncModules == {"window", "MPI_Barrier", "dissem_barrier", "roundtime",
                    "None", "Double_MPI_Barrier"}

ProcSync(argv) == Arg(argv, "proc-sync", "MPI_Barrier")

\* winsync_parse_options
WindowRejected(argv) == \/ AToI(Arg(argv, "window-size", 1)) <= 0
                        \/ AToI(Arg(argv, "wait-time", 1)) <= 0

\* roundtimesync_parse_options accepts everything; roundsync_parse_bcast_options
\* does not.
RoundTimeRejected(argv) == \/ AToI(Arg(argv, "bcast-mult", 1)) < 1
                           \/ AToI(Arg(argv, "bcast-nrep", 1)) <= 0

ProcSyncRejected(argv) ==
    \/ ProcSync(argv) \notin ProcSyncModules
    \/ ProcSync(argv) = "window" /\ WindowRejected(argv)
    \/ ProcSync(argv) = "roundtime" /\ RoundTimeRejected(argv)
=============================================================================
