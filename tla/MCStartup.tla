----------------------------- MODULE MCStartup -----------------------------
(***************************************************************************)
(* Instances of Startup for TLC.  Command lines: the required options with *)
(* one option before and one after them, from a pool that has for every    *)
(* parser values it accepts and values it rejects; and input files of at   *)
(* most three lines, with jobs, a job whose size does not fit the          *)
(* datatype, an unknown call and a line that is not a job.                 *)
(***************************************************************************)
EXTENDS Startup

Calls == {"bcast", "reduce"}
Sizes4 == [t \in {"MPI_BYTE", "MPI_INT"} |-> IF t = "MPI_INT" THEN 4 ELSE 1]
Ops == {"MPI_BOR", "MPI_SUM"}

O(name, arg) == <<[name |-> name, arg |-> arg]>>

\* Options of the common parser, and of all others.
CommonPool ==
    {<<>>, O("calls-list", <<"reduce", "bcast">>), O("calls-list", <<"unknown">>),
     O("msizes-list", <<4, 8>>), O("msizes-list", <<6>>), O("msizes-list", <<>>),
     O("msize-interval", [min |-> 1, max |-> 3, step |-> 2]),
     O("msize-interval", [min |-> 3, max |-> 4, step |-> NULL]),
     O("msize-interval", [min |-> 2, max |-> NULL, step |-> NULL]),
     O("root-proc", 2), O("root-proc", 3), O("operation", "unknown"),
     O("datatype", "MPI_INT"), O("datatype", "unknown"), O("shuffle-jobs", NULL),
     O("pingpong-ranks", <<0, 2>>), O("pingpong-ranks", <<1, 1>>),
     O("output-file", "file"), O("output-file", Unreadable)}
OtherPool ==
    {<<>>, O("runtime-type", "global"), O("runtime-type", "unknown"), O("nrep", 1),
     O("nrep", NotANumber), O("max-nrep", 2), O("summary", {"mean"}),
     O("clear-cache", "memset"), O("clear-cache", "memset") \o O("cache-size-kb", 0),
     O("proc-sync", "window"), O("proc-sync", "window") \o O("wait-time", 0),
     O("proc-sync", "roundtime") \o O("bcast-nrep", NotANumber), O("proc-sync", "unknown")}

Required == O("calls-list", <<"bcast">>) \o O("msizes-list", <<8>>) \o O("nrep", 3)

Lines == {[call |-> "bcast", msize |-> 4, n_rep |-> 1],
          [call |-> "reduce", msize |-> 8, n_rep |-> 17],
          [call |-> "bcast", msize |-> 6, n_rep |-> 1],
          [call |-> "unknown", msize |-> 4, n_rep |-> 1],
          BadLine}

Files == {Unreadable} \cup UNION {[1 .. n -> Lines] : n \in 0 .. 3}

CommandLinesSmall ==
    {<<>>}
    \cup {p \o Required \o q : p \in CommonPool, q \in CommonPool \cup OtherPool}
    \cup {p \o Required \o q : p \in OtherPool, q \in CommonPool \cup OtherPool}
    \cup {O("input-file", f) \o O("datatype", "MPI_INT") \o q :
              f \in Files, q \in {<<>>, O("shuffle-jobs", NULL)}}
    \cup {O("input-file", f) \o q : f \in {<<l>> : l \in Lines},
              q \in CommonPool \cup OtherPool}
=============================================================================
