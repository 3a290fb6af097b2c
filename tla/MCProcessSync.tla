--------------------------- MODULE MCProcessSync ---------------------------
(***************************************************************************)
(* Instances of ProcessSync for TLC: one to five processes, so that their  *)
(* number is and is not a power of two, size - 1 has set and clear bits    *)
(* below the highest one, and the broadcast's tree has inner nodes (rank 1 *)
(* of four or five sends to rank 3); and the ping-pong operations, also    *)
(* with a process that takes no part, with the higher rank as the source,  *)
(* and with ranks that initialize_data_pingpong rejects.                   *)
(***************************************************************************)
EXTENDS ProcessSync

Collectives(modules, nps, nreps) ==
    [module : modules, np : nps, nrep : nreps, call : {"collective"}, ranks : {<<0, 1>>}]
PingPongs(modules, nps, pairs) ==
    [module : modules, np : nps, nrep : {2}, call : Calls \ {"collective"}, ranks : pairs]

JobsSmall ==
    Collectives(Modules, 1 .. 4, {2})
    \cup Collectives({"dissem_barrier"}, {5}, {2})
    \cup Collectives({"roundtime"}, {5}, {1})
    \cup PingPongs({"None", "MPI_Barrier", "dissem_barrier"}, {1, 2}, {<<0, 1>>})
    \cup PingPongs({"None", "MPI_Barrier"}, {3}, {<<2, 0>>, <<1, 1>>})
=============================================================================
