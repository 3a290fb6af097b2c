---------------------------- MODULE ProcessSync ----------------------------
(***************************************************************************)
(* The process synchronisation modules (sync/process_sync) but the window  *)
(* one, as the communication each makes around the measured call, and the  *)
(* library's own barrier, allreduce and broadcast under it, message by     *)
(* message (DissemBarrier, Allreduce, Bcast).  A process may be in one of  *)
(* these while its partners are still in the one before.  The measured     *)
(* call is a collective, of which only the place matters, or one of the    *)
(* ping-pong operations (PingPong).                                        *)
(*                                                                         *)
(* Allreduce, broadcast and ping-pong have tags of their own, and no       *)
(* module uses the dissemination barrier together with allreduce and       *)
(* broadcast, so that their messages travel on channels of their own.      *)
(***************************************************************************)
EXTENDS Integers, Sequences

CONSTANTS Jobs,        \* what is considered: the module of --proc-sync, the
                       \* number of processes and (bound) of repetitions, the
                       \* measured call and --pingpong-ranks
          BcastNRep,   \* --bcast-nrep
          None

Modules == {"MPI_Barrier", "Double_MPI_Barrier", "dissem_barrier",
            "roundtime", "roundtime_switched", "None"}
Positive == Nat \ {0}

Calls == {"collective", "Send_Recv", "Isend_Recv", "Isend_Irecv", "Send_Irecv", "Sendrecv"}

ASSUME JobsAssumption ==
    \A j \in Jobs : /\ j.module \in Modules /\ j.np \in Positive /\ j.nrep \in Positive
                    /\ j.call \in Calls /\ j.ranks \in Int \X Int
ASSUME BcastNRepAssumption == BcastNRep \in Positive

Sizes == {j.np : j \in Jobs}

VARIABLES np, eager, job,
          program,     \* the steps of a process in the job
          at,          \* at[r]: which step of the program process r has reached
          entered, left, barrier_pc, hop, barrier_chan,
          reduces, reduced, result, reduce_pc, bit, c0, c1,
          recvbuf, partbuf, tempbuf, reduce_chan,
          bcasts, bcasted, buffer, bcast_pc, d, bcast_chan,
          exchanges, sends, todo, posted, pingpong_chan

barrier_vars == <<entered, left, barrier_pc, hop, barrier_chan>>
reduce_vars == <<reduces, reduced, result, reduce_pc, bit, c0, c1,
                 recvbuf, partbuf, tempbuf, reduce_chan>>
bcast_vars == <<bcasts, bcasted, buffer, bcast_pc, d, bcast_chan>>
pingpong_vars == <<exchanges, sends, todo, posted, pingpong_chan>>
vars == <<np, eager, job, program, at, barrier_vars, reduce_vars, bcast_vars, pingpong_vars>>

DB == INSTANCE DissemBarrier WITH pc <- barrier_pc, chan <- barrier_chan
AR == INSTANCE Allreduce WITH size <- np, called <- reduces, returned <- reduced,
                              pc <- reduce_pc, chan <- reduce_chan
BC == INSTANCE Bcast WITH size <- np, root <- 0, called <- bcasts, returned <- bcasted,
                          pc <- bcast_pc, chan <- bcast_chan
PP == INSTANCE PingPong WITH ranks <- job.ranks, chan <- pingpong_chan

ASSUME NoneAssumption == None \notin Seq(PP!Parts)

Rank == 0 .. np - 1

-----------------------------------------------------------------------------
(* What the functions of a module communicate, in order.                   *)

\* A loop of n iterations: the steps s, n times over.
Times(n, s) == [i \in 1 .. n * Len(s) |-> s[((i - 1) % Len(s)) + 1]]

\* measure_bcast_runtime: the repetitions, and the reduction to the master.
measure_bcast_runtime ==
    Times(BcastNRep, <<"MPI_Barrier", "ReproMPI_Bcast">>) \o <<"MPI_Reduce">>

init_module(m) == IF m \in {"roundtime", "roundtime_switched"}
                  THEN measure_bcast_runtime ELSE <<>>

\* "roundtime_switched": barrier_sync_mode is set.
start_sync(m) ==
    CASE m = "MPI_Barrier" -> <<"MPI_Barrier">>
      [] m = "Double_MPI_Barrier" -> <<"MPI_Barrier", "MPI_Barrier">>
      [] m = "dissem_barrier" -> <<"dissemination_barrier">>
      [] m = "roundtime" -> <<"MPI_Barrier", "ReproMPI_Bcast">>
      [] m = "roundtime_switched" -> <<"MPI_Barrier">>
      [] m = "None" -> <<>>

stop_sync(m) == IF m \in {"roundtime", "roundtime_switched"}
                THEN <<"ReproMPI_Allreduce">> ELSE <<>>

\* Before a ping-pong, its ranks are checked and exchange their names; a
\* wrong pair of ranks ends the program on every process.
initialize_data(j) == IF j.call = "collective" THEN <<>> ELSE <<"initialize_data_pingpong">>
Rejected(j) == j.call # "collective" /\ ~PP!ValidRanks

\* One repetition of the measurement loop, and what a process does in a job.
Round(m) == start_sync(m) \o <<"measured">> \o stop_sync(m)
Preamble(j) == init_module(j.module) \o initialize_data(j)
ProgramOf(j) == IF Rejected(j) THEN init_module(j.module)
                ELSE Preamble(j) \o Times(j.nrep, Round(j.module))

Now(r, op) == at[r] <= Len(program) /\ program[at[r]] = op
RoundOf(i) == (i - Len(Preamble(job)) - 1) \div Len(Round(job.module))

-----------------------------------------------------------------------------
Init == /\ job \in Jobs /\ np = job.np /\ program = ProgramOf(job)
        /\ DB!Init /\ AR!Init /\ BC!Init /\ PP!Init
        /\ at = [r \in Rank |-> 1]

Advance(r) == at' = [at EXCEPT ![r] = @ + 1]

dissemination_barrier(r) ==
    /\ Now(r, "dissemination_barrier")
    /\ DB!Step(r)
    /\ IF left'[r] # left[r] THEN Advance(r) ELSE at' = at
    /\ UNCHANGED <<job, program, reduce_vars, bcast_vars, pingpong_vars>>

ReproMPI_Allreduce(r) ==
    /\ Now(r, "ReproMPI_Allreduce")
    /\ AR!Step(r)
    /\ IF reduced'[r] # reduced[r] THEN Advance(r) ELSE at' = at
    /\ UNCHANGED <<job, program, barrier_vars, bcast_vars, pingpong_vars>>

ReproMPI_Bcast(r) ==
    /\ Now(r, "ReproMPI_Bcast")
    /\ BC!Step(r)
    /\ IF bcasted'[r] # bcasted[r] THEN Advance(r) ELSE at' = at
    /\ UNCHANGED <<job, program, barrier_vars, reduce_vars, pingpong_vars>>

PingPongStep(r, op) ==
    /\ UNCHANGED job
    /\ PP!Step(r, op)
    /\ IF todo[r] # None /\ todo'[r] = None THEN Advance(r) ELSE at' = at
    /\ UNCHANGED <<program, barrier_vars, reduce_vars, bcast_vars>>

initialize_data_pingpong(r) == Now(r, "initialize_data_pingpong") /\ PingPongStep(r, "init")

\* The call that is measured.
Measured(r) ==
    /\ Now(r, "measured")
    /\ job.call = "collective"
    /\ Advance(r)
    /\ UNCHANGED <<np, eager, job, program, barrier_vars, reduce_vars, bcast_vars, pingpong_vars>>

execute_pingpong(r) ==
    /\ Now(r, "measured")
    /\ job.call # "collective"
    /\ PingPongStep(r, job.call)

\* Nobody leaves before all have entered.
MPI_Barrier(r) ==
    /\ Now(r, "MPI_Barrier")
    /\ \A q \in Rank : at[q] >= at[r]
    /\ Advance(r)
    /\ UNCHANGED <<np, eager, job, program, barrier_vars, reduce_vars, bcast_vars, pingpong_vars>>

\* The master needs everybody's contribution, the others nothing.
MPI_Reduce(r) ==
    /\ Now(r, "MPI_Reduce")
    /\ r = 0 => \A q \in Rank : at[q] >= at[r]
    /\ Advance(r)
    /\ UNCHANGED <<np, eager, job, program, barrier_vars, reduce_vars, bcast_vars, pingpong_vars>>

Step(r) == \/ dissemination_barrier(r) \/ ReproMPI_Allreduce(r) \/ ReproMPI_Bcast(r)
           \/ initialize_data_pingpong(r) \/ execute_pingpong(r) \/ Measured(r)
           \/ MPI_Barrier(r) \/ MPI_Reduce(r)

Finished == \A r \in Rank : at[r] > Len(program)
Ended == Finished /\ UNCHANGED vars

Next == (\E r \in Rank : Step(r)) \/ Ended

\* Processes run and MPI delivers messages: as every job is finite, it is
\* enough that some process that can take a step takes one.
Fairness == WF_vars(Next)

Spec == Init /\ [][Next]_vars /\ Fairness

-----------------------------------------------------------------------------
(* A message of the dissemination barrier is received in the round of the  *)
(* call that sent it, and one of a ping-pong by the receive it was sent    *)
(* for, although all their messages look the same: dissem_barrier_impl.c,  *)
(* pingpong.c.                                                             *)
MessagesMatch == DB!MessagesMatch /\ PP!MessagesMatch

(* The dissemination barrier is a barrier, the allreduce takes every       *)
(* contribution to a call exactly once, and the broadcast returns what the *)
(* root passed to this call, also next to each other.                      *)
ImplementsBarrier == DB!ImplementsBarrier
ImplementsReduction == AR!ImplementsReduction
ImplementsBroadcast == BC!ImplementsBroadcast

(* While a process is in the measured call, every other one is between the *)
(* start of this round's synchronisation and the start of the next: with   *)
(* every module but None the rounds of the processes do not overlap.       *)
RoundsDoNotOverlap ==
    job.module # "None" =>
        \A r, q \in Rank :
            Now(r, "measured") =>
                \/ RoundOf(at[q]) = RoundOf(at[r])
                \/ RoundOf(at[q]) = RoundOf(at[r]) + 1 /\ ~Now(q, "measured")

(* No call hangs, whether or not MPI buffers messages, and every process   *)
(* finishes its repetitions.                                               *)
EveryCallReturns == <>Finished
=============================================================================
