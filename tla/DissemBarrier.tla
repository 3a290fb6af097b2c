--------------------------- MODULE DissemBarrier ---------------------------
(***************************************************************************)
(* The dissemination barrier (sync/process_sync/dissem_barrier_impl.c) at  *)
(* the level of messages, called over and over by every process.  Module   *)
(* ProcessSync makes the calls, as the measurement loop does with          *)
(* --proc-sync=dissem_barrier.                                             *)
(*                                                                         *)
(* In round i a process sends to the rank 2^i above and receives from the  *)
(* rank 2^i below.  `hop' is 1 << i, so that `i < nrounds', that is,       *)
(* i < ceil(log2(np)), reads hop < np.                                     *)
(*                                                                         *)
(* All messages have the same tag and the same contents: MPI only keeps    *)
(* the messages of one sender to one receiver in order.  The model labels  *)
(* each message with the call and the round that sent it, to be able to    *)
(* say that no message is taken for another; no action reads the label.    *)
(***************************************************************************)
EXTENDS Integers, Sequences

CONSTANTS Sizes        \* numbers of processes considered

VARIABLES np, entered, left,  \* as in Barrier
          pc, hop,
          chan,               \* chan[s][d]: messages from s to d, in order
          eager               \* whether MPI buffers messages when sending

vars == <<np, entered, left, pc, hop, chan, eager>>

Rank == 0 .. np - 1

SendRank(r) == (r + hop[r]) % np
RecvRank(r) == (r - hop[r] + np) % np

Init == /\ np \in Sizes
        /\ eager \in BOOLEAN
        /\ entered = [r \in Rank |-> 0]
        /\ left = [r \in Rank |-> 0]
        /\ pc = [r \in Rank |-> "outside"]
        /\ hop = [r \in Rank |-> 1]
        /\ chan = [s \in Rank |-> [d \in Rank |-> <<>>]]

\* The call.
Enter(r) == /\ pc[r] = "outside"
            /\ entered' = [entered EXCEPT ![r] = @ + 1]
            /\ hop' = [hop EXCEPT ![r] = 1]
            /\ pc' = [pc EXCEPT ![r] = "loop"]
            /\ UNCHANGED <<np, left, chan, eager>>

\* The send half of MPI_Sendrecv.
Send(r) == /\ pc[r] = "loop"
           /\ hop[r] < np
           /\ chan' = [chan EXCEPT ![r][SendRank(r)] =
                           Append(@, [call |-> entered[r], hop |-> hop[r]])]
           /\ pc' = [pc EXCEPT ![r] = "receiving"]
           /\ UNCHANGED <<np, entered, left, hop, eager>>

\* Mutant: the message is taken from any source.
RecvAnySource(r) ==
    /\ pc[r] = "receiving"
    /\ \E s \in Rank :
           /\ chan[s][r] # <<>>
           /\ chan' = [chan EXCEPT ![s][r] = Tail(@)]
    /\ pc' = [pc EXCEPT ![r] = "sending"]
    /\ UNCHANGED <<np, entered, left, hop, eager>>

\* The receive half.
Recv(r) == /\ pc[r] = "receiving"
           /\ chan[RecvRank(r)][r] # <<>>
           /\ chan' = [chan EXCEPT ![RecvRank(r)][r] = Tail(@)]
           /\ pc' = [pc EXCEPT ![r] = "sending"]
           /\ UNCHANGED <<np, entered, left, hop, eager>>

\* MPI_Sendrecv returns once the message is buffered or received.
NextRound(r) == /\ pc[r] = "sending"
                /\ eager \/ chan[r][SendRank(r)] = <<>>
                /\ hop' = [hop EXCEPT ![r] = 2 * @]
                /\ pc' = [pc EXCEPT ![r] = "loop"]
                /\ UNCHANGED <<np, entered, left, chan, eager>>

\* Mutant: floor(log2(np)) rounds instead of ceil(log2(np)).
ReturnEarly(r) == /\ pc[r] = "loop"
                  /\ 2 * hop[r] > np
                  /\ left' = [left EXCEPT ![r] = @ + 1]
                  /\ pc' = [pc EXCEPT ![r] = "outside"]
                  /\ UNCHANGED <<np, entered, hop, chan, eager>>

\* The return, after the last round.
Return(r) == /\ pc[r] = "loop"
             /\ hop[r] >= np
             /\ left' = [left EXCEPT ![r] = @ + 1]
             /\ pc' = [pc EXCEPT ![r] = "outside"]
             /\ UNCHANGED <<np, entered, hop, chan, eager>>

Step(r) == Enter(r) \/ Send(r) \/ Recv(r) \/ NextRound(r) \/ Return(r)

-----------------------------------------------------------------------------
\* A message that a process is about to receive is the one its partner sent
\* in the same round of the same call, although all messages look the same.
MessagesMatch ==
    \A r \in Rank :
        (pc[r] = "receiving" /\ chan[RecvRank(r)][r] # <<>>) =>
            Head(chan[RecvRank(r)][r]) = [call |-> entered[r], hop |-> hop[r]]

\* The dissemination barrier is a barrier.
B == INSTANCE Barrier
ImplementsBarrier == B!Spec
=============================================================================
