------------------------------- MODULE Bcast -------------------------------
(***************************************************************************)
(* RemproMPI_Bcast_binomial (sync/process_sync/reprompi_collectives.c) at  *)
(* the level of messages, called over and over by every process.  Module   *)
(* ProcessSync makes the calls, as measure_bcast_runtime and               *)
(* roundtimesync_start_synchronization do.                                 *)
(*                                                                         *)
(* A process receives from the rank `rank - dd', where dd is the largest   *)
(* power of two that is at most its rank, and sends to the ranks rank + d  *)
(* for the larger powers of two d.  The tree does not depend on the root:  *)
(* only root = 0, which every caller passes, is its root.                  *)
(*                                                                         *)
(* All messages have the same tag: MPI keeps those of one sender to one    *)
(* receiver in order.                                                      *)
(***************************************************************************)
EXTENDS Integers, Sequences

CONSTANTS Sizes,    \* numbers of processes considered
          root      \* the argument root

VARIABLES size, called, returned, buffer,  \* as in Broadcast
          pc, d,
          chan,   \* chan[p][q]: messages from p to q, in order
          eager   \* whether MPI buffers messages when sending

vars == <<size, called, returned, buffer, pc, d, chan, eager>>

Rank == 0 .. size - 1

\* The value of d after the first loop: it has one more turn than for the
\* rank below if that has stopped at this rank.
FirstD[r \in Nat] ==
    IF r = 0 THEN 1
    ELSE LET below == FirstD[r - 1] IN IF r >= below THEN 2 * below ELSE below

\* The value of dd after the first loop.
dd(r) == IF r = 0 THEN 0 ELSE FirstD[r] \div 2

\* The rank a process receives from.
Parent(r) == r - dd(r)

Init == /\ size \in Sizes
        /\ eager \in BOOLEAN
        /\ called = [r \in Rank |-> 0]
        /\ returned = [r \in Rank |-> 0]
        /\ buffer = [r \in Rank |-> 0]
        /\ pc = [r \in Rank |-> "outside"]
        /\ d = [r \in Rank |-> 1]
        /\ chan = [p \in Rank |-> [q \in Rank |-> <<>>]]

\* Mutant: nobody receives before forwarding.
CallNoRecv(r) ==
    /\ pc[r] = "outside"
    /\ called' = [called EXCEPT ![r] = @ + 1]
    /\ buffer' = [buffer EXCEPT ![r] = IF r = root THEN called[r] + 1 ELSE @]
    /\ d' = [d EXCEPT ![r] = FirstD[r]]
    /\ pc' = [pc EXCEPT ![r] = "loop"]
    /\ UNCHANGED <<size, returned, chan, eager>>

\* The call, with the root's buffer filled, and the first loop.
Call(r) ==
    /\ pc[r] = "outside"
    /\ called' = [called EXCEPT ![r] = @ + 1]
    /\ buffer' = [buffer EXCEPT ![r] = IF r = root THEN called[r] + 1 ELSE @]
    /\ d' = [d EXCEPT ![r] = FirstD[r]]
    /\ pc' = [pc EXCEPT ![r] = IF r = root THEN "loop" ELSE "receiving"]
    /\ UNCHANGED <<size, returned, chan, eager>>

\* MPI_Recv from the parent.
Recv(r) ==
    /\ pc[r] = "receiving"
    /\ chan[Parent(r)][r] # <<>>
    /\ buffer' = [buffer EXCEPT ![r] = Head(chan[Parent(r)][r])]
    /\ chan' = [chan EXCEPT ![Parent(r)][r] = Tail(@)]
    /\ pc' = [pc EXCEPT ![r] = "loop"]
    /\ UNCHANGED <<size, called, returned, d, eager>>

\* The call of MPI_Send.
Send(r) ==
    /\ pc[r] = "loop"
    /\ r + d[r] < size
    /\ chan' = [chan EXCEPT ![r][r + d[r]] = Append(@, buffer[r])]
    /\ pc' = [pc EXCEPT ![r] = "sending"]
    /\ UNCHANGED <<size, called, returned, buffer, d, eager>>

\* MPI_Send returns once the message is buffered or received.
NextChild(r) ==
    /\ pc[r] = "sending"
    /\ eager \/ chan[r][r + d[r]] = <<>>
    /\ d' = [d EXCEPT ![r] = 2 * @]
    /\ pc' = [pc EXCEPT ![r] = "loop"]
    /\ UNCHANGED <<size, called, returned, buffer, chan, eager>>

\* The return, after the last child.
Return(r) ==
    /\ pc[r] = "loop"
    /\ r + d[r] >= size
    /\ returned' = [returned EXCEPT ![r] = @ + 1]
    /\ pc' = [pc EXCEPT ![r] = "outside"]
    /\ UNCHANGED <<size, called, buffer, d, chan, eager>>

Step(r) == Call(r) \/ Recv(r) \/ Send(r) \/ NextChild(r) \/ Return(r)

-----------------------------------------------------------------------------
\* It is a broadcast: nobody returns before the root has called, and then
\* with the value of this call, however far ahead the root may be.
B == INSTANCE Broadcast
ImplementsBroadcast == B!Spec
=============================================================================
