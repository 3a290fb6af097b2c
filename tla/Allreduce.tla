----------------------------- MODULE Allreduce -----------------------------
(***************************************************************************)
(* Allreduce_bitwise_commutative (sync/process_sync/reprompi_collectives.c)*)
(* at the level of messages, called over and over by every process.        *)
(* Module ProcessSync makes the calls, as                                  *)
(* roundtimesync_stop_synchronization does.                                *)
(*                                                                         *)
(* The bits of n = size - 1 are read from the highest down.  After each    *)
(* bit c0 is the prefix of n read so far and c1 = c0 + 1; recvbuf holds    *)
(* the reduction of the c1 blocks rank, rank + 1, ... and partbuf that of  *)
(* the c0 blocks from rank + 1 on (modulo size).                           *)
(*                                                                         *)
(* A buffer is the bag of the contributions it is the reduction of, for    *)
(* the operation may be any commutative one.  All messages have the same   *)
(* tag: MPI keeps those of one sender to one receiver in order.            *)
(***************************************************************************)
EXTENDS Integers, Sequences, Bags

CONSTANTS Sizes     \* numbers of processes considered

VARIABLES size, called, returned, result, \* as in Reduction
          pc, bit, c0, c1,
          recvbuf, partbuf,
          tempbuf,        \* the buffer the variable tempbuf points to
          chan,           \* chan[p][q]: messages from p to q, in order
          eager           \* whether MPI buffers messages when sending

local == <<bit, c0, c1, partbuf, tempbuf>>
vars == <<size, called, returned, result, pc, local, recvbuf, chan, eager>>

Rank == 0 .. size - 1

n == size - 1

\* The contents of freshly allocated memory.
Garbage == SetToBag({<<-1, -1>>})

\* The largest power of two that is at most m: bit tricks of flp2.
flp2[m \in Nat] == IF m = 0 THEN 0
                   ELSE LET below == flp2[m - 1]
                        IN  IF m = 1 \/ m = 2 * below THEN m ELSE below

\* PMPI_Reduce_local: the contributions to either buffer.
Copies(x, buf) == IF x \in DOMAIN buf THEN buf[x] ELSE 0
Reduce_local(in, inout) ==
    [x \in DOMAIN in \cup DOMAIN inout |-> Copies(x, in) + Copies(x, inout)]

Init == /\ size \in Sizes
        /\ eager \in BOOLEAN
        /\ called = [r \in Rank |-> 0]
        /\ returned = [r \in Rank |-> 0]
        /\ result = [r \in Rank |-> EmptyBag]
        /\ pc = [r \in Rank |-> "outside"]
        /\ bit = [r \in Rank |-> 0]
        /\ c0 = [r \in Rank |-> 0] /\ c1 = [r \in Rank |-> 1]
        /\ recvbuf = [r \in Rank |-> EmptyBag]
        /\ partbuf = [r \in Rank |-> EmptyBag]
        /\ tempbuf = [r \in Rank |-> "partbuf"]
        /\ chan = [p \in Rank |-> [q \in Rank |-> <<>>]]

\* The call, up to the loop: recvbuf holds the process's own contribution.
Call(r) == /\ pc[r] = "outside"
           /\ called' = [called EXCEPT ![r] = @ + 1]
           /\ recvbuf' = [recvbuf EXCEPT ![r] = SetToBag({<<r, called[r] + 1>>})]
           /\ partbuf' = [partbuf EXCEPT ![r] = Garbage]
           /\ tempbuf' = [tempbuf EXCEPT ![r] = "partbuf"]
           /\ bit' = [bit EXCEPT ![r] = flp2[n]]
           /\ c0' = [c0 EXCEPT ![r] = 0]
           /\ c1' = [c1 EXCEPT ![r] = 1]
           /\ pc' = [pc EXCEPT ![r] = "loop"]
           /\ UNCHANGED <<size, returned, result, chan, eager>>

\* Mutants: recursive doubling; always to the neighbour.
BitSetAlways(r) == TRUE
cycoNeighbour(r) == (r - 1 + size) % size

\* Whether the bit being read is set: the larger block is exchanged.
BitSet(r) == (n \div bit[r]) % 2 = 1

\* The distance of the exchange.
b(r) == IF BitSet(r) THEN c1[r] ELSE c0[r]

cyci(r) == (r + b(r)) % size
cyco(r) == (r - b(r) + size) % size

\* The send half of MPI_Sendrecv.
Send(r) == /\ pc[r] = "loop"
           /\ bit[r] # 0
           /\ chan' = [chan EXCEPT ![r][cyco(r)] =
                 Append(@, IF BitSet(r) THEN recvbuf[r] ELSE partbuf[r])]
           /\ pc' = [pc EXCEPT ![r] = "receiving"]
           /\ UNCHANGED <<size, called, returned, result, local, recvbuf, eager>>

\* The receive half, and both PMPI_Reduce_local.
Recv(r) ==
    /\ pc[r] = "receiving"
    /\ chan[cyci(r)][r] # <<>>
    /\ LET in == Head(chan[cyci(r)][r])
       IN  /\ recvbuf' = [recvbuf EXCEPT ![r] = Reduce_local(in, @)]
           /\ partbuf' = [partbuf EXCEPT ![r] =
                  IF tempbuf[r] = "partbuf" THEN in ELSE Reduce_local(in, @)]
    /\ tempbuf' = [tempbuf EXCEPT ![r] = "inbuf"]
    /\ chan' = [chan EXCEPT ![cyci(r)][r] = Tail(@)]
    /\ pc' = [pc EXCEPT ![r] = "sending"]
    /\ UNCHANGED <<size, called, returned, result, bit, c0, c1, eager>>

\* MPI_Sendrecv returns once the message is buffered or received; on to the
\* next bit.
NextBit(r) ==
    /\ pc[r] = "sending"
    /\ eager \/ chan[r][cyco(r)] = <<>>
    /\ c0' = [c0 EXCEPT ![r] = IF BitSet(r) THEN c0[r] + c1[r] ELSE 2 * c0[r]]
    /\ c1' = [c1 EXCEPT ![r] = IF BitSet(r) THEN 2 * c1[r] ELSE c0[r] + c1[r]]
    /\ bit' = [bit EXCEPT ![r] = @ \div 2]
    /\ pc' = [pc EXCEPT ![r] = "loop"]
    /\ UNCHANGED <<size, called, returned, result, recvbuf, partbuf, tempbuf,
                   chan, eager>>

\* The return, after the last bit.
Return(r) == /\ pc[r] = "loop"
             /\ bit[r] = 0
             /\ returned' = [returned EXCEPT ![r] = @ + 1]
             /\ result' = [result EXCEPT ![r] = recvbuf[r]]
             /\ pc' = [pc EXCEPT ![r] = "outside"]
             /\ UNCHANGED <<size, called, local, recvbuf, chan, eager>>

Step(r) == Call(r) \/ Send(r) \/ Recv(r) \/ NextBit(r) \/ Return(r)

-----------------------------------------------------------------------------
\* It is an allreduce: nobody returns before all have contributed, and every
\* contribution to this call is in the result exactly once.
R == INSTANCE Reduction
ImplementsReduction == R!Spec
=============================================================================
