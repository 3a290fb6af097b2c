------------------------------ MODULE Barrier ------------------------------
(***************************************************************************)
(* What a barrier promises the processes that call it repeatedly: nobody   *)
(* returns from its k-th call before everybody has made its k-th call.     *)
(* RoundTime uses PMPI_Barrier through this promise (BarrierComplete), and *)
(* DissemBarrier is shown to keep it.                                      *)
(***************************************************************************)
EXTENDS Integers

CONSTANT Sizes      \* numbers of processes considered

VARIABLES np,       \* MPI_Comm_size
          entered,  \* how often each process has called the barrier
          left      \* how often each process has returned from it

Rank == 0 .. np - 1

Init == /\ np \in Sizes
        /\ entered = [r \in Rank |-> 0]
        /\ left = [r \in Rank |-> 0]

Enter(r) == /\ entered[r] = left[r]
            /\ entered' = [entered EXCEPT ![r] = @ + 1]
            /\ UNCHANGED <<np, left>>

Leave(r) == /\ entered[r] # left[r]
            /\ \A q \in Rank : entered[q] >= entered[r]
            /\ left' = [left EXCEPT ![r] = @ + 1]
            /\ UNCHANGED <<np, entered>>

Next == \E r \in Rank : Enter(r) \/ Leave(r)

Spec == Init /\ [][Next]_<<np, entered, left>>
=============================================================================
