----------------------------- MODULE Reduction -----------------------------
(***************************************************************************)
(* What an allreduce promises the processes that call it repeatedly:       *)
(* nobody returns from its k-th call before everybody has made its k-th    *)
(* call, and what it returns with is the reduction of the contributions to *)
(* that call, each taken exactly once.  RoundTime uses ReproMPI_Allreduce  *)
(* through this promise (AllContributed, Decision), and Allreduce is shown *)
(* to keep it.                                                             *)
(*                                                                         *)
(* The operation is any commutative one, so that a reduction is the bag of *)
(* what has been reduced; <<r, k>> is what rank r contributes to call k.   *)
(***************************************************************************)
EXTENDS Integers, Bags

CONSTANT Sizes      \* numbers of processes considered

VARIABLES size,     \* MPI_Comm_size
          called,   \* how often each process has called the allreduce
          returned, \* how often each process has returned from it
          result    \* what each process last returned with

Rank == 0 .. size - 1

All(k) == SetToBag({<<r, k>> : r \in Rank})

Init == /\ size \in Sizes
        /\ called = [r \in Rank |-> 0]
        /\ returned = [r \in Rank |-> 0]
        /\ result = [r \in Rank |-> EmptyBag]

Call(r) == /\ called[r] = returned[r]
           /\ called' = [called EXCEPT ![r] = @ + 1]
           /\ UNCHANGED <<size, returned, result>>

Return(r) == /\ called[r] # returned[r]
             /\ \A q \in Rank : called[q] >= called[r]
             /\ returned' = [returned EXCEPT ![r] = @ + 1]
             /\ result' = [result EXCEPT ![r] = All(called[r])]
             /\ UNCHANGED <<size, called>>

Next == \E r \in Rank : Call(r) \/ Return(r)

Spec == Init /\ [][Next]_<<size, called, returned, result>>
=============================================================================
