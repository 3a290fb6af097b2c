----------------------------- MODULE Broadcast -----------------------------
(***************************************************************************)
(* What a broadcast promises the processes that call it repeatedly: nobody *)
(* returns from its k-th call before the root has made its k-th call, and  *)
(* everybody returns with what the root put into the buffer for that call, *)
(* here the number of the call.  RoundTime uses ReproMPI_Bcast through     *)
(* this promise (RecvStartTime), and Bcast is shown to keep it.            *)
(***************************************************************************)
EXTENDS Integers

CONSTANTS Sizes,    \* numbers of processes considered
          root      \* the root of the broadcast

VARIABLES size,     \* MPI_Comm_size
          called,   \* how often each process has called the broadcast
          returned, \* how often each process has returned from it
          buffer    \* what the buffer of each process holds

Rank == 0 .. size - 1

Init == /\ size \in Sizes
        /\ called = [r \in Rank |-> 0]
        /\ returned = [r \in Rank |-> 0]
        /\ buffer = [r \in Rank |-> 0]

\* The root has filled its buffer before the call.
Call(r) == /\ called[r] = returned[r]
           /\ called' = [called EXCEPT ![r] = @ + 1]
           /\ buffer' = [buffer EXCEPT ![r] = IF r = root THEN called[r] + 1 ELSE @]
           /\ UNCHANGED <<size, returned>>

\* The buffer is filled some time before the return.
Fill(r) == /\ called[r] # returned[r]
           /\ called[root] >= called[r]
           /\ buffer' = [buffer EXCEPT ![r] = called[r]]
           /\ UNCHANGED <<size, called, returned>>

Return(r) == /\ called[r] # returned[r]
             /\ buffer[r] = called[r]
             /\ returned' = [returned EXCEPT ![r] = @ + 1]
             /\ UNCHANGED <<size, called, buffer>>

Next == \E r \in Rank : Call(r) \/ Fill(r) \/ Return(r)

Spec == Init /\ [][Next]_<<size, called, returned, buffer>>
=============================================================================
