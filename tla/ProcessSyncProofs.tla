-------------------------- MODULE ProcessSyncProofs --------------------------
(***************************************************************************)
(* Proofs about the calls that the measurement loop makes (ProcessSync),   *)
(* for any number of processes, any repetitions and any measured call: the *)
(* dissemination barrier, the broadcast and the allreduce implement their  *)
(* abstractions, no message of the barrier or of a ping-pong is taken for  *)
(* another, and the rounds of the processes do not overlap.                *)
(***************************************************************************)
EXTENDS ProcessSync, FiniteSetTheorems, WellFoundedInduction, TLAPS

DBP == INSTANCE DissemBarrierProofs WITH pc <- barrier_pc, chan <- barrier_chan

-----------------------------------------------------------------------------
(* The dissemination barrier.                                              *)

LEMMA SizesPositive == Sizes \subseteq Nat \ {0}
  BY JobsAssumption DEF Sizes, Positive

LEMMA BarrierInit == Init => DBP!Inv /\ DB!B!Init
<1> SUFFICES ASSUME Init PROVE DBP!Inv /\ DB!B!Init
  OBVIOUS
<1>1. DB!Init
  BY DEF Init
<1>2. DBP!Init
  BY <1>1 DEF DB!Init, DBP!Init, DB!Rank, DBP!Rank
<1>3. DB!B!Init
  BY <1>1 DEF DB!Init, DB!B!Init, DB!Rank, DB!B!Rank
<1> QED
  BY <1>2, <1>3, SizesPositive, DBP!InvInit

\* A step of the program is one of the barrier or leaves it alone.
LEMMA BarrierSteps ==
    ASSUME [Next]_vars
    PROVE  (\E r \in DBP!Rank : DBP!Step(r)) \/ UNCHANGED DBP!vars
<1>1. ASSUME NEW r \in Rank, dissemination_barrier(r)
      PROVE  \E q \in DBP!Rank : DBP!Step(q)
  <2>1. DB!Step(r)
    BY <1>1 DEF dissemination_barrier
  <2>2. DBP!Step(r)
    BY <2>1 DEF DB!Step, DBP!Step, DB!Enter, DBP!Enter, DB!Send, DBP!Send,
       DB!Recv, DBP!Recv, DB!NextRound, DBP!NextRound, DB!Return, DBP!Return,
       DB!SendRank, DBP!SendRank, DB!RecvRank, DBP!RecvRank
  <2> QED
    BY <2>2 DEF Rank, DBP!Rank
<1> USE DEF DBP!vars, barrier_vars
<1>2. ASSUME NEW r \in Rank, ReproMPI_Allreduce(r)
      PROVE  UNCHANGED DBP!vars
  <2>1. UNCHANGED <<np, eager>>
    BY <1>2 DEF ReproMPI_Allreduce, AR!Step, AR!Call, AR!Send, AR!Recv,
       AR!NextBit, AR!Return
  <2> QED
    BY <1>2, <2>1 DEF ReproMPI_Allreduce
<1>3. ASSUME NEW r \in Rank, ReproMPI_Bcast(r)
      PROVE  UNCHANGED DBP!vars
  <2>1. UNCHANGED <<np, eager>>
    BY <1>3 DEF ReproMPI_Bcast, BC!Step, BC!Call, BC!Send, BC!Recv,
       BC!NextChild, BC!Return
  <2> QED
    BY <1>3, <2>1 DEF ReproMPI_Bcast
<1>4. ASSUME NEW r \in Rank, NEW op, PingPongStep(r, op)
      PROVE  UNCHANGED DBP!vars
  <2>1. UNCHANGED <<np, eager>>
    BY <1>4 DEF PingPongStep, PP!Step, PP!Call, PP!Return, PP!Send, PP!Post,
       PP!Sent, PP!Received, PP!Deliver
  <2> QED
    BY <1>4, <2>1 DEF PingPongStep
<1>5. ASSUME NEW r \in Rank, Measured(r) \/ MPI_Barrier(r) \/ MPI_Reduce(r)
      PROVE  UNCHANGED DBP!vars
  BY <1>5 DEF Measured, MPI_Barrier, MPI_Reduce
<1>6. CASE UNCHANGED vars
  BY <1>6 DEF vars
<1> QED
  BY <1>1, <1>2, <1>3, <1>4, <1>5, <1>6 DEF Next, Step, Ended,
     initialize_data_pingpong, execute_pingpong

LEMMA BarrierInvStep ==
    ASSUME DBP!Inv, [Next]_vars
    PROVE  DBP!Inv' /\ [DB!B!Next]_<<np, entered, left>>
<1>1. ASSUME NEW r \in DBP!Rank, DBP!Step(r)
      PROVE  DBP!Inv' /\ [DB!B!Next]_<<np, entered, left>>
  <2>1. DBP!Inv'
    BY <1>1, DBP!InvStep
  <2>2. DBP!B!Next \/ UNCHANGED <<np, entered, left>>
    BY <1>1, DBP!BarrierStep
  <2>3. DBP!B!Next <=> DB!B!Next
    BY DEF DBP!B!Next, DB!B!Next, DBP!B!Rank, DB!B!Rank, DBP!B!Enter,
       DB!B!Enter, DBP!B!Leave, DB!B!Leave
  <2> QED
    BY <2>1, <2>2, <2>3
<1>2. CASE UNCHANGED DBP!vars
  <2>1. DBP!Inv'
    BY <1>2, DBP!InvStutter
  <2> QED
    BY <1>2, <2>1 DEF DBP!vars
<1> QED
  BY <1>1, <1>2, BarrierSteps

\* The dissemination barrier, called by the measurement loop next to
\* everything else it calls, is a barrier: nobody returns from a call before
\* all have made it (dissem_barrier_impl.c).
THEOREM BarrierImplemented == Spec => ImplementsBarrier
<1>1. Init => DBP!Inv /\ DB!B!Init
  BY BarrierInit
<1>2. DBP!Inv /\ [Next]_vars => DBP!Inv' /\ [DB!B!Next]_<<np, entered, left>>
  BY BarrierInvStep
<1> QED
  BY <1>1, <1>2, PTL DEF Spec, ImplementsBarrier, DB!ImplementsBarrier, DB!B!Spec

-----------------------------------------------------------------------------
(* The MPI calls of a ping-pong.                                           *)

\* How often w occurs in t.
HowMany(t, w) == Cardinality({k \in 1 .. Len(t) : t[k] = w})

\* After position k the completion of a receive is waited for before the
\* next one is posted; and that all receives of t are waited for.
Waits(t, k) == \E l \in k + 1 .. Len(t) :
                   t[l] = "received" /\ \A m \in k + 1 .. l - 1 : t[m] # "post"
WellFormed(t) == t \in Seq(PP!Parts) /\ \A k \in 1 .. Len(t) : t[k] = "post" => Waits(t, k)
Balanced(t) == HowMany(t, "send") = HowMany(t, "post")

LEMMA HowManyTail ==
    ASSUME NEW t \in Seq(PP!Parts), t # <<>>, NEW w
    PROVE  /\ HowMany(t, w) \in Nat /\ HowMany(Tail(t), w) \in Nat
           /\ HowMany(t, w) = HowMany(Tail(t), w) + (IF Head(t) = w THEN 1 ELSE 0)
<1> DEFINE S == {k \in 1 .. Len(t) : t[k] = w}
           T == {k \in 1 .. Len(Tail(t)) : Tail(t)[k] = w}
           f == [k \in T |-> k + 1]
<1>1. IsFiniteSet(S) /\ IsFiniteSet(T)
  <2>1. IsFiniteSet(1 .. Len(t)) /\ IsFiniteSet(1 .. Len(Tail(t)))
    BY FS_Interval
  <2> QED
    BY <2>1, FS_Subset
<1>2. Cardinality(S) \in Nat /\ Cardinality(T) \in Nat
  BY <1>1, FS_CardinalityType
<1>3. f \in Bijection(T, S \ {1})
  <2>1. \A k \in T : k + 1 \in S \ {1}
    OBVIOUS
  <2>2. \A k \in S \ {1} : k - 1 \in T /\ (k - 1) + 1 = k
    OBVIOUS
  <2>3. f \in [T -> S \ {1}]
    BY <2>1
  <2>4. \A x, y \in T : f[x] = f[y] => x = y
    OBVIOUS
  <2>5. \A k \in S \ {1} : \E x \in T : f[x] = k
    BY <2>2
  <2> QED
    BY <2>3, <2>4, <2>5 DEF Bijection, Injection, Surjection, IsInjective
<1>4. Cardinality(S \ {1}) = Cardinality(T)
  BY <1>1, <1>3, FS_Bijection DEF ExistsBijection
<1>5. Cardinality(S \ {1}) = IF 1 \in S THEN Cardinality(S) - 1 ELSE Cardinality(S)
  BY <1>1, FS_RemoveElement
<1>6. 1 \in S <=> Head(t) = w
  OBVIOUS
<1> HIDE DEF S, T
<1>7. Cardinality(S) = Cardinality(T) + (IF Head(t) = w THEN 1 ELSE 0)
  BY <1>2, <1>4, <1>5, <1>6
<1> QED
  BY <1>2, <1>7 DEF HowMany, S, T

LEMMA HowManyNone ==
    ASSUME NEW t \in Seq(PP!Parts), NEW w, \A k \in 1 .. Len(t) : t[k] # w
    PROVE  HowMany(t, w) = 0
<1>1. {k \in 1 .. Len(t) : t[k] = w} = {}
  OBVIOUS
<1> QED
  BY <1>1, FS_EmptySet DEF HowMany

LEMMA HowManyOne ==
    ASSUME NEW t \in Seq(PP!Parts), NEW w, NEW j \in 1 .. Len(t),
           \A k \in 1 .. Len(t) : t[k] = w <=> k = j
    PROVE  HowMany(t, w) = 1
<1>1. {k \in 1 .. Len(t) : t[k] = w} = {j}
  OBVIOUS
<1> QED
  BY <1>1, FS_Singleton DEF HowMany

LEMMA TailWaits ==
    ASSUME NEW t \in Seq(PP!Parts), t # <<>>, NEW k \in 1 .. Len(t), Waits(t, k)
    PROVE  Waits(Tail(t), k - 1)
<1>1. PICK l \in k + 1 .. Len(t) :
          t[l] = "received" /\ \A m \in k + 1 .. l - 1 : t[m] # "post"
  BY DEF Waits
<1>2. /\ Len(Tail(t)) = Len(t) - 1 /\ Len(t) \in Nat
      /\ \A m \in 1 .. Len(t) - 1 : Tail(t)[m] = t[m + 1]
  OBVIOUS
<1>3. l - 1 \in (k - 1) + 1 .. Len(Tail(t)) /\ Tail(t)[l - 1] = "received"
  <2>1. l \in Int /\ k + 1 <= l /\ l <= Len(t) /\ l - 1 \in 1 .. Len(t) - 1 /\ (l - 1) + 1 = l
    BY <1>2
  <2> QED
    BY <1>1, <1>2, <2>1
<1>4. ASSUME NEW m \in (k - 1) + 1 .. (l - 1) - 1
      PROVE  Tail(t)[m] # "post"
  <2>1. m \in 1 .. Len(t) - 1 /\ m + 1 \in k + 1 .. l - 1
    BY <1>2
  <2> QED
    BY <1>1, <1>2, <2>1
<1> QED
  BY <1>3, <1>4 DEF Waits

LEMMA TailWellFormed ==
    ASSUME NEW t, WellFormed(t), t # <<>>
    PROVE  WellFormed(Tail(t))
<1>1. t \in Seq(PP!Parts) /\ Tail(t) \in Seq(PP!Parts)
  BY DEF WellFormed
<1>2. ASSUME NEW k \in 1 .. Len(Tail(t)), Tail(t)[k] = "post"
      PROVE  Waits(Tail(t), k)
  <2>1. k + 1 \in 1 .. Len(t) /\ t[k + 1] = "post" /\ (k + 1) - 1 = k
    BY <1>1, <1>2
  <2>2. Waits(t, k + 1)
    BY <2>1 DEF WellFormed
  <2> QED
    BY <1>1, <2>1, <2>2, TailWaits
<1> QED
  BY <1>1, <1>2 DEF WellFormed

-----------------------------------------------------------------------------
(* Every list of calls waits for its receives and sends as many messages.  *)

Fine(t) == WellFormed(t) /\ Balanced(t)

LEMMA FineNothing == Fine(<<>>)
<1> DEFINE t == <<>>
<1>1. t \in Seq(PP!Parts) /\ \A w : \A k \in 1 .. Len(t) : t[k] # w
  OBVIOUS
<1> QED
  BY <1>1, HowManyNone DEF Fine, WellFormed, Balanced

\* One message sent, one receive posted and then waited for.
LEMMA FineOnce ==
    ASSUME NEW t \in Seq(PP!Parts), Len(t) = 4,
           NEW i \in 1 .. 4, NEW j \in 1 .. 4, NEW l \in 1 .. 4,
           \A k \in 1 .. 4 : /\ t[k] = "send" <=> k = i
                             /\ t[k] = "post" <=> k = j,
           j < l, t[l] = "received"
    PROVE  Fine(t)
<1>1. HowMany(t, "send") = 1
  <2>1. i \in 1 .. Len(t) /\ \A k \in 1 .. Len(t) : t[k] = "send" <=> k = i
    OBVIOUS
  <2> QED
    BY <2>1, HowManyOne
<1>2. HowMany(t, "post") = 1
  <2>1. j \in 1 .. Len(t) /\ \A k \in 1 .. Len(t) : t[k] = "post" <=> k = j
    OBVIOUS
  <2> QED
    BY <2>1, HowManyOne
<1>3. ASSUME NEW k \in 1 .. Len(t), t[k] = "post"
      PROVE  Waits(t, k)
  <2>1. k = j
    BY <1>3
  <2>2. l \in k + 1 .. Len(t)
    BY <2>1
  <2>3. \A m \in k + 1 .. l - 1 : t[m] # "post"
    BY <2>1
  <2> QED
    BY <2>2, <2>3 DEF Waits
<1> QED
  BY <1>1, <1>2, <1>3 DEF Fine, WellFormed, Balanced

LEMMA HowManyTwo ==
    ASSUME NEW t \in Seq(PP!Parts), NEW w, NEW i \in 1 .. Len(t), NEW j \in 1 .. Len(t),
           i # j, \A k \in 1 .. Len(t) : t[k] = w <=> (k = i \/ k = j)
    PROVE  HowMany(t, w) = 2
<1> DEFINE A == {i}
           B == A \cup {j}
<1>1. {k \in 1 .. Len(t) : t[k] = w} = B
  OBVIOUS
<1>2. IsFiniteSet(A) /\ Cardinality(A) = 1
  BY FS_Singleton
<1>3. j \notin A
  OBVIOUS
<1> HIDE DEF A
<1>4. Cardinality(B) = IF j \in A THEN Cardinality(A) ELSE Cardinality(A) + 1
  BY <1>2, FS_AddElement
<1> HIDE DEF B
<1>5. Cardinality(B) = 2
  BY <1>2, <1>3, <1>4
<1> QED
  BY <1>1, <1>5 DEF HowMany

\* Two exchanges, the second after the first.
LEMMA FineTwice ==
    ASSUME NEW t \in Seq(PP!Parts), Len(t) = 8,
           \A k \in 1 .. 8 : /\ t[k] = "send" <=> (k = 1 \/ k = 5)
                             /\ t[k] = "post" <=> (k = 2 \/ k = 6)
                             /\ t[k] = "received" <=> (k = 4 \/ k = 8)
    PROVE  Fine(t)
<1>1. HowMany(t, "send") = 2
  <2>1. \A k \in 1 .. Len(t) : t[k] = "send" <=> (k = 1 \/ k = 5)
    OBVIOUS
  <2>2. 1 \in 1 .. Len(t) /\ 5 \in 1 .. Len(t) /\ 1 # 5
    OBVIOUS
  <2> QED
    BY <2>1, <2>2, HowManyTwo
<1>2. HowMany(t, "post") = 2
  <2>1. \A k \in 1 .. Len(t) : t[k] = "post" <=> (k = 2 \/ k = 6)
    OBVIOUS
  <2>2. 2 \in 1 .. Len(t) /\ 6 \in 1 .. Len(t) /\ 2 # 6
    OBVIOUS
  <2> QED
    BY <2>1, <2>2, HowManyTwo
<1>3. ASSUME NEW k \in 1 .. Len(t), t[k] = "post"
      PROVE  Waits(t, k)
  <2>1. k = 2 \/ k = 6
    BY <1>3
  <2>2. t[k + 2] = "received" /\ k + 2 \in k + 1 .. Len(t)
    BY <2>1
  <2>3. \A m \in k + 1 .. (k + 2) - 1 : t[m] # "post"
    BY <2>1
  <2> QED
    BY <2>2, <2>3 DEF Waits
<1> QED
  BY <1>1, <1>2, <1>3 DEF Fine, WellFormed, Balanced

LEMMA CallsFine ==
    ASSUME NEW r, NEW op \in PP!Operations
    PROVE  Fine(PP!CallsOf(r, op))
<1> USE DEF PP!MPI_Isend, PP!MPI_Irecv, PP!MPI_Wait_send, PP!MPI_Wait_recv,
       PP!MPI_Send, PP!MPI_Recv, PP!MPI_Sendrecv, PP!Parts,
       PP!execute_pingpong_Isend_Recv, PP!execute_pingpong_Isend_Irecv,
       PP!execute_pingpong_Send_Irecv, PP!execute_pingpong_Sendrecv,
       PP!initialize_data_pingpong
<1>1. Fine(PP!MPI_Send \o PP!MPI_Recv)
  <2> DEFINE t == PP!MPI_Send \o PP!MPI_Recv
  <2>1. t \in Seq(PP!Parts) /\ Len(t) = 4
    OBVIOUS
  <2>2. t[1] = "send" /\ t[2] = "sent" /\ t[3] = "post" /\ t[4] = "received"
    OBVIOUS
  <2> HIDE DEF t
  <2>3. \A k \in 1 .. 4 : (t[k] = "send" <=> k = 1) /\ (t[k] = "post" <=> k = 3)
    BY <2>2
  <2>4. Fine(t)
    BY <2>1, <2>2, <2>3, FineOnce
  <2> QED
    BY <2>4 DEF t
<1>2. Fine(PP!MPI_Recv \o PP!MPI_Send)
  <2> DEFINE t == PP!MPI_Recv \o PP!MPI_Send
  <2>1. t \in Seq(PP!Parts) /\ Len(t) = 4
    OBVIOUS
  <2>2. t[1] = "post" /\ t[2] = "received" /\ t[3] = "send" /\ t[4] = "sent"
    OBVIOUS
  <2> HIDE DEF t
  <2>3. \A k \in 1 .. 4 : (t[k] = "send" <=> k = 3) /\ (t[k] = "post" <=> k = 1)
    BY <2>2
  <2>4. Fine(t)
    BY <2>1, <2>2, <2>3, FineOnce
  <2> QED
    BY <2>4 DEF t
<1>3. Fine(PP!execute_pingpong_Isend_Recv)
  <2> DEFINE t == PP!execute_pingpong_Isend_Recv
  <2>1. t \in Seq(PP!Parts) /\ Len(t) = 4
    OBVIOUS
  <2>2. t[1] = "send" /\ t[2] = "post" /\ t[3] = "received" /\ t[4] = "sent"
    OBVIOUS
  <2> HIDE DEF t
  <2>3. \A k \in 1 .. 4 : (t[k] = "send" <=> k = 1) /\ (t[k] = "post" <=> k = 2)
    BY <2>2
  <2>4. Fine(t)
    BY <2>1, <2>2, <2>3, FineOnce
  <2> QED
    BY <2>4 DEF t
<1>4. Fine(PP!execute_pingpong_Isend_Irecv)
  <2> DEFINE t == PP!execute_pingpong_Isend_Irecv
  <2>1. t \in Seq(PP!Parts) /\ Len(t) = 4
    OBVIOUS
  <2>2. t[1] = "send" /\ t[2] = "post" /\ t[3] = "sent" /\ t[4] = "received"
    OBVIOUS
  <2> HIDE DEF t
  <2>3. \A k \in 1 .. 4 : (t[k] = "send" <=> k = 1) /\ (t[k] = "post" <=> k = 2)
    BY <2>2
  <2>4. Fine(t)
    BY <2>1, <2>2, <2>3, FineOnce
  <2> QED
    BY <2>4 DEF t
<1>5. Fine(PP!execute_pingpong_Send_Irecv)
  <2> DEFINE t == PP!execute_pingpong_Send_Irecv
  <2>1. t \in Seq(PP!Parts) /\ Len(t) = 4
    OBVIOUS
  <2>2. t[1] = "post" /\ t[2] = "send" /\ t[3] = "sent" /\ t[4] = "received"
    OBVIOUS
  <2> HIDE DEF t
  <2>3. \A k \in 1 .. 4 : (t[k] = "send" <=> k = 2) /\ (t[k] = "post" <=> k = 1)
    BY <2>2
  <2>4. Fine(t)
    BY <2>1, <2>2, <2>3, FineOnce
  <2> QED
    BY <2>4 DEF t
<1>6. Fine(PP!execute_pingpong_Sendrecv)
  <2> DEFINE t == PP!execute_pingpong_Sendrecv
  <2>1. t \in Seq(PP!Parts) /\ Len(t) = 4
    OBVIOUS
  <2>2. t[1] = "send" /\ t[2] = "post" /\ t[3] = "sent" /\ t[4] = "received"
    OBVIOUS
  <2> HIDE DEF t
  <2>3. \A k \in 1 .. 4 : (t[k] = "send" <=> k = 1) /\ (t[k] = "post" <=> k = 2)
    BY <2>2
  <2>4. Fine(t)
    BY <2>1, <2>2, <2>3, FineOnce
  <2> QED
    BY <2>4 DEF t
<1>7. Fine(PP!initialize_data_pingpong)
  <2> DEFINE t == PP!initialize_data_pingpong
  <2>1. t \in Seq(PP!Parts) /\ Len(t) = 8
    OBVIOUS
  <2>2. /\ t[1] = "send" /\ t[2] = "post" /\ t[3] = "sent" /\ t[4] = "received"
        /\ t[5] = "send" /\ t[6] = "post" /\ t[7] = "sent" /\ t[8] = "received"
    OBVIOUS
  <2> HIDE DEF t
  <2>3. \A k \in 1 .. 8 : /\ t[k] = "send" <=> (k = 1 \/ k = 5)
                          /\ t[k] = "post" <=> (k = 2 \/ k = 6)
                          /\ t[k] = "received" <=> (k = 4 \/ k = 8)
    BY <2>2
  <2>4. Fine(t)
    BY <2>1, <2>3, FineTwice
  <2> QED
    BY <2>4 DEF t
<1>8. Fine(PP!execute_pingpong_Send_Recv(r))
  BY <1>1, <1>2 DEF PP!execute_pingpong_Send_Recv
<1> HIDE DEF PP!MPI_Isend, PP!MPI_Irecv, PP!MPI_Wait_send, PP!MPI_Wait_recv,
       PP!MPI_Send, PP!MPI_Recv, PP!MPI_Sendrecv, PP!Parts,
       PP!execute_pingpong_Isend_Recv, PP!execute_pingpong_Isend_Irecv,
       PP!execute_pingpong_Send_Irecv, PP!execute_pingpong_Sendrecv,
       PP!initialize_data_pingpong
<1>9. PP!CallsOf(r, op) \in {<<>>, PP!execute_pingpong_Send_Recv(r),
          PP!execute_pingpong_Isend_Recv, PP!execute_pingpong_Isend_Irecv,
          PP!execute_pingpong_Send_Irecv, PP!execute_pingpong_Sendrecv,
          PP!initialize_data_pingpong}
  BY DEF PP!CallsOf, PP!Operations
<1> QED
  BY <1>3, <1>4, <1>5, <1>6, <1>7, <1>8, <1>9, FineNothing

-----------------------------------------------------------------------------
(* What holds of the ping-pongs at any time.                               *)

\* The receives of r that MPI has completed, and the messages sent to r.
Taken(r) == exchanges[r] - (IF posted[r] THEN 1 ELSE 0)
Incoming(r) == IF r \in PP!Pair /\ PP!Other(r) \in Rank THEN sends[PP!Other(r)] ELSE 0

PPTypes == /\ job \in Jobs
           /\ exchanges \in [Rank -> Nat] /\ sends \in [Rank -> Nat]
           /\ posted \in [Rank -> BOOLEAN]
           /\ todo \in [Rank -> Seq(PP!Parts) \cup {None}]
           /\ pingpong_chan \in [Rank -> Seq(Nat)]

\* A receive still posted is waited for before the next one, and a call
\* evens out what it has sent and received before it returns.
TodoOf(r) ==
    IF todo[r] = None
    THEN ~posted[r] /\ sends[r] = exchanges[r]
    ELSE /\ WellFormed(todo[r])
         /\ sends[r] + HowMany(todo[r], "send") = exchanges[r] + HowMany(todo[r], "post")
         /\ posted[r] => Waits(todo[r], 0)

\* The messages on the way to r are those sent and not yet taken, in order.
ChanOf(r) ==
    /\ posted[r] => exchanges[r] >= 1
    /\ Len(pingpong_chan[r]) = Incoming(r) - Taken(r)
    /\ \A k \in 1 .. Len(pingpong_chan[r]) : pingpong_chan[r][k] = Taken(r) + k

PPInv == /\ PPTypes
         /\ \A r \in Rank : r \notin PP!Pair => todo[r] \in {None, <<>>}
         /\ \A r \in Rank : TodoOf(r) /\ ChanOf(r)

LEMMA PPInit == Init => PPInv
<1> SUFFICES ASSUME Init PROVE PPInv
  OBVIOUS
<1>1. /\ job \in Jobs
      /\ exchanges = [r \in Rank |-> 0] /\ sends = [r \in Rank |-> 0]
      /\ todo = [r \in Rank |-> None] /\ posted = [r \in Rank |-> FALSE]
      /\ pingpong_chan = [r \in Rank |-> <<>>]
  BY DEF Init, PP!Init, PP!Rank, Rank
<1>2. PPTypes
  BY <1>1 DEF PPTypes
<1>3. ASSUME NEW r \in Rank
      PROVE  TodoOf(r) /\ ChanOf(r) /\ todo[r] = None
  <2>1. /\ exchanges[r] = 0 /\ ~posted[r] /\ todo[r] = None
        /\ sends[r] = 0 /\ pingpong_chan[r] = <<>>
        /\ \A q \in Rank : sends[q] = 0
    BY <1>1
  <2>2. Incoming(r) = 0
    BY <2>1 DEF Incoming
  <2>3. Taken(r) = 0
    <3> DEFINE open == IF posted[r] THEN 1 ELSE 0
    <3>1. open = 0
      BY <2>1, Zenon
    <3>2. Taken(r) = exchanges[r] - open
      BY DEF Taken
    <3> HIDE DEF open
    <3> QED
      BY <2>1, <3>1, <3>2
  <2> QED
    BY <2>1, <2>2, <2>3 DEF TodoOf, ChanOf
<1> QED
  BY <1>2, <1>3 DEF PPInv

LEMMA WaitsOn ==
    ASSUME NEW t \in Seq(PP!Parts), t # <<>>, Waits(t, 0),
           Head(t) # "received"
    PROVE  Head(t) # "post" /\ Waits(Tail(t), 0)
<1>1. PICK l \in 0 + 1 .. Len(t) :
          t[l] = "received" /\ \A m \in 0 + 1 .. l - 1 : t[m] # "post"
  BY DEF Waits
<1>2. Head(t) = t[1] /\ Len(t) \in Nat /\ 1 \in 1 .. Len(t)
  OBVIOUS
<1>3. l # 1 /\ l \in Int /\ l >= 1 /\ l <= Len(t)
  BY <1>1, <1>2
<1>4. Head(t) # "post"
  BY <1>1, <1>2, <1>3
<1>5. Waits(t, 1)
  <2>1. l \in 1 + 1 .. Len(t) /\ \A m \in 1 + 1 .. l - 1 : m \in 0 + 1 .. l - 1
    BY <1>2, <1>3
  <2> QED
    BY <1>1, <2>1 DEF Waits
<1>6. Waits(Tail(t), 1 - 1)
  BY <1>2, <1>5, TailWaits
<1> QED
  BY <1>4, <1>6

LEMMA OtherOfOther ==
    ASSUME NEW r \in PP!Pair
    PROVE  PP!Other(r) \in PP!Pair /\ PP!Other(PP!Other(r)) = r
  BY DEF PP!Pair, PP!Other, PP!src_rank, PP!dest_rank

-----------------------------------------------------------------------------
(* Each step of a ping-pong keeps it.  A step of r changes what is to be   *)
(* done by r, the counters of r and one channel.                           *)

LEMMA Scalars ==
    ASSUME PPTypes, NEW r \in Rank
    PROVE  /\ exchanges[r] \in Nat /\ sends[r] \in Nat /\ posted[r] \in BOOLEAN
           /\ pingpong_chan[r] \in Seq(Nat) /\ Len(pingpong_chan[r]) \in Nat
           /\ todo[r] # None => todo[r] \in Seq(PP!Parts)
           /\ Taken(r) \in Int /\ Incoming(r) \in Nat
<1>1. /\ exchanges[r] \in Nat /\ sends[r] \in Nat /\ posted[r] \in BOOLEAN
      /\ pingpong_chan[r] \in Seq(Nat)
      /\ todo[r] # None => todo[r] \in Seq(PP!Parts)
      /\ \A q \in Rank : sends[q] \in Nat
  BY DEF PPTypes
<1>2. Taken(r) \in Int
  BY <1>1 DEF Taken
<1>3. Incoming(r) \in Nat
  BY <1>1 DEF Incoming
<1> QED
  BY <1>1, <1>2, <1>3

\* A step that changes neither counters nor channels, only what r has to do.
LEMMA OnlyTodo ==
    ASSUME PPInv, NEW r \in Rank, NEW v,
           todo' = [todo EXCEPT ![r] = v],
           UNCHANGED <<np, job, exchanges, sends, posted, pingpong_chan>>,
           v \in Seq(PP!Parts) \cup {None}, r \notin PP!Pair => v \in {None, <<>>},
           TodoOf(r)'
    PROVE  PPInv'
<1>1. /\ Rank' = Rank /\ PP!Pair' = PP!Pair
      /\ \A q \in Rank : Taken(q)' = Taken(q) /\ Incoming(q)' = Incoming(q)
  BY DEF Rank, PP!Pair, PP!src_rank, PP!dest_rank, Taken, Incoming, PP!Other
<1>2. PPTypes'
  BY <1>1 DEF PPInv, PPTypes
<1>3. ASSUME NEW q \in Rank
      PROVE  TodoOf(q)' /\ ChanOf(q)' /\ (q \notin PP!Pair => todo'[q] \in {None, <<>>})
  <2>1. q # r => todo'[q] = todo[q]
    BY DEF PPInv, PPTypes
  <2>2. todo'[r] = v
    BY DEF PPInv, PPTypes
  <2>3. TodoOf(q) /\ ChanOf(q) /\ (q \notin PP!Pair => todo[q] \in {None, <<>>})
    BY DEF PPInv
  <2>4. TodoOf(q)'
    BY <2>1, <2>3 DEF TodoOf
  <2>5. ChanOf(q)'
    BY <1>1, <2>3 DEF ChanOf
  <2> QED
    BY <2>1, <2>2, <2>3, <2>4, <2>5
<1> QED
  BY <1>1, <1>2, <1>3 DEF PPInv

LEMMA CallStep ==
    ASSUME PPInv, NEW r \in Rank, NEW op \in PP!Operations, PP!Call(r, op),
           UNCHANGED job
    PROVE  PPInv'
<1> DEFINE v == PP!CallsOf(r, op)
<1>1. Fine(v)
  BY CallsFine
<1>2. r \notin PP!Pair => v = <<>>
  BY DEF PP!CallsOf, PP!Operations
<1>3. /\ todo[r] = None /\ todo' = [todo EXCEPT ![r] = v]
      /\ UNCHANGED <<np, job, exchanges, sends, posted, pingpong_chan>>
  BY DEF PP!Call
<1>4. v \in Seq(PP!Parts) /\ v # None
  BY <1>1, NoneAssumption DEF Fine, WellFormed
<1>5. todo'[r] = v
  BY <1>3 DEF PPInv, PPTypes
<1> HIDE DEF v
<1>6. TodoOf(r)'
  BY <1>1, <1>3, <1>4, <1>5 DEF PPInv, TodoOf, Fine, Balanced
<1> QED
  BY <1>2, <1>3, <1>4, <1>6, OnlyTodo

LEMMA ReturnStep ==
    ASSUME PPInv, NEW r \in Rank, PP!Return(r), UNCHANGED job
    PROVE  PPInv'
<1>1. /\ todo[r] = <<>> /\ todo' = [todo EXCEPT ![r] = None]
      /\ UNCHANGED <<np, job, exchanges, sends, posted, pingpong_chan>>
  BY DEF PP!Return
<1>2. todo[r] \in Seq(PP!Parts) /\ todo[r] # None /\ Len(todo[r]) = 0
  <2>1. <<>> \in Seq(PP!Parts) /\ Len(<<>>) = 0
    OBVIOUS
  <2> QED
    BY <1>1, <2>1, NoneAssumption
<1>3. /\ HowMany(todo[r], "send") = 0 /\ HowMany(todo[r], "post") = 0
      /\ ~Waits(todo[r], 0)
  BY <1>2, HowManyNone DEF Waits
<1>4. sends[r] \in Nat /\ exchanges[r] \in Nat
  BY Scalars DEF PPInv
<1>5. ~posted[r] /\ sends[r] = exchanges[r]
  BY <1>2, <1>3, <1>4 DEF PPInv, TodoOf
<1>6. todo'[r] = None
  BY <1>1 DEF PPInv, PPTypes
<1>7. TodoOf(r)'
  BY <1>1, <1>5, <1>6 DEF TodoOf
<1> QED
  BY <1>1, <1>7, OnlyTodo

\* What a process has left of a call, and what it has left after one more.
LEMMA Within ==
    ASSUME PPInv, NEW r \in Rank, NEW what, PP!At(r, what)
    PROVE  /\ todo[r] # None /\ todo[r] # <<>> /\ r \in PP!Pair
           /\ WellFormed(todo[r]) /\ todo[r] \in Seq(PP!Parts)
           /\ Head(todo[r]) = what
           /\ WellFormed(Tail(todo[r])) /\ Tail(todo[r]) \in Seq(PP!Parts)
           /\ Tail(todo[r]) # None
           /\ posted[r] => Waits(todo[r], 0)
           /\ sends[r] + HowMany(todo[r], "send") = exchanges[r] + HowMany(todo[r], "post")
<1>1. todo[r] # None /\ todo[r] # <<>> /\ Head(todo[r]) = what
  BY DEF PP!At
<1>2. /\ WellFormed(todo[r]) /\ (posted[r] => Waits(todo[r], 0))
      /\ sends[r] + HowMany(todo[r], "send") = exchanges[r] + HowMany(todo[r], "post")
  BY <1>1 DEF PPInv, TodoOf
<1>3. r \in PP!Pair
  BY <1>1 DEF PPInv
<1>4. WellFormed(Tail(todo[r]))
  BY <1>1, <1>2, TailWellFormed
<1> QED
  BY <1>1, <1>2, <1>3, <1>4, NoneAssumption DEF WellFormed

LEMMA WaitStep ==
    ASSUME PPInv, NEW r \in Rank, PP!Sent(r) \/ PP!Received(r), UNCHANGED job
    PROVE  PPInv'
<1>1. PICK what \in {"sent", "received"} :
        /\ PP!At(r, what) /\ todo' = [todo EXCEPT ![r] = Tail(todo[r])]
        /\ UNCHANGED <<np, job, exchanges, sends, posted, pingpong_chan>>
        /\ what = "received" => ~posted[r]
  BY DEF PP!Sent, PP!Received, PP!Done
<1> DEFINE t == todo[r]
           u == Tail(t)
<1>2. /\ t \in Seq(PP!Parts) /\ t # <<>> /\ Head(t) = what /\ r \in PP!Pair
      /\ WellFormed(u) /\ u \in Seq(PP!Parts) /\ u # None
      /\ posted[r] => Waits(t, 0)
      /\ sends[r] + HowMany(t, "send") = exchanges[r] + HowMany(t, "post")
  BY <1>1, Within
<1>3. todo'[r] = u
  BY <1>1 DEF PPInv, PPTypes
<1>4. sends[r] \in Nat /\ exchanges[r] \in Nat
  BY Scalars DEF PPInv
<1> HIDE DEF t
<1>5. HowMany(u, "send") = HowMany(t, "send") /\ HowMany(u, "post") = HowMany(t, "post")
  <2>1. Head(t) # "send" /\ Head(t) # "post"
    BY <1>1, <1>2
  <2> QED
    BY <1>2, <2>1, HowManyTail
<1>6. posted[r] => Waits(u, 0)
  BY <1>1, <1>2, WaitsOn
<1> HIDE DEF u
<1>7. TodoOf(r)'
  BY <1>1, <1>2, <1>3, <1>4, <1>5, <1>6 DEF TodoOf
<1>8. todo' = [todo EXCEPT ![r] = u]
  BY <1>1 DEF t, u
<1> QED
  BY <1>1, <1>2, <1>7, <1>8, OnlyTodo

LEMMA SendStep ==
    ASSUME PPInv, NEW r \in Rank, PP!Send(r), UNCHANGED job
    PROVE  PPInv'
<1> DEFINE t == todo[r]
           u == Tail(t)
           p == PP!Other(r)
<1>1. /\ PP!At(r, "send") /\ todo' = [todo EXCEPT ![r] = u]
      /\ sends' = [sends EXCEPT ![r] = sends[r] + 1]
      /\ pingpong_chan' = [pingpong_chan EXCEPT ![p] = Append(pingpong_chan[p], sends[r] + 1)]
      /\ UNCHANGED <<np, job, exchanges, posted>>
  BY DEF PP!Send, PP!Done
<1>2. /\ t \in Seq(PP!Parts) /\ t # <<>> /\ Head(t) = "send" /\ r \in PP!Pair
      /\ WellFormed(u) /\ u \in Seq(PP!Parts) /\ u # None
      /\ posted[r] => Waits(t, 0)
      /\ sends[r] + HowMany(t, "send") = exchanges[r] + HowMany(t, "post")
  BY <1>1, Within
<1>3. PPTypes
  BY DEF PPInv
<1>4. sends[r] \in Nat /\ exchanges[r] \in Nat
  BY <1>3, Scalars
<1>5. /\ todo'[r] = u /\ \A q \in Rank \ {r} : todo'[q] = todo[q]
      /\ sends'[r] = sends[r] + 1 /\ \A q \in Rank \ {r} : sends'[q] = sends[q]
      /\ p \in Rank => pingpong_chan'[p] = Append(pingpong_chan[p], sends[r] + 1)
      /\ \A q \in Rank \ {p} : pingpong_chan'[q] = pingpong_chan[q]
  BY <1>1, <1>3 DEF PPTypes
<1>6. PPTypes'
  <2>1. Rank' = Rank
    BY <1>1 DEF Rank
  <2>2. sends' \in [Rank -> Nat]
    BY <1>1, <1>3, <1>4 DEF PPTypes
  <2>3. todo' \in [Rank -> Seq(PP!Parts) \cup {None}]
    BY <1>1, <1>2, <1>3 DEF PPTypes
  <2>4. pingpong_chan' \in [Rank -> Seq(Nat)]
    <3>1. p \in Rank => Append(pingpong_chan[p], sends[r] + 1) \in Seq(Nat)
      BY <1>3, <1>4 DEF PPTypes
    <3> DEFINE e == Append(pingpong_chan[p], sends[r] + 1)
    <3> HIDE DEF e, p
    <3>2. pingpong_chan' = [pingpong_chan EXCEPT ![p] = e]
      BY <1>1 DEF e
    <3>3. p \in Rank => e \in Seq(Nat)
      BY <3>1 DEF e
    <3> QED
      BY <1>3, <3>2, <3>3 DEF PPTypes
  <2> QED
    BY <1>1, <1>3, <2>1, <2>2, <2>3, <2>4 DEF PPTypes
<1>7. /\ Rank' = Rank /\ PP!Pair' = PP!Pair
      /\ \A q \in Rank : Taken(q)' = Taken(q) /\ PP!Other(q)' = PP!Other(q)
  BY <1>1 DEF Rank, PP!Pair, PP!src_rank, PP!dest_rank, Taken, PP!Other
<1>8. TodoOf(r)'
  <2> HIDE DEF t
  <2>1. /\ HowMany(t, "send") = HowMany(u, "send") + 1 /\ HowMany(t, "post") = HowMany(u, "post")
        /\ HowMany(u, "send") \in Nat /\ HowMany(u, "post") \in Nat
    BY <1>2, HowManyTail
  <2>2. posted[r] => Waits(u, 0)
    BY <1>2, WaitsOn
  <2> HIDE DEF u
  <2>3. (sends[r] + 1) + HowMany(u, "send") = exchanges[r] + HowMany(u, "post")
    <3> DEFINE su == HowMany(u, "send")
               pu == HowMany(u, "post")
               a == sends[r]
               x == exchanges[r]
    <3>1. a \in Nat /\ x \in Nat /\ su \in Nat /\ pu \in Nat
      BY <1>4, <2>1
    <3>2. a + (su + 1) = x + pu
      BY <1>2, <2>1
    <3> HIDE DEF su, pu, a, x
    <3>3. (a + 1) + su = x + pu
      BY <3>1, <3>2
    <3> QED
      BY <3>3 DEF su, pu, a, x
  <2>4. /\ todo'[r] = u /\ u # None /\ sends'[r] = sends[r] + 1
        /\ exchanges' = exchanges /\ posted' = posted /\ WellFormed(u)
    BY <1>1, <1>2, <1>5
  <2> QED
    BY <2>2, <2>3, <2>4 DEF TodoOf
<1>9. ASSUME NEW q \in Rank, q # r
      PROVE  TodoOf(q)'
  BY <1>1, <1>5, <1>9 DEF PPInv, TodoOf
<1>10. ASSUME NEW q \in Rank
       PROVE  ChanOf(q)'
  <2>1. /\ ChanOf(q) /\ Taken(q)' = Taken(q) /\ Taken(q) \in Int
        /\ exchanges' = exchanges /\ posted' = posted /\ Incoming(q) \in Nat
        /\ pingpong_chan[q] \in Seq(Nat)
    BY <1>1, <1>3, <1>7, Scalars DEF PPInv
  <2>2. CASE q = p
    <3>1. q \in PP!Pair /\ PP!Other(q) = r
      BY <1>2, <2>2, OtherOfOther
    <3>2. Incoming(q) = sends[r] /\ Incoming(q)' = sends[r] + 1
      BY <1>5, <1>7, <3>1 DEF Incoming
    <3> DEFINE c == pingpong_chan[q]
               e == Append(c, sends[r] + 1)
    <3>3. pingpong_chan'[q] = e
      BY <1>5, <2>2
    <3>4. /\ Len(e) = Len(c) + 1 /\ Len(c) \in Nat /\ e[Len(c) + 1] = sends[r] + 1
          /\ \A k \in 1 .. Len(c) : e[k] = c[k]
      BY <2>1, <1>4
    <3>5. Len(c) = sends[r] - Taken(q) /\ \A k \in 1 .. Len(c) : c[k] = Taken(q) + k
      BY <2>1, <3>2 DEF ChanOf
    <3>6. \A k \in 1 .. Len(e) : k \in 1 .. Len(c) \/ k = Len(c) + 1
      BY <3>4
    <3> HIDE DEF c, e
    <3>7. Len(e) = (sends[r] + 1) - Taken(q)
      BY <1>4, <2>1, <3>4, <3>5
    <3>8. ASSUME NEW k \in 1 .. Len(e)
          PROVE  e[k] = Taken(q) + k
      <4>1. CASE k \in 1 .. Len(c)
        BY <3>4, <3>5, <4>1
      <4>2. CASE k = Len(c) + 1
        <5>1. e[k] = sends[r] + 1 /\ Len(c) = sends[r] - Taken(q)
          BY <3>4, <3>5, <4>2
        <5>2. Len(c) \in Nat /\ Taken(q) \in Int
          BY <2>1, <3>4
        <5> HIDE DEF p
        <5> QED
          BY <1>4, <4>2, <5>1, <5>2
      <4> QED
        BY <3>6, <4>1, <4>2
    <3> QED
      BY <2>1, <3>2, <3>3, <3>7, <3>8 DEF ChanOf
  <2>3. CASE q # p
    <3>1. q \in PP!Pair => PP!Other(q) # r
      BY <2>3, OtherOfOther
    <3>2. Incoming(q)' = Incoming(q)
      BY <1>5, <1>7, <3>1 DEF Incoming
    <3>3. pingpong_chan'[q] = pingpong_chan[q]
      BY <1>5, <2>3
    <3> QED
      BY <2>1, <3>2, <3>3 DEF ChanOf
  <2> QED
    BY <2>2, <2>3
<1>11. \A q \in Rank : q \notin PP!Pair => todo'[q] \in {None, <<>>}
  BY <1>2, <1>5 DEF PPInv
<1> QED
  BY <1>6, <1>7, <1>8, <1>9, <1>10, <1>11 DEF PPInv

LEMMA PostStep ==
    ASSUME PPInv, NEW r \in Rank, PP!Post(r), UNCHANGED job
    PROVE  PPInv'
<1> DEFINE t == todo[r]
           u == Tail(t)
<1>1. /\ PP!At(r, "post") /\ todo' = [todo EXCEPT ![r] = u]
      /\ posted' = [posted EXCEPT ![r] = TRUE]
      /\ exchanges' = [exchanges EXCEPT ![r] = exchanges[r] + 1]
      /\ UNCHANGED <<np, job, sends, pingpong_chan>>
  BY DEF PP!Post, PP!Done
<1>2. /\ t \in Seq(PP!Parts) /\ t # <<>> /\ Head(t) = "post" /\ r \in PP!Pair
      /\ WellFormed(t) /\ WellFormed(u) /\ u \in Seq(PP!Parts) /\ u # None
      /\ posted[r] => Waits(t, 0)
      /\ sends[r] + HowMany(t, "send") = exchanges[r] + HowMany(t, "post")
  BY <1>1, Within
<1>3. PPTypes
  BY DEF PPInv
<1>4. sends[r] \in Nat /\ exchanges[r] \in Nat /\ posted[r] \in BOOLEAN
  BY <1>3, Scalars
\* A receive is never posted while another is.
<1>5. ~posted[r]
  BY <1>2, WaitsOn
<1>6. /\ todo'[r] = u /\ \A q \in Rank \ {r} : todo'[q] = todo[q]
      /\ exchanges'[r] = exchanges[r] + 1
      /\ \A q \in Rank \ {r} : exchanges'[q] = exchanges[q]
      /\ posted'[r] /\ \A q \in Rank \ {r} : posted'[q] = posted[q]
  BY <1>1, <1>3 DEF PPTypes
<1>7. PPTypes'
  <2>1. Rank' = Rank
    BY <1>1 DEF Rank
  <2>2. exchanges' \in [Rank -> Nat] /\ posted' \in [Rank -> BOOLEAN]
    BY <1>1, <1>3, <1>4 DEF PPTypes
  <2>3. todo' \in [Rank -> Seq(PP!Parts) \cup {None}]
    BY <1>1, <1>2, <1>3 DEF PPTypes
  <2> QED
    BY <1>1, <1>3, <2>1, <2>2, <2>3 DEF PPTypes
<1>8. /\ Rank' = Rank /\ PP!Pair' = PP!Pair
      /\ \A q \in Rank : Incoming(q)' = Incoming(q)
  BY <1>1 DEF Rank, PP!Pair, PP!src_rank, PP!dest_rank, Incoming, PP!Other
<1>9. TodoOf(r)'
  <2> HIDE DEF t
  <2>1. /\ HowMany(t, "send") = HowMany(u, "send") /\ HowMany(t, "post") = HowMany(u, "post") + 1
        /\ HowMany(u, "send") \in Nat /\ HowMany(u, "post") \in Nat
    BY <1>2, HowManyTail
  <2>2. Waits(u, 0)
    <3>1. 1 \in 1 .. Len(t) /\ t[1] = "post" /\ 1 - 1 = 0
      BY <1>2
    <3>2. Waits(t, 1)
      BY <1>2, <3>1 DEF WellFormed
    <3> QED
      BY <1>2, <3>1, <3>2, TailWaits
  <2> HIDE DEF u
  <2> QED
    <3> DEFINE su == HowMany(u, "send")
               pu == HowMany(u, "post")
               a == sends[r]
               x == exchanges[r]
    <3>1. a \in Nat /\ x \in Nat /\ su \in Nat /\ pu \in Nat
      BY <1>4, <2>1
    <3>2. a + su = x + (pu + 1)
      BY <1>2, <2>1
    <3>3. todo'[r] = u /\ u # None /\ WellFormed(u) /\ sends'[r] = a /\ exchanges'[r] = x + 1
      BY <1>1, <1>2, <1>6
    <3> HIDE DEF a, x, su, pu
    <3>4. a + su = (x + 1) + pu
      BY <3>1, <3>2
    <3> QED
      BY <2>2, <3>3, <3>4 DEF TodoOf, su, pu
<1>10. ASSUME NEW q \in Rank, q # r
       PROVE  TodoOf(q)'
  BY <1>1, <1>6, <1>10 DEF PPInv, TodoOf
<1>11. ASSUME NEW q \in Rank
       PROVE  ChanOf(q)'
  <2>1. ChanOf(q) /\ Incoming(q)' = Incoming(q) /\ pingpong_chan' = pingpong_chan
    BY <1>1, <1>8 DEF PPInv
  <2>2. Taken(q)' = Taken(q)
    <3>1. CASE q = r
      BY <1>4, <1>5, <1>6, <3>1 DEF Taken
    <3>2. CASE q # r
      BY <1>6, <3>2 DEF Taken
    <3> QED
      BY <3>1, <3>2
  <2>3. posted'[q] => exchanges'[q] >= 1
    <3>1. CASE q = r
      BY <1>4, <1>6, <3>1
    <3>2. CASE q # r
      BY <1>6, <2>1, <3>2 DEF ChanOf
    <3> QED
      BY <3>1, <3>2
  <2> QED
    BY <2>1, <2>2, <2>3 DEF ChanOf
<1>12. \A q \in Rank : q \notin PP!Pair => todo'[q] \in {None, <<>>}
  BY <1>2, <1>6 DEF PPInv
<1> QED
  BY <1>7, <1>8, <1>9, <1>10, <1>11, <1>12 DEF PPInv

LEMMA DeliverStep ==
    ASSUME PPInv, NEW r \in Rank, PP!Deliver(r), UNCHANGED job
    PROVE  PPInv'
<1> DEFINE c == pingpong_chan[r]
<1>1. /\ posted[r] /\ c # <<>>
      /\ posted' = [posted EXCEPT ![r] = FALSE]
      /\ pingpong_chan' = [pingpong_chan EXCEPT ![r] = Tail(c)]
      /\ UNCHANGED <<np, job, exchanges, sends, todo>>
  BY DEF PP!Deliver
<1>2. PPTypes
  BY DEF PPInv
<1>3. c \in Seq(Nat) /\ Tail(c) \in Seq(Nat) /\ exchanges[r] \in Nat /\ Incoming(r) \in Nat
  BY <1>1, <1>2, Scalars
<1>4. /\ ~posted'[r] /\ \A q \in Rank \ {r} : posted'[q] = posted[q]
      /\ pingpong_chan'[r] = Tail(c)
      /\ \A q \in Rank \ {r} : pingpong_chan'[q] = pingpong_chan[q]
  BY <1>1, <1>2 DEF PPTypes
<1>5. PPTypes'
  <2>1. Rank' = Rank
    BY <1>1 DEF Rank
  <2>2. posted' \in [Rank -> BOOLEAN] /\ pingpong_chan' \in [Rank -> Seq(Nat)]
    BY <1>1, <1>2, <1>3 DEF PPTypes
  <2> QED
    BY <1>1, <1>2, <2>1, <2>2 DEF PPTypes
<1>6. /\ Rank' = Rank /\ PP!Pair' = PP!Pair
      /\ \A q \in Rank : Incoming(q)' = Incoming(q)
  BY <1>1 DEF Rank, PP!Pair, PP!src_rank, PP!dest_rank, Incoming, PP!Other
<1>7. ASSUME NEW q \in Rank
      PROVE  TodoOf(q)'
  <2>1. TodoOf(q)
    BY DEF PPInv
  <2>2. posted'[q] => posted[q]
    BY <1>4
  <2>3. todo[q] = None => ~posted'[q]
    BY <2>1, <2>2 DEF TodoOf
  <2> QED
    BY <1>1, <2>1, <2>2, <2>3 DEF TodoOf
<1>8. ASSUME NEW q \in Rank, q # r
      PROVE  ChanOf(q)'
  <2>1. ChanOf(q) /\ Incoming(q)' = Incoming(q) /\ exchanges' = exchanges
    BY <1>1, <1>6 DEF PPInv
  <2>2. posted'[q] = posted[q] /\ pingpong_chan'[q] = pingpong_chan[q]
    BY <1>4, <1>8
  <2>3. Taken(q)' = Taken(q)
    BY <2>1, <2>2 DEF Taken
  <2> QED
    BY <2>1, <2>2, <2>3 DEF ChanOf
<1>9. ChanOf(r)'
  <2>1. ChanOf(r)
    BY DEF PPInv
  <2>2. Taken(r)' = Taken(r) + 1 /\ Taken(r) \in Int
    <3>1. Taken(r) = exchanges[r] - 1
      BY <1>1 DEF Taken
    <3>2. Taken(r)' = exchanges[r]
      BY <1>1, <1>3, <1>4 DEF Taken
    <3> QED
      BY <1>3, <3>1, <3>2
  <2> HIDE DEF c
  <2>3. /\ Len(Tail(c)) = Len(c) - 1 /\ Len(c) \in Nat
        /\ \A k \in 1 .. Len(c) - 1 : Tail(c)[k] = c[k + 1] /\ k + 1 \in 1 .. Len(c)
    BY <1>1, <1>3
  <2>4. Len(c) = Incoming(r) - Taken(r) /\ \A k \in 1 .. Len(c) : c[k] = Taken(r) + k
    BY <2>1 DEF ChanOf, c
  <2>5. Len(Tail(c)) = Incoming(r) - (Taken(r) + 1)
    BY <1>3, <2>2, <2>3, <2>4
  <2>6. ASSUME NEW k \in 1 .. Len(Tail(c))
        PROVE  Tail(c)[k] = (Taken(r) + 1) + k
    <3>1. k \in 1 .. Len(c) - 1 /\ k \in Int
      BY <2>3
    <3>2. Tail(c)[k] = Taken(r) + (k + 1)
      BY <2>3, <2>4, <3>1
    <3> QED
      BY <2>2, <3>1, <3>2
  <2> QED
    BY <1>4, <1>6, <2>2, <2>5, <2>6 DEF ChanOf
<1>10. \A q \in Rank : q \notin PP!Pair => todo'[q] \in {None, <<>>}
  BY <1>1 DEF PPInv
<1> QED
  BY <1>5, <1>6, <1>7, <1>8, <1>9, <1>10 DEF PPInv

-----------------------------------------------------------------------------
(* Together: every step of the program is one of these or leaves the       *)
(* ping-pongs alone.                                                       *)

LEMMA PPStutter ==
    ASSUME PPInv, UNCHANGED <<np, job, pingpong_vars>>
    PROVE  PPInv'
<1>1. /\ np' = np /\ job' = job /\ exchanges' = exchanges /\ sends' = sends
      /\ todo' = todo /\ posted' = posted /\ pingpong_chan' = pingpong_chan
  BY DEF pingpong_vars
<1> QED
  BY <1>1 DEF PPInv, PPTypes, TodoOf, ChanOf, Taken, Incoming, Rank,
     PP!Pair, PP!Other, PP!src_rank, PP!dest_rank

LEMMA PPInvStep ==
    ASSUME PPInv, [Next]_vars
    PROVE  PPInv'
<1>1. ASSUME NEW r \in Rank, NEW op \in PP!Operations, PingPongStep(r, op)
      PROVE  PPInv'
  <2>1. PP!Step(r, op) /\ UNCHANGED job
    BY <1>1 DEF PingPongStep
  <2> QED
    BY <2>1, CallStep, ReturnStep, SendStep, PostStep, WaitStep, DeliverStep DEF PP!Step
<1>2. ASSUME NEW r \in Rank, initialize_data_pingpong(r)
      PROVE  PPInv'
  BY <1>1, <1>2 DEF initialize_data_pingpong, PP!Operations
<1>3. ASSUME NEW r \in Rank, execute_pingpong(r)
      PROVE  PPInv'
  <2>1. job.call \in Calls
    BY JobsAssumption DEF PPInv, PPTypes
  <2>2. job.call \in PP!Operations
    BY <1>3, <2>1 DEF Calls, PP!Operations, execute_pingpong
  <2> QED
    BY <1>1, <1>3, <2>2 DEF execute_pingpong
<1>4. ASSUME NEW r \in Rank,
             dissemination_barrier(r) \/ ReproMPI_Allreduce(r) \/ ReproMPI_Bcast(r)
      PROVE  UNCHANGED <<np, job, pingpong_vars>>
  <2>1. UNCHANGED np
    BY <1>4 DEF dissemination_barrier, ReproMPI_Allreduce, ReproMPI_Bcast,
       DB!Step, DB!Enter, DB!Send, DB!Recv, DB!NextRound, DB!Return,
       AR!Step, AR!Call, AR!Send, AR!Recv, AR!NextBit, AR!Return,
       BC!Step, BC!Call, BC!Send, BC!Recv, BC!NextChild, BC!Return
  <2> QED
    BY <1>4, <2>1 DEF dissemination_barrier, ReproMPI_Allreduce, ReproMPI_Bcast
<1>5. ASSUME NEW r \in Rank, Measured(r) \/ MPI_Barrier(r) \/ MPI_Reduce(r)
      PROVE  UNCHANGED <<np, job, pingpong_vars>>
  BY <1>5 DEF Measured, MPI_Barrier, MPI_Reduce
<1>6. CASE UNCHANGED vars
  BY <1>6, PPStutter DEF vars
<1> QED
  BY <1>2, <1>3, <1>4, <1>5, <1>6, PPStutter DEF Next, Step, Ended

LEMMA PPMatch == PPInv => PP!MessagesMatch
<1> SUFFICES ASSUME PPInv, NEW r \in PP!Rank
             PROVE  /\ (posted[r] /\ pingpong_chan[r] # <<>>)
                         => Head(pingpong_chan[r]) = exchanges[r]
                    /\ (todo[r] = None) => ~posted[r] /\ sends[r] = exchanges[r]
  BY DEF PP!MessagesMatch
<1>1. r \in Rank /\ PPTypes
  BY DEF PP!Rank, Rank, PPInv
<1>2. TodoOf(r) /\ ChanOf(r)
  BY <1>1 DEF PPInv
<1>3. ASSUME posted[r], pingpong_chan[r] # <<>>
      PROVE  Head(pingpong_chan[r]) = exchanges[r]
  <2> DEFINE c == pingpong_chan[r]
  <2>1. c \in Seq(Nat) /\ exchanges[r] \in Nat
    BY <1>1, Scalars
  <2>2. 1 \in 1 .. Len(c) /\ Head(c) = c[1]
    BY <1>3, <2>1
  <2>3. Taken(r) = exchanges[r] - 1
    BY <1>3 DEF Taken
  <2>4. c[1] = Taken(r) + 1
    BY <1>2, <2>2 DEF ChanOf
  <2> HIDE DEF c
  <2>5. Head(c) = exchanges[r]
    BY <2>1, <2>2, <2>3, <2>4
  <2> QED
    BY <2>5 DEF c
<1> QED
  BY <1>2, <1>3 DEF TodoOf

\* Whatever the measurement loop calls next to what, and for how many
\* processes: a message of the dissemination barrier is received in the round
\* of the call that sent it, and one of a ping-pong by the receive it was sent
\* for (dissem_barrier_impl.c, pingpong.c).
THEOREM MessagesStayMatched == Spec => []MessagesMatch
<1>1. Init => DBP!Inv /\ PPInv
  BY BarrierInit, PPInit
<1>2. DBP!Inv /\ PPInv /\ [Next]_vars => DBP!Inv' /\ PPInv'
  BY BarrierInvStep, PPInvStep
<1>3. DBP!Inv /\ PPInv => MessagesMatch
  <2>1. DBP!Inv => DBP!MessagesMatch
    BY DBP!InvMatch
  <2>2. DBP!MessagesMatch <=> DB!MessagesMatch
    BY DEF DBP!MessagesMatch, DB!MessagesMatch, DBP!Rank, DB!Rank,
       DBP!RecvRank, DB!RecvRank
  <2> QED
    BY <2>1, <2>2, PPMatch DEF MessagesMatch
<1> QED
  BY <1>1, <1>2, <1>3, PTL DEF Spec
-----------------------------------------------------------------------------
(* What a process does in a job: the rounds.                               *)

LEMMA LoopSteps ==
    ASSUME NEW S, NEW s \in Seq(S), NEW n \in Nat, Len(s) \in 1 .. 4
    PROVE  /\ Times(n, s) \in Seq(S) /\ Len(Times(n, s)) = n * Len(s)
           /\ n * Len(s) \in Nat
           /\ \A i \in 1 .. n * Len(s) : Times(n, s)[i] = s[((i - 1) % Len(s)) + 1]
<1> DEFINE L == Len(s)
           N == n * L
<1>1. N \in Nat
  OBVIOUS
<1>2. ASSUME NEW i \in 1 .. N
      PROVE  ((i - 1) % L) + 1 \in 1 .. L
  <2>1. i - 1 \in Int /\ L \in 1 .. 4
    BY <1>1
  <2> HIDE DEF L
  <2> QED
    BY <2>1
<1>3. Times(n, s) = [i \in 1 .. N |-> s[((i - 1) % L) + 1]]
  BY DEF Times
<1>4. \A i \in 1 .. N : s[((i - 1) % L) + 1] \in S
  BY <1>2
<1> HIDE DEF N
<1>5. Times(n, s) \in [1 .. N -> S]
  BY <1>3, <1>4
<1> QED
  BY <1>1, <1>3, <1>5 DEF N

\* What a process can be at.
Ops == {"MPI_Barrier", "dissemination_barrier", "ReproMPI_Bcast", "ReproMPI_Allreduce",
        "MPI_Reduce", "initialize_data_pingpong", "measured"}

\* A round begins with a barrier, and the measured call comes after it.
Barriers == {"MPI_Barrier", "dissemination_barrier"}

LEMMA RoundShape ==
    ASSUME NEW m \in Modules
    PROVE  /\ Round(m) \in Seq(Ops) /\ Len(Round(m)) \in 1 .. 4
           /\ m # "None" => Round(m)[1] \in Barriers
           /\ \A i \in 1 .. Len(Round(m)) :
                  Round(m)[i] = "dissemination_barrier" <=> m = "dissem_barrier" /\ i = 1
           /\ m = "dissem_barrier" => Len(Round(m)) = 2
<1> DEFINE b == Round(m)
<1> USE DEF Ops, Barriers
<1>1. CASE m = "MPI_Barrier"
  <2>1. start_sync(m) = <<"MPI_Barrier">> /\ stop_sync(m) = <<>>
    BY <1>1 DEF start_sync, stop_sync
  <2>2. b = <<"MPI_Barrier">> \o <<"measured">> \o <<>>
    BY <2>1 DEF Round
  <2>3. b \in Seq(Ops) /\ Len(b) = 2
    BY <2>2
  <2>4. b[1] = "MPI_Barrier" /\ b[2] = "measured"
    BY <2>2
  <2>5. 1 .. Len(b) = {1, 2}
    BY <2>3
  <2> HIDE DEF b
  <2> QED
    BY <1>1, <2>3, <2>4, <2>5 DEF b
<1>2. CASE m = "Double_MPI_Barrier"
  <2>1. start_sync(m) = <<"MPI_Barrier", "MPI_Barrier">> /\ stop_sync(m) = <<>>
    BY <1>2 DEF start_sync, stop_sync
  <2>2. b = <<"MPI_Barrier", "MPI_Barrier">> \o <<"measured">> \o <<>>
    BY <2>1 DEF Round
  <2>3. b \in Seq(Ops) /\ Len(b) = 3
    BY <2>2
  <2>4. b[1] = "MPI_Barrier" /\ b[2] = "MPI_Barrier" /\ b[3] = "measured"
    BY <2>2
  <2>5. 1 .. Len(b) = {1, 2, 3}
    BY <2>3
  <2> HIDE DEF b
  <2> QED
    BY <1>2, <2>3, <2>4, <2>5 DEF b
<1>3. CASE m = "dissem_barrier"
  <2>1. start_sync(m) = <<"dissemination_barrier">> /\ stop_sync(m) = <<>>
    BY <1>3 DEF start_sync, stop_sync
  <2>2. b = <<"dissemination_barrier">> \o <<"measured">> \o <<>>
    BY <2>1 DEF Round
  <2>3. b \in Seq(Ops) /\ Len(b) = 2
    BY <2>2
  <2>4. b[1] = "dissemination_barrier" /\ b[2] = "measured"
    BY <2>2
  <2>5. 1 .. Len(b) = {1, 2}
    BY <2>3
  <2> HIDE DEF b
  <2> QED
    BY <1>3, <2>3, <2>4, <2>5 DEF b
<1>4. CASE m = "roundtime"
  <2>1. start_sync(m) = <<"MPI_Barrier", "ReproMPI_Bcast">> /\ stop_sync(m) = <<"ReproMPI_Allreduce">>
    BY <1>4 DEF start_sync, stop_sync
  <2>2. b = <<"MPI_Barrier", "ReproMPI_Bcast">> \o <<"measured">> \o <<"ReproMPI_Allreduce">>
    BY <2>1 DEF Round
  <2>3. b \in Seq(Ops) /\ Len(b) = 4
    BY <2>2
  <2>4. b[1] = "MPI_Barrier" /\ b[2] = "ReproMPI_Bcast" /\ b[3] = "measured" /\ b[4] = "ReproMPI_Allreduce"
    BY <2>2
  <2>5. 1 .. Len(b) = {1, 2, 3, 4}
    BY <2>3
  <2> HIDE DEF b
  <2> QED
    BY <1>4, <2>3, <2>4, <2>5 DEF b
<1>5. CASE m = "roundtime_switched"
  <2>1. start_sync(m) = <<"MPI_Barrier">> /\ stop_sync(m) = <<"ReproMPI_Allreduce">>
    BY <1>5 DEF start_sync, stop_sync
  <2>2. b = <<"MPI_Barrier">> \o <<"measured">> \o <<"ReproMPI_Allreduce">>
    BY <2>1 DEF Round
  <2>3. b \in Seq(Ops) /\ Len(b) = 3
    BY <2>2
  <2>4. b[1] = "MPI_Barrier" /\ b[2] = "measured" /\ b[3] = "ReproMPI_Allreduce"
    BY <2>2
  <2>5. 1 .. Len(b) = {1, 2, 3}
    BY <2>3
  <2> HIDE DEF b
  <2> QED
    BY <1>5, <2>3, <2>4, <2>5 DEF b
<1>6. CASE m = "None"
  <2>1. start_sync(m) = <<>> /\ stop_sync(m) = <<>>
    BY <1>6 DEF start_sync, stop_sync
  <2>2. b = <<>> \o <<"measured">> \o <<>>
    BY <2>1 DEF Round
  <2>3. b \in Seq(Ops) /\ Len(b) = 1
    BY <2>2
  <2>4. b[1] = "measured"
    BY <2>2
  <2>5. 1 .. Len(b) = {1}
    BY <2>3
  <2> HIDE DEF b
  <2> QED
    BY <1>6, <2>3, <2>4, <2>5 DEF b
<1> QED
  BY <1>1, <1>2, <1>3, <1>4, <1>5, <1>6 DEF Modules

\* Before the rounds nothing is measured.
LEMMA PreambleShape ==
    ASSUME NEW j \in Jobs
    PROVE  /\ init_module(j.module) \in Seq(Ops) /\ Preamble(j) \in Seq(Ops)
           /\ \A i \in 1 .. Len(init_module(j.module)) :
                  init_module(j.module)[i] \notin {"measured", "dissemination_barrier"}
           /\ \A i \in 1 .. Len(Preamble(j)) :
                  Preamble(j)[i] \notin {"measured", "dissemination_barrier"}
<1> DEFINE Quiet == Ops \ {"measured", "dissemination_barrier"}
           t == Times(BcastNRep, <<"MPI_Barrier", "ReproMPI_Bcast">>)
<1> USE DEF Ops
<1>1. t \in Seq(Quiet)
  <2> DEFINE s == <<"MPI_Barrier", "ReproMPI_Bcast">>
  <2>1. s \in Seq(Quiet) /\ Len(s) \in 1 .. 4
    OBVIOUS
  <2>2. BcastNRep \in Nat
    BY BcastNRepAssumption DEF Positive
  <2> HIDE DEF s
  <2>3. Times(BcastNRep, s) \in Seq(Quiet)
    BY <2>1, <2>2, LoopSteps
  <2> QED
    BY <2>3 DEF s
<1> HIDE DEF t
<1>2. init_module(j.module) \in Seq(Quiet)
  <2>1. <<"MPI_Reduce">> \in Seq(Quiet) /\ <<>> \in Seq(Quiet)
    OBVIOUS
  <2>2. t \o <<"MPI_Reduce">> \in Seq(Quiet)
    BY <1>1, <2>1
  <2> QED
    BY <2>1, <2>2 DEF init_module, measure_bcast_runtime, t
<1>3. initialize_data(j) \in Seq(Quiet)
  <2>1. <<>> \in Seq(Quiet) /\ <<"initialize_data_pingpong">> \in Seq(Quiet)
    OBVIOUS
  <2> HIDE DEF Ops
  <2> QED
    BY <2>1 DEF initialize_data
<1>4. Preamble(j) \in Seq(Quiet)
  BY <1>2, <1>3 DEF Preamble
<1>5. ASSUME NEW s \in Seq(Quiet)
      PROVE  s \in Seq(Ops) /\ \A i \in 1 .. Len(s) : s[i] \notin {"measured", "dissemination_barrier"}
  OBVIOUS
<1> QED
  BY <1>2, <1>4, <1>5

\* The rounds of a job, k = 0, 1, ...: where each starts.
Before(j) == Len(Preamble(j))
RoundLen(j) == Len(Round(j.module))
Start(j, k) == Before(j) + k * RoundLen(j) + 1

\* Every measured call lies behind the barrier of its round and before the
\* one of the next, and the dissemination barrier starts rounds of two steps.
Fenced(j, t) ==
    j.module # "None" =>
        \A i \in 1 .. Len(t) : t[i] = "measured" =>
            \E k \in Nat : /\ Start(j, k) < i /\ i < Start(j, k + 1)
                           /\ Start(j, k) \in 1 .. Len(t) /\ t[Start(j, k)] \in Barriers
                           /\ Start(j, k + 1) <= Len(t) + 1
                           /\ Start(j, k + 1) <= Len(t) => t[Start(j, k + 1)] \in Barriers
Alternating(j, t) ==
    \A i \in 1 .. Len(t) :
        t[i] = "dissemination_barrier" <=>
            j.module = "dissem_barrier" /\ i > Before(j) /\ (i - Before(j)) % 2 = 1
Shaped(j, t) == t \in Seq(Ops) /\ Fenced(j, t) /\ Alternating(j, t)

LEMMA RejectedShape ==
    ASSUME NEW j \in Jobs
    PROVE  Shaped(j, init_module(j.module))
<1> DEFINE t == init_module(j.module)
<1>1. t \in Seq(Ops) /\ \A i \in 1 .. Len(t) : t[i] \notin {"measured", "dissemination_barrier"}
  BY PreambleShape
<1>2. j.module = "dissem_barrier" => Len(t) = 0
  BY DEF init_module
<1> HIDE DEF t
<1>3. Fenced(j, t) /\ Alternating(j, t)
  BY <1>1, <1>2 DEF Fenced, Alternating
<1> QED
  BY <1>1, <1>3 DEF Shaped, t

LEMMA LoopShape ==
    ASSUME NEW j \in Jobs
    PROVE  Shaped(j, Preamble(j) \o Times(j.nrep, Round(j.module)))
<1> DEFINE p == Preamble(j)
           b == Round(j.module)
           n == j.nrep
           u == Times(n, b)
           t == p \o u
           P == Len(p)
           L == Len(b)
           N == n * L
<1>1. /\ j.module \in Modules /\ n \in Nat /\ n >= 1
  BY JobsAssumption DEF Positive
<1>2. /\ b \in Seq(Ops) /\ L \in 1 .. 4
      /\ j.module # "None" => b[1] \in Barriers
      /\ \A i \in 1 .. L : b[i] = "dissemination_barrier" <=> j.module = "dissem_barrier" /\ i = 1
      /\ j.module = "dissem_barrier" => L = 2
  BY <1>1, RoundShape
<1>3. p \in Seq(Ops) /\ \A i \in 1 .. P : p[i] \notin {"measured", "dissemination_barrier"}
  BY PreambleShape
<1>4. P \in Nat
  BY <1>3
<1>5. /\ u \in Seq(Ops) /\ Len(u) = N /\ N \in Nat
      /\ \A i \in 1 .. N : u[i] = b[((i - 1) % L) + 1]
  <2> HIDE DEF b, n
  <2> QED
    BY <1>1, <1>2, LoopSteps
<1> HIDE DEF p, b, n, u
<1>6. /\ t \in Seq(Ops) /\ Len(t) = P + N
      /\ \A i \in 1 .. P : t[i] = p[i]
      /\ \A i \in 1 .. N : t[P + i] = u[i]
  <2>1. /\ t \in Seq(Ops) /\ Len(t) = Len(p) + Len(u)
        /\ \A i \in 1 .. Len(p) + Len(u) : t[i] = IF i <= Len(p) THEN p[i] ELSE u[i - Len(p)]
    BY <1>3, <1>5
  <2> HIDE DEF t, N
  <2>2. \A i \in 1 .. P : i \in 1 .. Len(p) + Len(u) /\ i <= Len(p)
    BY <1>4, <1>5
  <2>3. \A i \in 1 .. N : /\ P + i \in 1 .. Len(p) + Len(u) /\ ~(P + i <= Len(p))
                          /\ (P + i) - Len(p) = i
    BY <1>4, <1>5
  <2> QED
    BY <1>5, <2>1, <2>2, <2>3
<1>7. Before(j) = P /\ RoundLen(j) = L
  BY DEF Before, RoundLen, p, b
<1> HIDE DEF t, P, L, N
\* Where the positions of the rounds lie.
<1>8. ASSUME NEW i \in 1 .. N
      PROVE  /\ (i - 1) \div L \in 0 .. n - 1 /\ (i - 1) % L \in 0 .. L - 1
             /\ ((i - 1) \div L) * L \in Nat
             /\ i = ((i - 1) \div L) * L + ((i - 1) % L) + 1
  <2>1. i \in Nat /\ i >= 1 /\ i <= n * L
    BY <1>5 DEF N
  <2>2. CASE L = 1
    BY <1>1, <2>1, <2>2
  <2>3. CASE L = 2
    BY <1>1, <2>1, <2>3
  <2>4. CASE L = 3
    BY <1>1, <2>1, <2>4
  <2>5. CASE L = 4
    BY <1>1, <2>1, <2>5
  <2> QED
    BY <1>2, <2>2, <2>3, <2>4, <2>5
<1>9. ASSUME NEW k \in 0 .. n - 1
      PROVE  /\ k * L \in Nat /\ k * L + L <= N /\ (k + 1) * L = k * L + L
             /\ k + 1 = n => k * L + L = N
             /\ (k * L) % L = 0
  <2>1. CASE L = 1
    BY <1>1, <2>1 DEF N
  <2>2. CASE L = 2
    BY <1>1, <2>2 DEF N
  <2>3. CASE L = 3
    BY <1>1, <2>3 DEF N
  <2>4. CASE L = 4
    BY <1>1, <2>4 DEF N
  <2> QED
    BY <1>2, <2>1, <2>2, <2>3, <2>4
<1>10. ASSUME j.module # "None", NEW k \in 0 .. n - 1
       PROVE  /\ Start(j, k) = P + k * L + 1 /\ Start(j, k) \in 1 .. Len(t)
              /\ Start(j, k + 1) = P + k * L + L + 1
              /\ t[Start(j, k)] \in Barriers
  <2>1. /\ k * L \in Nat /\ k * L + L <= N /\ (k + 1) * L = k * L + L /\ (k * L) % L = 0
        /\ L \in 1 .. 4
    BY <1>2, <1>9
  <2>2. /\ Start(j, k) = P + k * L + 1
        /\ Start(j, k + 1) = P + k * L + L + 1
    BY <1>4, <1>7, <2>1 DEF Start
  <2> DEFINE i == k * L + 1
  <2>3. i \in 1 .. N /\ ((i - 1) % L) + 1 = 1
    <3> DEFINE y == k * L
    <3> HIDE DEF y
    <3>1. y \in Nat /\ y + L <= N /\ y % L = 0 /\ i = y + 1
      BY <2>1 DEF y
    <3>2. i - 1 = y
      BY <3>1
    <3>3. i \in 1 .. N
      BY <1>2, <1>5, <3>1
    <3> QED
      BY <3>1, <3>2, <3>3
  <2>4. u[i] = b[1]
    BY <1>5, <2>3
  <2>5. t[P + i] = b[1] /\ P + i = Start(j, k) /\ P + i \in 1 .. Len(t)
    BY <1>4, <1>5, <1>6, <2>1, <2>2, <2>3, <2>4
  <2> QED
    BY <1>2, <1>10, <2>2, <2>5
<1>11. ASSUME NEW i \in 1 .. Len(t), i > P
       PROVE  i - P \in 1 .. N /\ t[i] = b[((i - P - 1) % L) + 1]
  <2>1. i - P \in 1 .. N /\ P + (i - P) = i
    BY <1>4, <1>5, <1>6, <1>11
  <2> QED
    BY <1>5, <1>6, <2>1
<1>12. ASSUME NEW i \in 1 .. Len(t), ~(i > P)
       PROVE  t[i] \notin {"measured", "dissemination_barrier"}
  <2>1. i \in 1 .. P
    BY <1>4, <1>12
  <2> QED
    BY <1>3, <1>6, <2>1
<1>13. ASSUME j.module # "None", NEW i \in 1 .. Len(t), t[i] = "measured"
       PROVE  \E k \in Nat : /\ Start(j, k) < i /\ i < Start(j, k + 1)
                             /\ Start(j, k) \in 1 .. Len(t) /\ t[Start(j, k)] \in Barriers
                             /\ Start(j, k + 1) <= Len(t) + 1
                             /\ Start(j, k + 1) <= Len(t) => t[Start(j, k + 1)] \in Barriers
  <2>1. i > P
    BY <1>12, <1>13
  <2> DEFINE x == i - P
             k == (x - 1) \div L
             r == (x - 1) % L
  <2>2. x \in 1 .. N /\ t[i] = b[r + 1] /\ i = P + x
    BY <1>4, <1>11, <2>1
  <2>3. k \in 0 .. n - 1 /\ r \in 0 .. L - 1 /\ k * L \in Nat /\ x = k * L + r + 1
    BY <1>8, <2>2
  <2> HIDE DEF x, k, r
  <2>4. /\ Start(j, k) = P + k * L + 1 /\ Start(j, k) \in 1 .. Len(t)
        /\ Start(j, k + 1) = P + k * L + L + 1
        /\ t[Start(j, k)] \in Barriers
    BY <1>10, <1>13, <2>3
  <2>5. r # 0
    <3>1. b[1] # "measured"
      BY <1>2, <1>13 DEF Barriers
    <3> QED
      BY <1>13, <2>2, <3>1
  <2>6. Start(j, k) < i /\ i < Start(j, k + 1)
    BY <1>2, <1>4, <2>2, <2>3, <2>4, <2>5
  <2>7. Start(j, k + 1) <= Len(t) + 1
    BY <1>2, <1>4, <1>5, <1>6, <1>9, <2>3, <2>4
  <2>8. ASSUME Start(j, k + 1) <= Len(t)
        PROVE  t[Start(j, k + 1)] \in Barriers
    <3>1. k + 1 # n
      BY <1>2, <1>4, <1>5, <1>6, <1>9, <2>3, <2>4, <2>8
    <3>2. k + 1 \in 0 .. n - 1
      BY <1>1, <2>3, <3>1
    <3> QED
      BY <1>10, <1>13, <3>2
  <2>9. k \in Nat
    BY <1>1, <2>3
  <2> QED
    BY <2>4, <2>6, <2>7, <2>8, <2>9
<1>14. ASSUME NEW i \in 1 .. Len(t)
       PROVE  t[i] = "dissemination_barrier" <=>
                  j.module = "dissem_barrier" /\ i > P /\ (i - P) % 2 = 1
  <2>1. CASE ~(i > P)
    BY <1>12, <2>1
  <2>2. CASE i > P
    <3> DEFINE x == i - P
               r == (x - 1) % L
    <3>1. x \in 1 .. N /\ t[i] = b[r + 1]
      BY <1>11, <2>2
    <3>2. r \in 0 .. L - 1
      BY <1>8, <3>1
    <3>3. x \in Int
      BY <1>5, <3>1
    <3> HIDE DEF x
    <3>4. ASSUME L = 2
          PROVE  r = 0 <=> x % 2 = 1
      BY <3>3, <3>4
    <3> HIDE DEF r
    <3>5. r + 1 \in 1 .. L /\ (r + 1 = 1 <=> r = 0)
      BY <1>2, <3>2
    <3>6. t[i] = "dissemination_barrier" <=> j.module = "dissem_barrier" /\ r = 0
      BY <1>2, <3>1, <3>5
    <3> QED
      BY <1>2, <2>2, <3>4, <3>6 DEF x
  <2> QED
    BY <2>1, <2>2
<1>15. Fenced(j, t)
  BY <1>13 DEF Fenced
<1>16. Alternating(j, t)
  BY <1>7, <1>14 DEF Alternating
<1> QED
  BY <1>6, <1>15, <1>16 DEF Shaped, t, p, u, b, n

-----------------------------------------------------------------------------
(* Where the processes are.                                                *)

PlaceInv == /\ job \in Jobs /\ Shaped(job, program)
            /\ at \in [Rank -> Nat] /\ \A r \in Rank : at[r] \in 1 .. Len(program) + 1

\* A process is in the dissemination barrier only where its program calls it,
\* and has returned from the calls behind it.
CallsDone(r) ==
    \/ left[r] = 0 /\ at[r] <= Before(job) + 1
    \/ /\ left[r] >= 1
       /\ at[r] = Before(job) + 2 * left[r] \/ at[r] = Before(job) + 2 * left[r] + 1
CountInv ==
    \A r \in Rank :
        /\ barrier_pc[r] # "outside" => Now(r, "dissemination_barrier")
        /\ job.module = "dissem_barrier" => CallsDone(r)

\* Behind an MPI_Barrier, all others have reached it.
ReachedInv ==
    \A i \in 1 .. Len(program) : program[i] = "MPI_Barrier" =>
        \A r, q \in Rank : at[r] > i => at[q] >= i

RoundInv == PlaceInv /\ CountInv /\ ReachedInv

LEMMA RoundInit == Init => RoundInv
<1> SUFFICES ASSUME Init PROVE RoundInv
  OBVIOUS
<1>1. job \in Jobs /\ program = ProgramOf(job) /\ at = [r \in Rank |-> 1]
  BY DEF Init
<1>2. Shaped(job, program)
  BY <1>1, RejectedShape, LoopShape DEF ProgramOf
<1>3. Len(program) \in Nat /\ Before(job) \in Nat
  BY <1>1, <1>2, PreambleShape DEF Shaped, Before
<1>4. \A r \in Rank : at[r] = 1
  BY <1>1
<1>5. PlaceInv
  BY <1>1, <1>2, <1>3, <1>4 DEF PlaceInv
<1>6. \A r \in Rank : barrier_pc[r] = "outside" /\ left[r] = 0
  BY DEF Init, DB!Init, DB!Rank, Rank
<1>7. CountInv
  BY <1>3, <1>4, <1>6 DEF CountInv, CallsDone
<1>8. ReachedInv
  BY <1>3, <1>4 DEF ReachedInv
<1> QED
  BY <1>5, <1>7, <1>8 DEF RoundInv

\* What a step of process r does to its place: it stays there, or goes on, from
\* a barrier only as that allows.
Moved(r) ==
    /\ UNCHANGED <<np, job, program>>
    /\ \/ at' = at /\ UNCHANGED <<left, barrier_pc>>
       \/ /\ Now(r, "dissemination_barrier")
          /\ at' = at /\ UNCHANGED left
          /\ \A q \in Rank \ {r} : barrier_pc'[q] = barrier_pc[q]
       \/ /\ Now(r, "dissemination_barrier")
          /\ Advance(r) /\ left' = [left EXCEPT ![r] = left[r] + 1]
          /\ barrier_pc' = [barrier_pc EXCEPT ![r] = "outside"]
       \/ /\ at[r] <= Len(program) /\ program[at[r]] # "dissemination_barrier"
          /\ program[at[r]] = "MPI_Barrier" => \A q \in Rank : at[q] >= at[r]
          /\ Advance(r) /\ UNCHANGED <<left, barrier_pc>>

LEMMA StepMoves ==
    ASSUME DBP!Inv, NEW r \in Rank, Step(r)
    PROVE  Moved(r)
<1>0. /\ np \in Nat \ {0} /\ left \in [Rank -> Nat] /\ barrier_pc \in [Rank -> DBP!Place]
      /\ left[r] \in Nat
  <2>1. DBP!Rank = Rank
    BY DEF DBP!Rank, Rank
  <2> QED
    BY <2>1 DEF DBP!Inv, DBP!TypeInv
<1>1. ASSUME dissemination_barrier(r)
      PROVE  Moved(r)
  <2>1. /\ Now(r, "dissemination_barrier") /\ DB!Step(r) /\ UNCHANGED <<job, program>>
        /\ IF left'[r] # left[r] THEN Advance(r) ELSE at' = at
    BY <1>1 DEF dissemination_barrier
  <2>2. CASE DB!Return(r)
    <3>1. /\ left' = [left EXCEPT ![r] = left[r] + 1] /\ UNCHANGED np
          /\ barrier_pc' = [barrier_pc EXCEPT ![r] = "outside"]
      BY <2>2 DEF DB!Return
    <3>2. left'[r] # left[r]
      BY <1>0, <3>1
    <3> QED
      BY <2>1, <3>1, <3>2 DEF Moved
  <2>3. CASE DB!Enter(r) \/ DB!Send(r) \/ DB!Recv(r) \/ DB!NextRound(r)
    <3>1. /\ left' = left /\ UNCHANGED np
          /\ \E w : barrier_pc' = [barrier_pc EXCEPT ![r] = w]
      BY <2>3 DEF DB!Enter, DB!Send, DB!Recv, DB!NextRound
    <3>2. \A q \in Rank \ {r} : barrier_pc'[q] = barrier_pc[q]
      BY <1>0, <3>1
    <3> QED
      BY <2>1, <3>1, <3>2 DEF Moved
  <2> QED
    BY <2>1, <2>2, <2>3 DEF DB!Step
<1>2. ASSUME UNCHANGED <<np, job, program, left, barrier_pc>>,
             NEW op \in Ops \ {"dissemination_barrier", "MPI_Barrier"}, Now(r, op),
             Advance(r) \/ at' = at
      PROVE  Moved(r)
  BY <1>2 DEF Moved, Now
<1>3. ASSUME ReproMPI_Allreduce(r)
      PROVE  Moved(r)
  <2>1. UNCHANGED np
    BY <1>3 DEF ReproMPI_Allreduce, AR!Step, AR!Call, AR!Send, AR!Recv,
       AR!NextBit, AR!Return
  <2>2. UNCHANGED <<job, program, left, barrier_pc>> /\ (Advance(r) \/ at' = at)
    BY <1>3 DEF ReproMPI_Allreduce, barrier_vars
  <2> QED
    BY <1>2, <1>3, <2>1, <2>2 DEF ReproMPI_Allreduce, Ops
<1>4. ASSUME ReproMPI_Bcast(r)
      PROVE  Moved(r)
  <2>1. UNCHANGED np
    BY <1>4 DEF ReproMPI_Bcast, BC!Step, BC!Call, BC!Send, BC!Recv,
       BC!NextChild, BC!Return
  <2>2. UNCHANGED <<job, program, left, barrier_pc>> /\ (Advance(r) \/ at' = at)
    BY <1>4 DEF ReproMPI_Bcast, barrier_vars
  <2> QED
    BY <1>2, <1>4, <2>1, <2>2 DEF ReproMPI_Bcast, Ops
<1>5. ASSUME NEW op, PingPongStep(r, op),
             Now(r, "initialize_data_pingpong") \/ Now(r, "measured")
      PROVE  Moved(r)
  <2>1. UNCHANGED np
    BY <1>5 DEF PingPongStep, PP!Step, PP!Call, PP!Return, PP!Send, PP!Post,
       PP!Sent, PP!Received, PP!Deliver
  <2>2. UNCHANGED <<job, program, left, barrier_pc>> /\ (Advance(r) \/ at' = at)
    BY <1>5 DEF PingPongStep, barrier_vars
  <2> QED
    BY <1>2, <1>5, <2>1, <2>2 DEF Ops
<1>6. ASSUME Measured(r) \/ MPI_Reduce(r)
      PROVE  Moved(r)
  <2>1. UNCHANGED <<np, job, program, left, barrier_pc>> /\ Advance(r)
    BY <1>6 DEF Measured, MPI_Reduce, barrier_vars
  <2>2. Now(r, "measured") \/ Now(r, "MPI_Reduce")
    BY <1>6 DEF Measured, MPI_Reduce
  <2> QED
    BY <1>2, <2>1, <2>2 DEF Ops
<1>7. ASSUME MPI_Barrier(r)
      PROVE  Moved(r)
  <2>1. UNCHANGED <<np, job, program, left, barrier_pc>> /\ Advance(r)
    BY <1>7 DEF MPI_Barrier, barrier_vars
  <2>2. Now(r, "MPI_Barrier") /\ \A q \in Rank : at[q] >= at[r]
    BY <1>7 DEF MPI_Barrier
  <2> QED
    BY <2>1, <2>2 DEF Moved, Now
<1> QED
  BY <1>1, <1>3, <1>4, <1>5, <1>6, <1>7 DEF Step, initialize_data_pingpong, execute_pingpong

LEMMA RoundStep ==
    ASSUME DBP!Inv, RoundInv, NEW r \in Rank, Step(r)
    PROVE  RoundInv'
<1> DEFINE n == Len(program)
           P == Before(job)
<1>1. Moved(r)
  BY StepMoves
<1>2. /\ UNCHANGED <<np, job, program>>
      /\ at' = at \/ Advance(r)
  BY <1>1 DEF Moved
<1>3. Rank' = Rank
  BY <1>2 DEF Rank
<1>4. /\ job \in Jobs /\ at \in [Rank -> Nat] /\ n \in Nat /\ P \in Nat
      /\ \A q \in Rank : at[q] \in 1 .. n + 1
  <2>1. PlaceInv
    BY DEF RoundInv
  <2> QED
    BY <2>1, PreambleShape DEF PlaceInv, Shaped, Before
<1>5. left \in [Rank -> Nat] /\ barrier_pc \in [Rank -> DBP!Place]
  <2>1. DBP!Rank = Rank
    BY DEF DBP!Rank, Rank
  <2> QED
    BY <2>1 DEF DBP!Inv, DBP!TypeInv
<1>6. Advance(r) => at[r] <= n
  <2>1. CASE Now(r, "dissemination_barrier") \/ at[r] <= n
    BY <2>1 DEF Now
  <2>2. CASE at' = at
    <3>1. ~Advance(r)
      BY <1>4, <2>2 DEF Advance
    <3> QED
      BY <3>1
  <2> QED
    BY <1>1, <2>1, <2>2 DEF Moved
<1>7. /\ \A q \in Rank \ {r} : at'[q] = at[q]
      /\ at'[r] = at[r] \/ (at'[r] = at[r] + 1 /\ at[r] <= n)
      /\ at' \in [Rank -> Nat]
  BY <1>2, <1>4, <1>6 DEF Advance
<1>8. \A q \in Rank : at'[q] >= at[q] /\ at[q] \in Nat /\ at'[q] \in 1 .. n + 1
  BY <1>4, <1>7
<1>9. PlaceInv'
  BY <1>2, <1>3, <1>7, <1>8 DEF RoundInv, PlaceInv, Shaped, Fenced, Alternating,
     Start, Before, RoundLen
<1>10. ReachedInv'
  <2> SUFFICES ASSUME NEW i \in 1 .. n, program[i] = "MPI_Barrier",
                      NEW p \in Rank, NEW q \in Rank, at'[p] > i
               PROVE  at'[q] >= i
    BY <1>2, <1>3 DEF ReachedInv
  <2>1. CASE at[p] > i
    <3>1. at[q] >= i
      BY <2>1 DEF RoundInv, ReachedInv
    <3> QED
      BY <1>4, <1>8, <3>1
  <2>2. CASE ~(at[p] > i)
    <3>1. p = r /\ at[r] = i /\ at'[r] = at[r] + 1
      BY <1>4, <1>7, <1>8, <2>2
    <3>2. at' # at
      BY <1>8, <3>1
    <3>3. \A x \in Rank : at[x] >= at[r]
      BY <1>1, <3>1, <3>2 DEF Moved, Now
    <3> QED
      BY <1>4, <1>8, <3>1, <3>3
  <2> QED
    BY <2>1, <2>2
<1>11. ASSUME NEW q \in Rank, q # r
       PROVE  /\ barrier_pc'[q] = barrier_pc[q] /\ left'[q] = left[q] /\ at'[q] = at[q]
  BY <1>1, <1>5, <1>7, <1>11 DEF Moved
<1>12. ASSUME NEW q \in Rank, barrier_pc'[q] # "outside"
       PROVE  Now(q, "dissemination_barrier")'
  <2>1. barrier_pc[q] # "outside" => Now(q, "dissemination_barrier")
    BY DEF RoundInv, CountInv
  <2>2. CASE q # r
    BY <1>2, <1>11, <1>12, <2>1, <2>2 DEF Now
  <2>3. CASE q = r
    BY <1>1, <1>2, <1>5, <1>12, <2>1, <2>3 DEF Moved, Now
  <2> QED
    BY <2>2, <2>3
<1>13. ASSUME job.module = "dissem_barrier", NEW q \in Rank
       PROVE  CallsDone(q)'
  <2>1. CallsDone(q)
    BY <1>13 DEF RoundInv, CountInv
  <2>2. Before(job)' = P
    BY <1>2 DEF Before
  <2>3. CASE q # r
    BY <1>11, <2>1, <2>2, <2>3 DEF CallsDone
  <2>4. CASE q = r /\ at' = at /\ UNCHANGED left
    BY <2>1, <2>2, <2>4 DEF CallsDone
  <2>5. ASSUME at[r] <= n
        PROVE  program[at[r]] = "dissemination_barrier" <=>
                   at[r] > P /\ (at[r] - P) % 2 = 1
    <3>1. at[r] \in 1 .. n
      BY <1>4, <2>5
    <3> QED
      BY <1>13, <3>1 DEF RoundInv, PlaceInv, Shaped, Alternating
  <2> DEFINE a == at[r]
             l == left[r]
  <2>6. a \in Nat /\ l \in Nat
    BY <1>4, <1>5
  <2>7. CASE q = r /\ Now(r, "dissemination_barrier") /\ Advance(r) /\ left' = [left EXCEPT ![r] = left[r] + 1]
    <3>1. a > P /\ (a - P) % 2 = 1 /\ at'[r] = a + 1 /\ left'[r] = l + 1
      BY <1>4, <1>5, <2>5, <2>7 DEF Now, Advance
    <3>2. (l = 0 /\ a <= P + 1) \/ (l >= 1 /\ (a = P + 2 * l \/ a = P + 2 * l + 1))
      BY <2>1, <2>7 DEF CallsDone
    <3> HIDE DEF a, l, P
    <3>3. a # P + 2 * l
      <4>1. (2 * l) % 2 = 0 /\ (a = P + 2 * l => a - P = 2 * l)
        BY <1>4, <2>6
      <4> QED
        BY <3>1, <4>1
    <3>4. a + 1 = P + 2 * (l + 1) /\ l + 1 >= 1
      BY <1>4, <2>6, <3>1, <3>2, <3>3
    <3> QED
      BY <2>2, <2>7, <3>1, <3>4 DEF CallsDone
  <2>8. CASE q = r /\ a <= n /\ program[a] # "dissemination_barrier" /\ Advance(r) /\ UNCHANGED left
    <3>1. ~(a > P /\ (a - P) % 2 = 1) /\ at'[r] = a + 1 /\ left'[r] = l
      BY <1>4, <2>5, <2>8 DEF Advance
    <3>2. (l = 0 /\ a <= P + 1) \/ (l >= 1 /\ (a = P + 2 * l \/ a = P + 2 * l + 1))
      BY <2>1, <2>8 DEF CallsDone
    <3> HIDE DEF a, l, P
    <3>3. a > P => a # P + 2 * l + 1
      <4>1. (2 * l + 1) % 2 = 1 /\ (a = P + 2 * l + 1 => a - P = 2 * l + 1)
        BY <1>4, <2>6
      <4> QED
        BY <3>1, <4>1
    <3>4. (l = 0 /\ a + 1 <= P + 1) \/ (l >= 1 /\ a + 1 = P + 2 * l + 1)
      BY <1>4, <2>6, <3>2, <3>3
    <3> QED
      BY <2>2, <2>8, <3>1, <3>4 DEF CallsDone
  <2> QED
    BY <1>1, <2>3, <2>4, <2>7, <2>8 DEF Moved
<1>14. CountInv'
  BY <1>2, <1>3, <1>12, <1>13 DEF CountInv
<1> QED
  BY <1>9, <1>10, <1>14 DEF RoundInv

LEMMA RoundInvStep ==
    ASSUME DBP!Inv, RoundInv, [Next]_vars
    PROVE  RoundInv'
<1>1. CASE \E r \in Rank : Step(r)
  BY <1>1, RoundStep
<1>2. CASE UNCHANGED vars
  <2>1. UNCHANGED <<np, job, program, at, left, barrier_pc>>
    BY <1>2 DEF vars, barrier_vars
  <2> QED
    BY <2>1 DEF RoundInv, PlaceInv, CountInv, CallsDone, ReachedInv, Shaped, Fenced,
       Alternating, Start, Before, RoundLen, Now, Rank
<1> QED
  BY <1>1, <1>2 DEF Next, Ended

\* Behind any barrier, all others have reached it.
LEMMA BarrierReached ==
    ASSUME DBP!Inv, RoundInv, NEW i \in 1 .. Len(program), program[i] \in Barriers,
           NEW r \in Rank, NEW q \in Rank, at[r] > i
    PROVE  at[q] >= i
<1>1. CASE program[i] = "MPI_Barrier"
  BY <1>1 DEF RoundInv, ReachedInv
<1>2. CASE program[i] = "dissemination_barrier"
  <2> DEFINE P == Before(job)
  <2>1. /\ job \in Jobs /\ P \in Nat /\ i \in Nat /\ Len(program) \in Nat
        /\ at[r] \in Nat /\ at[q] \in Nat
    BY PreambleShape DEF RoundInv, PlaceInv, Shaped, Before
  <2>2. /\ entered[q] >= left[r] /\ left[r] \in Nat /\ left[q] \in Nat /\ entered[q] \in Nat
        /\ entered[q] = left[q] \/ (entered[q] - 1 = left[q] /\ barrier_pc[q] # "outside")
    <3>1. DBP!Rank = Rank
      BY DEF DBP!Rank, Rank
    <3> QED
      BY <3>1 DEF DBP!Inv, DBP!TypeInv, DBP!LeftInv, DBP!ControlInv
  <2>3. job.module = "dissem_barrier" /\ i > P /\ (i - P) % 2 = 1
    BY <1>2 DEF RoundInv, PlaceInv, Shaped, Alternating
  <2>4. CallsDone(r) /\ CallsDone(q)
    BY <2>3 DEF RoundInv, CountInv
  <2>5. PICK k \in Nat : i = P + 2 * k + 1
    <3> DEFINE k == (i - P) \div 2
    <3> HIDE DEF P
    <3>1. k \in Nat /\ i = P + 2 * k + 1
      BY <2>1, <2>3
    <3> QED
      BY <3>1
  <2>6. left[r] >= k + 1
    <3> DEFINE a == at[r]
               l == left[r]
    <3>1. (l = 0 /\ a <= P + 1) \/ (l >= 1 /\ (a = P + 2 * l \/ a = P + 2 * l + 1))
      BY <2>4 DEF CallsDone
    <3>2. a \in Nat /\ l \in Nat /\ a > i
      BY <2>1, <2>2
    <3> HIDE DEF a, l, P
    <3>3. l >= k + 1
      BY <2>1, <2>5, <3>1, <3>2
    <3> QED
      BY <3>3 DEF l
  <2>7. CASE entered[q] = left[q]
    <3> DEFINE a == at[q]
               l == left[q]
    <3>1. (l = 0 /\ a <= P + 1) \/ (l >= 1 /\ (a = P + 2 * l \/ a = P + 2 * l + 1))
      BY <2>4 DEF CallsDone
    <3>2. a \in Nat /\ l \in Nat /\ l >= k + 1
      BY <2>1, <2>2, <2>6, <2>7
    <3> HIDE DEF a, l, P
    <3>3. a >= i
      BY <2>1, <2>5, <3>1, <3>2
    <3> QED
      BY <3>3 DEF a
  <2>8. CASE entered[q] - 1 = left[q] /\ barrier_pc[q] # "outside"
    <3>1. Now(q, "dissemination_barrier")
      BY <2>8 DEF RoundInv, CountInv
    <3>2. at[q] > P /\ (at[q] - P) % 2 = 1
      <4>1. at[q] \in 1 .. Len(program) /\ program[at[q]] = "dissemination_barrier"
        BY <2>1, <3>1 DEF RoundInv, PlaceInv, Now
      <4> QED
        BY <4>1 DEF RoundInv, PlaceInv, Shaped, Alternating
    <3>3. left[q] >= k
      BY <2>2, <2>5, <2>6, <2>8
    <3>4. \/ left[q] = 0 /\ at[q] <= P + 1
          \/ left[q] >= 1 /\ (at[q] = P + 2 * left[q] \/ at[q] = P + 2 * left[q] + 1)
      BY <2>4 DEF CallsDone
    <3> DEFINE a == at[q]
               l == left[q]
    <3> HIDE DEF a, l, P
    <3>5. a \in Nat /\ l \in Nat /\ a > P /\ (a - P) % 2 = 1
      BY <2>1, <2>2, <3>2 DEF a, l
    <3>6. a # P + 2 * l
      <4>1. (2 * l) % 2 = 0 /\ (a = P + 2 * l => a - P = 2 * l)
        BY <2>1, <3>5
      <4> QED
        BY <3>5, <4>1
    <3>7. (l = 0 /\ a <= P + 1) \/ a = P + 2 * l \/ a = P + 2 * l + 1
      BY <3>4 DEF a, l
    <3>8. a = P + 2 * l + 1
      BY <2>1, <3>5, <3>6, <3>7
    <3> QED
      BY <2>1, <2>2, <2>5, <3>3, <3>8 DEF a, l
  <2> QED
    BY <2>2, <2>7, <2>8
<1> QED
  BY <1>1, <1>2 DEF Barriers

LEMMA RoundsApart == DBP!Inv /\ RoundInv => RoundsDoNotOverlap
<1> SUFFICES ASSUME DBP!Inv, RoundInv, job.module # "None",
                    NEW r \in Rank, NEW q \in Rank, Now(r, "measured")
             PROVE  \/ RoundOf(at[q]) = RoundOf(at[r])
                    \/ RoundOf(at[q]) = RoundOf(at[r]) + 1 /\ ~Now(q, "measured")
  BY DEF RoundsDoNotOverlap
<1> DEFINE P == Before(job)
           L == RoundLen(job)
           n == Len(program)
           a == at[r]
           b == at[q]
<1>1. /\ Shaped(job, program) /\ job \in Jobs /\ P \in Nat /\ L \in 1 .. 4 /\ n \in Nat
      /\ a \in Nat /\ b \in Nat /\ a \in 1 .. n /\ b \in 1 .. n + 1 /\ program[a] = "measured"
  <2>1. job \in Jobs /\ job.module \in Modules
    BY JobsAssumption DEF RoundInv, PlaceInv
  <2> QED
    BY <2>1, PreambleShape, RoundShape DEF RoundInv, PlaceInv, Shaped, Before, RoundLen, Now
<1>2. PICK k \in Nat : /\ Start(job, k) < a /\ a < Start(job, k + 1)
                       /\ Start(job, k) \in 1 .. n /\ program[Start(job, k)] \in Barriers
                       /\ Start(job, k + 1) <= n + 1
                       /\ Start(job, k + 1) <= n => program[Start(job, k + 1)] \in Barriers
  BY <1>1 DEF Shaped, Fenced
<1> DEFINE s == Start(job, k)
           z == Start(job, k + 1)
<1>3. /\ s = P + k * L + 1 /\ z = s + L /\ k * L \in Nat
  <2>1. CASE L = 1
    BY <1>1, <2>1 DEF Start
  <2>2. CASE L = 2
    BY <1>1, <2>2 DEF Start
  <2>3. CASE L = 3
    BY <1>1, <2>3 DEF Start
  <2>4. CASE L = 4
    BY <1>1, <2>4 DEF Start
  <2> QED
    BY <1>1, <2>1, <2>2, <2>3, <2>4
<1>4. s \in Int /\ z \in Int
  <2> DEFINE y == k * L
  <2>1. P \in Nat /\ L \in Nat /\ y \in Nat /\ s = P + y + 1 /\ z = s + L
    BY <1>1, <1>3
  <2> HIDE DEF s, z, P, L, y
  <2> QED
    BY <2>1
\* r has passed the barrier of its round, q has not passed the next.
<1>5. b >= s
  <2>1. s \in 1 .. n /\ program[s] \in Barriers /\ at[r] > s
    BY <1>1, <1>2, <1>4
  <2> HIDE DEF s
  <2> QED
    BY <2>1, BarrierReached
<1>6. b <= z
  <2> SUFFICES ASSUME b > z PROVE FALSE
    BY <1>1, <1>4
  <2>1. z \in 1 .. n
    BY <1>1, <1>2, <1>4
  <2>2. program[z] \in Barriers /\ at[q] > z
    BY <1>2, <2>1
  <2>3. at[r] >= z
    <3> HIDE DEF z
    <3> QED
      BY <2>1, <2>2, BarrierReached
  <2> QED
    BY <1>1, <1>2, <1>4, <2>3
<1>7. b = z => ~Now(q, "measured")
  BY <1>2 DEF Now, Barriers
<1>8. \A i \in Int : RoundOf(i) = (i - P - 1) \div L
  BY DEF RoundOf, Before, RoundLen
<1>9. ASSUME NEW i \in Int, s <= i, i < z
      PROVE  RoundOf(i) = k
  <2> HIDE DEF P, L, s, z
  <2>1. i - P - 1 \in Nat /\ k * L <= i - P - 1 /\ i - P - 1 < k * L + L
    BY <1>1, <1>3, <1>9
  <2>2. CASE L = 1
    BY <1>8, <2>1, <2>2
  <2>3. CASE L = 2
    BY <1>8, <2>1, <2>3
  <2>4. CASE L = 3
    BY <1>8, <2>1, <2>4
  <2>5. CASE L = 4
    BY <1>8, <2>1, <2>5
  <2> QED
    BY <1>1, <2>2, <2>3, <2>4, <2>5
<1>10. RoundOf(z) = k + 1
  <2> HIDE DEF P, L, s, z
  <2>1. z - P - 1 = k * L + L /\ z \in Int
    BY <1>1, <1>3, <1>4
  <2>2. CASE L = 1
    BY <1>8, <2>1, <2>2
  <2>3. CASE L = 2
    BY <1>8, <2>1, <2>3
  <2>4. CASE L = 3
    BY <1>8, <2>1, <2>4
  <2>5. CASE L = 4
    BY <1>8, <2>1, <2>5
  <2> QED
    BY <1>1, <2>2, <2>3, <2>4, <2>5
<1>11. RoundOf(a) = k
  BY <1>1, <1>2, <1>4, <1>9
<1>12. CASE b = z
  BY <1>7, <1>10, <1>11, <1>12
<1>13. CASE b # z
  <2>1. RoundOf(b) = k
    BY <1>1, <1>4, <1>5, <1>6, <1>9, <1>13
  <2> QED
    BY <1>11, <2>1
<1> QED
  BY <1>12, <1>13

\* With every module but None the rounds of the processes do not overlap: no
\* process is still in, or already past, another round's synchronisation while
\* one is in the measured call (the start_sync functions of sync/process_sync
\* and the loop of reproMPIbenchmark.c).
THEOREM RoundsStayApart == Spec => []RoundsDoNotOverlap
<1>1. Init => DBP!Inv /\ RoundInv
  BY BarrierInit, RoundInit
<1>2. DBP!Inv /\ RoundInv /\ [Next]_vars => DBP!Inv' /\ RoundInv'
  BY BarrierInvStep, RoundInvStep
<1> QED
  BY <1>1, <1>2, RoundsApart, PTL DEF Spec

-----------------------------------------------------------------------------
(* The powers of two in the broadcast and the allreduce.                   *)

LEMMA LeastNumber ==
    ASSUME NEW S \in SUBSET Nat, S # {}
    PROVE  \E n \in S : \A m \in S : n <= m
<1> DEFINE Less == {ss \in Nat \X Nat : ss[1] < ss[2]}
<1>1. IsWellFoundedOn(Less, Nat)
  BY NatLessThanWellFounded DEF OpToRel
<1>2. PICK n \in S : \A m \in S : ~ (<<m, n>> \in Less)
  BY <1>1, WFMin
<1>3. \A m \in S : n <= m
  <2> SUFFICES ASSUME NEW m \in S PROVE n <= m
    OBVIOUS
  <2>1. ~(m < n) /\ m \in Nat /\ n \in Nat
    BY <1>2
  <2> QED
    BY <2>1
<1> QED
  BY <1>3

\* f is the function with f[0] = a and f[i] = G[f[i - 1], i], up to n.
Follows(f, a, G, n) == /\ f[0] = a
                       /\ \A i \in 1 .. n : f[i] = G[<<f[i - 1], i>>]

LEMMA FollowsUnique ==
    ASSUME NEW a, NEW G, NEW n \in Nat, NEW m \in Nat, n <= m, NEW f, NEW g,
           Follows(f, a, G, n), Follows(g, a, G, m)
    PROVE  \A i \in 0 .. n : f[i] = g[i]
<1> DEFINE S == {i \in 0 .. n : f[i] # g[i]}
<1> SUFFICES ASSUME S # {} PROVE FALSE
  OBVIOUS
<1>0. S \in SUBSET Nat
  OBVIOUS
<1>1. PICK i \in S : \A j \in S : i <= j
  <2> HIDE DEF S
  <2> QED
    BY <1>0, LeastNumber
<1>2. i # 0
  BY DEF Follows
<1>3. i - 1 \in 0 .. n /\ i - 1 \notin S
  BY <1>1, <1>2
<1>4. f[i - 1] = g[i - 1] /\ i \in 1 .. n /\ i \in 1 .. m
  BY <1>1, <1>2, <1>3
<1>5. f[i] = g[i]
  BY <1>4 DEF Follows
<1> QED
  BY <1>5

\* A function can be defined by recursion on the numbers.
LEMMA RecursiveFunction ==
    ASSUME NEW a \in Nat, NEW G \in [Nat \X Nat -> Nat]
    PROVE  \E f \in [Nat -> Nat] :
               f[0] = a /\ \A n \in Nat \ {0} : f[n] = G[<<f[n - 1], n>>]
<1> DEFINE Upto(n) == {f \in [Nat -> Nat] : Follows(f, a, G, n)}
           Missing == {n \in Nat : Upto(n) = {}}
<1>1. Missing = {}
  <2> SUFFICES ASSUME Missing # {} PROVE FALSE
    OBVIOUS
  <2>1. PICK n \in Missing : \A m \in Missing : n <= m
    BY LeastNumber
  <2>2. n # 0
    <3>1. [i \in Nat |-> a] \in Upto(0)
      BY DEF Follows
    <3> QED
      BY <3>1, <2>1
  <2>a. n \in Nat /\ n - 1 \in Nat
    BY <2>2
  <2>3. n - 1 \in Nat /\ n - 1 \notin Missing
    <3> HIDE DEF Missing
    <3> QED
      BY <2>1, <2>a
  <2>4. PICK f \in [Nat -> Nat] : Follows(f, a, G, n - 1)
    <3>1. Upto(n - 1) # {}
      <4> HIDE DEF Upto
      <4> QED
        BY <2>3
    <3> QED
      BY <3>1
  <2> DEFINE g == [f EXCEPT ![n] = G[<<f[n - 1], n>>]]
  <2>5. g \in [Nat -> Nat]
    <3>1. f[n - 1] \in Nat /\ n \in Nat
      BY <2>3, <2>4
    <3>2. G[<<f[n - 1], n>>] \in Nat
      BY <3>1
    <3> QED
      BY <2>4, <3>1, <3>2
  <2>6. Follows(g, a, G, n)
    <3>1. g[0] = a /\ g[n] = G[<<g[n - 1], n>>]
      BY <2>2, <2>3, <2>4 DEF Follows
    <3>2. \A i \in 1 .. n : i # n => g[i] = G[<<g[i - 1], i>>]
      BY <2>3, <2>4 DEF Follows
    <3> QED
      BY <3>1, <3>2 DEF Follows
  <2> QED
    BY <2>1, <2>5, <2>6
<1>2. \A n \in Nat : \E f \in [Nat -> Nat] : Follows(f, a, G, n)
  BY <1>1
<1> DEFINE F(n) == CHOOSE f \in [Nat -> Nat] : Follows(f, a, G, n)
           h == [n \in Nat |-> F(n)[n]]
<1>3. \A n \in Nat : F(n) \in [Nat -> Nat] /\ Follows(F(n), a, G, n)
  BY <1>2
<1> HIDE DEF F
<1>4. h \in [Nat -> Nat]
  BY <1>3
<1>5. h[0] = a
  BY <1>3 DEF Follows
<1>6. ASSUME NEW n \in Nat \ {0} PROVE h[n] = G[<<h[n - 1], n>>]
  <2>1. n - 1 \in Nat /\ n - 1 <= n /\ n \in 1 .. n
    OBVIOUS
  <2>2. F(n - 1)[n - 1] = F(n)[n - 1]
    BY <1>3, <2>1, FollowsUnique
  <2>3. F(n)[n] = G[<<F(n)[n - 1], n>>]
    BY <1>3, <2>1 DEF Follows
  <2> QED
    BY <2>1, <2>2, <2>3
<1> QED
  BY <1>4, <1>5, <1>6

LEMMA FirstDDef ==
    /\ BC!FirstD \in [Nat -> Nat] /\ BC!FirstD[0] = 1
    /\ \A r \in Nat \ {0} : BC!FirstD[r] = IF r >= BC!FirstD[r - 1] THEN 2 * BC!FirstD[r - 1]
                                                               ELSE BC!FirstD[r - 1]
<1> DEFINE G == [x \in Nat \X Nat |-> IF x[2] >= x[1] THEN 2 * x[1] ELSE x[1]]
<1>1. G \in [Nat \X Nat -> Nat]
  OBVIOUS
<1>2. PICK f \in [Nat -> Nat] : f[0] = 1 /\ \A n \in Nat \ {0} : f[n] = G[<<f[n - 1], n>>]
  <2> HIDE DEF G
  <2>1. 1 \in Nat
    OBVIOUS
  <2> QED
    BY <1>1, <2>1, RecursiveFunction
<1>3. \A n \in Nat \ {0} : f[n] = IF n >= f[n - 1] THEN 2 * f[n - 1] ELSE f[n - 1]
  <2> SUFFICES ASSUME NEW n \in Nat \ {0} PROVE f[n] = IF n >= f[n - 1] THEN 2 * f[n - 1] ELSE f[n - 1]
    OBVIOUS
  <2>1. n - 1 \in Nat
    OBVIOUS
  <2> QED
    BY <1>2, <2>1
<1> HIDE DEF G
<1>4. f = [r \in Nat |-> IF r = 0 THEN 1 ELSE IF r >= f[r - 1] THEN 2 * f[r - 1] ELSE f[r - 1]]
  BY <1>2, <1>3
<1>5. BC!FirstD = [r \in Nat |-> IF r = 0 THEN 1 ELSE IF r >= BC!FirstD[r - 1] THEN 2 * BC!FirstD[r - 1] ELSE BC!FirstD[r - 1]]
  BY <1>4 DEF BC!FirstD
<1>6. /\ BC!FirstD[0] = 1
      /\ \A r \in Nat \ {0} : BC!FirstD[r] = IF r >= BC!FirstD[r - 1] THEN 2 * BC!FirstD[r - 1] ELSE BC!FirstD[r - 1]
  BY <1>5
<1>7. \A r \in Nat : BC!FirstD[r] \in Nat
  <2> DEFINE S == {r \in Nat : BC!FirstD[r] \notin Nat}
  <2> SUFFICES ASSUME S # {} PROVE FALSE
    OBVIOUS
  <2>1. S \in SUBSET Nat
    OBVIOUS
  <2>2. PICK r \in S : \A q \in S : r <= q
    <3> HIDE DEF S
    <3> QED
      BY <2>1, LeastNumber
  <2>3. r \in Nat \ {0}
    BY <1>6
  <2>4. r - 1 \in Nat /\ r - 1 \notin S
    BY <2>2, <2>3
  <2> QED
    BY <1>6, <2>3, <2>4
<1>8. DOMAIN BC!FirstD = Nat
  BY <1>5
<1>9. BC!FirstD = [r \in DOMAIN BC!FirstD |-> BC!FirstD[r]]
  BY <1>5
<1> HIDE DEF BC!FirstD
<1> QED
  BY <1>6, <1>7, <1>8, <1>9

-----------------------------------------------------------------------------
(* The tree of the broadcast.                                              *)

\* d after the first loop: the power of two above the rank, no more than its
\* double.
LEMMA FirstDIs ==
    \A r \in Nat : /\ DBP!IsHop(BC!FirstD[r]) /\ BC!FirstD[r] \in Nat /\ r < BC!FirstD[r]
                   /\ r = 0 => BC!FirstD[r] = 1
                   /\ r # 0 => \E h \in Nat : DBP!IsHop(h) /\ BC!FirstD[r] = 2 * h /\ h <= r
<1> DEFINE F(r) == BC!FirstD[r]
           Good(r) == /\ DBP!IsHop(F(r)) /\ r < F(r)
                      /\ r # 0 => \E h \in Nat : DBP!IsHop(h) /\ F(r) = 2 * h /\ h <= r
           S == {r \in Nat : ~Good(r)}
<1>0. F(0) = 1 /\ \A r \in Nat : F(r) \in Nat
  BY FirstDDef
<1>1. Good(0)
  BY <1>0, DBP!OneIsHop
<1>2. ASSUME NEW r \in Nat \ {0}, Good(r - 1)
      PROVE  Good(r)
  <2>0. /\ F(r) = IF r >= F(r - 1) THEN 2 * F(r - 1) ELSE F(r - 1)
        /\ r - 1 \in Nat /\ F(r) \in Nat /\ F(r - 1) \in Nat
    BY <1>0, FirstDDef
  <2> HIDE DEF F
  <2>1. CASE r >= F(r - 1)
    <3>1. F(r - 1) = r /\ F(r) = 2 * r
      BY <1>2, <2>0, <2>1
    <3>2. DBP!IsHop(r)
      BY <1>2, <3>1
    <3>3. DBP!IsHop(F(r))
      BY <3>1, <3>2, DBP!DoubleIsHop
    <3> QED
      BY <3>1, <3>2, <3>3
  <2>2. CASE ~(r >= F(r - 1))
    <3>1. F(r) = F(r - 1)
      BY <2>0, <2>2
    <3>2. r - 1 # 0
      <4> SUFFICES ASSUME r - 1 = 0 PROVE FALSE
        OBVIOUS
      <4>1. F(r - 1) = 1 /\ r = 1
        BY <1>0
      <4> QED
        BY <2>2, <4>1
    <3>3. PICK h \in Nat : DBP!IsHop(h) /\ F(r - 1) = 2 * h /\ h <= r - 1
      BY <1>2, <3>2
    <3> QED
      BY <1>2, <2>0, <2>2, <3>1, <3>3
  <2> QED
    BY <2>1, <2>2
<1>3. S = {}
  <2> SUFFICES ASSUME S # {} PROVE FALSE
    OBVIOUS
  <2>1. S \in SUBSET Nat
    OBVIOUS
  <2> HIDE DEF Good
  <2>2. PICK r \in S : \A q \in S : r <= q
    <3> HIDE DEF S
    <3> QED
      BY <2>1, LeastNumber
  <2>3. r \in Nat \ {0}
    BY <1>1
  <2>4. r - 1 \in Nat /\ r - 1 \notin S
    BY <2>2, <2>3
  <2>5. Good(r)
    BY <1>2, <2>3, <2>4
  <2> QED
    BY <2>5
<1>4. \A r \in Nat : Good(r)
  BY <1>3
<1> QED
  BY <1>0, <1>4

\* A rank receives over its highest power of two, which is a power of two not
\* below the first one that the parent sends over.
LEMMA ParentIs ==
    ASSUME NEW q \in Nat, q # 0
    PROVE  /\ DBP!IsHop(BC!dd(q)) /\ BC!dd(q) \in Nat \ {0} /\ BC!dd(q) <= q
           /\ q < 2 * BC!dd(q) /\ BC!FirstD[q] = 2 * BC!dd(q)
           /\ BC!Parent(q) \in Nat /\ BC!Parent(q) = q - BC!dd(q)
           /\ BC!FirstD[BC!Parent(q)] <= BC!dd(q)
<1>1. PICK h \in Nat : DBP!IsHop(h) /\ BC!FirstD[q] = 2 * h /\ h <= q
  BY FirstDIs
<1>2. h # 0 /\ (2 * h) \div 2 = h
  BY <1>1, DBP!HopPositive
<1>3. BC!dd(q) = h
  BY <1>1, <1>2 DEF BC!dd
<1>4. q < 2 * h
  BY <1>1, FirstDIs
<1> DEFINE p == BC!Parent(q)
<1>5. p = q - h /\ p \in Nat /\ p < h
  BY <1>1, <1>3, <1>4 DEF BC!Parent
<1>6. BC!FirstD[p] <= h
  <2> HIDE DEF p
  <2>1. DBP!IsHop(BC!FirstD[p]) /\ BC!FirstD[p] \in Nat
    BY <1>5, FirstDIs
  <2>2. BC!FirstD[p] <= h \/ BC!FirstD[p] >= 2 * h
    BY <1>1, <2>1, DBP!HopGap
  <2>3. CASE p = 0
    BY <1>2, <1>5, <2>3, FirstDIs
  <2>4. CASE p # 0
    <3>1. PICK g \in Nat : BC!FirstD[p] = 2 * g /\ g <= p
      BY <1>5, <2>4, FirstDIs
    <3> QED
      BY <1>5, <2>2, <3>1
  <2> QED
    BY <2>3, <2>4
<1> QED
  BY <1>1, <1>2, <1>3, <1>4, <1>5, <1>6

\* The rank that is sent to over h is a child over h.
LEMMA ChildIs ==
    ASSUME NEW r \in Nat, NEW h \in Nat, DBP!IsHop(h), h >= BC!FirstD[r]
    PROVE  /\ r + h \in Nat \ {0} /\ BC!dd(r + h) = h /\ BC!Parent(r + h) = r
<1>1. r < h /\ h # 0
  BY FirstDIs
<1> DEFINE q == r + h
<1>2. q \in Nat /\ q # 0 /\ h <= q /\ q < 2 * h
  BY <1>1
<1> HIDE DEF q
<1>3. /\ DBP!IsHop(BC!dd(q)) /\ BC!dd(q) \in Nat \ {0} /\ BC!dd(q) <= q
      /\ q < 2 * BC!dd(q) /\ BC!Parent(q) = q - BC!dd(q)
  BY <1>2, ParentIs
<1>4. BC!dd(q) <= h \/ BC!dd(q) >= 2 * h
  BY <1>3, DBP!HopGap
<1>5. h <= BC!dd(q) \/ h >= 2 * BC!dd(q)
  BY <1>3, DBP!HopGap
<1>6. BC!dd(q) = h
  BY <1>2, <1>3, <1>4, <1>5
<1> QED
  BY <1>2, <1>3, <1>6 DEF q

-----------------------------------------------------------------------------
(* The invariant of the broadcast.                                         *)

BcPlace == {"outside", "receiving", "loop", "sending"}

BcTypeInv ==
    /\ np \in Nat \ {0}
    /\ bcasts \in [Rank -> Nat] /\ bcasted \in [Rank -> Nat] /\ buffer \in [Rank -> Nat]
    /\ bcast_pc \in [Rank -> BcPlace] /\ d \in [Rank -> Nat]
    /\ bcast_chan \in [Rank -> [Rank -> Seq(Nat)]]

\* A process has returned from all its calls but the one it is in.  It
\* forwards what this call is to give it, over its own powers of two.
BcControlInv ==
    \A r \in Rank :
        /\ bcasted[r] = IF bcast_pc[r] = "outside" THEN bcasts[r] ELSE bcasts[r] - 1
        /\ bcast_pc[r] # "outside" => DBP!IsHop(d[r]) /\ d[r] >= BC!FirstD[r]
        /\ bcast_pc[r] = "receiving" => r # 0 /\ d[r] = BC!FirstD[r]
        /\ bcast_pc[r] \in {"loop", "sending"} => buffer[r] = bcasts[r]
        /\ bcast_pc[r] = "sending" => r + d[r] < np

\* In how many calls q has got the root's value, and in how many its parent
\* has sent it on to q.
BcGot(q) == IF bcast_pc[q] = "receiving" THEN bcasts[q] - 1 ELSE bcasts[q]
BcSent(q) ==
    LET p == BC!Parent(q)
    IN  IF \/ bcast_pc[p] = "outside"
           \/ bcast_pc[p] \in {"loop", "sending"} /\ d[p] > BC!dd(q)
           \/ bcast_pc[p] = "sending" /\ d[p] = BC!dd(q)
        THEN bcasts[p] ELSE bcasts[p] - 1

\* On the way are the values of the calls between the two, in order.
BcCarries(q) ==
    LET c == bcast_chan[BC!Parent(q)][q]
    IN  /\ Len(c) = BcSent(q) - BcGot(q)
        /\ \A k \in 1 .. Len(c) : c[k] = BcGot(q) + k
BcChanInv == \A q \in Rank \ {0} : BcCarries(q)

\* Nobody has a value that the root has not given.
BcRootInv == \A q \in Rank : BcGot(q) <= bcasts[0]

BcInv == BcTypeInv /\ BcControlInv /\ BcChanInv /\ BcRootInv

LEMMA BcFacts ==
    ASSUME BcTypeInv
    PROVE  /\ np \in Nat \ {0} /\ 0 \in Rank
           /\ \A q \in Rank : /\ q \in Nat /\ q < np
                              /\ bcasts[q] \in Nat /\ bcasted[q] \in Nat /\ buffer[q] \in Nat
                              /\ bcast_pc[q] \in BcPlace /\ d[q] \in Nat
                              /\ BcGot(q) \in Int
           /\ \A q \in Rank \ {0} : /\ BC!Parent(q) \in Rank /\ BC!dd(q) \in Nat \ {0}
                                    /\ DBP!IsHop(BC!dd(q)) /\ BcSent(q) \in Int
                                    /\ BC!Parent(q) + BC!dd(q) = q
                                    /\ BC!FirstD[BC!Parent(q)] <= BC!dd(q)
           /\ \A p, q \in Rank : bcast_chan[p][q] \in Seq(Nat)
<1>1. np \in Nat \ {0} /\ 0 \in Rank /\ \A q \in Rank : q \in Nat /\ q < np
  BY DEF BcTypeInv, Rank
<1>2. \A q \in Rank : /\ bcasts[q] \in Nat /\ bcasted[q] \in Nat /\ buffer[q] \in Nat
                      /\ bcast_pc[q] \in BcPlace /\ d[q] \in Nat
  BY DEF BcTypeInv
<1>3. \A q \in Rank : BcGot(q) \in Int
  BY <1>2 DEF BcGot
<1>4. ASSUME NEW q \in Rank \ {0}
      PROVE  /\ BC!Parent(q) \in Rank /\ BC!dd(q) \in Nat \ {0} /\ DBP!IsHop(BC!dd(q))
             /\ BC!Parent(q) + BC!dd(q) = q
             /\ BC!FirstD[BC!Parent(q)] <= BC!dd(q)
  <2>1. q \in Nat /\ q # 0 /\ q < np
    BY <1>1
  <2>2. /\ DBP!IsHop(BC!dd(q)) /\ BC!dd(q) \in Nat \ {0} /\ BC!dd(q) <= q
        /\ BC!Parent(q) \in Nat /\ BC!Parent(q) = q - BC!dd(q)
        /\ BC!FirstD[BC!Parent(q)] <= BC!dd(q)
    BY <2>1, ParentIs
  <2>3. BC!Parent(q) \in Rank
    BY <1>1, <2>1, <2>2 DEF Rank
  <2> QED
    BY <2>1, <2>2, <2>3
<1>5. \A q \in Rank \ {0} : BcSent(q) \in Int
  BY <1>2, <1>4 DEF BcSent
<1>6. \A p, q \in Rank : bcast_chan[p][q] \in Seq(Nat)
  BY DEF BcTypeInv
<1> QED
  BY <1>1, <1>2, <1>3, <1>4, <1>5, <1>6

LEMMA BcInit ==
    ASSUME BC!Init, Sizes \subseteq Nat \ {0}
    PROVE  BcInv
<1>0. /\ np \in Nat \ {0} /\ Rank = BC!Rank
      /\ bcasts = [r \in Rank |-> 0] /\ bcasted = [r \in Rank |-> 0] /\ buffer = [r \in Rank |-> 0]
      /\ bcast_pc = [r \in Rank |-> "outside"] /\ d = [r \in Rank |-> 1]
      /\ bcast_chan = [p \in Rank |-> [q \in Rank |-> <<>>]]
  BY DEF BC!Init, BC!Rank, Rank
<1>1. BcTypeInv
  <2>1. <<>> \in Seq(Nat) /\ 0 \in Nat /\ 1 \in Nat /\ "outside" \in BcPlace
    BY DEF BcPlace
  <2> QED
    BY <1>0, <2>1 DEF BcTypeInv
<1>2. BcControlInv
  BY <1>0 DEF BcControlInv
<1>3. \A q \in Rank : BcGot(q) = 0
  BY <1>0 DEF BcGot
<1>4. \A q \in Rank \ {0} : BcSent(q) = 0
  BY <1>0, <1>1, BcFacts DEF BcSent
<1>5. \A q \in Rank \ {0} : bcast_chan[BC!Parent(q)][q] = <<>>
  BY <1>0, <1>1, BcFacts
<1>6. BcChanInv
  BY <1>3, <1>4, <1>5 DEF BcChanInv, BcCarries
<1>7. BcRootInv
  BY <1>0, <1>1, <1>3, BcFacts DEF BcRootInv
<1> QED
  BY <1>1, <1>2, <1>6, <1>7 DEF BcInv

-----------------------------------------------------------------------------
(* Its steps.                                                              *)

\* What a step of r does to everything but the channels.
BcMoves(r) ==
    /\ np' = np
    /\ \A q \in Rank \ {r} : /\ bcasts'[q] = bcasts[q] /\ bcasted'[q] = bcasted[q]
                             /\ buffer'[q] = buffer[q]
                             /\ bcast_pc'[q] = bcast_pc[q] /\ d'[q] = d[q]
    /\ \/ /\ BC!Call(r) /\ bcasts'[r] = bcasts[r] + 1 /\ bcasted'[r] = bcasted[r]
          /\ buffer'[r] = IF r = 0 THEN bcasts[r] + 1 ELSE buffer[r]
          /\ bcast_pc'[r] = IF r = 0 THEN "loop" ELSE "receiving"
          /\ d'[r] = BC!FirstD[r]
       \/ /\ BC!Recv(r) /\ bcasts'[r] = bcasts[r] /\ bcasted'[r] = bcasted[r]
          /\ buffer'[r] = Head(bcast_chan[BC!Parent(r)][r])
          /\ bcast_pc'[r] = "loop" /\ d'[r] = d[r]
       \/ /\ BC!Send(r) /\ bcasts'[r] = bcasts[r] /\ bcasted'[r] = bcasted[r]
          /\ buffer'[r] = buffer[r] /\ bcast_pc'[r] = "sending" /\ d'[r] = d[r]
       \/ /\ BC!NextChild(r) /\ bcasts'[r] = bcasts[r] /\ bcasted'[r] = bcasted[r]
          /\ buffer'[r] = buffer[r] /\ bcast_pc'[r] = "loop" /\ d'[r] = 2 * d[r]
       \/ /\ BC!Return(r) /\ bcasts'[r] = bcasts[r] /\ bcasted'[r] = bcasted[r] + 1
          /\ buffer'[r] = buffer[r] /\ bcast_pc'[r] = "outside" /\ d'[r] = d[r]

LEMMA BcStepMoves ==
    ASSUME BcTypeInv, NEW r \in Rank, BC!Step(r)
    PROVE  BcMoves(r)
<1>0. /\ bcasts \in [Rank -> Nat] /\ bcasted \in [Rank -> Nat] /\ buffer \in [Rank -> Nat]
      /\ bcast_pc \in [Rank -> BcPlace] /\ d \in [Rank -> Nat]
  BY DEF BcTypeInv
<1>1. CASE BC!Call(r)
  BY <1>0, <1>1 DEF BC!Call, BcMoves
<1>2. CASE BC!Recv(r)
  <2>1. /\ np' = np /\ bcasts' = bcasts /\ bcasted' = bcasted /\ d' = d
        /\ buffer' = [buffer EXCEPT ![r] = Head(bcast_chan[BC!Parent(r)][r])]
        /\ bcast_pc' = [bcast_pc EXCEPT ![r] = "loop"]
    BY <1>2 DEF BC!Recv
  <2> QED
    BY <1>0, <1>2, <2>1 DEF BcMoves
<1>3. CASE BC!Send(r)
  <2>1. /\ np' = np /\ bcasts' = bcasts /\ bcasted' = bcasted /\ d' = d /\ buffer' = buffer
        /\ bcast_pc' = [bcast_pc EXCEPT ![r] = "sending"]
    BY <1>3 DEF BC!Send
  <2> QED
    BY <1>0, <1>3, <2>1 DEF BcMoves
<1>4. CASE BC!NextChild(r)
  BY <1>0, <1>4 DEF BC!NextChild, BcMoves
<1>5. CASE BC!Return(r)
  BY <1>0, <1>5 DEF BC!Return, BcMoves
<1> QED
  BY <1>1, <1>2, <1>3, <1>4, <1>5 DEF BC!Step

LEMMA BcSameRanks ==
    ASSUME BcTypeInv, NEW r \in Rank, BC!Step(r)
    PROVE  np' = np /\ Rank' = Rank
<1>1. np' = np
  BY BcStepMoves DEF BcMoves
<1> QED
  BY <1>1 DEF Rank

LEMMA BcTypeStep ==
    ASSUME BcInv, NEW r \in Rank, BC!Step(r)
    PROVE  BcTypeInv'
<1>0. /\ np \in Nat \ {0} /\ np' = np /\ Rank' = Rank
      /\ bcasts \in [Rank -> Nat] /\ bcasted \in [Rank -> Nat] /\ buffer \in [Rank -> Nat]
      /\ bcast_pc \in [Rank -> BcPlace] /\ d \in [Rank -> Nat]
      /\ bcast_chan \in [Rank -> [Rank -> Seq(Nat)]]
      /\ BC!FirstD[r] \in Nat
  <2>1. r \in Nat
    BY BcFacts DEF BcInv
  <2> QED
    BY <2>1, BcSameRanks, FirstDIs DEF BcInv, BcTypeInv
<1>1. CASE BC!Call(r)
  <2>1. bcasts' \in [Rank -> Nat] /\ bcasted' \in [Rank -> Nat] /\ buffer' \in [Rank -> Nat]
    BY <1>0, <1>1 DEF BC!Call
  <2>2. bcast_pc' \in [Rank -> BcPlace] /\ d' \in [Rank -> Nat] /\ bcast_chan' = bcast_chan
    BY <1>0, <1>1 DEF BC!Call, BcPlace
  <2> QED
    BY <1>0, <2>1, <2>2 DEF BcTypeInv
<1>2. CASE BC!Recv(r)
  <2>0. r # 0 /\ BC!Parent(r) \in Rank
    BY <1>2, BcFacts DEF BcInv, BcControlInv, BC!Recv
  <2>1. bcast_chan[BC!Parent(r)][r] \in Seq(Nat) /\ bcast_chan[BC!Parent(r)][r] # <<>>
    BY <1>0, <1>2, <2>0 DEF BC!Recv
  <2>2. /\ Head(bcast_chan[BC!Parent(r)][r]) \in Nat
        /\ Tail(bcast_chan[BC!Parent(r)][r]) \in Seq(Nat)
    BY <2>1
  <2>3. buffer' \in [Rank -> Nat]
    BY <1>0, <1>2, <2>2 DEF BC!Recv
  <2>4. bcast_chan' \in [Rank -> [Rank -> Seq(Nat)]]
    BY <1>0, <1>2, <2>0, <2>2 DEF BC!Recv
  <2>5. bcasts' = bcasts /\ bcasted' = bcasted /\ d' = d /\ bcast_pc' \in [Rank -> BcPlace]
    BY <1>0, <1>2 DEF BC!Recv, BcPlace
  <2> QED
    BY <1>0, <2>3, <2>4, <2>5 DEF BcTypeInv
<1>3. CASE BC!Send(r)
  <2>1. r + d[r] \in Rank
    <3>1. r \in Nat /\ d[r] \in Nat /\ r + d[r] < np /\ np \in Nat
      BY <1>3, BcFacts DEF BcInv, BC!Send
    <3> QED
      BY <3>1 DEF Rank
  <2>2. Append(bcast_chan[r][r + d[r]], buffer[r]) \in Seq(Nat)
    <3>1. bcast_chan[r][r + d[r]] \in Seq(Nat) /\ buffer[r] \in Nat
      BY <1>0, <2>1
    <3> QED
      BY <3>1
  <2>3. bcast_chan' \in [Rank -> [Rank -> Seq(Nat)]]
    BY <1>0, <1>3, <2>1, <2>2 DEF BC!Send
  <2>4. /\ bcasts' = bcasts /\ bcasted' = bcasted /\ d' = d /\ buffer' = buffer
        /\ bcast_pc' \in [Rank -> BcPlace]
    BY <1>0, <1>3 DEF BC!Send, BcPlace
  <2> QED
    BY <1>0, <2>3, <2>4 DEF BcTypeInv
<1>4. CASE BC!NextChild(r)
  BY <1>0, <1>4 DEF BC!NextChild, BcTypeInv, BcPlace
<1>5. CASE BC!Return(r)
  BY <1>0, <1>5 DEF BC!Return, BcTypeInv, BcPlace
<1> QED
  BY <1>1, <1>2, <1>3, <1>4, <1>5 DEF BC!Step

LEMMA BcControlStep ==
    ASSUME BcInv, NEW r \in Rank, BC!Step(r)
    PROVE  BcControlInv'
<1>0. /\ Rank' = Rank /\ np' = np /\ BcMoves(r) /\ BcControlInv
      /\ r \in Nat /\ DBP!IsHop(BC!FirstD[r]) /\ BC!FirstD[r] \in Nat /\ BC!FirstD[0] = 1
      /\ \A q \in Rank : /\ bcasts[q] \in Nat /\ bcasted[q] \in Nat /\ d[q] \in Nat
                         /\ bcast_pc[q] \in BcPlace
      /\ 0 \in Rank
  BY BcSameRanks, BcStepMoves, BcFacts, FirstDIs DEF BcInv
<1> SUFFICES ASSUME NEW q \in Rank
             PROVE  /\ bcasted'[q] = IF bcast_pc'[q] = "outside" THEN bcasts'[q] ELSE bcasts'[q] - 1
                    /\ bcast_pc'[q] # "outside" => DBP!IsHop(d'[q]) /\ d'[q] >= BC!FirstD[q]
                    /\ bcast_pc'[q] = "receiving" => q # 0 /\ d'[q] = BC!FirstD[q]
                    /\ bcast_pc'[q] \in {"loop", "sending"} => buffer'[q] = bcasts'[q]
                    /\ bcast_pc'[q] = "sending" => q + d'[q] < np
  BY <1>0 DEF BcControlInv
<1>1. CASE q # r
  BY <1>0, <1>1 DEF BcMoves, BcControlInv
<1>2. CASE q = r
  <2>1. CASE BC!Call(r)
    <3>1. /\ bcasts'[r] = bcasts[r] + 1 /\ bcasted'[r] = bcasted[r]
          /\ buffer'[r] = IF r = 0 THEN bcasts[r] + 1 ELSE buffer[r]
          /\ bcast_pc'[r] = IF r = 0 THEN "loop" ELSE "receiving"
          /\ d'[r] = BC!FirstD[r] /\ bcast_pc[r] = "outside"
      BY <1>0, <2>1 DEF BcMoves, BC!Call, BC!Recv, BC!Send, BC!NextChild, BC!Return
    <3> QED
      BY <1>0, <1>2, <3>1 DEF BcControlInv
  <2>2. CASE BC!Recv(r)
    <3>1. /\ bcasts'[r] = bcasts[r] /\ bcasted'[r] = bcasted[r]
          /\ buffer'[r] = Head(bcast_chan[BC!Parent(r)][r])
          /\ bcast_pc'[r] = "loop" /\ d'[r] = d[r] /\ bcast_pc[r] = "receiving"
          /\ bcast_chan[BC!Parent(r)][r] # <<>>
      BY <1>0, <2>2 DEF BcMoves, BC!Call, BC!Recv, BC!Send, BC!NextChild, BC!Return
    <3>2. r # 0 /\ BcCarries(r) /\ bcast_chan[BC!Parent(r)][r] \in Seq(Nat)
      BY <1>0, <3>1, BcFacts DEF BcControlInv, BcInv, BcChanInv
    <3>3. Head(bcast_chan[BC!Parent(r)][r]) = BcGot(r) + 1
      <4>1. /\ Len(bcast_chan[BC!Parent(r)][r]) \in Nat \ {0}
            /\ Head(bcast_chan[BC!Parent(r)][r]) = bcast_chan[BC!Parent(r)][r][1]
        BY <3>1, <3>2
      <4> QED
        BY <3>2, <4>1 DEF BcCarries
    <3>4. BcGot(r) = bcasts[r] - 1
      BY <3>1 DEF BcGot
    <3> QED
      BY <1>0, <1>2, <3>1, <3>2, <3>3, <3>4 DEF BcControlInv
  <2>3. CASE BC!Send(r)
    <3>1. /\ bcasts'[r] = bcasts[r] /\ bcasted'[r] = bcasted[r] /\ buffer'[r] = buffer[r]
          /\ bcast_pc'[r] = "sending" /\ d'[r] = d[r] /\ bcast_pc[r] = "loop" /\ r + d[r] < np
      BY <1>0, <2>3 DEF BcMoves, BC!Call, BC!Recv, BC!Send, BC!NextChild, BC!Return
    <3> QED
      BY <1>0, <1>2, <3>1 DEF BcControlInv
  <2>4. CASE BC!NextChild(r)
    <3>1. /\ bcasts'[r] = bcasts[r] /\ bcasted'[r] = bcasted[r] /\ buffer'[r] = buffer[r]
          /\ bcast_pc'[r] = "loop" /\ d'[r] = 2 * d[r] /\ bcast_pc[r] = "sending"
      BY <1>0, <2>4 DEF BcMoves, BC!Call, BC!Recv, BC!Send, BC!NextChild, BC!Return
    <3>2. DBP!IsHop(2 * d[r])
      BY <1>0, <3>1, DBP!DoubleIsHop DEF BcControlInv
    <3> QED
      BY <1>0, <1>2, <3>1, <3>2 DEF BcControlInv
  <2>5. CASE BC!Return(r)
    <3>1. /\ bcasts'[r] = bcasts[r] /\ bcasted'[r] = bcasted[r] + 1
          /\ bcast_pc'[r] = "outside" /\ bcast_pc[r] = "loop"
      BY <1>0, <2>5 DEF BcMoves, BC!Call, BC!Recv, BC!Send, BC!NextChild, BC!Return
    <3> QED
      BY <1>0, <1>2, <3>1 DEF BcControlInv
  <2> QED
    BY <2>1, <2>2, <2>3, <2>4, <2>5 DEF BC!Step
<1> QED
  BY <1>1, <1>2

\* What the sender and the receiver of a channel count, after a step of r.
LEMMA BcCounts ==
    ASSUME BcInv, NEW r \in Rank, BC!Step(r), NEW q \in Rank \ {0}
    PROVE  /\ BcGot(q)' = IF BC!Recv(r) /\ q = r THEN BcGot(q) + 1 ELSE BcGot(q)
           /\ BcSent(q)' = IF BC!Send(r) /\ q = r + d[r] THEN BcSent(q) + 1 ELSE BcSent(q)
           /\ BC!Send(r) /\ q = r + d[r] => BC!Parent(q) = r /\ BcSent(q)' = bcasts[r]
<1>0. /\ Rank' = Rank /\ np' = np /\ BcMoves(r) /\ BcControlInv /\ BC!FirstD[r] \in Nat
      /\ \A x \in Rank : /\ x \in Nat /\ x < np /\ bcasts[x] \in Nat /\ d[x] \in Nat
                         /\ bcast_pc[x] \in BcPlace
      /\ BC!Parent(q) \in Rank /\ BC!dd(q) \in Nat \ {0}
      /\ DBP!IsHop(BC!dd(q)) /\ BC!Parent(q) + BC!dd(q) = q
      /\ BC!FirstD[BC!Parent(q)] <= BC!dd(q)
  BY BcSameRanks, BcStepMoves, BcFacts, FirstDIs DEF BcInv
<1> DEFINE p == BC!Parent(q)
           h == BC!dd(q)
<1>a. BC!Parent(q)' = p /\ BC!dd(q)' = h
  OBVIOUS
<1> HIDE DEF p, h
<1>b. /\ BcSent(q) = IF \/ bcast_pc[p] = "outside"
                        \/ bcast_pc[p] \in {"loop", "sending"} /\ d[p] > h
                        \/ bcast_pc[p] = "sending" /\ d[p] = h
                     THEN bcasts[p] ELSE bcasts[p] - 1
      /\ BcSent(q)' = IF \/ bcast_pc'[p] = "outside"
                         \/ bcast_pc'[p] \in {"loop", "sending"} /\ d'[p] > h
                         \/ bcast_pc'[p] = "sending" /\ d'[p] = h
                      THEN bcasts'[p] ELSE bcasts'[p] - 1
      /\ BcGot(q) = IF bcast_pc[q] = "receiving" THEN bcasts[q] - 1 ELSE bcasts[q]
      /\ BcGot(q)' = IF bcast_pc'[q] = "receiving" THEN bcasts'[q] - 1 ELSE bcasts'[q]
  BY <1>a DEF BcSent, BcGot, p, h
<1>c. p \in Rank /\ h \in Nat \ {0} /\ DBP!IsHop(h) /\ p + h = q /\ BC!FirstD[p] <= h /\ q < np
  BY <1>0 DEF p, h
<1>d. p # r => BcSent(q)' = BcSent(q)
  BY <1>0, <1>b, <1>c DEF BcMoves
<1>e. q # r => BcGot(q)' = BcGot(q)
  BY <1>0, <1>b DEF BcMoves
<1>f. p = r /\ q = r + d[r] => h = d[r]
  BY <1>0, <1>c
<1>g. bcast_pc[r] = "loop" /\ q = r + d[r] => p = r
  BY <1>0, ChildIs DEF BcControlInv, p
<1>1. CASE BC!Call(r)
  <2>1. /\ bcasts'[r] = bcasts[r] + 1
        /\ bcast_pc'[r] = IF r = 0 THEN "loop" ELSE "receiving"
        /\ d'[r] = BC!FirstD[r] /\ bcast_pc[r] = "outside" /\ ~BC!Send(r) /\ ~BC!Recv(r)
    BY <1>0, <1>1 DEF BcMoves, BC!Call, BC!Recv, BC!Send, BC!NextChild, BC!Return
  <2>2. p = r => BcSent(q)' = BcSent(q)
    BY <1>0, <1>b, <1>c, <2>1
  <2>3. q = r => BcGot(q)' = BcGot(q)
    BY <1>0, <1>b, <2>1
  <2> QED
    BY <1>d, <1>e, <2>1, <2>2, <2>3
<1>2. CASE BC!Recv(r)
  <2>1. /\ bcasts'[r] = bcasts[r] /\ bcast_pc'[r] = "loop" /\ d'[r] = d[r]
        /\ bcast_pc[r] = "receiving" /\ ~BC!Send(r) /\ d[r] = BC!FirstD[r]
    BY <1>0, <1>2 DEF BcMoves, BC!Call, BC!Recv, BC!Send, BC!NextChild, BC!Return, BcControlInv
  <2>2. p = r => BcSent(q)' = BcSent(q)
    BY <1>0, <1>b, <1>c, <2>1
  <2>3. q = r => BcGot(q)' = BcGot(q) + 1
    BY <1>0, <1>b, <2>1
  <2> QED
    BY <1>2, <1>d, <1>e, <2>1, <2>2, <2>3
<1>3. CASE BC!Send(r)
  <2>1. /\ bcasts'[r] = bcasts[r] /\ bcast_pc'[r] = "sending" /\ d'[r] = d[r]
        /\ bcast_pc[r] = "loop" /\ ~BC!Recv(r)
    BY <1>0, <1>3 DEF BcMoves, BC!Call, BC!Recv, BC!Send, BC!NextChild, BC!Return
  <2>2. CASE q = r + d[r]
    <3>1. p = r /\ h = d[r]
      BY <1>f, <1>g, <2>1, <2>2
    <3>2. BcSent(q)' = BcSent(q) + 1 /\ BcSent(q)' = bcasts[r]
      BY <1>0, <1>b, <2>1, <3>1
    <3>3. q = r => BcGot(q)' = BcGot(q)
      BY <1>b, <2>1
    <3> QED
      BY <1>3, <1>e, <2>1, <2>2, <3>1, <3>2, <3>3 DEF p
  <2>3. CASE q # r + d[r]
    <3>1. p = r => h # d[r]
      BY <1>0, <1>c, <2>3
    <3>2. p = r => BcSent(q)' = BcSent(q)
      BY <1>0, <1>b, <1>c, <2>1, <3>1
    <3>3. q = r => BcGot(q)' = BcGot(q)
      BY <1>b, <2>1
    <3> QED
      BY <1>d, <1>e, <2>1, <2>3, <3>2, <3>3
  <2> QED
    BY <2>2, <2>3
<1>4. CASE BC!NextChild(r)
  <2>1. /\ bcasts'[r] = bcasts[r] /\ bcast_pc'[r] = "loop" /\ d'[r] = 2 * d[r]
        /\ bcast_pc[r] = "sending" /\ ~BC!Send(r) /\ ~BC!Recv(r)
    BY <1>0, <1>4 DEF BcMoves, BC!Call, BC!Recv, BC!Send, BC!NextChild, BC!Return
  <2>2. DBP!IsHop(d[r]) /\ d[r] \in Nat \ {0}
    BY <1>0, <2>1, DBP!HopPositive DEF BcControlInv
  <2>3. h <= d[r] \/ h >= 2 * d[r]
    BY <1>c, <2>2, DBP!HopGap
  <2>4. p = r => BcSent(q)' = BcSent(q)
    BY <1>0, <1>b, <1>c, <2>1, <2>2, <2>3
  <2>5. q = r => BcGot(q)' = BcGot(q)
    BY <1>b, <2>1
  <2> QED
    BY <1>d, <1>e, <2>1, <2>4, <2>5
<1>5. CASE BC!Return(r)
  <2>1. /\ bcasts'[r] = bcasts[r] /\ bcast_pc'[r] = "outside"
        /\ bcast_pc[r] = "loop" /\ r + d[r] >= np /\ ~BC!Send(r) /\ ~BC!Recv(r)
    BY <1>0, <1>5 DEF BcMoves, BC!Call, BC!Recv, BC!Send, BC!NextChild, BC!Return
  <2>2. p = r => d[r] > h
    <3>1. r \in Nat /\ d[r] \in Nat /\ np \in Nat
      BY BcFacts DEF BcInv
    <3> QED
      BY <1>c, <2>1, <3>1
  <2>3. p = r => BcSent(q)' = BcSent(q)
    BY <1>0, <1>b, <2>1, <2>2
  <2>4. q = r => BcGot(q)' = BcGot(q)
    BY <1>b, <2>1
  <2> QED
    BY <1>d, <1>e, <2>1, <2>3, <2>4
<1> QED
  BY <1>1, <1>2, <1>3, <1>4, <1>5 DEF BC!Step

LEMMA BcChanStep ==
    ASSUME BcInv, NEW r \in Rank, BC!Step(r)
    PROVE  BcChanInv'
<1>0. /\ Rank' = Rank /\ \A q \in Rank : q \in Nat
      /\ bcast_chan \in [Rank -> [Rank -> Seq(Nat)]] /\ d[r] \in Nat
  <2>1. BcTypeInv
    BY DEF BcInv
  <2>2. bcast_chan \in [Rank -> [Rank -> Seq(Nat)]]
    BY <2>1 DEF BcTypeInv
  <2> QED
    BY <2>1, <2>2, BcSameRanks, BcFacts
<1> SUFFICES ASSUME NEW q \in Rank \ {0}
             PROVE  BcCarries(q)'
  BY <1>0 DEF BcChanInv
<1> DEFINE p == BC!Parent(q)
           c == bcast_chan[p][q]
<1>1. /\ BcGot(q)' = IF BC!Recv(r) /\ q = r THEN BcGot(q) + 1 ELSE BcGot(q)
      /\ BcSent(q)' = IF BC!Send(r) /\ q = r + d[r] THEN BcSent(q) + 1 ELSE BcSent(q)
      /\ BC!Send(r) /\ q = r + d[r] => p = r /\ BcSent(q)' = bcasts[r]
  BY BcCounts
<1>2. p' = p /\ BC!Parent(r)' = BC!Parent(r)
  OBVIOUS
<1> HIDE DEF p
<1>3. /\ Len(c) = BcSent(q) - BcGot(q) /\ \A k \in 1 .. Len(c) : c[k] = BcGot(q) + k
      /\ c \in Seq(Nat) /\ p \in Rank /\ BcSent(q) \in Int /\ BcGot(q) \in Int
  BY BcFacts DEF BcInv, BcChanInv, BcCarries, p
<1>4. /\ Len(c') = BcSent(q)' - BcGot(q)'
      /\ \A k \in 1 .. Len(c') : c'[k] = BcGot(q)' + k
      => BcCarries(q)'
  BY <1>2 DEF BcCarries, p
<1>5. CASE BC!Send(r)
  <2>0. ~BC!Recv(r)
    BY <1>5 DEF BC!Send, BC!Recv
  <2>1. CASE q = r + d[r]
    <3>1. p = r
      BY <1>1, <1>5, <2>1
    <3>2. buffer[r] = bcasts[r]
      BY <1>5 DEF BcInv, BcControlInv, BC!Send
    <3>3. bcast_chan'[p][q] = Append(c, bcasts[r])
      BY <1>0, <1>5, <2>1, <3>1, <3>2 DEF BC!Send
    <3>4. c' = Append(c, bcasts[r]) /\ BcSent(q)' = BcSent(q) + 1 /\ BcSent(q)' = bcasts[r]
          /\ BcGot(q)' = BcGot(q)
      BY <1>1, <1>2, <1>5, <2>0, <2>1, <3>3
    <3>5. /\ Len(Append(c, bcasts[r])) = Len(c) + 1
          /\ \A k \in 1 .. Len(c) : Append(c, bcasts[r])[k] = c[k]
          /\ Append(c, bcasts[r])[Len(c) + 1] = bcasts[r]
          /\ Len(c) \in Nat
      BY <1>3
    <3>6. Len(c') = BcSent(q)' - BcGot(q)'
      BY <1>3, <3>4, <3>5
    <3>7. ASSUME NEW k \in 1 .. Len(c')
          PROVE  c'[k] = BcGot(q)' + k
      <4>1. k \in 1 .. Len(c) \/ k = Len(c) + 1
        BY <3>4, <3>5
      <4>2. CASE k \in 1 .. Len(c)
        BY <1>3, <3>4, <3>5, <4>2
      <4>3. CASE k = Len(c) + 1
        BY <1>3, <3>4, <3>5, <4>3
      <4> QED
        BY <4>1, <4>2, <4>3
    <3> QED
      BY <1>4, <3>6, <3>7
  <2>2. CASE q # r + d[r]
    <3>1. bcast_chan'[p][q] = c
      BY <1>0, <1>3, <1>5, <2>2 DEF BC!Send
    <3> QED
      BY <1>1, <1>2, <1>3, <1>4, <1>5, <2>0, <2>2, <3>1
  <2> QED
    BY <2>1, <2>2
<1>6. CASE BC!Recv(r)
  <2>0. ~BC!Send(r)
    BY <1>6 DEF BC!Send, BC!Recv
  <2>1. CASE q = r
    <3>1. c # <<>> /\ bcast_chan'[p][q] = Tail(c)
      BY <1>0, <1>3, <1>6, <2>1 DEF BC!Recv, p
    <3>2. c' = Tail(c) /\ BcSent(q)' = BcSent(q) /\ BcGot(q)' = BcGot(q) + 1
      BY <1>1, <1>2, <1>6, <2>0, <2>1, <3>1
    <3>3. /\ Len(Tail(c)) = Len(c) - 1 /\ Len(c) \in Nat \ {0}
          /\ \A k \in 1 .. Len(c) - 1 : Tail(c)[k] = c[k + 1]
      BY <1>3, <3>1
    <3>4. Len(c') = BcSent(q)' - BcGot(q)'
      BY <1>3, <3>2, <3>3
    <3>5. ASSUME NEW k \in 1 .. Len(c')
          PROVE  c'[k] = BcGot(q)' + k
      <4>1. k \in 1 .. Len(c) - 1 /\ k + 1 \in 1 .. Len(c)
        BY <3>2, <3>3
      <4>2. c'[k] = BcGot(q) + (k + 1)
        BY <1>3, <3>2, <3>3, <4>1
      <4> QED
        BY <1>3, <3>2, <4>1, <4>2
    <3> QED
      BY <1>4, <3>4, <3>5
  <2>2. CASE q # r
    <3>1. bcast_chan'[p][q] = c
      BY <1>0, <1>3, <1>6, <2>2 DEF BC!Recv
    <3> QED
      BY <1>1, <1>2, <1>3, <1>4, <2>0, <2>2, <3>1
  <2> QED
    BY <2>1, <2>2
<1>7. CASE ~BC!Send(r) /\ ~BC!Recv(r)
  <2>1. bcast_chan' = bcast_chan
    BY <1>7 DEF BC!Step, BC!Call, BC!NextChild, BC!Return
  <2> QED
    BY <1>1, <1>2, <1>3, <1>4, <1>7, <2>1
<1> QED
  BY <1>5, <1>6, <1>7

\* A value on its way has come from the root.
LEMMA BcFromRoot ==
    ASSUME BcInv, NEW r \in Rank, BC!Recv(r)
    PROVE  /\ BcGot(r) = bcasts[r] - 1 /\ bcasts[0] >= bcasts[r]
           /\ Head(bcast_chan[BC!Parent(r)][r]) = bcasts[r]
<1>1. r # 0 /\ bcast_pc[r] = "receiving" /\ bcast_chan[BC!Parent(r)][r] # <<>>
  BY DEF BcInv, BcControlInv, BC!Recv
<1> DEFINE p == BC!Parent(r)
           c == bcast_chan[p][r]
<1>a. p \in Rank
  BY <1>1, BcFacts DEF BcInv
<1>2. /\ p \in Rank /\ c \in Seq(Nat) /\ BcCarries(r) /\ BcGot(p) <= bcasts[0]
      /\ bcasts[p] \in Nat /\ bcasts[r] \in Nat /\ bcasts[0] \in Nat
  <2> HIDE DEF p
  <2>1. BcGot(p) <= bcasts[0]
    BY <1>a DEF BcInv, BcRootInv
  <2>2. BcCarries(r)
    BY <1>1 DEF BcInv, BcChanInv
  <2> QED
    BY <1>a, <2>1, <2>2, BcFacts DEF BcInv
<1>3. BcGot(r) = bcasts[r] - 1
  BY <1>1 DEF BcGot
<1>4. Len(c) \in Nat \ {0} /\ Head(c) = c[1]
  BY <1>1, <1>2
<1>5. Head(c) = bcasts[r]
  <2>1. c[1] = BcGot(r) + 1
    BY <1>2, <1>4 DEF BcCarries
  <2> QED
    BY <1>2, <1>3, <1>4, <2>1
<1>6. BcSent(r) <= BcGot(p)
  BY <1>2 DEF BcSent, BcGot
<1>7. BcSent(r) \in Int /\ BcGot(p) \in Int
  BY <1>1, <1>2, BcFacts DEF BcInv
<1>8. bcasts[r] <= BcSent(r)
  BY <1>2, <1>3, <1>4, <1>7 DEF BcCarries
<1> QED
  BY <1>2, <1>3, <1>5, <1>6, <1>7, <1>8

LEMMA BcRootStep ==
    ASSUME BcInv, NEW r \in Rank, BC!Step(r)
    PROVE  BcRootInv'
<1>0. /\ Rank' = Rank /\ BcMoves(r)
      /\ \A q \in Rank : bcasts[q] \in Nat /\ BcGot(q) \in Int /\ BcGot(q) <= bcasts[0]
      /\ 0 \in Rank
  BY BcSameRanks, BcStepMoves, BcFacts DEF BcInv, BcRootInv
<1>1. bcasts'[0] >= bcasts[0] /\ bcasts'[0] \in Nat
  BY <1>0 DEF BcMoves
<1>2. ASSUME NEW q \in Rank PROVE BcGot(q)' <= bcasts'[0]
  <2>1. CASE q = 0
    <3>1. bcast_pc'[0] # "receiving"
      BY BcControlStep, <1>0 DEF BcControlInv
    <3> QED
      BY <1>0, <1>1, <2>1, <3>1 DEF BcGot
  <2>2. CASE q # 0 /\ BC!Recv(r) /\ q = r
    <3>1. BcGot(q)' = BcGot(q) + 1
      BY <2>2, BcCounts
    <3>2. BcGot(q) = bcasts[q] - 1 /\ bcasts[0] >= bcasts[q]
      BY <2>2, BcFromRoot
    <3> QED
      BY <1>0, <1>1, <3>1, <3>2
  <2>3. CASE q # 0 /\ ~(BC!Recv(r) /\ q = r)
    <3>1. BcGot(q)' = BcGot(q)
      BY <2>3, BcCounts
    <3> QED
      BY <1>0, <1>1, <3>1
  <2> QED
    BY <2>1, <2>2, <2>3
<1> QED
  BY <1>0, <1>2 DEF BcRootInv

LEMMA BcInvStep ==
    ASSUME BcInv, NEW r \in Rank, BC!Step(r)
    PROVE  BcInv'
  BY BcTypeStep, BcControlStep, BcChanStep, BcRootStep DEF BcInv

\* Every step is one of the abstract broadcast or leaves it alone.
LEMMA BcastStep ==
    ASSUME BcInv, NEW r \in Rank, BC!Step(r)
    PROVE  BC!B!Next \/ UNCHANGED <<np, bcasts, bcasted, buffer>>
<1>0. /\ r \in BC!B!Rank /\ BcControlInv /\ bcasts[r] \in Nat /\ bcasted[r] \in Nat
  BY BcFacts DEF BC!B!Rank, Rank, BcInv
<1>1. CASE BC!Call(r)
  <2>1. BC!B!Call(r)
    BY <1>0, <1>1 DEF BC!Call, BC!B!Call, BcControlInv
  <2> QED
    BY <1>0, <2>1 DEF BC!B!Next
<1>2. CASE BC!Recv(r)
  <2>1. /\ bcasts[0] >= bcasts[r] /\ Head(bcast_chan[BC!Parent(r)][r]) = bcasts[r]
    BY <1>2, BcFromRoot
  <2>2. bcasts[r] # bcasted[r]
    BY <1>0, <1>2 DEF BC!Recv, BcControlInv
  <2>3. BC!B!Fill(r)
    BY <1>2, <2>1, <2>2 DEF BC!Recv, BC!B!Fill
  <2> QED
    BY <1>0, <2>3 DEF BC!B!Next
<1>3. CASE BC!Send(r) \/ BC!NextChild(r)
  BY <1>3 DEF BC!Send, BC!NextChild
<1>4. CASE BC!Return(r)
  <2>1. bcasts[r] # bcasted[r] /\ buffer[r] = bcasts[r]
    BY <1>0, <1>4 DEF BC!Return, BcControlInv
  <2>2. BC!B!Return(r)
    BY <1>4, <2>1 DEF BC!Return, BC!B!Return
  <2> QED
    BY <1>0, <2>2 DEF BC!B!Next
<1> QED
  BY <1>1, <1>2, <1>3, <1>4 DEF BC!Step

-----------------------------------------------------------------------------
(* The broadcast next to everything else.                                  *)

BcVars == <<np, eager, bcast_vars>>

\* A step of the program is one of the broadcast or leaves it alone.
LEMMA BcastSteps ==
    ASSUME [Next]_vars
    PROVE  (\E r \in Rank : BC!Step(r)) \/ UNCHANGED BcVars
<1> USE DEF BcVars
<1>1. ASSUME NEW r \in Rank, dissemination_barrier(r)
      PROVE  UNCHANGED BcVars
  <2>1. UNCHANGED <<np, eager>>
    BY <1>1 DEF dissemination_barrier, DB!Step, DB!Enter, DB!Send, DB!Recv,
       DB!NextRound, DB!Return
  <2> QED
    BY <1>1, <2>1 DEF dissemination_barrier
<1>2. ASSUME NEW r \in Rank, ReproMPI_Allreduce(r)
      PROVE  UNCHANGED BcVars
  <2>1. UNCHANGED <<np, eager>>
    BY <1>2 DEF ReproMPI_Allreduce, AR!Step, AR!Call, AR!Send, AR!Recv,
       AR!NextBit, AR!Return
  <2> QED
    BY <1>2, <2>1 DEF ReproMPI_Allreduce
<1>3. ASSUME NEW r \in Rank, ReproMPI_Bcast(r)
      PROVE  BC!Step(r)
  BY <1>3 DEF ReproMPI_Bcast
<1>4. ASSUME NEW r \in Rank, NEW op, PingPongStep(r, op)
      PROVE  UNCHANGED BcVars
  <2>1. UNCHANGED <<np, eager>>
    BY <1>4 DEF PingPongStep, PP!Step, PP!Call, PP!Return, PP!Send, PP!Post,
       PP!Sent, PP!Received, PP!Deliver
  <2> QED
    BY <1>4, <2>1 DEF PingPongStep
<1>5. ASSUME NEW r \in Rank, Measured(r) \/ MPI_Barrier(r) \/ MPI_Reduce(r)
      PROVE  UNCHANGED BcVars
  BY <1>5 DEF Measured, MPI_Barrier, MPI_Reduce
<1>6. CASE UNCHANGED vars
  BY <1>6 DEF vars
<1> QED
  BY <1>1, <1>2, <1>3, <1>4, <1>5, <1>6 DEF Next, Step, Ended,
     initialize_data_pingpong, execute_pingpong

LEMMA BcStutter ==
    ASSUME BcInv, UNCHANGED BcVars
    PROVE  BcInv'
<1>1. UNCHANGED <<np, bcasts, bcasted, buffer, bcast_pc, d, bcast_chan>>
  BY DEF BcVars, bcast_vars
<1>2. Rank' = Rank
  BY <1>1 DEF Rank
<1>3. BcTypeInv'
  BY <1>1, <1>2 DEF BcInv, BcTypeInv
<1>4. BcControlInv'
  BY <1>1, <1>2 DEF BcInv, BcControlInv
<1>5. \A q : BcGot(q)' = BcGot(q) /\ BcSent(q)' = BcSent(q)
  BY <1>1 DEF BcGot, BcSent
<1>6. BcChanInv'
  BY <1>1, <1>2, <1>5 DEF BcInv, BcChanInv, BcCarries
<1>7. BcRootInv'
  BY <1>1, <1>2, <1>5 DEF BcInv, BcRootInv
<1> QED
  BY <1>3, <1>4, <1>6, <1>7 DEF BcInv

LEMMA BcastKept ==
    ASSUME BcInv, [Next]_vars
    PROVE  BcInv' /\ [BC!B!Next]_<<np, bcasts, bcasted, buffer>>
<1>1. ASSUME NEW r \in Rank, BC!Step(r)
      PROVE  BcInv' /\ [BC!B!Next]_<<np, bcasts, bcasted, buffer>>
  BY <1>1, BcInvStep, BcastStep
<1>2. CASE UNCHANGED BcVars
  <2>1. BcInv'
    BY <1>2, BcStutter
  <2> QED
    BY <1>2, <2>1 DEF BcVars, bcast_vars
<1> QED
  BY <1>1, <1>2, BcastSteps

\* The broadcast, called by the round-time synchronisation next to everything
\* else it calls, is a broadcast: nobody returns from a call before the root
\* has made it, and everybody with what the root passed to this call: the
\* powers of two that each process finds by itself make a tree of all of them
\* (RemproMPI_Bcast_binomial).
THEOREM BroadcastImplemented == Spec => ImplementsBroadcast
<1>1. Init => BcInv /\ BC!B!Init
  <2> SUFFICES ASSUME Init PROVE BcInv /\ BC!B!Init
    OBVIOUS
  <2>1. BC!Init
    BY DEF Init
  <2>2. Sizes \subseteq Nat \ {0}
    BY JobsAssumption DEF Sizes, Positive
  <2>3. BcInv
    BY <2>1, <2>2, BcInit
  <2>4. BC!B!Init
    BY <2>1 DEF BC!Init, BC!B!Init, BC!Rank, BC!B!Rank
  <2> QED
    BY <2>3, <2>4
<1>2. BcInv /\ [Next]_vars => BcInv' /\ [BC!B!Next]_<<np, bcasts, bcasted, buffer>>
  BY BcastKept
<1> QED
  BY <1>1, <1>2, PTL DEF Spec, ImplementsBroadcast, BC!ImplementsBroadcast, BC!B!Spec

-----------------------------------------------------------------------------
(* Quotients of numbers.                                                   *)

LEMMA Quotient ==
    ASSUME NEW m \in Nat, NEW b \in Nat \ {0}
    PROVE  /\ m \div b \in Nat /\ (m \div b) * b <= m /\ m < ((m \div b) + 1) * b
  OBVIOUS

LEMMA Unique ==
    ASSUME NEW b \in Nat \ {0}, NEW q \in Nat, NEW p \in Nat, NEW m \in Nat,
           q * b <= m, m < (p + 1) * b
    PROVE  q <= p
<1> SUFFICES ASSUME q > p PROVE FALSE
  OBVIOUS
<1>1. q - (p + 1) \in Nat
  OBVIOUS
<1>2. (q - (p + 1)) * b \in Nat
  BY <1>1
<1>3. (q - (p + 1)) * b = q * b - (p + 1) * b
  OBVIOUS
<1> QED
  BY <1>2, <1>3

LEMMA QuotientIs ==
    ASSUME NEW m \in Nat, NEW b \in Nat \ {0}, NEW q \in Nat, q * b <= m, m < (q + 1) * b
    PROVE  m \div b = q
<1> DEFINE p == m \div b
<1>1. p \in Nat /\ p * b <= m /\ m < (p + 1) * b
  BY Quotient
<1> HIDE DEF p
<1>2. q <= p /\ p <= q
  BY <1>1, Unique
<1> QED
  BY <1>1, <1>2 DEF p

LEMMA Halves ==
    ASSUME NEW m \in Nat, NEW b \in Nat \ {0}
    PROVE  (m \div b) \div 2 = m \div (2 * b)
<1> DEFINE q == m \div b
           h == q \div 2
<1>1. q \in Nat /\ q * b <= m /\ m < (q + 1) * b
  BY Quotient
<1> HIDE DEF q
<1>2. h \in Nat /\ (q = 2 * h \/ q = 2 * h + 1)
  BY <1>1
<1> HIDE DEF h
<1>3. h * (2 * b) <= m /\ m < (h + 1) * (2 * b) /\ 2 * b \in Nat \ {0}
  <2>1. h * (2 * b) = (2 * h) * b /\ (h + 1) * (2 * b) = (2 * h + 2) * b
    BY <1>2
  <2>2. (2 * h + 1) * b = (2 * h) * b + b /\ (2 * h + 2) * b = (2 * h + 1) * b + b
    BY <1>2
  <2>3. (2 * h) * b \in Nat /\ (2 * h + 1) * b \in Nat /\ 2 * b \in Nat \ {0}
    BY <1>2
  <2>4. CASE q = 2 * h
    <3>1. (2 * h) * b <= m /\ m < (2 * h + 1) * b
      BY <1>1, <2>4
    <3> QED
      BY <1>2, <2>1, <2>2, <2>3, <3>1
  <2>5. CASE q = 2 * h + 1
    <3>1. q + 1 = 2 * h + 2
      BY <1>2, <2>5
    <3>2. (2 * h + 1) * b <= m /\ m < (2 * h + 2) * b
      BY <1>1, <2>5, <3>1
    <3> QED
      BY <1>2, <2>1, <2>2, <2>3, <3>2
  <2> QED
    BY <1>2, <2>4, <2>5
<1>4. m \div (2 * b) = h
  <2> DEFINE bb == 2 * b
  <2>1. bb \in Nat \ {0} /\ h * bb <= m /\ m < (h + 1) * bb
    BY <1>3
  <2> HIDE DEF bb
  <2>2. m \div bb = h
    BY <1>2, <2>1, QuotientIs
  <2> QED
    BY <2>2 DEF bb
<1> QED
  BY <1>4 DEF q, h

LEMMA Antitone ==
    ASSUME NEW m \in Nat, NEW b \in Nat \ {0}, NEW c \in Nat, b <= c
    PROVE  m \div c <= m \div b
<1> DEFINE q == m \div c
           p == m \div b
<1>0. c \in Nat \ {0}
  OBVIOUS
<1>1. q \in Nat /\ q * c <= m
  BY <1>0, Quotient
<1>2. p \in Nat /\ m < (p + 1) * b
  BY Quotient
<1> HIDE DEF q, p
<1>3. q * b <= m
  <2>1. q * c = q * b + q * (c - b) /\ q * (c - b) \in Nat /\ q * b \in Nat
    BY <1>1
  <2> QED
    BY <1>1, <2>1
<1>4. q <= p
  BY <1>1, <1>2, <1>3, Unique
<1> QED
  BY <1>4 DEF q, p

-----------------------------------------------------------------------------
(* The highest power of two.                                               *)

LEMMA FlpDef ==
    /\ AR!flp2 \in [Nat -> Nat] /\ AR!flp2[0] = 0
    /\ \A m \in Nat \ {0} : AR!flp2[m] = IF m = 1 \/ m = 2 * AR!flp2[m - 1] THEN m
                                                                         ELSE AR!flp2[m - 1]
<1> DEFINE G == [x \in Nat \X Nat |-> IF x[2] = 1 \/ x[2] = 2 * x[1] THEN x[2] ELSE x[1]]
<1>1. G \in [Nat \X Nat -> Nat]
  OBVIOUS
<1>2. PICK f \in [Nat -> Nat] : f[0] = 0 /\ \A m \in Nat \ {0} : f[m] = G[<<f[m - 1], m>>]
  <2> HIDE DEF G
  <2>1. 0 \in Nat
    OBVIOUS
  <2> QED
    BY <1>1, <2>1, RecursiveFunction
<1>3. \A m \in Nat \ {0} : f[m] = IF m = 1 \/ m = 2 * f[m - 1] THEN m ELSE f[m - 1]
  <2> SUFFICES ASSUME NEW m \in Nat \ {0}
               PROVE f[m] = IF m = 1 \/ m = 2 * f[m - 1] THEN m ELSE f[m - 1]
    OBVIOUS
  <2>1. m - 1 \in Nat
    OBVIOUS
  <2> QED
    BY <1>2, <2>1
<1> HIDE DEF G
<1>4. f = [m \in Nat |-> IF m = 0 THEN 0 ELSE IF m = 1 \/ m = 2 * f[m - 1] THEN m ELSE f[m - 1]]
  BY <1>2, <1>3
<1>5. AR!flp2 = [m \in Nat |-> IF m = 0 THEN 0 ELSE IF m = 1 \/ m = 2 * AR!flp2[m - 1] THEN m ELSE AR!flp2[m - 1]]
  BY <1>4 DEF AR!flp2
<1>6. /\ AR!flp2[0] = 0
      /\ \A m \in Nat \ {0} : AR!flp2[m] = IF m = 1 \/ m = 2 * AR!flp2[m - 1] THEN m ELSE AR!flp2[m - 1]
  BY <1>5
<1>7. \A m \in Nat : AR!flp2[m] \in Nat
  <2> DEFINE S == {m \in Nat : AR!flp2[m] \notin Nat}
  <2> SUFFICES ASSUME S # {} PROVE FALSE
    OBVIOUS
  <2>1. S \in SUBSET Nat
    OBVIOUS
  <2>2. PICK m \in S : \A i \in S : m <= i
    <3> HIDE DEF S
    <3> QED
      BY <2>1, LeastNumber
  <2>3. m \in Nat \ {0}
    BY <1>6
  <2>4. m - 1 \in Nat /\ m - 1 \notin S
    BY <2>2, <2>3
  <2> QED
    BY <1>6, <2>3, <2>4
<1>8. DOMAIN AR!flp2 = Nat
  BY <1>5
<1>9. AR!flp2 = [m \in DOMAIN AR!flp2 |-> AR!flp2[m]]
  BY <1>5
<1> HIDE DEF AR!flp2
<1> QED
  BY <1>6, <1>7, <1>8, <1>9

\* The largest power of two that is at most m.
LEMMA FlpIs ==
    ASSUME NEW m \in Nat \ {0}
    PROVE  /\ DBP!IsHop(AR!flp2[m]) /\ AR!flp2[m] \in Nat \ {0}
           /\ AR!flp2[m] <= m /\ m < 2 * AR!flp2[m]
<1> DEFINE F(i) == AR!flp2[i]
           Good(i) == DBP!IsHop(F(i)) /\ F(i) <= i /\ i < 2 * F(i)
           S == {i \in Nat : i # 0 /\ ~Good(i)}
<1>0. \A i \in Nat : F(i) \in Nat
  BY FlpDef
<1>1. Good(1)
  <2>1. F(1) = 1
    BY FlpDef
  <2> QED
    BY <2>1, DBP!OneIsHop
<1>2. ASSUME NEW i \in Nat, i > 1, Good(i - 1)
      PROVE  Good(i)
  <2>0. /\ F(i) = IF i = 2 * F(i - 1) THEN i ELSE F(i - 1)
        /\ i - 1 \in Nat /\ F(i) \in Nat /\ F(i - 1) \in Nat
    BY <1>0, <1>2, FlpDef
  <2> HIDE DEF F
  <2>1. CASE i = 2 * F(i - 1)
    <3>1. F(i) = i /\ DBP!IsHop(i)
      BY <1>2, <2>0, <2>1, DBP!DoubleIsHop
    <3> QED
      BY <1>2, <2>0, <3>1
  <2>2. CASE i # 2 * F(i - 1)
    BY <1>2, <2>0, <2>2
  <2> QED
    BY <2>1, <2>2
<1>3. S = {}
  <2> SUFFICES ASSUME S # {} PROVE FALSE
    OBVIOUS
  <2>1. S \in SUBSET Nat
    OBVIOUS
  <2> HIDE DEF Good
  <2>2. PICK i \in S : \A j \in S : i <= j
    <3> HIDE DEF S
    <3> QED
      BY <2>1, LeastNumber
  <2>3. i \in Nat /\ i > 1
    BY <1>1
  <2>4. i - 1 \in Nat /\ i - 1 \notin S /\ i - 1 # 0
    BY <2>2, <2>3
  <2>5. Good(i)
    BY <1>2, <2>3, <2>4
  <2> QED
    BY <2>5
<1>4. Good(m)
  BY <1>3
<1> QED
  BY <1>0, <1>4

-----------------------------------------------------------------------------
(* The bits of the allreduce.                                              *)

\* The powers of two in the loop; what of np - 1 is read after the bit b and
\* before it, and the distance of the exchange for it.
ArBits == {b \in 1 .. np - 1 : DBP!IsHop(b)}
ArTop == AR!flp2[np - 1]
ArRead(b) == (np - 1) \div b
ArBefore(b) == ArRead(b) \div 2
ArSet(b) == ArRead(b) % 2 = 1
ArDist(b) == IF ArSet(b) THEN ArBefore(b) + 1 ELSE ArBefore(b)

LEMMA BitFacts ==
    ASSUME np \in Nat \ {0}, NEW b \in ArBits
    PROVE  /\ b \in Nat \ {0} /\ DBP!IsHop(b) /\ np > 1 /\ b <= np - 1
           /\ ArRead(b) \in 1 .. np - 1 /\ ArBefore(b) \in Nat
           /\ ArRead(b) = IF ArSet(b) THEN 2 * ArBefore(b) + 1 ELSE 2 * ArBefore(b)
           /\ ArDist(b) \in 1 .. np - 1 /\ ArDist(b) + ArBefore(b) = ArRead(b)
           /\ ArDist(b) <= ArBefore(b) + 1
           /\ ArRead(2 * b) = ArBefore(b)
<1>1. b \in Nat \ {0} /\ DBP!IsHop(b) /\ np > 1 /\ b <= np - 1 /\ np - 1 \in Nat
  BY DEF ArBits
<1>2. ArRead(b) \in Nat /\ ArRead(b) * b <= np - 1 /\ np - 1 < (ArRead(b) + 1) * b
  <2> DEFINE m == np - 1
  <2>1. m \in Nat
    BY <1>1
  <2> HIDE DEF m
  <2>2. m \div b \in Nat /\ (m \div b) * b <= m /\ m < ((m \div b) + 1) * b
    BY <1>1, <2>1, Quotient
  <2> QED
    BY <2>2 DEF m, ArRead
<1>a. ArRead(2 * b) = ArRead(b) \div 2
  <2> DEFINE m == np - 1
  <2>1. m \in Nat
    BY <1>1
  <2> HIDE DEF m
  <2>2. (m \div b) \div 2 = m \div (2 * b)
    BY <1>1, <2>1, Halves
  <2> QED
    BY <2>2 DEF m, ArRead
<1> DEFINE q == ArRead(b)
<1> HIDE DEF q
<1>b. q \in Nat /\ q * b <= np - 1 /\ np - 1 < (q + 1) * b
  BY <1>2 DEF q
<1>3. q # 0
  <2> SUFFICES ASSUME q = 0 PROVE FALSE
    OBVIOUS
  <2>1. np - 1 < (0 + 1) * b
    BY <1>b
  <2> QED
    BY <1>1, <2>1
<1>4. q <= np - 1
  <2>1. q * b = q + q * (b - 1) /\ q * (b - 1) \in Nat
    BY <1>1, <1>b
  <2> QED
    BY <1>1, <1>b, <2>1
<1>5. q \div 2 \in Nat /\ q = IF q % 2 = 1 THEN 2 * (q \div 2) + 1 ELSE 2 * (q \div 2)
  BY <1>b
<1>6. /\ ArRead(b) \in Nat /\ ArRead(b) # 0 /\ ArRead(b) <= np - 1 /\ ArBefore(b) \in Nat
      /\ ArRead(b) = IF ArSet(b) THEN 2 * ArBefore(b) + 1 ELSE 2 * ArBefore(b)
      /\ ArRead(2 * b) = ArBefore(b)
  BY <1>a, <1>b, <1>3, <1>4, <1>5 DEF q, ArBefore, ArSet
<1>7. ArRead(b) \in 1 .. np - 1
  BY <1>1, <1>6
<1>8. /\ ArDist(b) \in Nat /\ ArDist(b) + ArBefore(b) = ArRead(b)
      /\ ArDist(b) <= ArBefore(b) + 1 /\ ArDist(b) # 0 /\ ArDist(b) <= ArRead(b)
  BY <1>6 DEF ArDist
<1>9. ArDist(b) \in 1 .. np - 1
  BY <1>1, <1>6, <1>8
<1> QED
  BY <1>1, <1>6, <1>7, <1>8, <1>9

LEMMA TopFacts ==
    ASSUME np \in Nat, np > 1
    PROVE  /\ ArTop \in ArBits /\ ArBefore(ArTop) = 0 /\ ArSet(ArTop) /\ ArDist(ArTop) = 1
           /\ ArRead(ArTop) = 1 /\ ArRead(1) = np - 1 /\ 1 \in ArBits
           /\ \A b \in ArBits : b <= ArTop /\ (b # ArTop => 2 * b \in ArBits)
<1> DEFINE m == np - 1
<1>1. m \in Nat \ {0} /\ ArTop = AR!flp2[m] /\ ArBits = {b \in 1 .. m : DBP!IsHop(b)}
  BY DEF ArTop, ArBits
<1>2. DBP!IsHop(ArTop) /\ ArTop \in Nat \ {0} /\ ArTop <= m /\ m < 2 * ArTop
  BY <1>1, FlpIs
<1>3. ArTop \in ArBits
  BY <1>1, <1>2
<1>4. ArRead(ArTop) = 1
  <2>1. 1 * ArTop <= m /\ m < (1 + 1) * ArTop
    BY <1>1, <1>2
  <2> HIDE DEF m
  <2>2. m \div ArTop = 1
    BY <1>1, <1>2, <2>1, QuotientIs
  <2> QED
    BY <2>2 DEF ArRead, m
<1>5. ArBefore(ArTop) = 0 /\ ArSet(ArTop) /\ ArDist(ArTop) = 1
  BY <1>4 DEF ArBefore, ArSet, ArDist
<1>6. ArRead(1) = m
  BY <1>1 DEF ArRead
<1>7. ASSUME NEW b \in ArBits
      PROVE  b <= ArTop /\ (b # ArTop => 2 * b \in ArBits)
  <2>1. b \in 1 .. m /\ DBP!IsHop(b) /\ DBP!IsHop(2 * b)
    BY <1>1, DBP!DoubleIsHop
  <2>2. b <= ArTop \/ b >= 2 * ArTop
    BY <1>2, <2>1, DBP!HopGap
  <2>3. ArTop <= b \/ ArTop >= 2 * b
    BY <1>2, <2>1, DBP!HopGap
  <2>4. b <= ArTop
    BY <1>1, <1>2, <2>1, <2>2
  <2> HIDE DEF m
  <2>5. b # ArTop => 2 * b \in 1 .. m
    BY <1>1, <1>2, <2>1, <2>3, <2>4
  <2> QED
    BY <1>1, <2>1, <2>4, <2>5
<1>8. 1 \in ArBits
  BY <1>1, DBP!OneIsHop
<1> QED
  BY <1>3, <1>4, <1>5, <1>6, <1>7, <1>8

\* The next bit.
LEMMA NextBitIs ==
    ASSUME np \in Nat \ {0}, NEW b \in ArBits
    PROVE  \/ b = 1 /\ b \div 2 = 0
           \/ b \div 2 \in ArBits /\ b = 2 * (b \div 2) /\ b \div 2 # b
<1>1. b \in Nat \ {0} /\ DBP!IsHop(b) /\ b <= np - 1
  BY BitFacts
<1>2. CASE b = 1
  BY <1>2
<1>3. ASSUME NEW g \in Nat, DBP!IsHop(g), b = 2 * g
      PROVE  b \div 2 \in ArBits /\ b = 2 * (b \div 2) /\ b \div 2 # b
  <2>1. b \div 2 = g /\ g \in 1 .. np - 1
    BY <1>1, <1>3
  <2> QED
    BY <1>1, <1>3, <2>1 DEF ArBits
<1> QED
  BY <1>1, <1>2, <1>3, DBP!HopIsDouble

\* The exchanges for different bits have different distances, but for the
\* highest bit and the one below it, which can both be 1.
LEMMA Distances ==
    ASSUME np \in Nat \ {0}, NEW b \in ArBits, NEW c \in ArBits, b < c
    PROVE  /\ ArBefore(b) >= 1
           /\ ArDist(b) = ArDist(c) => c = ArTop /\ c = 2 * b /\ ArDist(b) = 1
<1>1. /\ b \in Nat \ {0} /\ c \in Nat \ {0} /\ DBP!IsHop(b) /\ DBP!IsHop(c) /\ np > 1
      /\ ArRead(b) \in Nat /\ ArBefore(b) \in Nat /\ ArDist(b) \in Nat
      /\ ArRead(c) \in Nat \ {0} /\ ArBefore(c) \in Nat /\ ArDist(c) \in Nat
      /\ ArDist(b) + ArBefore(b) = ArRead(b) /\ ArDist(b) >= ArBefore(b)
      /\ ArDist(c) + ArBefore(c) = ArRead(c)
      /\ ArRead(2 * b) = ArBefore(b)
  BY BitFacts DEF ArDist
<1>2. c >= 2 * b
  <2>1. c <= b \/ c >= 2 * b
    BY <1>1, DBP!HopGap
  <2> QED
    BY <1>1, <2>1
<1>3. ArBefore(b) >= ArRead(c)
  <2> DEFINE m == np - 1
             e == 2 * b
  <2>1. m \in Nat /\ e \in Nat \ {0} /\ e <= c
    BY <1>1, <1>2
  <2> HIDE DEF m, e
  <2>2. m \div c <= m \div e
    BY <1>1, <2>1, Antitone
  <2> QED
    BY <1>1, <2>2 DEF m, e, ArRead
<1>4. ASSUME c # ArTop PROVE ArBefore(c) >= 1
  <2>1. 2 * c \in ArBits
    BY <1>1, <1>4, TopFacts
  <2> QED
    BY <2>1, BitFacts
<1>5. ASSUME ArDist(b) = ArDist(c)
      PROVE  c = ArTop /\ c = 2 * b /\ ArDist(b) = 1
  <2>1. ArBefore(c) = 0
    BY <1>1, <1>3, <1>5
  <2>2. c = ArTop
    BY <1>4, <2>1
  <2>3. ArDist(c) = 1 /\ ArRead(c) = 1
    BY <1>1, <2>2, TopFacts
  <2>4. ArBefore(b) = 1
    BY <1>1, <1>3, <1>5, <2>3
  <2>5. 2 * b \in ArBits
    BY <1>1, TopFacts
  <2>6. 2 * b <= ArTop
    BY <1>1, <2>5, TopFacts
  <2>7. ASSUME 2 * b # ArTop PROVE FALSE
    <3>1. 2 * (2 * b) \in ArBits
      BY <1>1, <2>5, <2>7, TopFacts
    <3> DEFINE e == 2 * b
    <3>2. e \in ArBits /\ 2 * e \in ArBits
      BY <2>5, <3>1
    <3> HIDE DEF e
    <3>3. ArRead(e) >= 2
      <4>1. ArRead(2 * e) \in 1 .. np - 1 /\ ArRead(2 * e) = ArBefore(e)
        BY <3>2, BitFacts
      <4>2. ArBefore(e) \in Nat /\ ArRead(e) >= 2 * ArBefore(e) /\ ArRead(e) \in Nat
        BY <3>2, BitFacts
      <4> QED
        BY <4>1, <4>2
    <3> QED
      BY <1>1, <2>4, <3>3 DEF e
  <2> QED
    BY <1>5, <2>2, <2>3, <2>7
<1> QED
  BY <1>1, <1>3, <1>5

-----------------------------------------------------------------------------
(* The invariant of the allreduce.                                         *)

ArPlace == {"outside", "loop", "receiving", "sending"}

\* The reduction of what the ranks from lo to hi above r contribute to call k.
ArSum(r, lo, hi, k) == AR!SetToBag({<<DBP!Above(r, i), k>> : i \in lo .. hi})

ArBuffers == {AR!SetToBag(S) : S \in SUBSET (Nat \X Nat)}

ArTypeInv ==
    /\ np \in Nat \ {0}
    /\ reduces \in [Rank -> Nat] /\ reduced \in [Rank -> Nat]
    /\ reduce_pc \in [Rank -> ArPlace] /\ bit \in [Rank -> Nat]
    /\ c0 \in [Rank -> Nat] /\ c1 \in [Rank -> Nat]
    /\ tempbuf \in [Rank -> {"partbuf", "inbuf"}]
    /\ recvbuf = [r \in Rank |-> recvbuf[r]]
    /\ partbuf = [r \in Rank |-> partbuf[r]]
    /\ reduce_chan \in [Rank -> [Rank -> Seq(ArBuffers)]]

\* A process has returned from all its calls but the one it is in, and c0 is
\* what has been read before the bit.
ArControlInv ==
    \A r \in Rank :
        /\ reduced[r] = IF reduce_pc[r] = "outside" THEN reduces[r] ELSE reduces[r] - 1
        /\ reduce_pc[r] # "outside" => bit[r] \in ArBits \cup {0}
        /\ reduce_pc[r] # "outside" /\ bit[r] # 0 =>
              c0[r] = ArBefore(bit[r]) /\ c1[r] = ArBefore(bit[r]) + 1
        /\ reduce_pc[r] \in {"receiving", "sending"} => bit[r] # 0
        /\ reduce_pc[r] # "outside" =>
              tempbuf[r] = IF bit[r] = ArTop /\ reduce_pc[r] \in {"loop", "receiving"}
                           THEN "partbuf" ELSE "inbuf"

\* How many ranks above its own the buffers of r go, and what they hold.
ArDone(r) == IF bit[r] = 0 THEN np - 1
             ELSE IF reduce_pc[r] = "sending" THEN ArRead(bit[r]) ELSE ArBefore(bit[r])
ArDataInv ==
    \A r \in Rank :
        reduce_pc[r] # "outside" =>
            /\ recvbuf[r] = ArSum(r, 0, ArDone(r), reduces[r])
            /\ tempbuf[r] = "inbuf" => partbuf[r] = ArSum(r, 1, ArDone(r), reduces[r])

\* In how many calls r has sent, and has received, for the bit e.
ArOut(r, e) ==
    IF \/ reduce_pc[r] = "outside" \/ bit[r] < e
       \/ bit[r] = e /\ reduce_pc[r] \in {"receiving", "sending"}
    THEN reduces[r] ELSE reduces[r] - 1
ArIn(r, e) ==
    IF reduce_pc[r] = "outside" \/ bit[r] < e \/ (bit[r] = e /\ reduce_pc[r] = "sending")
    THEN reduces[r] ELSE reduces[r] - 1

\* The highest bit and the one below it when both exchanges are with the
\* neighbours, so that a channel carries the messages of two bits in turn.
ArHalf == ArTop \div 2
ArPaired(e) == ArTop # 1 /\ ArDist(ArHalf) = 1 /\ e \in {ArTop, ArHalf}

\* The place of the message for the bit e of call k on its channel, and how
\* many messages have been put on and taken from this channel.
ArNumber(k, e) == IF ArPaired(e) THEN (IF e = ArTop THEN 2 * k - 1 ELSE 2 * k) ELSE k
ArSent(s, e) == IF ArPaired(e) THEN ArOut(s, ArTop) + ArOut(s, ArHalf) ELSE ArOut(s, e)
ArGot(r, e) == IF ArPaired(e) THEN ArIn(r, ArTop) + ArIn(r, ArHalf) ELSE ArIn(r, e)

\* What r gets for the bit e of call k.
ArMessage(r, k, e) == ArSum(r, ArBefore(e) + 1, ArRead(e), k)

ArCarries(s, r, e) ==
    LET c == reduce_chan[s][r]
    IN  /\ Len(c) = ArSent(s, e) - ArGot(r, e)
        /\ \A k \in Nat, f \in ArBits, j \in 1 .. Len(c) :
              ArDist(f) = ArDist(e) /\ ArNumber(k, f) = ArGot(r, e) + j =>
                  c[j] = ArMessage(r, k, f)
ArChanInv == \A s, r \in Rank, e \in ArBits :
                 r = DBP!Below(s, ArDist(e)) => ArCarries(s, r, e)

\* What has been received for the bit e comes from processes that have called.
ArReachInv ==
    \A r \in Rank, e \in ArBits : \A i \in 0 .. ArRead(e) :
        ArIn(r, e) <= reduces[DBP!Above(r, i)]

ArInv == ArTypeInv /\ ArControlInv /\ ArDataInv /\ ArChanInv /\ ArReachInv

-----------------------------------------------------------------------------
(* Ranks around the ring, and what reductions hold.                        *)

LEMMA Ring ==
    ASSUME np \in Nat \ {0}, NEW r \in Rank, NEW x \in 0 .. np - 1
    PROVE  /\ DBP!Above(r, x) \in Rank /\ DBP!Below(r, x) \in Rank
           /\ DBP!Below(DBP!Above(r, x), x) = r /\ DBP!Above(DBP!Below(r, x), x) = r
           /\ (r + x) % np = DBP!Above(r, x) /\ (r - x + np) % np = DBP!Below(r, x)
           /\ \A y \in 0 .. np - 1 :
                 /\ DBP!Below(r, x) = DBP!Below(r, y) => x = y
                 /\ DBP!Above(r, x) = DBP!Above(r, y) => x = y
                 /\ x + y <= np - 1 => DBP!Above(DBP!Above(r, x), y) = DBP!Above(r, x + y)
<1>0. r \in 0 .. np - 1 /\ Rank = 0 .. np - 1
  BY DEF Rank
<1>1. \A z \in 0 .. np - 1 : z % np = z
  OBVIOUS
<1>2. \A z \in np .. 2 * np - 1 : z % np = z - np
  OBVIOUS
<1>3. (r + x) % np = DBP!Above(r, x) /\ (r - x + np) % np = DBP!Below(r, x)
  BY <1>0, <1>1, <1>2 DEF DBP!Above, DBP!Below
<1>4. /\ DBP!Above(r, x) \in Rank /\ DBP!Below(r, x) \in Rank
      /\ DBP!Below(DBP!Above(r, x), x) = r /\ DBP!Above(DBP!Below(r, x), x) = r
  BY <1>0 DEF DBP!Above, DBP!Below
<1>5. ASSUME NEW y \in 0 .. np - 1
      PROVE  /\ DBP!Below(r, x) = DBP!Below(r, y) => x = y
             /\ DBP!Above(r, x) = DBP!Above(r, y) => x = y
             /\ x + y <= np - 1 => DBP!Above(DBP!Above(r, x), y) = DBP!Above(r, x + y)
  BY <1>0 DEF DBP!Above, DBP!Below
<1> QED
  BY <1>3, <1>4, <1>5

LEMMA RingAll ==
    ASSUME np \in Nat \ {0}, NEW r \in Rank, NEW q \in Rank
    PROVE  \E i \in 0 .. np - 1 : DBP!Above(r, i) = q
<1>1. q \in 0 .. np - 1 /\ r \in 0 .. np - 1
  BY DEF Rank
<1>2. CASE q >= r
  <2>1. q - r \in 0 .. np - 1 /\ DBP!Above(r, q - r) = q
    BY <1>1, <1>2 DEF DBP!Above
  <2> QED
    BY <2>1
<1>3. CASE q < r
  <2>1. q - r + np \in 0 .. np - 1 /\ DBP!Above(r, q - r + np) = q
    BY <1>1, <1>3 DEF DBP!Above
  <2> QED
    BY <2>1
<1> QED
  BY <1>1, <1>2, <1>3

LEMMA SumTyped ==
    ASSUME np \in Nat \ {0}, NEW r \in Rank, NEW lo \in Nat, NEW hi \in 0 .. np - 1, NEW k \in Nat
    PROVE  ArSum(r, lo, hi, k) \in ArBuffers
<1>1. ASSUME NEW i \in lo .. hi PROVE <<DBP!Above(r, i), k>> \in Nat \X Nat
  <2>1. i \in 0 .. np - 1
    OBVIOUS
  <2>2. DBP!Above(r, i) \in Nat
    BY <2>1, Ring DEF Rank
  <2> QED
    BY <2>2
<1>2. {<<DBP!Above(r, i), k>> : i \in lo .. hi} \in SUBSET (Nat \X Nat)
  BY <1>1
<1> QED
  BY <1>2 DEF ArSum, ArBuffers

LEMMA SumShift ==
    ASSUME np \in Nat \ {0}, NEW r \in Rank, NEW x \in Nat, NEW lo \in Nat, NEW hi \in Nat,
           x + hi <= np - 1, NEW k
    PROVE  ArSum(DBP!Above(r, x), lo, hi, k) = ArSum(r, x + lo, x + hi, k)
<1> DEFINE A == {<<DBP!Above(DBP!Above(r, x), i), k>> : i \in lo .. hi}
           B == {<<DBP!Above(r, i), k>> : i \in x + lo .. x + hi}
<1>1. \A i \in lo .. hi : DBP!Above(DBP!Above(r, x), i) = DBP!Above(r, x + i)
  <2> TAKE i \in lo .. hi
  <2>1. x \in 0 .. np - 1 /\ i \in 0 .. np - 1 /\ x + i <= np - 1
    OBVIOUS
  <2> QED
    BY <2>1, Ring
<1>2. ASSUME NEW i \in lo .. hi PROVE <<DBP!Above(DBP!Above(r, x), i), k>> \in B
  <2>1. x + i \in x + lo .. x + hi
    OBVIOUS
  <2> QED
    BY <1>1, <2>1
<1>3. ASSUME NEW i \in x + lo .. x + hi PROVE <<DBP!Above(r, i), k>> \in A
  <2>1. i - x \in lo .. hi /\ x + (i - x) = i
    OBVIOUS
  <2>2. DBP!Above(DBP!Above(r, x), i - x) = DBP!Above(r, i)
    BY <1>1, <2>1
  <2> QED
    BY <2>1, <2>2
<1>4. A = B
  BY <1>2, <1>3
<1> QED
  BY <1>4 DEF ArSum

\* Reducing the contributions of neighbouring ranks.
LEMMA SumJoin ==
    ASSUME np \in Nat \ {0}, NEW r \in Rank, NEW lo \in Nat, NEW m \in Nat, NEW hi \in 0 .. np - 1,
           lo <= m + 1, m <= hi, NEW k
    PROVE  AR!Reduce_local(ArSum(r, m + 1, hi, k), ArSum(r, lo, m, k)) = ArSum(r, lo, hi, k)
<1> DEFINE A == {<<DBP!Above(r, i), k>> : i \in m + 1 .. hi}
           B == {<<DBP!Above(r, i), k>> : i \in lo .. m}
           C == {<<DBP!Above(r, i), k>> : i \in lo .. hi}
<1>1. A \cup B = C
  <2>1. \A i : i \in lo .. hi <=> (i \in m + 1 .. hi \/ i \in lo .. m)
    OBVIOUS
  <2> QED
    BY <2>1
<1>2. A \cap B = {}
  <2> SUFFICES ASSUME NEW i \in m + 1 .. hi, NEW j \in lo .. m, DBP!Above(r, i) = DBP!Above(r, j)
               PROVE  FALSE
    OBVIOUS
  <2>1. i \in 0 .. np - 1 /\ j \in 0 .. np - 1 /\ i # j
    OBVIOUS
  <2> QED
    BY <2>1, Ring
<1> HIDE DEF A, B, C
<1>3. AR!Reduce_local(AR!SetToBag(A), AR!SetToBag(B)) = AR!SetToBag(C)
  <2>1. DOMAIN AR!SetToBag(A) = A /\ DOMAIN AR!SetToBag(B) = B
    BY DEF AR!SetToBag
  <2>2. \A x \in A : AR!SetToBag(A)[x] = 1
    BY DEF AR!SetToBag
  <2>3. \A x \in B : AR!SetToBag(B)[x] = 1
    BY DEF AR!SetToBag
  <2>4. \A x \in C : AR!Copies(x, AR!SetToBag(A)) + AR!Copies(x, AR!SetToBag(B)) = 1
    BY <1>1, <1>2, <2>1, <2>2, <2>3 DEF AR!Copies
  <2>5. AR!Reduce_local(AR!SetToBag(A), AR!SetToBag(B)) =
          [x \in C |-> AR!Copies(x, AR!SetToBag(A)) + AR!Copies(x, AR!SetToBag(B))]
    BY <1>1, <2>1 DEF AR!Reduce_local
  <2> QED
    BY <2>4, <2>5 DEF AR!SetToBag
<1> QED
  BY <1>3 DEF ArSum, A, B, C

LEMMA SumOwn ==
    ASSUME np \in Nat \ {0}, NEW r \in Rank, NEW k
    PROVE  ArSum(r, 0, 0, k) = AR!SetToBag({<<r, k>>})
<1>1. DBP!Above(r, 0) = r
  BY DEF DBP!Above, Rank
<1>2. {<<DBP!Above(r, i), k>> : i \in 0 .. 0} = {<<r, k>>}
  BY <1>1
<1> QED
  BY <1>2 DEF ArSum

LEMMA SumAll ==
    ASSUME np \in Nat \ {0}, NEW r \in Rank, NEW k
    PROVE  ArSum(r, 0, np - 1, k) = AR!R!All(k)
<1> DEFINE A == {<<DBP!Above(r, i), k>> : i \in 0 .. np - 1}
           B == {<<q, k>> : q \in Rank}
<1>1. ASSUME NEW i \in 0 .. np - 1 PROVE <<DBP!Above(r, i), k>> \in B
  BY Ring
<1>2. ASSUME NEW q \in Rank PROVE <<q, k>> \in A
  <2>1. \E i \in 0 .. np - 1 : DBP!Above(r, i) = q
    BY RingAll
  <2> QED
    BY <2>1
<1>3. A = B
  BY <1>1, <1>2
<1>4. AR!R!Rank = Rank
  BY DEF AR!R!Rank, Rank
<1> QED
  BY <1>3, <1>4 DEF ArSum, AR!R!All, AR!SetToBag, AR!R!SetToBag

-----------------------------------------------------------------------------
(* The steps of the allreduce.                                             *)

LEMMA ArTypes ==
    ASSUME ArTypeInv
    PROVE  /\ np \in Nat \ {0} /\ np - 1 \in Nat
           /\ \A q \in Rank : /\ q \in Nat /\ q < np
                              /\ reduces[q] \in Nat /\ reduced[q] \in Nat
                              /\ reduce_pc[q] \in ArPlace /\ bit[q] \in Nat
                              /\ c0[q] \in Nat /\ c1[q] \in Nat
                              /\ tempbuf[q] \in {"partbuf", "inbuf"}
                              /\ \A p \in Rank : reduce_chan[p][q] \in Seq(ArBuffers)
<1>1. np \in Nat \ {0} /\ np - 1 \in Nat /\ \A q \in Rank : q \in Nat /\ q < np
  BY DEF ArTypeInv, Rank
<1> QED
  BY <1>1 DEF ArTypeInv

\* The partners of an exchange.
LEMMA ArPartners ==
    ASSUME ArTypeInv, ArControlInv, NEW r \in Rank, reduce_pc[r] # "outside", bit[r] # 0
    PROVE  /\ bit[r] \in ArBits /\ c0[r] = ArBefore(bit[r]) /\ c1[r] = ArBefore(bit[r]) + 1
           /\ ArDist(bit[r]) \in 1 .. np - 1
           /\ AR!BitSet(r) <=> ArSet(bit[r])
           /\ AR!cyci(r) = DBP!Above(r, ArDist(bit[r])) /\ DBP!Above(r, ArDist(bit[r])) \in Rank
           /\ AR!cyco(r) = DBP!Below(r, ArDist(bit[r])) /\ DBP!Below(r, ArDist(bit[r])) \in Rank
<1>1. /\ bit[r] \in ArBits /\ c0[r] = ArBefore(bit[r]) /\ c1[r] = ArBefore(bit[r]) + 1
      /\ np \in Nat \ {0}
  BY ArTypes DEF ArControlInv
<1>2. ArDist(bit[r]) \in 1 .. np - 1
  BY <1>1, BitFacts
<1>3. AR!BitSet(r) <=> ArSet(bit[r])
  BY DEF AR!BitSet, AR!n, ArSet, ArRead
<1>4. AR!b(r) = ArDist(bit[r])
  BY <1>1, <1>3 DEF AR!b, ArDist
<1> DEFINE x == ArDist(bit[r])
<1>5. x \in 0 .. np - 1
  BY <1>2
<1> HIDE DEF x
<1>6. /\ (r + x) % np = DBP!Above(r, x) /\ (r - x + np) % np = DBP!Below(r, x)
      /\ DBP!Above(r, x) \in Rank /\ DBP!Below(r, x) \in Rank
  BY <1>1, <1>5, Ring
<1> QED
  BY <1>1, <1>2, <1>3, <1>4, <1>6 DEF x, AR!cyci, AR!cyco

\* What depends on the number of processes alone.
LEMMA ArSame ==
    ASSUME np' = np
    PROVE  /\ Rank' = Rank /\ ArBits' = ArBits /\ ArTop' = ArTop /\ ArHalf' = ArHalf
           /\ \A e : /\ ArRead(e)' = ArRead(e) /\ ArBefore(e)' = ArBefore(e)
                     /\ ArDist(e)' = ArDist(e) /\ (ArPaired(e)' <=> ArPaired(e))
           /\ \A r, x : DBP!Above(r, x)' = DBP!Above(r, x) /\ DBP!Below(r, x)' = DBP!Below(r, x)
<1>1. /\ Rank' = Rank /\ ArBits' = ArBits /\ ArTop' = ArTop /\ ArHalf' = ArHalf
  BY DEF Rank, ArBits, ArTop, ArHalf, AR!flp2
<1>2. \A e : ArRead(e)' = ArRead(e)
  BY DEF ArRead
<1>3. \A e : ArBefore(e)' = ArBefore(e) /\ (ArSet(e)' <=> ArSet(e))
  BY DEF ArRead, ArBefore, ArSet
<1>4. \A e : ArDist(e)' = ArDist(e)
  BY <1>3 DEF ArDist
<1>5. \A e : ArPaired(e)' <=> ArPaired(e)
  BY <1>1, <1>4 DEF ArPaired
<1>6. \A r, x : DBP!Above(r, x)' = DBP!Above(r, x) /\ DBP!Below(r, x)' = DBP!Below(r, x)
  BY DEF DBP!Above, DBP!Below
<1> QED
  BY <1>1, <1>2, <1>3, <1>4, <1>5, <1>6

\* What a step of r does to everything but the channels.
ArKeeps(q) == /\ reduces'[q] = reduces[q] /\ reduced'[q] = reduced[q]
              /\ reduce_pc'[q] = reduce_pc[q] /\ bit'[q] = bit[q]
              /\ c0'[q] = c0[q] /\ c1'[q] = c1[q] /\ tempbuf'[q] = tempbuf[q]
              /\ recvbuf'[q] = recvbuf[q] /\ partbuf'[q] = partbuf[q]
ArCalls(r) == /\ AR!Call(r) /\ reduce_pc[r] = "outside" /\ reduce_pc'[r] = "loop"
              /\ reduces'[r] = reduces[r] + 1 /\ reduced'[r] = reduced[r]
              /\ bit'[r] = ArTop /\ c0'[r] = 0 /\ c1'[r] = 1 /\ tempbuf'[r] = "partbuf"
              /\ recvbuf'[r] = AR!SetToBag({<<r, reduces[r] + 1>>})
ArSends(r) == /\ AR!Send(r) /\ reduce_pc[r] = "loop" /\ reduce_pc'[r] = "receiving"
              /\ bit[r] # 0
              /\ reduces'[r] = reduces[r] /\ reduced'[r] = reduced[r]
              /\ bit'[r] = bit[r] /\ c0'[r] = c0[r] /\ c1'[r] = c1[r]
              /\ tempbuf'[r] = tempbuf[r]
              /\ recvbuf'[r] = recvbuf[r] /\ partbuf'[r] = partbuf[r]
ArReceives(r) ==
    LET in == Head(reduce_chan[AR!cyci(r)][r])
    IN  /\ AR!Recv(r) /\ reduce_pc[r] = "receiving" /\ reduce_pc'[r] = "sending"
        /\ reduces'[r] = reduces[r] /\ reduced'[r] = reduced[r]
        /\ bit'[r] = bit[r] /\ c0'[r] = c0[r] /\ c1'[r] = c1[r] /\ tempbuf'[r] = "inbuf"
        /\ recvbuf'[r] = AR!Reduce_local(in, recvbuf[r])
        /\ partbuf'[r] = IF tempbuf[r] = "partbuf" THEN in
                                                  ELSE AR!Reduce_local(in, partbuf[r])
ArGoesOn(r) == /\ AR!NextBit(r) /\ reduce_pc[r] = "sending" /\ reduce_pc'[r] = "loop"
               /\ reduces'[r] = reduces[r] /\ reduced'[r] = reduced[r]
               /\ bit'[r] = bit[r] \div 2 /\ tempbuf'[r] = tempbuf[r]
               /\ c0'[r] = (IF AR!BitSet(r) THEN c0[r] + c1[r] ELSE 2 * c0[r])
               /\ c1'[r] = (IF AR!BitSet(r) THEN 2 * c1[r] ELSE c0[r] + c1[r])
               /\ recvbuf'[r] = recvbuf[r] /\ partbuf'[r] = partbuf[r]
ArReturns(r) == /\ AR!Return(r) /\ reduce_pc[r] = "loop" /\ bit[r] = 0
                /\ reduce_pc'[r] = "outside"
                /\ reduces'[r] = reduces[r] /\ reduced'[r] = reduced[r] + 1
                /\ bit'[r] = bit[r] /\ tempbuf'[r] = tempbuf[r]
ArMoves(r) == /\ np' = np
              /\ \A q \in Rank \ {r} : ArKeeps(q)
              /\ ArCalls(r) \/ ArSends(r) \/ ArReceives(r) \/ ArGoesOn(r) \/ ArReturns(r)

LEMMA ArStepMoves ==
    ASSUME ArTypeInv, NEW r \in Rank, AR!Step(r)
    PROVE  ArMoves(r)
<1>0. /\ reduces \in [Rank -> Nat] /\ reduced \in [Rank -> Nat]
      /\ reduce_pc \in [Rank -> ArPlace] /\ bit \in [Rank -> Nat]
      /\ c0 \in [Rank -> Nat] /\ c1 \in [Rank -> Nat]
      /\ tempbuf \in [Rank -> {"partbuf", "inbuf"}]
      /\ recvbuf = [q \in Rank |-> recvbuf[q]]
      /\ partbuf = [q \in Rank |-> partbuf[q]]
  BY DEF ArTypeInv
<1>1. CASE AR!Call(r)
  <2>1. ArTop = AR!flp2[AR!n]
    BY DEF ArTop, AR!n
  <2>2. /\ np' = np
        /\ reduce_pc[r] = "outside" /\ reduce_pc' = [reduce_pc EXCEPT ![r] = "loop"]
        /\ reduces' = [reduces EXCEPT ![r] = @ + 1] /\ reduced' = reduced
        /\ bit' = [bit EXCEPT ![r] = ArTop]
        /\ c0' = [c0 EXCEPT ![r] = 0] /\ c1' = [c1 EXCEPT ![r] = 1]
        /\ tempbuf' = [tempbuf EXCEPT ![r] = "partbuf"]
        /\ recvbuf' = [recvbuf EXCEPT ![r] = AR!SetToBag({<<r, reduces[r] + 1>>})]
        /\ partbuf' = [partbuf EXCEPT ![r] = AR!Garbage]
    BY <1>1, <2>1 DEF AR!Call
  <2>3. ArCalls(r)
    BY <1>0, <1>1, <2>2 DEF ArCalls
  <2>4. \A q \in Rank \ {r} : ArKeeps(q)
    BY <1>0, <2>2 DEF ArKeeps
  <2> QED
    BY <2>2, <2>3, <2>4 DEF ArMoves
<1>2. CASE AR!Send(r)
  <2>2. /\ np' = np
        /\ reduce_pc[r] = "loop" /\ reduce_pc' = [reduce_pc EXCEPT ![r] = "receiving"]
        /\ bit[r] # 0
        /\ reduces' = reduces /\ reduced' = reduced /\ bit' = bit /\ c0' = c0 /\ c1' = c1
        /\ tempbuf' = tempbuf /\ recvbuf' = recvbuf /\ partbuf' = partbuf
    BY <1>2 DEF AR!Send, AR!local
  <2>3. ArSends(r)
    BY <1>0, <1>2, <2>2 DEF ArSends
  <2>4. \A q \in Rank \ {r} : ArKeeps(q)
    BY <1>0, <2>2 DEF ArKeeps
  <2> QED
    BY <2>2, <2>3, <2>4 DEF ArMoves
<1>3. CASE AR!Recv(r)
  <2> DEFINE in == Head(reduce_chan[AR!cyci(r)][r])
  <2>2. /\ np' = np
        /\ reduce_pc[r] = "receiving" /\ reduce_pc' = [reduce_pc EXCEPT ![r] = "sending"]
        /\ reduces' = reduces /\ reduced' = reduced /\ bit' = bit /\ c0' = c0 /\ c1' = c1
        /\ tempbuf' = [tempbuf EXCEPT ![r] = "inbuf"]
        /\ recvbuf' = [recvbuf EXCEPT ![r] = AR!Reduce_local(in, recvbuf[r])]
        /\ partbuf' = [partbuf EXCEPT ![r] =
               IF tempbuf[r] = "partbuf" THEN in ELSE AR!Reduce_local(in, partbuf[r])]
    BY <1>3 DEF AR!Recv
  <2> HIDE DEF in
  <2>3. /\ reduce_pc'[r] = "sending" /\ tempbuf'[r] = "inbuf"
        /\ recvbuf'[r] = AR!Reduce_local(in, recvbuf[r])
        /\ partbuf'[r] = IF tempbuf[r] = "partbuf" THEN in
                                                  ELSE AR!Reduce_local(in, partbuf[r])
    BY <1>0, <2>2
  <2>4. ArReceives(r)
    BY <1>3, <2>2, <2>3 DEF ArReceives, in
  <2>5. \A q \in Rank \ {r} : ArKeeps(q)
    BY <1>0, <2>2 DEF ArKeeps
  <2> QED
    BY <2>2, <2>4, <2>5 DEF ArMoves
<1>4. CASE AR!NextBit(r)
  <2>2. /\ np' = np
        /\ reduce_pc[r] = "sending" /\ reduce_pc' = [reduce_pc EXCEPT ![r] = "loop"]
        /\ reduces' = reduces /\ reduced' = reduced /\ tempbuf' = tempbuf
        /\ recvbuf' = recvbuf /\ partbuf' = partbuf
        /\ bit' = [bit EXCEPT ![r] = @ \div 2]
        /\ c0' = [c0 EXCEPT ![r] = IF AR!BitSet(r) THEN c0[r] + c1[r] ELSE 2 * c0[r]]
        /\ c1' = [c1 EXCEPT ![r] = IF AR!BitSet(r) THEN 2 * c1[r] ELSE c0[r] + c1[r]]
    BY <1>4 DEF AR!NextBit
  <2>3. ArGoesOn(r)
    BY <1>0, <1>4, <2>2 DEF ArGoesOn
  <2>4. \A q \in Rank \ {r} : ArKeeps(q)
    BY <1>0, <2>2 DEF ArKeeps
  <2> QED
    BY <2>2, <2>3, <2>4 DEF ArMoves
<1>5. CASE AR!Return(r)
  <2>2. /\ np' = np
        /\ reduce_pc[r] = "loop" /\ reduce_pc' = [reduce_pc EXCEPT ![r] = "outside"]
        /\ bit[r] = 0 /\ reduces' = reduces /\ reduced' = [reduced EXCEPT ![r] = @ + 1]
        /\ bit' = bit /\ c0' = c0 /\ c1' = c1
        /\ tempbuf' = tempbuf /\ recvbuf' = recvbuf /\ partbuf' = partbuf
    BY <1>5 DEF AR!Return, AR!local
  <2>3. ArReturns(r)
    BY <1>0, <1>5, <2>2 DEF ArReturns
  <2>4. \A q \in Rank \ {r} : ArKeeps(q)
    BY <1>0, <2>2 DEF ArKeeps
  <2> QED
    BY <2>2, <2>3, <2>4 DEF ArMoves
<1> QED
  BY <1>1, <1>2, <1>3, <1>4, <1>5 DEF AR!Step

LEMMA ArSameRanks ==
    ASSUME ArTypeInv, NEW r \in Rank, AR!Step(r)
    PROVE  np' = np /\ Rank' = Rank
<1>1. np' = np
  BY ArStepMoves DEF ArMoves
<1> QED
  BY <1>1, ArSame

\* The bits that share a channel.
LEMMA Pairs ==
    ASSUME np \in Nat \ {0}, NEW e \in ArBits, NEW f \in ArBits, ArDist(f) = ArDist(e)
    PROVE  /\ ArPaired(f) <=> ArPaired(e)
           /\ f # e => ArPaired(e)
           /\ ArPaired(e) => /\ e = ArTop \/ e = ArHalf
                             /\ ArTop \in ArBits /\ ArHalf \in ArBits
                             /\ ArTop = 2 * ArHalf /\ ArHalf \in Nat \ {0}
                             /\ ArDist(e) = 1 /\ ArDist(ArTop) = 1 /\ ArDist(ArHalf) = 1
                             /\ ArPaired(ArTop) /\ ArPaired(ArHalf)
           /\ \A k, l \in Nat : ArNumber(k, f) = ArNumber(l, e) => k = l /\ f = e
<1>1. np > 1 /\ e \in Nat \ {0} /\ f \in Nat \ {0}
  BY BitFacts
<1>2. /\ ArTop \in ArBits /\ ArDist(ArTop) = 1 /\ ArTop \in Nat \ {0}
  BY <1>1, TopFacts, BitFacts
<1>3. ArTop # 1 => ArHalf \in ArBits /\ ArTop = 2 * ArHalf /\ ArHalf \in Nat \ {0} /\ ArHalf # ArTop
  <2>1. \/ ArTop = 1 /\ ArTop \div 2 = 0
        \/ ArTop \div 2 \in ArBits /\ ArTop = 2 * (ArTop \div 2) /\ ArTop \div 2 # ArTop
    BY <1>2, NextBitIs
  <2>2. ArTop # 1 => ArHalf \in ArBits /\ ArTop = 2 * ArHalf /\ ArHalf # ArTop
    BY <2>1 DEF ArHalf
  <2>3. ArHalf \in ArBits => ArHalf \in Nat \ {0}
    BY <1>1, BitFacts
  <2> QED
    BY <2>2, <2>3
<1>4. ASSUME NEW g \in ArBits, NEW h \in ArBits, g < h, ArDist(g) = ArDist(h)
      PROVE  ArPaired(g) /\ ArPaired(h)
  <2>1. h = ArTop /\ h = 2 * g /\ ArDist(g) = 1 /\ g \in Nat \ {0}
    BY <1>1, <1>4, Distances, BitFacts
  <2>2. ArTop # 1
    BY <2>1
  <2>3. ArHalf = g
    BY <1>3, <2>1, <2>2
  <2> QED
    BY <2>1, <2>2, <2>3 DEF ArPaired
<1>5. f # e => ArPaired(e) /\ ArPaired(f)
  <2>1. CASE f < e
    BY <1>4, <2>1
  <2>2. CASE e < f
    BY <1>4, <2>2
  <2> QED
    BY <1>1, <2>1, <2>2
<1>6. ArPaired(f) <=> ArPaired(e)
  BY <1>5
<1>7. ArPaired(e) => /\ e = ArTop \/ e = ArHalf
                     /\ ArTop \in ArBits /\ ArHalf \in ArBits
                     /\ ArTop = 2 * ArHalf /\ ArHalf \in Nat \ {0} /\ ArHalf # ArTop
                     /\ ArDist(e) = 1 /\ ArDist(ArTop) = 1 /\ ArDist(ArHalf) = 1
                     /\ ArPaired(ArTop) /\ ArPaired(ArHalf)
  BY <1>2, <1>3 DEF ArPaired
<1>8. ASSUME NEW k \in Nat, NEW l \in Nat, ArNumber(k, f) = ArNumber(l, e)
      PROVE  k = l /\ f = e
  <2>1. CASE ~ArPaired(e)
    BY <1>5, <1>6, <1>8, <2>1 DEF ArNumber
  <2>2. CASE ArPaired(e)
    <3>1. (f = ArTop \/ f = ArHalf) /\ (e = ArTop \/ e = ArHalf) /\ ArHalf # ArTop
      BY <1>6, <1>7, <2>2 DEF ArPaired
    <3>2. ArNumber(k, f) = IF f = ArTop THEN 2 * k - 1 ELSE 2 * k
      BY <1>6, <2>2 DEF ArNumber
    <3>3. ArNumber(l, e) = IF e = ArTop THEN 2 * l - 1 ELSE 2 * l
      BY <2>2 DEF ArNumber
    <3>4. 2 * k # 2 * l - 1 /\ 2 * k - 1 # 2 * l
      OBVIOUS
    <3>5. CASE f = ArTop /\ e = ArTop
      <4>1. 2 * k - 1 = 2 * l - 1
        BY <1>8, <3>2, <3>3, <3>5
      <4> QED
        BY <3>5, <4>1
    <3>6. CASE f # ArTop /\ e # ArTop
      <4>1. 2 * k = 2 * l
        BY <1>8, <3>2, <3>3, <3>6
      <4> QED
        BY <3>1, <3>6, <4>1
    <3> QED
      BY <1>8, <3>2, <3>3, <3>4, <3>5, <3>6
  <2> QED
    BY <2>1, <2>2
<1> QED
  BY <1>5, <1>6, <1>7, <1>8

\* What the counts of a process have to do with each other.
LEMMA ArCountFacts ==
    ASSUME ArTypeInv, NEW q \in Rank, NEW e \in ArBits
    PROVE  /\ ArOut(q, e) \in Int /\ ArIn(q, e) \in Int
           /\ ArSent(q, e) \in Int /\ ArGot(q, e) \in Int
           /\ reduces[q] - 1 <= ArIn(q, e) /\ ArIn(q, e) <= ArOut(q, e)
           /\ ArOut(q, e) <= reduces[q]
           /\ ArPaired(e) =>
                 /\ ArOut(q, ArHalf) \in Int /\ ArOut(q, ArTop) \in Int
                 /\ ArIn(q, ArHalf) \in Int /\ ArIn(q, ArTop) \in Int
                 /\ ArOut(q, ArHalf) <= ArOut(q, ArTop) /\ ArOut(q, ArTop) <= ArOut(q, ArHalf) + 1
                 /\ ArIn(q, ArHalf) <= ArIn(q, ArTop) /\ ArIn(q, ArTop) <= ArIn(q, ArHalf) + 1
<1>1. /\ np \in Nat \ {0} /\ reduces[q] \in Nat /\ bit[q] \in Nat /\ reduce_pc[q] \in ArPlace
  BY ArTypes
<1>2. \A x : ArOut(q, x) \in {reduces[q] - 1, reduces[q]} /\ ArIn(q, x) \in {reduces[q] - 1, reduces[q]}
  BY DEF ArOut, ArIn
<1>3. \A x : ArIn(q, x) <= ArOut(q, x)
  BY <1>1 DEF ArOut, ArIn
<1>4. ASSUME ArPaired(e)
      PROVE  ArOut(q, ArHalf) <= ArOut(q, ArTop) /\ ArIn(q, ArHalf) <= ArIn(q, ArTop)
  <2>1. ArTop = 2 * ArHalf /\ ArHalf \in Nat \ {0}
    BY <1>1, <1>4, Pairs
  <2>2. ArHalf < ArTop /\ ArTop \in Nat
    BY <2>1
  <2> HIDE DEF ArHalf, ArTop
  <2> QED
    BY <1>1, <2>1, <2>2 DEF ArOut, ArIn
<1>5. \A x : ArOut(q, x) \in Int /\ ArIn(q, x) \in Int
  BY <1>1, <1>2
<1>6. ArSent(q, e) \in Int /\ ArGot(q, e) \in Int
  BY <1>5 DEF ArSent, ArGot
<1> QED
  BY <1>1, <1>2, <1>3, <1>4, <1>5, <1>6

\* What r sends.
LEMMA ArSendIs ==
    ASSUME ArTypeInv, ArControlInv, ArDataInv, NEW r \in Rank, AR!Send(r)
    PROVE  LET q == DBP!Below(r, ArDist(bit[r]))
           IN  /\ q \in Rank /\ AR!cyco(r) = q /\ bit[r] \in ArBits
               /\ reduce_pc[r] = "loop"
               /\ (IF AR!BitSet(r) THEN recvbuf[r] ELSE partbuf[r]) = ArMessage(q, reduces[r], bit[r])
               /\ ArMessage(q, reduces[r], bit[r]) \in ArBuffers
<1> DEFINE b == bit[r]
           x == ArDist(b)
           q == DBP!Below(r, x)
           k == reduces[r]
<1>1. reduce_pc[r] = "loop" /\ b # 0
  BY DEF AR!Send
<1>2. /\ b \in ArBits /\ x \in 1 .. np - 1 /\ (AR!BitSet(r) <=> ArSet(b))
      /\ AR!cyco(r) = q /\ q \in Rank
  BY <1>1, ArPartners
<1>3. np \in Nat \ {0} /\ k \in Nat
  BY ArTypes
<1> HIDE DEF b, k
<1>4. /\ ArBefore(b) \in Nat /\ ArRead(b) \in 1 .. np - 1 /\ x + ArBefore(b) = ArRead(b)
  BY <1>2, <1>3, BitFacts
<1>5. DBP!Above(q, x) = r
  <2>1. x \in 0 .. np - 1
    BY <1>2
  <2> HIDE DEF x
  <2> QED
    BY <1>3, <2>1, Ring DEF q
<1>6. ArDone(r) = ArBefore(b)
  BY <1>1 DEF ArDone, b
<1>a. recvbuf[r] = ArSum(r, 0, ArBefore(b), k)
  BY <1>1, <1>6 DEF ArDataInv, k
<1>b. tempbuf[r] = "inbuf" => partbuf[r] = ArSum(r, 1, ArBefore(b), k)
  BY <1>1, <1>6 DEF ArDataInv, k
<1>c. ~ArSet(b) => tempbuf[r] = "inbuf"
  <2>1. ~ArSet(b) => b # ArTop
    <3>1. np > 1 /\ np \in Nat
      BY <1>2, <1>3, BitFacts
    <3> QED
      BY <3>1, TopFacts
  <2>2. b # ArTop => tempbuf[r] = "inbuf"
    BY <1>1 DEF ArControlInv, b
  <2> QED
    BY <2>1, <2>2
<1> HIDE DEF x, q
<1>7. ArSum(r, 0, ArBefore(b), k) = ArSum(q, x, ArRead(b), k)
  <2>1. x \in Nat /\ 0 \in Nat /\ x + ArBefore(b) <= np - 1 /\ x + 0 = x
    BY <1>2, <1>3, <1>4
  <2> QED
    BY <1>2, <1>3, <1>4, <1>5, <2>1, SumShift
<1>8. ArSum(r, 1, ArBefore(b), k) = ArSum(q, x + 1, ArRead(b), k)
  <2>1. x \in Nat /\ 1 \in Nat /\ x + ArBefore(b) <= np - 1
    BY <1>2, <1>3, <1>4
  <2> QED
    BY <1>2, <1>3, <1>4, <1>5, <2>1, SumShift
<1>9. (IF AR!BitSet(r) THEN recvbuf[r] ELSE partbuf[r]) = ArMessage(q, k, b)
  <2>1. CASE ArSet(b)
    <3>1. x = ArBefore(b) + 1
      BY <2>1 DEF x, ArDist
    <3> QED
      BY <1>2, <1>7, <1>a, <2>1, <3>1 DEF ArMessage
  <2>2. CASE ~ArSet(b)
    <3>1. x = ArBefore(b)
      BY <2>2 DEF x, ArDist
    <3> QED
      BY <1>2, <1>8, <1>b, <1>c, <2>2, <3>1 DEF ArMessage
  <2> QED
    BY <2>1, <2>2
<1>10. ArMessage(q, k, b) \in ArBuffers
  <2>1. ArBefore(b) + 1 \in Nat /\ ArRead(b) \in 0 .. np - 1
    BY <1>4
  <2> QED
    BY <1>2, <1>3, <2>1, SumTyped DEF ArMessage
<1> QED
  BY <1>1, <1>2, <1>9, <1>10 DEF x, q, b, k

\* What r receives: the message for its bit and its call, which its partner
\* has sent.
LEMMA ArRecvIs ==
    ASSUME ArTypeInv, ArControlInv, ArChanInv, NEW r \in Rank, AR!Recv(r)
    PROVE  LET s == DBP!Above(r, ArDist(bit[r]))
               c == reduce_chan[s][r]
           IN  /\ s \in Rank /\ AR!cyci(r) = s /\ DBP!Below(s, ArDist(bit[r])) = r
               /\ bit[r] \in ArBits
               /\ c \in Seq(ArBuffers) /\ c # <<>>
               /\ Head(c) = ArMessage(r, reduces[r], bit[r])
               /\ ArOut(s, bit[r]) >= reduces[r]
<1> DEFINE b == bit[r]
           x == ArDist(b)
           s == DBP!Above(r, x)
           c == reduce_chan[s][r]
           k == reduces[r]
<1>1. reduce_pc[r] = "receiving" /\ b # 0
  BY DEF AR!Recv, ArControlInv
<1>2. /\ b \in ArBits /\ x \in 1 .. np - 1 /\ AR!cyci(r) = s /\ s \in Rank
  BY <1>1, ArPartners
<1>3. np \in Nat \ {0} /\ k \in Nat /\ c \in Seq(ArBuffers) /\ bit[r] \in Nat
  BY <1>2, ArTypes
<1>4. c # <<>>
  BY <1>2 DEF AR!Recv
<1>5. DBP!Below(s, x) = r
  <2>1. x \in 0 .. np - 1
    BY <1>2
  <2> HIDE DEF x
  <2> QED
    BY <1>3, <2>1, Ring DEF s
<1> HIDE DEF s
<1>6. ArCarries(s, r, b)
  BY <1>2, <1>5 DEF ArChanInv
<1>7. Len(c) \in Nat \ {0} /\ Head(c) = c[1] /\ 1 \in 1 .. Len(c)
  BY <1>3, <1>4
<1>8. /\ Len(c) = ArSent(s, b) - ArGot(r, b)
      /\ \A l \in Nat, f \in ArBits, j \in 1 .. Len(c) :
            ArDist(f) = ArDist(b) /\ ArNumber(l, f) = ArGot(r, b) + j => c[j] = ArMessage(r, l, f)
  BY <1>6 DEF ArCarries
<1>9. /\ ArSent(s, b) \in Int /\ ArGot(r, b) \in Int /\ ArOut(s, b) \in Int /\ ArIn(r, b) \in Int
      /\ ArPaired(b) =>
           /\ ArOut(s, ArHalf) \in Int /\ ArOut(s, ArTop) \in Int
           /\ ArIn(r, ArHalf) \in Int /\ ArIn(r, ArTop) \in Int
           /\ ArOut(s, ArHalf) <= ArOut(s, ArTop) /\ ArOut(s, ArTop) <= ArOut(s, ArHalf) + 1
  BY <1>2, ArTypes, ArCountFacts
<1>a. ArPaired(b) => /\ b = ArTop \/ b = ArHalf
                     /\ ArTop = 2 * ArHalf /\ ArHalf \in Nat \ {0}
  BY <1>2, <1>3, Pairs
<1>10. ArNumber(k, b) = ArGot(r, b) + 1
  <2>1. ArIn(r, b) = k - 1
    BY <1>1, <1>3 DEF ArIn, b, k
  <2>2. CASE ~ArPaired(b)
    BY <1>3, <2>1, <2>2 DEF ArNumber, ArGot
  <2>3. CASE ArPaired(b) /\ b = ArTop
    <3>1. ArHalf < b /\ b \in Nat /\ ArHalf # b
      BY <1>a, <2>3
    <3>2. ArIn(r, ArHalf) = k - 1
      <4> HIDE DEF ArHalf
      <4>1. ~(bit[r] < ArHalf) /\ bit[r] # ArHalf
        BY <1>3, <1>a, <2>3, <3>1
      <4> QED
        BY <1>1, <1>3, <4>1 DEF ArIn, k
    <3> HIDE DEF k
    <3>3. ArNumber(k, b) = 2 * k - 1 /\ ArGot(r, b) = ArIn(r, b) + ArIn(r, ArHalf)
      BY <2>3 DEF ArNumber, ArGot
    <3> QED
      BY <1>3, <2>1, <3>2, <3>3
  <2>4. CASE ArPaired(b) /\ b # ArTop
    <3>1. b < ArTop /\ b = ArHalf
      BY <1>a, <2>4
    <3>2. ArIn(r, ArTop) = k
      BY <1>1, <1>3, <3>1 DEF ArIn, b, k
    <3> HIDE DEF k
    <3>3. ArNumber(k, b) = 2 * k /\ ArGot(r, b) = ArIn(r, ArTop) + ArIn(r, b)
      BY <2>4, <3>1 DEF ArNumber, ArGot
    <3> QED
      BY <1>3, <2>1, <3>2, <3>3
  <2> QED
    BY <2>2, <2>3, <2>4
<1>11. Head(c) = ArMessage(r, k, b)
  BY <1>2, <1>3, <1>7, <1>8, <1>10
<1>12. ArOut(s, b) >= k
  <2> HIDE DEF c, k, b
  <2>1. ArSent(s, b) >= ArNumber(k, b)
    BY <1>7, <1>8, <1>9, <1>10
  <2>2. CASE ~ArPaired(b)
    BY <2>1, <2>2 DEF ArNumber, ArSent
  <2>3. CASE ArPaired(b) /\ b = ArTop
    BY <1>3, <1>9, <2>1, <2>3 DEF ArNumber, ArSent
  <2>4. CASE ArPaired(b) /\ b # ArTop
    <3>1. b = ArHalf
      BY <1>a, <2>4
    <3> QED
      BY <1>3, <1>9, <2>1, <2>4, <3>1 DEF ArNumber, ArSent
  <2> QED
    BY <2>2, <2>3, <2>4
<1> QED
  BY <1>2, <1>3, <1>4, <1>5, <1>11, <1>12 DEF s

LEMMA ArTypeStep ==
    ASSUME ArInv, NEW r \in Rank, AR!Step(r)
    PROVE  ArTypeInv'
<1>0. /\ np \in Nat \ {0} /\ np' = np /\ Rank' = Rank /\ ArTop \in Nat
      /\ reduces \in [Rank -> Nat] /\ reduced \in [Rank -> Nat]
      /\ reduce_pc \in [Rank -> ArPlace] /\ bit \in [Rank -> Nat]
      /\ c0 \in [Rank -> Nat] /\ c1 \in [Rank -> Nat]
      /\ tempbuf \in [Rank -> {"partbuf", "inbuf"}]
      /\ recvbuf = [q \in Rank |-> recvbuf[q]]
      /\ partbuf = [q \in Rank |-> partbuf[q]]
      /\ reduce_chan \in [Rank -> [Rank -> Seq(ArBuffers)]]
  <2>1. np - 1 \in Nat
    BY ArTypes DEF ArInv
  <2>2. ArTop \in Nat
    BY <2>1, FlpDef DEF ArTop
  <2> QED
    BY <2>2, ArSameRanks DEF ArInv, ArTypeInv
<1>a. ArBuffers' = ArBuffers
  BY DEF ArBuffers, AR!SetToBag
<1>1. CASE AR!Call(r)
  <2>0. AR!flp2[AR!n] = ArTop
    BY DEF ArTop, AR!n
  <2>1. reduces' \in [Rank -> Nat] /\ reduced' \in [Rank -> Nat] /\ reduce_pc' \in [Rank -> ArPlace]
    BY <1>0, <1>1 DEF AR!Call, ArPlace
  <2>2. bit' \in [Rank -> Nat] /\ c0' \in [Rank -> Nat] /\ c1' \in [Rank -> Nat]
    BY <1>0, <1>1, <2>0 DEF AR!Call
  <2>3. /\ tempbuf' \in [Rank -> {"partbuf", "inbuf"}] /\ reduce_chan' = reduce_chan
    BY <1>0, <1>1 DEF AR!Call
  <2>4. recvbuf' = [q \in Rank |-> recvbuf'[q]] /\ partbuf' = [q \in Rank |-> partbuf'[q]]
    BY <1>0, <1>1 DEF AR!Call
  <2> QED
    BY <1>0, <1>a, <2>1, <2>2, <2>3, <2>4 DEF ArTypeInv
<1>2. CASE AR!Send(r)
  <2> DEFINE q == AR!cyco(r)
             out == IF AR!BitSet(r) THEN recvbuf[r] ELSE partbuf[r]
  <2>1. q \in Rank /\ out \in ArBuffers
    BY <1>2, ArSendIs DEF ArInv
  <2>2. reduce_chan' = [reduce_chan EXCEPT ![r][q] = Append(@, out)]
    BY <1>2 DEF AR!Send
  <2> HIDE DEF q, out
  <2>3. Append(reduce_chan[r][q], out) \in Seq(ArBuffers)
    <3>1. reduce_chan[r][q] \in Seq(ArBuffers)
      BY <1>0, <2>1
    <3> QED
      BY <2>1, <3>1
  <2>4. reduce_chan' \in [Rank -> [Rank -> Seq(ArBuffers)]]
    BY <1>0, <2>1, <2>2, <2>3
  <2>5. /\ reduces' = reduces /\ reduced' = reduced /\ bit' = bit /\ c0' = c0 /\ c1' = c1
        /\ tempbuf' = tempbuf /\ recvbuf' = recvbuf /\ partbuf' = partbuf
        /\ reduce_pc' \in [Rank -> ArPlace]
    BY <1>0, <1>2 DEF AR!Send, AR!local, ArPlace
  <2> QED
    BY <1>0, <1>a, <2>4, <2>5 DEF ArTypeInv
<1>3. CASE AR!Recv(r)
  <2> DEFINE s == AR!cyci(r)
  <2>1. s \in Rank /\ reduce_chan[s][r] \in Seq(ArBuffers) /\ reduce_chan[s][r] # <<>>
    BY <1>3, ArRecvIs DEF ArInv
  <2>2. reduce_chan' = [reduce_chan EXCEPT ![s][r] = Tail(@)]
    BY <1>3 DEF AR!Recv
  <2> HIDE DEF s
  <2>3. Tail(reduce_chan[s][r]) \in Seq(ArBuffers)
    BY <2>1
  <2>4. reduce_chan' \in [Rank -> [Rank -> Seq(ArBuffers)]]
    BY <1>0, <2>1, <2>2, <2>3
  <2>5. /\ reduces' = reduces /\ reduced' = reduced /\ bit' = bit /\ c0' = c0 /\ c1' = c1
        /\ tempbuf' \in [Rank -> {"partbuf", "inbuf"}] /\ reduce_pc' \in [Rank -> ArPlace]
    BY <1>0, <1>3 DEF AR!Recv, ArPlace
  <2>6. recvbuf' = [q \in Rank |-> recvbuf'[q]] /\ partbuf' = [q \in Rank |-> partbuf'[q]]
    BY <1>0, <1>3 DEF AR!Recv
  <2> QED
    BY <1>0, <1>a, <2>4, <2>5, <2>6 DEF ArTypeInv
<1>4. CASE AR!NextBit(r)
  <2>1. /\ reduces' = reduces /\ reduced' = reduced /\ tempbuf' = tempbuf
        /\ recvbuf' = recvbuf /\ partbuf' = partbuf /\ reduce_chan' = reduce_chan
        /\ reduce_pc' \in [Rank -> ArPlace]
    BY <1>0, <1>4 DEF AR!NextBit, ArPlace
  <2>2. bit' \in [Rank -> Nat]
    <3>1. bit[r] \div 2 \in Nat
      BY <1>0
    <3> QED
      BY <1>0, <1>4, <3>1 DEF AR!NextBit
  <2>3. c0' \in [Rank -> Nat] /\ c1' \in [Rank -> Nat]
    <3>1. c0[r] \in Nat /\ c1[r] \in Nat /\ c0[r] + c1[r] \in Nat /\ 2 * c0[r] \in Nat /\ 2 * c1[r] \in Nat
      BY <1>0
    <3> QED
      BY <1>0, <1>4, <3>1 DEF AR!NextBit
  <2> QED
    BY <1>0, <1>a, <2>1, <2>2, <2>3 DEF ArTypeInv
<1>5. CASE AR!Return(r)
  <2>1. /\ reduces' = reduces /\ bit' = bit /\ c0' = c0 /\ c1' = c1
        /\ tempbuf' = tempbuf /\ recvbuf' = recvbuf /\ partbuf' = partbuf
        /\ reduce_chan' = reduce_chan
        /\ reduce_pc' \in [Rank -> ArPlace] /\ reduced' \in [Rank -> Nat]
    BY <1>0, <1>5 DEF AR!Return, AR!local, ArPlace
  <2> QED
    BY <1>0, <1>a, <2>1 DEF ArTypeInv
<1> QED
  BY <1>1, <1>2, <1>3, <1>4, <1>5 DEF AR!Step

LEMMA ArControlStep ==
    ASSUME ArInv, NEW r \in Rank, AR!Step(r)
    PROVE  ArControlInv'
<1>0. /\ Rank' = Rank /\ np' = np /\ ArMoves(r) /\ ArControlInv /\ np \in Nat \ {0}
      /\ ArBits' = ArBits /\ ArTop' = ArTop /\ \A e : ArBefore(e)' = ArBefore(e)
      /\ \A q \in Rank : /\ reduces[q] \in Nat /\ reduced[q] \in Nat /\ bit[q] \in Nat
                         /\ reduce_pc[q] \in ArPlace
  BY ArSameRanks, ArSame, ArStepMoves, ArTypes DEF ArInv
<1> SUFFICES ASSUME NEW q \in Rank
             PROVE  /\ reduced'[q] = IF reduce_pc'[q] = "outside" THEN reduces'[q] ELSE reduces'[q] - 1
                    /\ reduce_pc'[q] # "outside" => bit'[q] \in ArBits \cup {0}
                    /\ reduce_pc'[q] # "outside" /\ bit'[q] # 0 =>
                          c0'[q] = ArBefore(bit'[q]) /\ c1'[q] = ArBefore(bit'[q]) + 1
                    /\ reduce_pc'[q] \in {"receiving", "sending"} => bit'[q] # 0
                    /\ reduce_pc'[q] # "outside" =>
                          tempbuf'[q] = IF bit'[q] = ArTop /\ reduce_pc'[q] \in {"loop", "receiving"}
                                        THEN "partbuf" ELSE "inbuf"
  <2>1. \A q \in Rank : ArBefore(bit[q])' = ArBefore(bit'[q])
    BY <1>0 DEF ArBefore, ArRead
  <2> QED
    BY <1>0, <2>1 DEF ArControlInv
<1>1. CASE q # r
  <2>1. ArKeeps(q)
    BY <1>0, <1>1 DEF ArMoves
  <2> QED
    BY <1>0, <2>1 DEF ArKeeps, ArControlInv
<1>2. CASE q = r
  <2>0. /\ reduced[r] = IF reduce_pc[r] = "outside" THEN reduces[r] ELSE reduces[r] - 1
        /\ reduce_pc[r] # "outside" => bit[r] \in ArBits \cup {0}
        /\ reduce_pc[r] # "outside" /\ bit[r] # 0 =>
              c0[r] = ArBefore(bit[r]) /\ c1[r] = ArBefore(bit[r]) + 1
        /\ reduce_pc[r] \in {"receiving", "sending"} => bit[r] # 0
        /\ reduce_pc[r] # "outside" =>
              tempbuf[r] = IF bit[r] = ArTop /\ reduce_pc[r] \in {"loop", "receiving"}
                           THEN "partbuf" ELSE "inbuf"
    BY DEF ArInv, ArControlInv
  <2>1. CASE ArCalls(r)
    <3>1. ArTop = 0 \/ (ArTop \in ArBits /\ ArBefore(ArTop) = 0)
      <4>1. CASE np = 1
        <5>1. np - 1 = 0
          BY <4>1
        <5> QED
          BY <5>1, FlpDef DEF ArTop
      <4>2. CASE np # 1
        BY <1>0, <4>2, TopFacts
      <4> QED
        BY <4>1, <4>2
    <3> QED
      BY <1>0, <1>2, <2>0, <2>1, <3>1 DEF ArCalls
  <2>2. CASE ArSends(r)
    BY <1>0, <1>2, <2>0, <2>2 DEF ArSends
  <2>3. CASE ArReceives(r)
    BY <1>0, <1>2, <2>0, <2>3 DEF ArReceives
  <2>4. CASE ArGoesOn(r)
    <3> DEFINE b == bit[r]
               g == b \div 2
    <3>1. /\ reduce_pc[r] = "sending" /\ reduce_pc'[r] = "loop"
          /\ reduces'[r] = reduces[r] /\ reduced'[r] = reduced[r]
          /\ bit'[r] = g /\ tempbuf'[r] = tempbuf[r]
          /\ c0'[r] = (IF AR!BitSet(r) THEN c0[r] + c1[r] ELSE 2 * c0[r])
          /\ c1'[r] = (IF AR!BitSet(r) THEN 2 * c1[r] ELSE c0[r] + c1[r])
      BY <2>4 DEF ArGoesOn
    <3>2. /\ b \in ArBits /\ c0[r] = ArBefore(b) /\ c1[r] = ArBefore(b) + 1
          /\ (AR!BitSet(r) <=> ArSet(b)) /\ tempbuf[r] = "inbuf"
      BY <2>0, <3>1, ArPartners DEF ArInv
    <3>3. /\ ArBefore(b) \in Nat
          /\ ArRead(b) = IF ArSet(b) THEN 2 * ArBefore(b) + 1 ELSE 2 * ArBefore(b)
          /\ np > 1 /\ ArTop \in Nat \ {0} /\ b <= ArTop /\ b \in Nat
      <4>1. np > 1 /\ np \in Nat
        BY <1>0, <3>2, BitFacts
      <4>2. ArTop \in Nat \ {0} /\ b <= ArTop
        BY <1>0, <3>2, <4>1, TopFacts, BitFacts
      <4> QED
        BY <1>0, <3>2, <4>1, <4>2, BitFacts
    <3>4. \/ b = 1 /\ g = 0
          \/ g \in ArBits /\ b = 2 * g /\ g # b
      BY <1>0, <3>2, NextBitIs
    <3>5. c0'[r] = ArRead(b) /\ c1'[r] = ArRead(b) + 1
      <4> HIDE DEF b
      <4>1. CASE ArSet(b)
        BY <3>1, <3>2, <3>3, <4>1
      <4>2. CASE ~ArSet(b)
        BY <3>1, <3>2, <3>3, <4>2
      <4> QED
        BY <4>1, <4>2
    <3> HIDE DEF g
    <3>6. g # ArTop
      <4>1. g \in ArBits => g \in Nat
        BY <1>0, BitFacts
      <4> QED
        BY <3>3, <3>4, <4>1
    <3>7. g \in ArBits => ArBefore(g) = ArRead(b)
      <4>1. g \in ArBits => ArRead(2 * g) = ArBefore(g)
        BY <1>0, BitFacts
      <4>2. g \in ArBits => g # 0
        BY <1>0, BitFacts
      <4> QED
        BY <3>4, <4>1, <4>2
    <3>8. g \in ArBits \/ g = 0
      BY <3>4
    <3> QED
      BY <1>0, <1>2, <2>0, <3>1, <3>2, <3>5, <3>6, <3>7, <3>8
  <2>5. CASE ArReturns(r)
    BY <1>0, <1>2, <2>0, <2>5 DEF ArReturns
  <2> QED
    BY <1>0, <2>1, <2>2, <2>3, <2>4, <2>5 DEF ArMoves
<1> QED
  BY <1>1, <1>2

LEMMA ArDataStep ==
    ASSUME ArInv, NEW r \in Rank, AR!Step(r)
    PROVE  ArDataInv'
<1>0. /\ Rank' = Rank /\ np' = np /\ ArMoves(r) /\ np \in Nat \ {0}
      /\ \A e : ArBefore(e)' = ArBefore(e) /\ ArRead(e)' = ArRead(e)
      /\ \A p, x : DBP!Above(p, x)' = DBP!Above(p, x)
      /\ \A q \in Rank : reduces[q] \in Nat /\ bit[q] \in Nat /\ reduce_pc[q] \in ArPlace
  BY ArSameRanks, ArSame, ArStepMoves, ArTypes DEF ArInv
<1>a. ASSUME NEW q \in Rank
      PROVE  ArDone(q)' = IF bit'[q] = 0 THEN np - 1
                          ELSE IF reduce_pc'[q] = "sending" THEN ArRead(bit'[q])
                                                            ELSE ArBefore(bit'[q])
  BY <1>0 DEF ArDone, ArBefore, ArRead
<1>b. ASSUME NEW q \in Rank, NEW lo \in Nat
      PROVE  ArSum(q, lo, ArDone(q), reduces[q])' = ArSum(q, lo, ArDone(q)', reduces'[q])
  BY <1>0 DEF ArSum, AR!SetToBag
<1> SUFFICES ASSUME NEW q \in Rank, reduce_pc'[q] # "outside"
             PROVE  /\ recvbuf'[q] = ArSum(q, 0, ArDone(q)', reduces'[q])
                    /\ tempbuf'[q] = "inbuf" => partbuf'[q] = ArSum(q, 1, ArDone(q)', reduces'[q])
  BY <1>0, <1>b DEF ArDataInv
<1>1. CASE q # r
  <2>1. ArKeeps(q)
    BY <1>0, <1>1 DEF ArMoves
  <2>2. ArDone(q)' = ArDone(q)
    BY <1>a, <2>1 DEF ArKeeps, ArDone
  <2> QED
    BY <2>1, <2>2 DEF ArKeeps, ArInv, ArDataInv
<1>2. CASE q = r
  <2>0. reduce_pc[r] # "outside" =>
            /\ recvbuf[r] = ArSum(r, 0, ArDone(r), reduces[r])
            /\ tempbuf[r] = "inbuf" => partbuf[r] = ArSum(r, 1, ArDone(r), reduces[r])
    BY DEF ArInv, ArDataInv
  <2>1. CASE ArCalls(r)
    <3>1. ArDone(r)' = 0
      <4>1. CASE np = 1
        <5>1. np - 1 = 0
          BY <4>1
        <5>2. ArTop = 0
          BY <5>1, FlpDef DEF ArTop
        <5> QED
          BY <1>a, <2>1, <5>1, <5>2 DEF ArCalls
      <4>2. CASE np # 1
        <5>1. ArTop \in ArBits /\ ArBefore(ArTop) = 0
          BY <1>0, <4>2, TopFacts
        <5>2. ArTop # 0
          BY <1>0, <5>1, BitFacts
        <5> QED
          BY <1>a, <2>1, <5>1, <5>2 DEF ArCalls
      <4> QED
        BY <4>1, <4>2
    <3>2. ArSum(r, 0, 0, reduces[r] + 1) = AR!SetToBag({<<r, reduces[r] + 1>>})
      BY <1>0, SumOwn
    <3> QED
      BY <1>2, <2>1, <3>1, <3>2 DEF ArCalls
  <2>2. CASE ArSends(r)
    <3>1. ArDone(r)' = ArDone(r)
      BY <1>a, <2>2 DEF ArSends, ArDone
    <3> QED
      BY <1>2, <2>0, <2>2, <3>1 DEF ArSends
  <2>3. CASE ArReceives(r)
    <3> DEFINE b == bit[r]
               k == reduces[r]
               in == Head(reduce_chan[AR!cyci(r)][r])
    <3>1. /\ reduce_pc[r] = "receiving" /\ reduce_pc'[r] = "sending"
          /\ reduces'[r] = k /\ bit'[r] = b
          /\ recvbuf'[r] = AR!Reduce_local(in, recvbuf[r])
          /\ partbuf'[r] = IF tempbuf[r] = "partbuf" THEN in ELSE AR!Reduce_local(in, partbuf[r])
      BY <2>3 DEF ArReceives
    <3>2. AR!Recv(r)
      BY <2>3 DEF ArReceives
    <3>3. b \in ArBits /\ in = ArSum(r, ArBefore(b) + 1, ArRead(b), k)
      BY <3>2, ArRecvIs DEF ArInv, ArMessage
    <3> HIDE DEF in
    <3>4. /\ ArBefore(b) \in Nat /\ ArRead(b) \in 1 .. np - 1 /\ b # 0 /\ np > 1
          /\ ArRead(b) = IF ArSet(b) THEN 2 * ArBefore(b) + 1 ELSE 2 * ArBefore(b)
      BY <1>0, <3>3, BitFacts
    <3>5. ArDone(r) = ArBefore(b) /\ ArDone(r)' = ArRead(b)
      BY <1>a, <3>1, <3>4 DEF ArDone
    <3>6. tempbuf[r] \in {"partbuf", "inbuf"} /\ (tempbuf[r] = "partbuf" => b = ArTop)
      BY <3>1, ArTypes DEF ArInv, ArControlInv
    <3>7. ArBefore(b) <= ArRead(b) /\ ArRead(b) \in 0 .. np - 1 /\ 0 <= ArBefore(b) + 1 /\ 1 <= ArBefore(b) + 1
      BY <3>4
    <3> HIDE DEF b, k
    <3>8. AR!Reduce_local(in, ArSum(r, 0, ArBefore(b), k)) = ArSum(r, 0, ArRead(b), k)
      BY <1>0, <3>3, <3>4, <3>7, SumJoin
    <3>9. AR!Reduce_local(in, ArSum(r, 1, ArBefore(b), k)) = ArSum(r, 1, ArRead(b), k)
      BY <1>0, <3>3, <3>4, <3>7, SumJoin
    <3>10. recvbuf'[r] = ArSum(r, 0, ArRead(b), k)
      BY <2>0, <3>1, <3>5, <3>8 DEF k
    <3>11. partbuf'[r] = ArSum(r, 1, ArRead(b), k)
      <4>1. CASE tempbuf[r] = "partbuf"
        <5>1. ArBefore(b) = 0
          BY <1>0, <3>4, <3>6, <4>1, TopFacts
        <5> QED
          BY <3>1, <3>3, <4>1, <5>1
      <4>2. CASE tempbuf[r] = "inbuf"
        BY <2>0, <3>1, <3>5, <3>9, <4>2 DEF k
      <4> QED
        BY <3>6, <4>1, <4>2
    <3> QED
      BY <1>2, <3>1, <3>5, <3>10, <3>11
  <2>4. CASE ArGoesOn(r)
    <3> DEFINE b == bit[r]
               g == b \div 2
    <3>1. /\ reduce_pc[r] = "sending" /\ reduce_pc'[r] = "loop" /\ bit'[r] = g
          /\ reduces'[r] = reduces[r] /\ tempbuf'[r] = tempbuf[r]
          /\ recvbuf'[r] = recvbuf[r] /\ partbuf'[r] = partbuf[r]
      BY <2>4 DEF ArGoesOn
    <3>2. b \in ArBits
      BY <3>1 DEF ArInv, ArControlInv
    <3>3. \/ b = 1 /\ g = 0
          \/ g \in ArBits /\ b = 2 * g /\ g # b
      BY <1>0, <3>2, NextBitIs
    <3>4. b # 0 /\ np > 1
      BY <1>0, <3>2, BitFacts
    <3> HIDE DEF g, b
    <3>5. ArDone(r) = ArRead(b)
      BY <3>1, <3>4 DEF ArDone, b
    <3>6. ArDone(r)' = ArRead(b)
      <4>1. CASE b = 1 /\ g = 0
        <5>1. ArRead(b) = np - 1
          BY <1>0, <3>4, <4>1, TopFacts
        <5> QED
          BY <1>a, <3>1, <4>1, <5>1
      <4>2. CASE g \in ArBits /\ b = 2 * g
        <5>1. ArRead(b) = ArBefore(g) /\ g # 0
          BY <1>0, <4>2, BitFacts
        <5> QED
          BY <1>a, <3>1, <5>1
      <4> QED
        BY <3>3, <4>1, <4>2
    <3> QED
      BY <1>2, <2>0, <3>1, <3>5, <3>6
  <2>5. CASE ArReturns(r)
    BY <1>2, <2>5 DEF ArReturns
  <2> QED
    BY <1>0, <2>1, <2>2, <2>3, <2>4, <2>5 DEF ArMoves
<1> QED
  BY <1>1, <1>2

\* What the processes count, after a step of r.
LEMMA ArOutIn ==
    ASSUME ArTypeInv, ArControlInv, NEW r \in Rank, AR!Step(r), NEW q \in Rank, NEW e \in ArBits
    PROVE  /\ ArOut(q, e)' = IF AR!Send(r) /\ q = r /\ e = bit[r] THEN ArOut(q, e) + 1 ELSE ArOut(q, e)
           /\ ArIn(q, e)' = IF AR!Recv(r) /\ q = r /\ e = bit[r] THEN ArIn(q, e) + 1 ELSE ArIn(q, e)
<1>0. /\ ArMoves(r) /\ np \in Nat \ {0} /\ e \in Nat \ {0} /\ np > 1
      /\ reduces[r] \in Nat /\ bit[r] \in Nat /\ reduce_pc[r] \in ArPlace
  BY ArStepMoves, ArTypes, BitFacts
<1>a. /\ ArOut(q, e) = IF \/ reduce_pc[q] = "outside" \/ bit[q] < e
                          \/ bit[q] = e /\ reduce_pc[q] \in {"receiving", "sending"}
                       THEN reduces[q] ELSE reduces[q] - 1
      /\ ArIn(q, e) = IF \/ reduce_pc[q] = "outside" \/ bit[q] < e
                         \/ bit[q] = e /\ reduce_pc[q] = "sending"
                      THEN reduces[q] ELSE reduces[q] - 1
      /\ ArOut(q, e)' = IF \/ reduce_pc'[q] = "outside" \/ bit'[q] < e
                           \/ bit'[q] = e /\ reduce_pc'[q] \in {"receiving", "sending"}
                        THEN reduces'[q] ELSE reduces'[q] - 1
      /\ ArIn(q, e)' = IF \/ reduce_pc'[q] = "outside" \/ bit'[q] < e
                          \/ bit'[q] = e /\ reduce_pc'[q] = "sending"
                       THEN reduces'[q] ELSE reduces'[q] - 1
  BY DEF ArOut, ArIn
<1>1. CASE q # r
  <2>1. ArKeeps(q)
    BY <1>0, <1>1 DEF ArMoves
  <2> QED
    BY <1>1, <1>a, <2>1 DEF ArKeeps
<1>2. CASE q = r
  <2>1. CASE ArCalls(r)
    <3>1. ~AR!Send(r) /\ ~AR!Recv(r)
      BY <2>1 DEF ArCalls, AR!Send, AR!Recv
    <3>2. e <= ArTop /\ ArTop \in Nat
      BY <1>0, TopFacts, BitFacts
    <3> QED
      BY <1>0, <1>2, <1>a, <2>1, <3>1, <3>2 DEF ArCalls
  <2>2. CASE ArSends(r)
    <3>1. AR!Send(r) /\ ~AR!Recv(r)
      BY <2>2 DEF ArSends, AR!Send, AR!Recv
    <3> QED
      BY <1>0, <1>2, <1>a, <2>2, <3>1 DEF ArSends
  <2>3. CASE ArReceives(r)
    <3>1. AR!Recv(r) /\ ~AR!Send(r)
      BY <2>3 DEF ArReceives, AR!Send, AR!Recv
    <3>2. /\ reduce_pc[r] = "receiving" /\ reduce_pc'[r] = "sending"
          /\ reduces'[r] = reduces[r] /\ bit'[r] = bit[r]
      BY <2>3 DEF ArReceives
    <3> QED
      BY <1>0, <1>2, <1>a, <3>1, <3>2
  <2>4. CASE ArGoesOn(r)
    <3>1. ~AR!Send(r) /\ ~AR!Recv(r)
      BY <2>4 DEF ArGoesOn, AR!Send, AR!Recv
    <3>2. /\ reduce_pc[r] = "sending" /\ reduce_pc'[r] = "loop"
          /\ reduces'[r] = reduces[r] /\ bit'[r] = bit[r] \div 2
      BY <2>4 DEF ArGoesOn
    <3> DEFINE g == bit[r] \div 2
    <3>3. bit[r] \in ArBits
      BY <3>2 DEF ArControlInv
    <3>4. \/ bit[r] = 1 /\ g = 0
          \/ g \in ArBits /\ bit[r] = 2 * g
      BY <1>0, <3>3, NextBitIs
    <3> HIDE DEF g
    <3>5. g \in Nat /\ (g < e <=> bit[r] <= e)
      <4>1. CASE bit[r] = 1 /\ g = 0
        BY <1>0, <4>1
      <4>2. CASE g \in ArBits /\ bit[r] = 2 * g
        <5>1. DBP!IsHop(g) /\ DBP!IsHop(e) /\ g \in Nat \ {0}
          BY <1>0, <4>2, BitFacts
        <5>2. e <= g \/ e >= 2 * g
          BY <5>1, DBP!HopGap
        <5> QED
          BY <1>0, <4>2, <5>1, <5>2
      <4> QED
        BY <3>4, <4>1, <4>2
    <3>6. bit'[r] = g
      BY <3>2 DEF g
    <3> QED
      BY <1>0, <1>2, <1>a, <3>1, <3>2, <3>5, <3>6
  <2>5. CASE ArReturns(r)
    <3>1. ~AR!Send(r) /\ ~AR!Recv(r)
      BY <2>5 DEF ArReturns, AR!Send, AR!Recv
    <3> QED
      BY <1>0, <1>2, <1>a, <2>5, <3>1 DEF ArReturns
  <2> QED
    BY <1>0, <2>1, <2>2, <2>3, <2>4, <2>5 DEF ArMoves
<1> QED
  BY <1>1, <1>2

LEMMA ArCounts ==
    ASSUME ArTypeInv, ArControlInv, NEW r \in Rank, AR!Step(r), NEW q \in Rank, NEW e \in ArBits
    PROVE  /\ ArSent(q, e)' = IF AR!Send(r) /\ q = r /\ ArDist(e) = ArDist(bit[r])
                              THEN ArSent(q, e) + 1 ELSE ArSent(q, e)
           /\ ArGot(q, e)' = IF AR!Recv(r) /\ q = r /\ ArDist(e) = ArDist(bit[r])
                             THEN ArGot(q, e) + 1 ELSE ArGot(q, e)
<1> DEFINE b == bit[r]
<1>0. /\ np \in Nat \ {0} /\ np' = np /\ ArTop' = ArTop /\ ArHalf' = ArHalf
      /\ (ArPaired(e)' <=> ArPaired(e))
  BY ArTypes, ArSameRanks, ArSame
<1>1. AR!Send(r) \/ AR!Recv(r) => b \in ArBits
  <2>1. AR!Send(r) => reduce_pc[r] = "loop" /\ b # 0
    BY DEF AR!Send
  <2>2. AR!Recv(r) => reduce_pc[r] = "receiving"
    BY DEF AR!Recv
  <2> QED
    BY <2>1, <2>2 DEF ArControlInv
<1>2. \A x \in ArBits : /\ ArOut(q, x)' = IF AR!Send(r) /\ q = r /\ x = b THEN ArOut(q, x) + 1 ELSE ArOut(q, x)
                        /\ ArIn(q, x)' = IF AR!Recv(r) /\ q = r /\ x = b THEN ArIn(q, x) + 1 ELSE ArIn(q, x)
                        /\ ArOut(q, x) \in Int /\ ArIn(q, x) \in Int
  BY ArOutIn, ArCountFacts
<1> HIDE DEF b
<1>3. CASE ~ArPaired(e)
  <2>1. b \in ArBits => (ArDist(e) = ArDist(b) <=> e = b)
    BY <1>0, <1>3, Pairs
  <2>2. /\ ArSent(q, e) = ArOut(q, e) /\ ArSent(q, e)' = ArOut(q, e)'
        /\ ArGot(q, e) = ArIn(q, e) /\ ArGot(q, e)' = ArIn(q, e)'
    BY <1>0, <1>3 DEF ArSent, ArGot
  <2> QED
    BY <1>1, <1>2, <2>1, <2>2 DEF b
<1>4. CASE ArPaired(e)
  <2>1. /\ ArTop \in ArBits /\ ArHalf \in ArBits
        /\ ArTop = 2 * ArHalf /\ ArHalf \in Nat \ {0}
        /\ ArDist(e) = 1 /\ ArDist(ArTop) = 1 /\ ArDist(ArHalf) = 1
    BY <1>0, <1>4, Pairs
  <2>2. b \in ArBits => (ArDist(e) = ArDist(b) <=> (b = ArTop \/ b = ArHalf))
    <3>1. ASSUME b \in ArBits, ArDist(e) = ArDist(b)
          PROVE  b = ArTop \/ b = ArHalf
      <4>1. ArPaired(b)
        BY <1>0, <1>4, <3>1, Pairs
      <4> QED
        BY <4>1 DEF ArPaired
    <3> QED
      BY <2>1, <3>1
  <2>3. /\ ArSent(q, e) = ArOut(q, ArTop) + ArOut(q, ArHalf)
        /\ ArGot(q, e) = ArIn(q, ArTop) + ArIn(q, ArHalf)
    BY <1>4 DEF ArSent, ArGot
  <2>4. /\ ArSent(q, e)' = ArOut(q, ArTop)' + ArOut(q, ArHalf)'
        /\ ArGot(q, e)' = ArIn(q, ArTop)' + ArIn(q, ArHalf)'
    BY <1>0, <1>4 DEF ArSent, ArGot
  <2>5. ArTop # ArHalf
    BY <2>1
  <2>6. /\ ArOut(q, ArTop)' = IF AR!Send(r) /\ q = r /\ ArTop = b THEN ArOut(q, ArTop) + 1 ELSE ArOut(q, ArTop)
        /\ ArOut(q, ArHalf)' = IF AR!Send(r) /\ q = r /\ ArHalf = b THEN ArOut(q, ArHalf) + 1 ELSE ArOut(q, ArHalf)
        /\ ArIn(q, ArTop)' = IF AR!Recv(r) /\ q = r /\ ArTop = b THEN ArIn(q, ArTop) + 1 ELSE ArIn(q, ArTop)
        /\ ArIn(q, ArHalf)' = IF AR!Recv(r) /\ q = r /\ ArHalf = b THEN ArIn(q, ArHalf) + 1 ELSE ArIn(q, ArHalf)
    <3>1. ASSUME NEW t \in ArBits, t = ArTop
          PROVE  ArOut(q, ArTop)' = ArOut(q, t)' /\ ArIn(q, ArTop)' = ArIn(q, t)'
      BY <1>0, <3>1 DEF ArOut, ArIn
    <3>2. ASSUME NEW h \in ArBits, h = ArHalf
          PROVE  ArOut(q, ArHalf)' = ArOut(q, h)' /\ ArIn(q, ArHalf)' = ArIn(q, h)'
      BY <1>0, <3>2 DEF ArOut, ArIn
    <3> QED
      BY <1>2, <2>1, <3>1, <3>2
  <2>7. ArOut(q, ArTop) \in Int /\ ArOut(q, ArHalf) \in Int /\ ArIn(q, ArTop) \in Int /\ ArIn(q, ArHalf) \in Int
    BY <1>2, <2>1
  <2> QED
    BY <1>1, <2>2, <2>3, <2>4, <2>5, <2>6, <2>7 DEF b
<1> QED
  BY <1>3, <1>4

LEMMA ArShared ==
    ASSUME np \in Nat \ {0}, NEW e \in ArBits, NEW f \in ArBits, ArDist(f) = ArDist(e), NEW q
    PROVE  ArSent(q, f) = ArSent(q, e) /\ ArGot(q, f) = ArGot(q, e)
<1>1. (ArPaired(f) <=> ArPaired(e)) /\ (f # e => ArPaired(e))
  BY Pairs
<1> QED
  BY <1>1 DEF ArSent, ArGot

\* The message that r sends is the next one on its channel.
LEMMA ArNext ==
    ASSUME ArTypeInv, ArControlInv, NEW r \in Rank, AR!Send(r)
    PROVE  ArNumber(reduces[r], bit[r]) = ArSent(r, bit[r]) + 1
<1> DEFINE b == bit[r]
           k == reduces[r]
<1>1. reduce_pc[r] = "loop" /\ b \in ArBits
  BY DEF AR!Send, ArControlInv
<1>2. np \in Nat \ {0} /\ k \in Nat /\ bit[r] \in Nat
  BY ArTypes
<1>3. ArOut(r, b) = k - 1
  BY <1>1, <1>2 DEF ArOut
<1>a. ArPaired(b) => (b = ArTop \/ b = ArHalf) /\ ArTop = 2 * ArHalf /\ ArHalf \in Nat \ {0}
  BY <1>1, <1>2, Pairs
<1>4. CASE ~ArPaired(b)
  BY <1>2, <1>3, <1>4 DEF ArNumber, ArSent
<1>5. CASE ArPaired(b) /\ b = ArTop
  <2>1. ~(bit[r] < ArHalf) /\ bit[r] # ArHalf
    <3> HIDE DEF ArHalf
    <3> QED
      BY <1>2, <1>a, <1>5
  <2>2. ArOut(r, ArHalf) = k - 1
    BY <1>1, <1>2, <2>1 DEF ArOut
  <2>3. ArNumber(k, b) = 2 * k - 1 /\ ArSent(r, b) = ArOut(r, b) + ArOut(r, ArHalf)
    BY <1>5 DEF ArNumber, ArSent
  <2> HIDE DEF k, b
  <2>4. ArNumber(k, b) = ArSent(r, b) + 1
    BY <1>2, <1>3, <2>2, <2>3
  <2> QED
    BY <2>4 DEF k, b
<1>6. CASE ArPaired(b) /\ b # ArTop
  <2>1. b = ArHalf /\ bit[r] < ArTop
    <3> HIDE DEF ArHalf
    <3> QED
      BY <1>2, <1>a, <1>6
  <2>2. ArOut(r, ArTop) = k
    BY <1>1, <1>2, <2>1 DEF ArOut
  <2>3. ArNumber(k, b) = 2 * k /\ ArSent(r, b) = ArOut(r, ArTop) + ArOut(r, b)
    BY <1>6, <2>1 DEF ArNumber, ArSent
  <2> HIDE DEF k, b
  <2>4. ArNumber(k, b) = ArSent(r, b) + 1
    BY <1>2, <1>3, <2>2, <2>3
  <2> QED
    BY <2>4 DEF k, b
<1> QED
  BY <1>4, <1>5, <1>6

LEMMA ArChanStep ==
    ASSUME ArInv, NEW r \in Rank, AR!Step(r)
    PROVE  ArChanInv'
<1>0. /\ np \in Nat \ {0} /\ Rank' = Rank /\ np' = np /\ ArBits' = ArBits
      /\ \A x : ArDist(x)' = ArDist(x) /\ ArBefore(x)' = ArBefore(x) /\ ArRead(x)' = ArRead(x)
      /\ \A x : ArPaired(x)' <=> ArPaired(x)
      /\ ArTop' = ArTop
      /\ \A p, x : DBP!Above(p, x)' = DBP!Above(p, x) /\ DBP!Below(p, x)' = DBP!Below(p, x)
      /\ reduce_chan \in [Rank -> [Rank -> Seq(ArBuffers)]]
      /\ ArTypeInv /\ ArControlInv /\ ArDataInv /\ ArChanInv
  BY ArSameRanks, ArSame, ArTypes DEF ArInv, ArTypeInv
<1>a. \A p, x : DBP!Below(p, x)' = DBP!Below(p, x)
  BY <1>0
<1> SUFFICES ASSUME NEW s \in Rank, NEW t \in Rank, NEW e \in ArBits, NEW x, x = ArDist(e),
                    t = DBP!Below(s, x)
             PROVE  ArCarries(s, t, e)'
  <2>1. ASSUME NEW s \in Rank, NEW t \in Rank, NEW e \in ArBits,
               t = DBP!Below(s, ArDist(e))'
        PROVE  ArCarries(s, t, e)'
    <3>1. ArDist(e)' = ArDist(e)
      BY <1>0
    <3>2. t = DBP!Below(s, ArDist(e))
      BY <1>0, <2>1, <3>1 DEF DBP!Below
    <3> QED
      BY <2>1, <3>2
  <2> QED
    BY <1>0, <2>1 DEF ArChanInv
<1> DEFINE c == reduce_chan[s][t]
           b == bit[r]
<1>1. x \in 0 .. np - 1
  <2>1. ArDist(e) \in 1 .. np - 1
    BY <1>0, BitFacts
  <2> QED
    BY <2>1
<1>2. DBP!Above(t, x) = s
  BY <1>0, <1>1, Ring
<1>3. c \in Seq(ArBuffers)
  BY <1>0
<1>4. /\ Len(c) = ArSent(s, e) - ArGot(t, e)
      /\ \A k \in Nat, f \in ArBits, j \in 1 .. Len(c) :
            ArDist(f) = x /\ ArNumber(k, f) = ArGot(t, e) + j => c[j] = ArMessage(t, k, f)
  <2>1. ArCarries(s, t, e)
    BY <1>0 DEF ArChanInv
  <2> QED
    BY <2>1 DEF ArCarries
<1>5. /\ ArSent(s, e) \in Int /\ ArGot(t, e) \in Int
      /\ ArSent(s, e)' = IF AR!Send(r) /\ s = r /\ x = ArDist(b)
                         THEN ArSent(s, e) + 1 ELSE ArSent(s, e)
      /\ ArGot(t, e)' = IF AR!Recv(r) /\ t = r /\ x = ArDist(b)
                        THEN ArGot(t, e) + 1 ELSE ArGot(t, e)
  <2>1. ArSent(s, e) \in Int /\ ArGot(t, e) \in Int
    BY <1>0, ArCountFacts
  <2>2. ArSent(s, e)' = IF AR!Send(r) /\ s = r /\ ArDist(e) = ArDist(b)
                        THEN ArSent(s, e) + 1 ELSE ArSent(s, e)
    BY <1>0, ArCounts
  <2>3. ArGot(t, e)' = IF AR!Recv(r) /\ t = r /\ ArDist(e) = ArDist(b)
                       THEN ArGot(t, e) + 1 ELSE ArGot(t, e)
    BY <1>0, ArCounts
  <2> QED
    BY <2>1, <2>2, <2>3
<1> DEFINE C == reduce_chan'[s][t]
           S == ArSent(s, e)'
           G == ArGot(t, e)'
<1>6. /\ Len(C) = S - G
      /\ \A k \in Nat, f \in ArBits, j \in 1 .. Len(C) :
            ArDist(f) = x /\ ArNumber(k, f) = G + j => C[j] = ArMessage(t, k, f)
      => ArCarries(s, t, e)'
  <2>1. \A k, f : ArNumber(k, f)' = ArNumber(k, f)
    BY <1>0 DEF ArNumber
  <2>2. \A k, f : ArMessage(t, k, f)' = ArMessage(t, k, f)
    BY <1>0 DEF ArMessage, ArSum, AR!SetToBag, DBP!Above, ArBefore, ArRead
  <2> QED
    BY <1>0, <2>1, <2>2 DEF ArCarries
<1> HIDE DEF S, G
<1>7. CASE AR!Send(r)
  <2>0. ~AR!Recv(r)
    BY <1>7 DEF AR!Send, AR!Recv
  <2> DEFINE y == ArDist(b)
             q == DBP!Below(r, y)
             k0 == reduces[r]
             out == IF AR!BitSet(r) THEN recvbuf[r] ELSE partbuf[r]
  <2>1. /\ q \in Rank /\ AR!cyco(r) = q /\ b \in ArBits
        /\ out = ArMessage(q, k0, b) /\ out \in ArBuffers
    BY <1>0, <1>7, ArSendIs
  <2>2. reduce_chan' = [reduce_chan EXCEPT ![r][q] = Append(@, out)]
    BY <1>7, <2>1 DEF AR!Send
  <2>3. ArNumber(k0, b) = ArSent(r, b) + 1 /\ k0 \in Nat
    BY <1>0, <1>7, ArNext, ArTypes
  <2>4. y \in 0 .. np - 1
    <3>1. ArDist(bit[r]) \in 1 .. np - 1
      BY <1>0, <2>1, BitFacts
    <3> QED
      BY <3>1
  <2> HIDE DEF out, k0, y
  <2>5. CASE s = r /\ x = y
    <3>1. t = q
      BY <2>5
    <3>2. C = Append(c, out)
      BY <1>0, <2>1, <2>2, <2>5, <3>1
    <3>3. S = ArSent(s, e) + 1 /\ G = ArGot(t, e)
      BY <1>5, <1>7, <2>0, <2>5 DEF S, G, y
    <3>4. /\ Len(Append(c, out)) = Len(c) + 1 /\ Len(c) \in Nat
          /\ \A j \in 1 .. Len(c) : Append(c, out)[j] = c[j]
          /\ Append(c, out)[Len(c) + 1] = out
      BY <1>3, <2>1
    <3>5. Len(C) = S - G
      BY <1>4, <1>5, <3>2, <3>3, <3>4
    <3>6. ASSUME NEW k \in Nat, NEW f \in ArBits, NEW j \in 1 .. Len(C),
                 ArDist(f) = x, ArNumber(k, f) = G + j
          PROVE  C[j] = ArMessage(t, k, f)
      <4>1. CASE j \in 1 .. Len(c)
        <5>1. ArNumber(k, f) = ArGot(t, e) + j
          BY <3>3, <3>6
        <5> HIDE DEF c
        <5>2. c[j] = ArMessage(t, k, f)
          BY <1>4, <3>6, <4>1, <5>1
        <5> QED
          BY <3>2, <3>4, <4>1, <5>2
      <4>2. CASE j = Len(c) + 1
        <5>1. ArSent(r, b) = ArSent(s, e)
          <6>1. ArSent(r, b) = ArSent(r, e)
            BY <1>0, <2>1, <2>5, ArShared DEF y
          <6> QED
            BY <2>5, <6>1
        <5>2. ArNumber(k, f) = ArNumber(k0, b)
          BY <1>4, <1>5, <2>3, <3>3, <3>6, <4>2, <5>1
        <5>3. ArDist(f) = ArDist(b)
          BY <2>5, <3>6 DEF y
        <5>4. k = k0 /\ f = b
          <6>1. np \in Nat \ {0} /\ b \in ArBits /\ k0 \in Nat
            BY <1>0, <2>1, <2>3
          <6> HIDE DEF b
          <6>2. \A m, l \in Nat : ArNumber(m, f) = ArNumber(l, b) => m = l /\ f = b
            BY <5>3, <6>1, Pairs
          <6> QED
            BY <5>2, <6>1, <6>2
        <5> QED
          BY <2>1, <3>1, <3>2, <3>4, <4>2, <5>4
      <4> QED
        BY <3>2, <3>4, <4>1, <4>2
    <3> QED
      BY <1>6, <3>5, <3>6
  <2>6. CASE ~(s = r /\ x = y)
    <3>1. s = r => t # q
      BY <1>0, <1>1, <2>4, <2>6, Ring
    <3>2. C = c
      BY <1>0, <1>2, <2>1, <2>2, <3>1
    <3>3. S = ArSent(s, e) /\ G = ArGot(t, e)
      BY <1>5, <1>7, <2>0, <2>6 DEF S, G, y
    <3> QED
      BY <1>4, <1>6, <3>2, <3>3
  <2> QED
    BY <2>5, <2>6
<1>8. CASE AR!Recv(r)
  <2>0. ~AR!Send(r)
    BY <1>8 DEF AR!Send, AR!Recv
  <2> DEFINE y == ArDist(b)
             p == DBP!Above(r, y)
  <2>1. /\ p \in Rank /\ AR!cyci(r) = p /\ DBP!Below(p, y) = r /\ b \in ArBits
        /\ reduce_chan[p][r] # <<>>
    BY <1>0, <1>8, ArRecvIs
  <2>2. reduce_chan' = [reduce_chan EXCEPT ![p][r] = Tail(@)]
    BY <1>8, <2>1 DEF AR!Recv
  <2>4. y \in 0 .. np - 1
    <3>1. ArDist(bit[r]) \in 1 .. np - 1
      BY <1>0, <2>1, BitFacts
    <3> QED
      BY <3>1
  <2> HIDE DEF y
  <2>5. CASE t = r /\ x = y
    <3>1. s = p
      BY <1>2, <2>5
    <3>2. C = Tail(c) /\ c # <<>>
      BY <1>0, <1>2, <2>1, <2>2, <2>5, <3>1
    <3>3. S = ArSent(s, e) /\ G = ArGot(t, e) + 1
      BY <1>5, <1>8, <2>0, <2>5 DEF S, G, y
    <3>4. /\ Len(Tail(c)) = Len(c) - 1 /\ Len(c) \in Nat \ {0}
          /\ \A j \in 1 .. Len(c) - 1 : Tail(c)[j] = c[j + 1]
      BY <1>3, <3>2
    <3>5. Len(C) = S - G
      BY <1>4, <1>5, <3>2, <3>3, <3>4
    <3>6. ASSUME NEW k \in Nat, NEW f \in ArBits, NEW j \in 1 .. Len(C),
                 ArDist(f) = x, ArNumber(k, f) = G + j
          PROVE  C[j] = ArMessage(t, k, f)
      <4>1. j \in 1 .. Len(c) - 1 /\ j + 1 \in 1 .. Len(c)
        BY <3>2, <3>4
      <4>2. ArNumber(k, f) = ArGot(t, e) + (j + 1)
        BY <1>5, <3>3, <3>6, <4>1
      <4> HIDE DEF c
      <4>3. c[j + 1] = ArMessage(t, k, f)
        BY <1>4, <3>6, <4>1, <4>2
      <4> QED
        BY <3>2, <3>4, <4>1, <4>3
    <3> QED
      BY <1>6, <3>5, <3>6
  <2>6. CASE ~(t = r /\ x = y)
    <3>1. t = r => s # p
      BY <1>0, <1>1, <1>2, <2>4, <2>6, Ring
    <3>2. C = c
      BY <1>0, <1>2, <2>1, <2>2, <3>1
    <3>3. S = ArSent(s, e) /\ G = ArGot(t, e)
      BY <1>5, <1>8, <2>0, <2>6 DEF S, G, y
    <3> QED
      BY <1>4, <1>6, <3>2, <3>3
  <2> QED
    BY <2>5, <2>6
<1>9. CASE ~AR!Send(r) /\ ~AR!Recv(r)
  <2>1. reduce_chan' = reduce_chan
    BY <1>9 DEF AR!Step, AR!Call, AR!NextBit, AR!Return
  <2>2. S = ArSent(s, e) /\ G = ArGot(t, e)
    BY <1>5, <1>9 DEF S, G
  <2> QED
    BY <1>4, <1>6, <2>1, <2>2
<1> QED
  BY <1>7, <1>8, <1>9

\* What a process has sent for the bit e comes from processes that have called.
LEMMA ArSentReach ==
    ASSUME ArTypeInv, ArReachInv, NEW s \in Rank, NEW e \in ArBits, NEW i \in 0 .. ArBefore(e)
    PROVE  ArOut(s, e) <= reduces[DBP!Above(s, i)]
<1>1. /\ np \in Nat \ {0} /\ np > 1 /\ e \in Nat \ {0} /\ ArBefore(e) \in Nat
      /\ ArRead(2 * e) = ArBefore(e)
      /\ reduces[s] \in Nat /\ bit[s] \in Nat /\ s \in Nat /\ s < np
      /\ ArOut(s, e) <= reduces[s]
  BY ArTypes, BitFacts, ArCountFacts
<1>2. CASE ArBefore(e) = 0
  <2>1. DBP!Above(s, i) = s
    BY <1>1, <1>2 DEF DBP!Above
  <2> QED
    BY <1>1, <2>1
<1>3. CASE ArBefore(e) # 0
  <2>1. 2 * e \in ArBits
    BY <1>1, <1>3, TopFacts
  <2>2. ArIn(s, 2 * e) <= reduces[DBP!Above(s, i)]
    <3> DEFINE g == 2 * e
    <3>1. g \in ArBits /\ i \in 0 .. ArRead(g)
      BY <1>1, <2>1
    <3> HIDE DEF g
    <3>2. ArIn(s, g) <= reduces[DBP!Above(s, i)]
      BY <3>1 DEF ArReachInv
    <3> QED
      BY <3>2 DEF g
  <2>3. ArOut(s, e) <= ArIn(s, 2 * e)
    BY <1>1 DEF ArOut, ArIn
  <2>4. DBP!Above(s, i) \in Rank
    <3>1. i \in 0 .. np - 1
      <4>1. ArRead(e) \in 1 .. np - 1 /\ ArDist(e) + ArBefore(e) = ArRead(e) /\ ArDist(e) \in 1 .. np - 1
        BY <1>1, BitFacts
      <4> QED
        BY <1>1, <4>1
    <3> QED
      BY <1>1, <3>1, Ring
  <2>5. reduces[DBP!Above(s, i)] \in Nat
    BY <2>4, ArTypes
  <2>6. ArOut(s, e) \in Int /\ ArIn(s, 2 * e) \in Int
    BY <2>1, ArCountFacts
  <2> QED
    BY <2>2, <2>3, <2>5, <2>6
<1> QED
  BY <1>2, <1>3

LEMMA ArReachStep ==
    ASSUME ArInv, NEW r \in Rank, AR!Step(r)
    PROVE  ArReachInv'
<1>0. /\ np \in Nat \ {0} /\ Rank' = Rank /\ np' = np /\ ArBits' = ArBits /\ ArMoves(r)
      /\ \A e : ArRead(e)' = ArRead(e)
      /\ ArTypeInv /\ ArControlInv /\ ArChanInv /\ ArReachInv
  BY ArSameRanks, ArSame, ArTypes, ArStepMoves DEF ArInv
<1>a. \A q \in Rank : reduces[q] \in Nat /\ reduces'[q] \in Nat /\ reduces'[q] >= reduces[q]
  <2>1. \A q \in Rank : reduces[q] \in Nat
    BY <1>0, ArTypes
  <2>2. reduces'[r] = reduces[r] \/ reduces'[r] = reduces[r] + 1
    BY <1>0 DEF ArMoves, ArCalls, ArSends, ArReceives, ArGoesOn, ArReturns
  <2>3. \A q \in Rank \ {r} : reduces'[q] = reduces[q]
    BY <1>0 DEF ArMoves, ArKeeps
  <2> QED
    BY <2>1, <2>2, <2>3
<1> SUFFICES ASSUME NEW q \in Rank, NEW e \in ArBits, NEW i \in 0 .. ArRead(e)
             PROVE  ArIn(q, e)' <= reduces'[DBP!Above(q, i)]
  <2>1. ASSUME NEW q \in Rank, NEW e \in ArBits, NEW i \in 0 .. ArRead(e),
               ArIn(q, e)' <= reduces'[DBP!Above(q, i)]
        PROVE  (ArIn(q, e) <= reduces[DBP!Above(q, i)])'
    BY <1>0, <2>1 DEF DBP!Above
  <2> QED
    BY <1>0, <2>1 DEF ArReachInv
<1>1. i \in 0 .. np - 1
  <2>1. ArRead(e) \in 1 .. np - 1
    BY <1>0, BitFacts
  <2> QED
    BY <1>0, <2>1
<1>2. DBP!Above(q, i) \in Rank
  BY <1>0, <1>1, Ring
<1>3. ArIn(q, e) \in Int /\ ArIn(q, e) <= reduces[DBP!Above(q, i)]
  BY <1>0, ArCountFacts DEF ArReachInv
<1>4. CASE ~(AR!Recv(r) /\ q = r /\ e = bit[r])
  <2>1. ArIn(q, e)' = ArIn(q, e)
    BY <1>0, <1>4, ArOutIn
  <2> QED
    BY <1>2, <1>3, <1>a, <2>1
<1>5. CASE AR!Recv(r) /\ q = r /\ e = bit[r]
  <2> DEFINE x == ArDist(e)
             s == DBP!Above(r, x)
             k == reduces[r]
  <2>1. reduce_pc[r] = "receiving" /\ bit[r] = e /\ bit[r] \in Nat
    BY <1>0, <1>5, ArTypes DEF AR!Recv
  <2>2. ArIn(r, e)' = k
    <3>1. ArIn(r, e)' = ArIn(r, e) + 1
      BY <1>0, <1>5, ArOutIn
    <3>2. ArIn(r, e) = k - 1
      BY <1>a, <2>1 DEF ArIn
    <3> QED
      BY <1>a, <3>1, <3>2
  <2>3. ArOut(r, e) = k
    BY <2>1 DEF ArOut
  <2>4. s \in Rank /\ ArOut(s, e) >= k
    BY <1>0, <1>5, ArRecvIs
  <2>5. /\ ArBefore(e) \in Nat /\ x \in 1 .. np - 1 /\ x + ArBefore(e) = ArRead(e)
        /\ x <= ArBefore(e) + 1
    BY <1>0, BitFacts
  <2> HIDE DEF x, k
  <2>6. k <= reduces[DBP!Above(r, i)]
    <3>1. CASE i <= ArBefore(e)
      <4>1. i \in 0 .. ArBefore(e)
        BY <2>5, <3>1
      <4> QED
        BY <1>0, <2>3, <4>1, ArSentReach
    <3>2. CASE i > ArBefore(e)
      <4>1. i - x \in 0 .. ArBefore(e) /\ i - x \in 0 .. np - 1 /\ x \in 0 .. np - 1
            /\ x + (i - x) = i /\ x + (i - x) <= np - 1
        BY <1>0, <1>1, <2>5, <3>2
      <4>2. DBP!Above(s, i - x) = DBP!Above(r, i)
        BY <1>0, <4>1, Ring
      <4> HIDE DEF s
      <4>3. ArOut(s, e) <= reduces[DBP!Above(s, i - x)]
        BY <1>0, <2>4, <4>1, ArSentReach
      <4>4. ArOut(s, e) \in Int /\ k \in Nat /\ reduces[DBP!Above(r, i)] \in Nat
        BY <1>0, <1>2, <1>5, <1>a, <2>4, ArCountFacts DEF k
      <4> QED
        BY <2>4, <4>2, <4>3, <4>4
    <3> QED
      BY <2>5, <3>1, <3>2
  <2> QED
    BY <1>2, <1>5, <1>a, <2>2, <2>6 DEF k
<1> QED
  BY <1>4, <1>5

LEMMA ArInvStep ==
    ASSUME ArInv, NEW r \in Rank, AR!Step(r)
    PROVE  ArInv'
  BY ArTypeStep, ArControlStep, ArDataStep, ArChanStep, ArReachStep DEF ArInv

LEMMA ArInit ==
    ASSUME AR!Init, Sizes \subseteq Nat \ {0}
    PROVE  ArInv
<1>0. /\ np \in Nat \ {0} /\ Rank = AR!Rank
      /\ reduces = [r \in Rank |-> 0] /\ reduced = [r \in Rank |-> 0]
      /\ reduce_pc = [r \in Rank |-> "outside"] /\ bit = [r \in Rank |-> 0]
      /\ c0 = [r \in Rank |-> 0] /\ c1 = [r \in Rank |-> 1]
      /\ tempbuf = [r \in Rank |-> "partbuf"]
      /\ recvbuf = [r \in Rank |-> AR!EmptyBag] /\ partbuf = [r \in Rank |-> AR!EmptyBag]
      /\ reduce_chan = [p \in Rank |-> [q \in Rank |-> <<>>]]
  BY DEF AR!Init, AR!Rank, Rank
<1>1. ArTypeInv
  <2>1. <<>> \in Seq(ArBuffers) /\ 0 \in Nat /\ 1 \in Nat /\ "outside" \in ArPlace
    BY DEF ArPlace
  <2>2. recvbuf = [r \in Rank |-> recvbuf[r]] /\ partbuf = [r \in Rank |-> partbuf[r]]
    BY <1>0
  <2>3. reduces \in [Rank -> Nat] /\ reduced \in [Rank -> Nat] /\ bit \in [Rank -> Nat]
        /\ c0 \in [Rank -> Nat] /\ c1 \in [Rank -> Nat] /\ reduce_pc \in [Rank -> ArPlace]
    BY <1>0, <2>1
  <2>4. tempbuf \in [Rank -> {"partbuf", "inbuf"}] /\ reduce_chan \in [Rank -> [Rank -> Seq(ArBuffers)]]
    BY <1>0, <2>1
  <2> QED
    BY <1>0, <2>2, <2>3, <2>4 DEF ArTypeInv
<1>2. ArControlInv
  BY <1>0 DEF ArControlInv
<1>3. ArDataInv
  BY <1>0 DEF ArDataInv
<1>4. \A q \in Rank : \A e : ArOut(q, e) = 0 /\ ArIn(q, e) = 0
  BY <1>0 DEF ArOut, ArIn
<1>5. \A q \in Rank : \A e : ArSent(q, e) = 0 /\ ArGot(q, e) = 0
  BY <1>4 DEF ArSent, ArGot
<1>6. ArChanInv
  <2>1. \A s, r \in Rank : reduce_chan[s][r] = <<>>
    BY <1>0
  <2> QED
    BY <1>5, <2>1 DEF ArChanInv, ArCarries
<1>7. ArReachInv
  <2> SUFFICES ASSUME NEW r \in Rank, NEW e \in ArBits, NEW i \in 0 .. ArRead(e)
               PROVE  ArIn(r, e) <= reduces[DBP!Above(r, i)]
    BY DEF ArReachInv
  <2>1. ArRead(e) \in 1 .. np - 1
    BY <1>0, BitFacts
  <2>2. i \in 0 .. np - 1
    BY <1>0, <2>1
  <2>3. DBP!Above(r, i) \in Rank
    BY <1>0, <2>2, Ring
  <2> QED
    BY <1>0, <1>4, <2>3
<1> QED
  BY <1>1, <1>2, <1>3, <1>6, <1>7 DEF ArInv

\* Every step is one of the abstract allreduce or leaves it alone.
LEMMA AllreduceStep ==
    ASSUME ArInv, NEW r \in Rank, AR!Step(r)
    PROVE  AR!R!Next \/ UNCHANGED <<np, reduces, reduced, result>>
<1>0. /\ r \in AR!R!Rank /\ AR!R!Rank = Rank /\ ArControlInv
      /\ np \in Nat \ {0} /\ reduces[r] \in Nat /\ reduced[r] \in Nat /\ bit[r] \in Nat
      /\ ArTypeInv /\ ArDataInv /\ ArReachInv
  BY ArTypes DEF AR!R!Rank, Rank, ArInv
<1>1. CASE AR!Call(r)
  <2>1. AR!R!Call(r)
    BY <1>0, <1>1 DEF AR!Call, AR!R!Call, ArControlInv
  <2> QED
    BY <1>0, <2>1 DEF AR!R!Next
<1>2. CASE AR!Send(r) \/ AR!Recv(r) \/ AR!NextBit(r)
  BY <1>2 DEF AR!Send, AR!Recv, AR!NextBit
<1>3. CASE AR!Return(r)
  <2>1. reduce_pc[r] = "loop" /\ bit[r] = 0
    BY <1>3 DEF AR!Return
  <2>2. reduces[r] # reduced[r]
    BY <1>0, <2>1 DEF ArControlInv
  <2>3. recvbuf[r] = AR!R!All(reduces[r])
    <3>1. recvbuf[r] = ArSum(r, 0, np - 1, reduces[r])
      BY <1>0, <2>1 DEF ArDataInv, ArDone
    <3> QED
      BY <1>0, <3>1, SumAll
  <2>4. ASSUME NEW q \in Rank PROVE reduces[q] >= reduces[r]
    <3>1. CASE np = 1
      <4>1. q = r
        BY <3>1 DEF Rank
      <4> QED
        BY <1>0, <4>1
    <3>2. CASE np # 1
      <4>1. 1 \in ArBits /\ ArRead(1) = np - 1
        BY <1>0, <3>2, TopFacts
      <4>2. PICK i \in 0 .. np - 1 : DBP!Above(r, i) = q
        BY <1>0, RingAll
      <4>3. ArIn(r, 1) = reduces[r]
        BY <2>1 DEF ArIn
      <4>4. ArIn(r, 1) <= reduces[DBP!Above(r, i)]
        BY <1>0, <4>1, <4>2 DEF ArReachInv
      <4>5. reduces[q] \in Nat
        BY <1>0, ArTypes
      <4> QED
        BY <1>0, <4>2, <4>3, <4>4, <4>5
    <3> QED
      BY <3>1, <3>2
  <2>5. AR!R!Return(r)
    BY <1>0, <1>3, <2>2, <2>3, <2>4 DEF AR!Return, AR!R!Return
  <2> QED
    BY <1>0, <2>5 DEF AR!R!Next
<1> QED
  BY <1>1, <1>2, <1>3 DEF AR!Step

-----------------------------------------------------------------------------
(* The allreduce next to everything else.                                  *)

ArVars == <<np, eager, reduce_vars>>

\* A step of the program is one of the allreduce or leaves it alone.
LEMMA AllreduceSteps ==
    ASSUME [Next]_vars
    PROVE  (\E r \in Rank : AR!Step(r)) \/ UNCHANGED ArVars
<1> USE DEF ArVars
<1>1. ASSUME NEW r \in Rank, dissemination_barrier(r)
      PROVE  UNCHANGED ArVars
  <2>1. UNCHANGED <<np, eager>>
    BY <1>1 DEF dissemination_barrier, DB!Step, DB!Enter, DB!Send, DB!Recv,
       DB!NextRound, DB!Return
  <2> QED
    BY <1>1, <2>1 DEF dissemination_barrier
<1>2. ASSUME NEW r \in Rank, ReproMPI_Allreduce(r)
      PROVE  AR!Step(r)
  BY <1>2 DEF ReproMPI_Allreduce
<1>3. ASSUME NEW r \in Rank, ReproMPI_Bcast(r)
      PROVE  UNCHANGED ArVars
  <2>1. UNCHANGED <<np, eager>>
    BY <1>3 DEF ReproMPI_Bcast, BC!Step, BC!Call, BC!Recv, BC!Send, BC!NextChild, BC!Return
  <2> QED
    BY <1>3, <2>1 DEF ReproMPI_Bcast
<1>4. ASSUME NEW r \in Rank, NEW op, PingPongStep(r, op)
      PROVE  UNCHANGED ArVars
  <2>1. UNCHANGED <<np, eager>>
    BY <1>4 DEF PingPongStep, PP!Step, PP!Call, PP!Return, PP!Send, PP!Post,
       PP!Sent, PP!Received, PP!Deliver
  <2> QED
    BY <1>4, <2>1 DEF PingPongStep
<1>5. ASSUME NEW r \in Rank, Measured(r) \/ MPI_Barrier(r) \/ MPI_Reduce(r)
      PROVE  UNCHANGED ArVars
  BY <1>5 DEF Measured, MPI_Barrier, MPI_Reduce
<1>6. CASE UNCHANGED vars
  BY <1>6 DEF vars
<1> QED
  BY <1>1, <1>2, <1>3, <1>4, <1>5, <1>6 DEF Next, Step, Ended,
     initialize_data_pingpong, execute_pingpong

LEMMA ArStutter ==
    ASSUME ArInv, UNCHANGED ArVars
    PROVE  ArInv'
<1>1. UNCHANGED <<np, reduces, reduced, reduce_pc, bit, c0, c1, recvbuf, partbuf, tempbuf, reduce_chan>>
  BY DEF ArVars, reduce_vars
<1>2. /\ Rank' = Rank /\ ArBits' = ArBits /\ ArTop' = ArTop
      /\ \A e : ArRead(e)' = ArRead(e) /\ ArBefore(e)' = ArBefore(e) /\ ArDist(e)' = ArDist(e)
      /\ \A e : ArPaired(e)' <=> ArPaired(e)
  BY <1>1, ArSame
<1>3. ArTypeInv'
  BY <1>1, <1>2 DEF ArInv, ArTypeInv, ArBuffers, AR!SetToBag
<1>4. ArControlInv'
  BY <1>1 DEF ArInv, ArControlInv, Rank, ArBits, ArBefore, ArRead, ArTop, AR!flp2
<1>5. ArDataInv'
  <2>1. \A q : ArDone(q)' = ArDone(q)
    BY <1>1 DEF ArDone, ArRead, ArBefore
  <2>2. ASSUME NEW q \in Rank, reduce_pc'[q] # "outside"
        PROVE  (/\ recvbuf[q] = ArSum(q, 0, ArDone(q), reduces[q])
                /\ tempbuf[q] = "inbuf" => partbuf[q] = ArSum(q, 1, ArDone(q), reduces[q]))'
    <3>1. \A lo : ArSum(q, lo, ArDone(q), reduces[q])' = ArSum(q, lo, ArDone(q), reduces[q])
      BY <1>1, <2>1 DEF ArSum, AR!SetToBag, DBP!Above
    <3> QED
      BY <1>1, <2>2, <3>1 DEF ArInv, ArDataInv
  <2> QED
    BY <1>2, <2>2 DEF ArDataInv
<1>6. \A q, e : ArOut(q, e)' = ArOut(q, e) /\ ArIn(q, e)' = ArIn(q, e)
  BY <1>1 DEF ArOut, ArIn
<1>7. \A q, e : ArSent(q, e)' = ArSent(q, e) /\ ArGot(q, e)' = ArGot(q, e)
  BY <1>1 DEF ArSent, ArGot, ArPaired, ArTop, ArHalf, ArDist, ArSet, ArBefore, ArRead, ArOut, ArIn, AR!flp2
<1>8. ArChanInv'
  <2>1. \A k, f : ArNumber(k, f)' = ArNumber(k, f)
    BY <1>2 DEF ArNumber
  <2>2. \A t, k, f : ArMessage(t, k, f)' = ArMessage(t, k, f)
    BY <1>1 DEF ArMessage, ArSum, AR!SetToBag, DBP!Above, ArBefore, ArRead
  <2>3. ASSUME NEW s \in Rank, NEW r \in Rank, NEW e \in ArBits,
               (r = DBP!Below(s, ArDist(e)))'
        PROVE  ArCarries(s, r, e)'
    <3>1. r = DBP!Below(s, ArDist(e))
      BY <1>1, <1>2, <2>3 DEF DBP!Below
    <3>2. ArCarries(s, r, e)
      BY <3>1 DEF ArInv, ArChanInv
    <3> QED
      BY <1>1, <1>2, <1>7, <2>1, <2>2, <3>2 DEF ArCarries
  <2> QED
    BY <1>2, <2>3 DEF ArChanInv
<1>9. ArReachInv'
  BY <1>1, <1>2, <1>6 DEF ArInv, ArReachInv, DBP!Above
<1> QED
  BY <1>3, <1>4, <1>5, <1>8, <1>9 DEF ArInv

LEMMA AllreduceKept ==
    ASSUME ArInv, [Next]_vars
    PROVE  ArInv' /\ [AR!R!Next]_<<np, reduces, reduced, result>>
<1>1. ASSUME NEW r \in Rank, AR!Step(r)
      PROVE  ArInv' /\ [AR!R!Next]_<<np, reduces, reduced, result>>
  BY <1>1, ArInvStep, AllreduceStep
<1>2. CASE UNCHANGED ArVars
  <2>1. ArInv'
    BY <1>2, ArStutter
  <2> QED
    BY <1>2, <2>1 DEF ArVars, reduce_vars
<1> QED
  BY <1>1, <1>2, AllreduceSteps

\* The allreduce, called by the round-time synchronisation next to everything
\* else it calls, is an allreduce: nobody returns from a call before everybody
\* has made it, and every contribution to this call is in the result exactly
\* once, for any number of processes and any commutative operation
\* (Allreduce_bitwise_commutative).
THEOREM ReductionImplemented == Spec => ImplementsReduction
<1>1. Init => ArInv /\ AR!R!Init
  <2> SUFFICES ASSUME Init PROVE ArInv /\ AR!R!Init
    OBVIOUS
  <2>1. AR!Init
    BY DEF Init
  <2>2. Sizes \subseteq Nat \ {0}
    BY JobsAssumption DEF Sizes, Positive
  <2>3. ArInv
    BY <2>1, <2>2, ArInit
  <2>4. AR!R!Init
    BY <2>1 DEF AR!Init, AR!R!Init, AR!Rank, AR!R!Rank, AR!EmptyBag, AR!R!EmptyBag, AR!SetToBag, AR!R!SetToBag
  <2> QED
    BY <2>3, <2>4
<1>2. ArInv /\ [Next]_vars => ArInv' /\ [AR!R!Next]_<<np, reduces, reduced, result>>
  BY AllreduceKept
<1> QED
  BY <1>1, <1>2, PTL DEF Spec, ImplementsReduction, AR!ImplementsReduction, AR!R!Spec
=============================================================================
