--------------------------- MODULE RoundTimeProofs ---------------------------
(***************************************************************************)
(* Proofs about RoundTime for any number of processes, any jobs and any    *)
(* clock errors: that the processes stay in step, each round being for all *)
(* the same repetition of the same job in the same mode, and start         *)
(* together, that all of them report the same, valid results and stop      *)
(* together when time is up, and that at most one valid measurement is     *)
(* dropped.                                                                *)
(***************************************************************************)
EXTENDS RoundTime, FiniteSetTheorems, TLAPS

-----------------------------------------------------------------------------
(* The inductive invariant. *)

\* Nobody is past the barrier of a round somebody has not entered.
RoundsAligned ==
    \A p, q \in Rank : pc[p] # "barrier" => round[q] >= round[p]

\* The last round whose verdict process r has got.
Decided(r) == IF pc[r] \in Between THEN round[r] ELSE round[r] - 1

\* The last packet of a process is that of the round it is in once it has
\* entered the allreduce, that of the round before until then.
PacketInv ==
    \A r \in Rank :
        /\ packet[r].round = IF pc[r] \in Between \cup {"allreduce"}
                             THEN round[r] ELSE round[r] - 1
        /\ pc[r] \notin Between => round[r] > 0

\* A verdict has been given only in rounds every process has contributed to.
PacketsCover == \A p, q \in Rank : packet[q].round >= Decided(p)

\* Somebody will make, or has made, round k invalid.
Spoils(q, k) ==
    \/ round[q] = k /\ pc[q] \in {"call", "in_call"} /\ invalid[q] = INVALID
    \/ packet[q].round = k /\ packet[q].invalid = INVALID

\* Nobody can get a verdict that accepts a round somebody was late for.
LateInv ==
    \A k \in late : \A r \in Rank :
        Decided(r) < k => \E q \in Rank : Spoils(q, k)

\* The elements below index m of the arrays hold accepted measurements.
Holds(r, m) ==
    \A k \in 0 .. m - 1 :
        /\ k \in DOMAIN slot[r]
        /\ slot[r][k] \in (1 .. Decided(r)) \ late
        /\ k > 0 => slot[r][k - 1] < slot[r][k]

SlotInv ==
    \A r \in Rank :
        /\ pc[r] \in Position \ {"init_job", "report", "done"} =>
              /\ DOMAIN slot[r] = 0 .. n_rep[r] - 1
              /\ i[r] < n_rep[r]
              /\ Holds(r, i[r])
        /\ pc[r] = "allreduce" => slot[r][i[r]] = round[r]
        /\ pc[r] = "report" => Holds(r, n_rep[r])

\* Every process in the clock-mode part of a round has the start time that
\* was broadcast in that round.
BcastInv ==
    /\ bcast.round <= IF pc[Master] = "barrier" THEN round[Master] - 1
                                                ELSE round[Master]
    /\ \A r \in Rank :
          (/\ barrier_sync_mode[r] = 0
           /\ pc[r] \in {"first_poll", "poll", "call", "in_call", "allreduce"})
          => bcast.round = round[r] /\ start_sync[r] = bcast.value

\* Where each process stands with respect to the start time.
WaitInv ==
    \A r \in Rank : barrier_sync_mode[r] = 0 =>
        /\ (pc[r] \in {"poll", "call", "in_call", "allreduce"}
              /\ invalid[r] = CORRECT) => first[r] + err[r] < start_sync[r]
        /\ pc[r] = "call" => start_sync[r] <= now + err[r]
        /\ pc[r] \in {"in_call", "allreduce"} =>
              start_sync[r] <= tstart[r] + err[r]

IInv == /\ TypeOK /\ RoundsAligned /\ PacketInv /\ PacketsCover
        /\ LateInv /\ SlotInv /\ BcastInv /\ WaitInv

-----------------------------------------------------------------------------
(* Type correctness. *)

LEMMA NJobsNat == NJobs \in Nat
  BY JobsAssumption DEF NJobs

LEMMA JobTyped ==
    ASSUME ControlOK, NEW r \in Rank, pc[r] # "done"
    PROVE  Jobs[job[r]] \in JobType
  BY JobsAssumption, NJobsNat DEF ControlOK, NJobs

\* Decision is one of the four verdicts.
LEMMA DecisionTyped == Decision \in Verdict
  BY DEF Decision, Verdict

LEMMA ControlStep ==
    ASSUME ControlOK, [Next]_vars
    PROVE  ControlOK'
<1> USE NJobsNat DEF ControlOK, Position, Between, InRound
<1>1. CASE Tick \/ UNCHANGED vars
  BY <1>1 DEF Tick, vars
<1>2. ASSUME NEW r \in Rank, Step(r), ~Report(r)
      PROVE  ControlOK'
  <2>1. job' = job /\ pc[r] # "done"
    BY <1>2 DEF Step, InitJob, StartSync, LeaveBarrierOnly, SendStartTime,
       EnterBcast, RecvStartTime, FirstPoll, Poll, StartCall, StopSync, Decide
  <2>2. \E p \in Position : pc' = [pc EXCEPT ![r] = p]
    BY <1>2 DEF Step, InitJob, StartSync, LeaveBarrierOnly, SendStartTime,
       EnterBcast, RecvStartTime, FirstPoll, Poll, StartCall, StopSync, Decide
  <2> QED
    BY <2>1, <2>2
<1>3. ASSUME NEW r \in Rank, Report(r)
      PROVE  ControlOK'
  BY <1>3 DEF Report
<1> QED
  BY <1>1, <1>2, <1>3 DEF Next, Ended

LEMMA TypeInit == Init => TypeOK
<1> SUFFICES ASSUME Init PROVE TypeOK
  OBVIOUS
<1>1. ControlOK
  BY NJobsNat DEF Init, ControlOK, Position, Between, InRound
<1>2. packet \in [Rank -> Packet]
  BY DEF Init, Packet, Bit
<1>3. /\ DOMAIN slot = Rank
      /\ \A r \in Rank : \A k \in DOMAIN slot[r] : slot[r][k] \in Nat
  BY DEF Init
<1> QED
  BY <1>1, <1>2, <1>3, StallAssumption DEF Init, TypeOK, Bit, CORRECT

LEMMA TypeStep ==
    ASSUME TypeOK, [Next]_vars
    PROVE  TypeOK'
<1> USE DEF TypeOK
<1>0. ControlOK'
  BY ControlStep
<1>1. CASE Tick
  <2>1. now \in Nat /\ stall \in 0 .. MaxStall
    OBVIOUS
  <2>2. now' \in Nat /\ stall' \in 0 .. MaxStall
    <3> HIDE DEF TypeOK
    <3> QED
      BY <1>1, <2>1, StallAssumption DEF Tick
  <2> QED
    BY <1>0, <1>1, <2>2 DEF Tick, module, clocks
<1>2. ASSUME NEW r \in Rank, Step(r)
      PROVE  TypeOK'
  <2>1. CASE InitJob(r)
    <3> DEFINE J == Jobs[job[r]]
    <3>1. J \in JobType
      BY <2>1, JobTyped DEF InitJob
    <3>2. J.nrep \in Nat
      BY <3>1 DEF JobType
    <3>3. /\ J.barrier_count # NoOption => J.barrier_count \in Int
          /\ J.bench_time # NoOption => J.bench_time \in Nat
      BY <3>1 DEF JobType
    <3>4. switch_count' \in [Rank -> Int] /\ time_slot' \in [Rank -> Nat]
      BY <2>1, <3>3 DEF InitJob
    <3>5. barrier_sync_mode' \in [Rank -> Bit]
      BY <2>1 DEF InitJob, Bit
    <3>6. err' \in [Rank -> Errs \cup {0}]
      BY <2>1 DEF InitJob
    <3>7. /\ DOMAIN slot' = Rank
          /\ \A q \in Rank : \A k \in DOMAIN slot'[q] : slot'[q][k] \in Nat
      BY <2>1, <3>2 DEF InitJob
    <3>8. /\ i' \in [Rank -> Nat] /\ n_rep' \in [Rank -> Nat]
          /\ invalid' \in [Rank -> Bit] /\ stop_flag' \in [Rank -> Bit]
          /\ job_start_time' \in [Rank -> Nat]
      BY <2>1, <3>2 DEF InitJob, Bit, CORRECT
    <3> QED
      BY <1>0, <2>1, <3>4, <3>5, <3>6, <3>7, <3>8 DEF InitJob
  <2>2. CASE StartSync(r)
    <3>1. round \in [Rank -> Nat] /\ invalid \in [Rank -> Bit]
      OBVIOUS
    <3>2. round' \in [Rank -> Nat] /\ invalid' \in [Rank -> Bit]
      <4> HIDE DEF TypeOK
      <4> QED
        BY <2>2, <3>1 DEF StartSync, Bit, CORRECT
    <3> QED
      BY <1>0, <2>2, <3>2 DEF StartSync, module, clocks
  <2>3. CASE LeaveBarrierOnly(r)
    BY <1>0, <2>3 DEF LeaveBarrierOnly, module, clocks
  <2>4. CASE SendStartTime(r)
    <3>1. /\ start_sync \in [Rank -> Nat] /\ now \in Nat
          /\ round \in [Rank -> Nat]
      OBVIOUS
    <3>2. /\ start_sync' \in [Rank -> Nat]
          /\ bcast' \in [round : Nat, value : Nat]
      <4> HIDE DEF TypeOK
      <4> QED
        BY <2>4, <3>1, WaitAssumption DEF SendStartTime
    <3> QED
      BY <1>0, <2>4, <3>2 DEF SendStartTime, module, clocks
  <2>5. CASE EnterBcast(r)
    BY <1>0, <2>5 DEF EnterBcast, module, clocks
  <2>6. CASE RecvStartTime(r)
    BY <1>0, <2>6 DEF RecvStartTime, module, clocks
  <2>7. CASE FirstPoll(r)
    <3>1. /\ first \in [Rank -> Nat] /\ invalid \in [Rank -> Bit]
          /\ round \in [Rank -> Nat] /\ now \in Nat /\ late \subseteq Nat
      OBVIOUS
    <3>2. /\ first' \in [Rank -> Nat] /\ invalid' \in [Rank -> Bit]
          /\ late' \subseteq Nat
      <4> HIDE DEF TypeOK
      <4> QED
        BY <2>7, <3>1 DEF FirstPoll, Bit, INVALID
    <3> QED
      BY <1>0, <2>7, <3>2 DEF FirstPoll, module
  <2>8. CASE Poll(r)
    BY <1>0, <2>8 DEF Poll, module, clocks
  <2>9. CASE StartCall(r)
    BY <1>0, <2>9 DEF StartCall, module
  <2>10. CASE StopSync(r)
    <3>1. packet' \in [Rank -> Packet] /\ stop_flag' \in [Rank -> Bit]
      BY <2>10 DEF StopSync, Packet, Bit
    <3>2. /\ DOMAIN slot' = Rank
          /\ \A q \in Rank : \A k \in DOMAIN slot'[q] : slot'[q][k] \in Nat
      BY <2>10 DEF StopSync
    <3> QED
      BY <1>0, <2>10, <3>1, <3>2 DEF StopSync, module, clocks
  <2>11. CASE Decide(r)
    <3>1. i \in [Rank -> Nat] /\ n_rep \in [Rank -> Nat]
      OBVIOUS
    <3>2. i' \in [Rank -> Nat] /\ n_rep' \in [Rank -> Nat]
      <4> HIDE DEF TypeOK
      <4> QED
        BY <2>11, <3>1 DEF Decide, NextIndex, NextNRep
    <3> QED
      BY <1>0, <2>11, <3>2 DEF Decide, module, clocks
  <2>12. CASE Report(r)
    <3>1. result \in [Rank -> Seq(Nat)] /\ n_rep \in [Rank -> Nat]
      OBVIOUS
    <3>2. result' \in [Rank -> Seq(Nat)]
      <4> HIDE DEF TypeOK
      <4> QED
        BY <2>12, <3>1 DEF Report
    <3> QED
      BY <1>0, <2>12, <3>2 DEF Report, module, clocks
  <2> QED
    BY <1>2, <2>1, <2>2, <2>3, <2>4, <2>5, <2>6, <2>7, <2>8, <2>9, <2>10,
       <2>11, <2>12 DEF Step
<1>3. CASE UNCHANGED vars
  BY <1>0, <1>3 DEF vars, module, clocks
<1> QED
  BY <1>1, <1>2, <1>3 DEF Next, Ended

\* Every variable keeps its type (round_time_sync.c's statics, the loop of
\* run_collective): indices and counts never become negative, flags stay bits.
THEOREM TypeCorrect == Spec => []TypeOK
  BY TypeInit, TypeStep, PTL DEF Spec

-----------------------------------------------------------------------------
(* Rounds, packets and verdicts. *)

\* What the proofs about rounds need of the types.
LEMMA RoundTypes ==
    ASSUME TypeOK
    PROVE  /\ round \in [Rank -> Nat] /\ pc \in [Rank -> Position]
           /\ packet \in [Rank -> Packet] /\ late \subseteq Nat
           /\ invalid \in [Rank -> Bit]
           /\ \A r \in Rank : packet[r].round \in Nat
           /\ \A r \in Rank : Decided(r) \in Int
<1>1. /\ round \in [Rank -> Nat] /\ pc \in [Rank -> Position]
      /\ packet \in [Rank -> Packet] /\ late \subseteq Nat
      /\ invalid \in [Rank -> Bit]
  BY DEF TypeOK, ControlOK
<1> QED
  BY <1>1 DEF Packet, Decided

\* What an action of process r does to round, pc and packet: it enters the
\* barrier, contributes to the allreduce, or gets the verdict; every other
\* action keeps it between rounds or in the round.
Enters(r) ==
    /\ pc[r] = "start" /\ pc' = [pc EXCEPT ![r] = "barrier"]
    /\ round' = [round EXCEPT ![r] = @ + 1] /\ packet' = packet

Contributes(r) ==
    /\ pc[r] = "in_call" /\ pc' = [pc EXCEPT ![r] = "allreduce"]
    /\ packet'[r].round = round[r] /\ packet'[r].invalid = invalid[r]
    /\ \A q \in Rank : q # r => packet'[q] = packet[q]
    /\ round' = round

GetsVerdict(r) ==
    /\ pc[r] = "allreduce" /\ AllContributed(r)
    /\ \E p \in Between : pc' = [pc EXCEPT ![r] = p]
    /\ UNCHANGED <<round, packet>>

StaysBetween(r) ==
    /\ pc[r] \in Between
    /\ \E p \in Between : pc' = [pc EXCEPT ![r] = p]
    /\ UNCHANGED <<round, packet>>

StaysInRound(r) ==
    /\ pc[r] \in {"barrier", "bcast", "first_poll", "poll", "call"}
    /\ pc[r] = "barrier" => BarrierComplete(r)
    /\ \E p \in InRound : pc' = [pc EXCEPT ![r] = p]
    /\ UNCHANGED <<round, packet>>

LEMMA RoundSteps ==
    ASSUME TypeOK, NEW r \in Rank, Step(r)
    PROVE  \/ Enters(r) \/ Contributes(r) \/ GetsVerdict(r)
           \/ StaysBetween(r) \/ StaysInRound(r)
<1>0. packet \in [Rank -> Packet]
  BY DEF TypeOK
<1>1. CASE StartSync(r)
  BY <1>1 DEF StartSync, Enters
<1>2. CASE StopSync(r)
  BY <1>0, <1>2 DEF StopSync, Contributes
<1>3. CASE Decide(r)
  BY <1>3 DEF Decide, GetsVerdict, Between
<1>4. CASE InitJob(r) \/ Report(r)
  BY <1>4 DEF InitJob, Report, StaysBetween, Between
<1>5. CASE \/ LeaveBarrierOnly(r) \/ SendStartTime(r) \/ EnterBcast(r)
           \/ RecvStartTime(r) \/ FirstPoll(r) \/ Poll(r) \/ StartCall(r)
  BY <1>5 DEF LeaveBarrierOnly, SendStartTime, EnterBcast, RecvStartTime,
     FirstPoll, Poll, StartCall, StaysInRound, InRound
<1> QED
  BY <1>1, <1>2, <1>3, <1>4, <1>5 DEF Step

RoundInv == RoundsAligned /\ PacketInv /\ PacketsCover

LEMMA RoundInvInit == Init => RoundInv
  BY DEF Init, RoundInv, RoundsAligned, PacketInv, PacketsCover, Decided,
     Between

LEMMA RoundInvStep ==
    ASSUME TypeOK, RoundInv, [Next]_vars
    PROVE  RoundInv'
<1> USE DEF RoundInv, RoundsAligned, PacketInv, PacketsCover, Decided,
            Between, InRound, Position
<1>0. /\ round \in [Rank -> Nat] /\ pc \in [Rank -> Position]
      /\ packet \in [Rank -> Packet]
      /\ \A r \in Rank : packet[r].round \in Nat
  BY RoundTypes
<1>1. CASE UNCHANGED <<round, pc, packet>>
  BY <1>1
<1>2. ASSUME NEW r \in Rank, Enters(r)
      PROVE  RoundInv'
  BY <1>0, <1>2 DEF Enters
<1>3. ASSUME NEW r \in Rank, Contributes(r)
      PROVE  RoundInv'
  BY <1>0, <1>3 DEF Contributes
<1>4. ASSUME NEW r \in Rank, GetsVerdict(r)
      PROVE  RoundInv'
  BY <1>0, <1>4 DEF GetsVerdict, AllContributed
<1>5. ASSUME NEW r \in Rank, StaysBetween(r)
      PROVE  RoundInv'
  BY <1>0, <1>5 DEF StaysBetween
<1>6. ASSUME NEW r \in Rank, StaysInRound(r)
      PROVE  RoundInv'
  BY <1>0, <1>6 DEF StaysInRound, BarrierComplete
<1> QED
  BY <1>1, <1>2, <1>3, <1>4, <1>5, <1>6, RoundSteps
  DEF Next, Tick, Ended, vars

-----------------------------------------------------------------------------
(* Rounds somebody was late for. *)

LEMMA LateInvInit == Init => LateInv
  BY DEF Init, LateInv

LEMMA LateInvStep ==
    ASSUME TypeOK, RoundInv, LateInv, [Next]_vars
    PROVE  LateInv'
<1> USE DEF Spoils, Decided, Between
<1>0. /\ round \in [Rank -> Nat] /\ pc \in [Rank -> Position]
      /\ packet \in [Rank -> Packet] /\ late \subseteq Nat
      /\ invalid \in [Rank -> Bit]
      /\ \A r \in Rank : packet[r].round \in Nat
  BY RoundTypes
<1>1. CASE UNCHANGED <<round, pc, packet, invalid, late>>
  BY <1>1 DEF LateInv
<1>2. ASSUME NEW r \in Rank, InitJob(r) \/ StartSync(r) \/ Report(r)
      PROVE  LateInv'
  <2>1. \A k \in late, q \in Rank : Spoils(q, k) => Spoils(q, k)'
    BY <1>0, <1>2 DEF InitJob, StartSync, Report
  <2>2. \A q \in Rank : Decided(q)' = Decided(q)
    BY <1>0, <1>2 DEF InitJob, StartSync, Report
  <2>3. late' = late
    BY <1>2 DEF InitJob, StartSync, Report
  <2> QED
    BY <2>1, <2>2, <2>3 DEF LateInv
<1>3. ASSUME NEW r \in Rank,
             \/ LeaveBarrierOnly(r) \/ SendStartTime(r) \/ EnterBcast(r)
             \/ RecvStartTime(r) \/ Poll(r) \/ StartCall(r)
      PROVE  LateInv'
  <2>1. \A k \in late, q \in Rank : Spoils(q, k) => Spoils(q, k)'
    BY <1>0, <1>3 DEF LeaveBarrierOnly, SendStartTime, EnterBcast,
       RecvStartTime, Poll, StartCall
  <2>2. \A q \in Rank : Decided(q)' = Decided(q)
    BY <1>0, <1>3 DEF LeaveBarrierOnly, SendStartTime, EnterBcast,
       RecvStartTime, Poll, StartCall
  <2>3. late' = late
    BY <1>3 DEF LeaveBarrierOnly, SendStartTime, EnterBcast,
       RecvStartTime, Poll, StartCall
  <2> QED
    BY <2>1, <2>2, <2>3 DEF LateInv
<1>4. ASSUME NEW r \in Rank, FirstPoll(r)
      PROVE  LateInv'
  <2>1. \A k \in late, q \in Rank : Spoils(q, k) => Spoils(q, k)'
    BY <1>0, <1>4 DEF FirstPoll
  <2>2. \A q \in Rank : Decided(q)' = Decided(q)
    BY <1>0, <1>4 DEF FirstPoll
  <2>3. \A k \in late' : k \in late \/ Spoils(r, k)'
    BY <1>0, <1>4 DEF FirstPoll
  <2> QED
    BY <2>1, <2>2, <2>3 DEF LateInv
<1>5. ASSUME NEW r \in Rank, StopSync(r)
      PROVE  LateInv'
  <2>0. Contributes(r) /\ late' = late /\ invalid' = invalid
    BY <1>0, <1>5 DEF StopSync, Contributes
  <2>1. \A q \in Rank : Decided(q)' = Decided(q)
    BY <1>0, <2>0 DEF Contributes
  <2>2. ASSUME NEW k \in late, NEW q \in Rank, NEW p \in Rank,
               Spoils(q, k), Decided(p) < k
        PROVE  Spoils(q, k)'
    <3>1. CASE q # r
      BY <1>0, <2>0, <2>2, <3>1 DEF Contributes
    <3>2. CASE q = r
      <4>1. round[p] >= round[r] /\ packet[r].round = round[r] - 1
        BY <2>0 DEF Contributes, RoundInv, RoundsAligned, PacketInv
      <4>2. packet[r].round # k
        BY <1>0, <2>2, <4>1
      <4> QED
        BY <1>0, <2>0, <2>2, <3>2, <4>2 DEF Contributes
    <3> QED
      BY <3>1, <3>2
  <2> QED
    BY <2>0, <2>1, <2>2 DEF LateInv
<1>6. ASSUME NEW r \in Rank, Decide(r)
      PROVE  LateInv'
  <2>1. \A k \in late, q \in Rank : Spoils(q, k) => Spoils(q, k)'
    BY <1>0, <1>6 DEF Decide
  <2>2. \A q \in Rank : Decided(q)' >= Decided(q)
    BY <1>0, <1>6 DEF Decide
  <2>3. late' = late /\ \A q \in Rank : Decided(q) \in Int /\ Decided(q)' \in Int
    BY <1>0, <1>6 DEF Decide
  <2> QED
    BY <1>0, <2>1, <2>2, <2>3 DEF LateInv
<1> QED
  BY <1>1, <1>2, <1>3, <1>4, <1>5, <1>6 DEF Next, Step, Tick, Ended, vars

\* When a process gets a verdict, every packet is that of its round.
LEMMA VerdictOfRound ==
    ASSUME TypeOK, RoundInv, NEW r \in Rank, Decide(r)
    PROVE  \A q \in Rank : packet[q].round = round[r]
<1>1. /\ round \in [Rank -> Nat] /\ pc \in [Rank -> Position]
      /\ \A q \in Rank : packet[q].round \in Nat
  BY RoundTypes
<1> QED
  BY <1>1 DEF Decide, AllContributed, RoundInv, RoundsAligned, PacketInv,
     PacketsCover, Decided, Position, InRound, Between

\* A verdict that accepts a round is given only if nobody was late for it.
LEMMA AcceptedNotLate ==
    ASSUME TypeOK, RoundInv, LateInv, NEW r \in Rank, Decide(r),
           Accepts(Decision)
    PROVE  round[r] \notin late
<1> SUFFICES ASSUME round[r] \in late PROVE FALSE
  OBVIOUS
<1>0. /\ round \in [Rank -> Nat] /\ packet \in [Rank -> Packet]
  BY RoundTypes
<1>1. Decided(r) < round[r]
  BY <1>0 DEF Decide, Decided, Between
<1>2. PICK q \in Rank : Spoils(q, round[r])
  BY <1>1 DEF LateInv
<1>3. packet[q].round = round[r]
  BY VerdictOfRound
<1>4. ~(round[q] = round[r] /\ pc[q] \in {"call", "in_call"})
  BY <1>0, <1>3 DEF RoundInv, PacketInv, Between
<1>5. packet[q].invalid = INVALID
  BY <1>2, <1>4 DEF Spoils
<1>6. \E p \in Rank : packet[p].invalid # CORRECT
  BY <1>5 DEF INVALID, CORRECT
<1>7. Decision \in {INVALID, OUT_OF_TIME_INVALID}
  BY <1>6 DEF Decision
<1> QED
  BY <1>7 DEF Accepts, CORRECT, INVALID, OUT_OF_TIME_VALID,
     OUT_OF_TIME_INVALID

-----------------------------------------------------------------------------
(* The arrays of measurements. *)

\* What is stored below index m stays stored there while process r's verdicts
\* only advance and only rounds without a verdict become late.
LEMMA HoldsStable ==
    ASSUME TypeOK, RoundInv, [Next]_vars, NEW r \in Rank, NEW m \in Int,
           Holds(r, m), Decided(r)' >= Decided(r), Decided(r)' \in Int,
           \A k \in 0 .. m - 1 : k \in DOMAIN slot'[r] /\ slot'[r][k] = slot[r][k]
    PROVE  Holds(r, m)'
<1>0. /\ round \in [Rank -> Nat] /\ late \subseteq Nat
      /\ \A q \in Rank : packet[q].round \in Nat
      /\ Decided(r) \in Int
  BY RoundTypes
<1>1. \A k \in late' : k \in late \/ k > Decided(r)
  <2>1. CASE late' = late
    BY <2>1
  <2>2. ASSUME NEW q \in Rank, FirstPoll(q)
        PROVE  \A k \in late' : k \in late \/ k > Decided(r)
    <3>1. packet[q].round = round[q] - 1 /\ packet[q].round >= Decided(r)
      BY <2>2 DEF FirstPoll, RoundInv, PacketInv, PacketsCover, Between
    <3>2. round[q] > Decided(r)
      BY <1>0, <3>1
    <3> QED
      BY <2>2, <3>2 DEF FirstPoll
  <2> QED
    BY <2>1, <2>2 DEF Next, Step, InitJob, StartSync, LeaveBarrierOnly,
       SendStartTime, EnterBcast, RecvStartTime, Poll, StartCall, StopSync,
       Decide, Report, Tick, Ended, vars
<1> QED
  BY <1>0, <1>1 DEF Holds

Active == Position \ {"init_job", "report", "done"}

LEMMA SlotInvInit == Init => SlotInv
  BY DEF Init, SlotInv, Position, Between, InRound

\* An action of another process leaves the arrays of p alone.
LEMMA OthersKeepSlots ==
    ASSUME TypeOK, NEW p \in Rank, NEW r \in Rank, r # p, Step(r)
    PROVE  /\ slot'[p] = slot[p] /\ i'[p] = i[p] /\ n_rep'[p] = n_rep[p]
           /\ pc'[p] = pc[p] /\ round'[p] = round[p]
<1> USE DEF TypeOK, ControlOK
<1>1. CASE InitJob(r)
  BY <1>1 DEF InitJob
<1>2. CASE StopSync(r)
  BY <1>2 DEF StopSync
<1>3. CASE Decide(r)
  BY <1>3 DEF Decide
<1>4. CASE \/ StartSync(r) \/ LeaveBarrierOnly(r) \/ SendStartTime(r)
           \/ EnterBcast(r) \/ RecvStartTime(r) \/ FirstPoll(r) \/ Poll(r)
           \/ StartCall(r) \/ Report(r)
  BY <1>4 DEF StartSync, LeaveBarrierOnly, SendStartTime, EnterBcast,
     RecvStartTime, FirstPoll, Poll, StartCall, Report
<1> QED
  BY <1>1, <1>2, <1>3, <1>4 DEF Step

SlotInvOf(r) ==
    /\ pc[r] \in Active => /\ DOMAIN slot[r] = 0 .. n_rep[r] - 1
                           /\ i[r] < n_rep[r]
                           /\ Holds(r, i[r])
    /\ pc[r] = "allreduce" => slot[r][i[r]] = round[r]
    /\ pc[r] = "report" => Holds(r, n_rep[r])

LEMMA SlotInvStep ==
    ASSUME TypeOK, RoundInv, LateInv, SlotInv, [Next]_vars
    PROVE  SlotInv'
<1> SUFFICES ASSUME NEW p \in Rank PROVE SlotInvOf(p)'
  BY DEF SlotInv, SlotInvOf, Active
<1>0. /\ round \in [Rank -> Nat] /\ pc \in [Rank -> Position]
      /\ i \in [Rank -> Nat] /\ n_rep \in [Rank -> Nat] /\ DOMAIN slot = Rank
      /\ packet[p].round \in Nat /\ Decided(p) \in Int
  BY RoundTypes DEF TypeOK
<1>a. SlotInvOf(p)
  BY DEF SlotInv, SlotInvOf, Active
<1>1. ASSUME slot'[p] = slot[p], i'[p] = i[p], n_rep'[p] = n_rep[p],
             round'[p] >= round[p], Decided(p)' = Decided(p),
             pc'[p] = pc[p] \/ (pc[p] \in Active /\ pc'[p] \in Active
                                  /\ pc'[p] # "allreduce"),
             pc'[p] = "allreduce" => round'[p] = round[p]
      PROVE  SlotInvOf(p)'
  <2>1. \A m \in Nat : Holds(p, m) => Holds(p, m)'
    <3> SUFFICES ASSUME NEW m \in Nat, Holds(p, m) PROVE Holds(p, m)'
      OBVIOUS
    <3>1. \A k \in 0 .. m - 1 : k \in DOMAIN slot'[p]
                                  /\ slot'[p][k] = slot[p][k]
      BY <1>1 DEF Holds
    <3> QED
      BY <1>0, <1>1, <3>1, HoldsStable
  <2> QED
    BY <1>0, <1>1, <1>a, <2>1 DEF SlotInvOf, Active
<1>2. CASE UNCHANGED <<slot, i, n_rep, round, pc>>
  BY <1>0, <1>1, <1>2 DEF Decided
<1>3. ASSUME NEW r \in Rank, Step(r), r # p
      PROVE  SlotInvOf(p)'
  BY <1>0, <1>1, <1>3, OthersKeepSlots DEF Decided
<1>4. CASE \/ StartSync(p) \/ LeaveBarrierOnly(p) \/ SendStartTime(p)
           \/ EnterBcast(p) \/ RecvStartTime(p) \/ FirstPoll(p) \/ Poll(p)
           \/ StartCall(p)
  <2>1. /\ slot'[p] = slot[p] /\ i'[p] = i[p] /\ n_rep'[p] = n_rep[p]
        /\ round'[p] >= round[p] /\ Decided(p)' = Decided(p)
        /\ pc[p] \in Active /\ pc'[p] \in Active /\ pc'[p] # "allreduce"
    BY <1>0, <1>4 DEF StartSync, LeaveBarrierOnly, SendStartTime, EnterBcast,
       RecvStartTime, FirstPoll, Poll, StartCall, Decided, Active, Position,
       InRound, Between
  <2> QED
    BY <1>1, <2>1
<1>5. CASE InitJob(p)
  <2>1. Jobs[job[p]].nrep \in Nat \ {0}
    BY <1>5, JobTyped DEF InitJob, TypeOK, JobType
  <2>2. /\ pc'[p] = "start" /\ i'[p] = 0 /\ n_rep'[p] = Jobs[job[p]].nrep
        /\ slot'[p] = [k \in 0 .. Jobs[job[p]].nrep - 1 |-> 0]
    BY <1>0, <1>5 DEF InitJob
  <2> QED
    BY <2>1, <2>2 DEF SlotInvOf, Holds
<1>6. CASE StopSync(p)
  <2>1. /\ pc[p] = "in_call" /\ pc'[p] = "allreduce"
        /\ slot'[p] = [slot[p] EXCEPT ![i[p]] = round[p]]
        /\ i'[p] = i[p] /\ n_rep'[p] = n_rep[p] /\ round' = round
    BY <1>0, <1>6 DEF StopSync
  <2>2. /\ DOMAIN slot[p] = 0 .. n_rep[p] - 1 /\ i[p] < n_rep[p]
        /\ Holds(p, i[p])
    BY <1>a, <2>1 DEF SlotInvOf, Active, Position, InRound
  <2>3. Decided(p)' = Decided(p)
    BY <1>0, <2>1 DEF Decided, Between
  <2>4. /\ DOMAIN slot'[p] = 0 .. n_rep[p] - 1
        /\ slot'[p][i[p]] = round[p]
        /\ \A k \in 0 .. i[p] - 1 : k \in DOMAIN slot'[p]
                                      /\ slot'[p][k] = slot[p][k]
    BY <1>0, <2>1, <2>2
  <2>5. PICK n \in Nat : n = i[p]
    BY <1>0
  <2>6. Holds(p, n)'
    <3>1. Holds(p, n)
      BY <2>2, <2>4, <2>5 DEF Holds
    <3>2. Decided(p)' >= Decided(p) /\ Decided(p)' \in Int
      BY <1>0, <2>1, <2>3
    <3>3. \A k \in 0 .. n - 1 : k \in DOMAIN slot'[p]
                                  /\ slot'[p][k] = slot[p][k]
      BY <2>4, <2>5
    <3> QED
      BY <3>1, <3>2, <3>3, HoldsStable
  <2> QED
    BY <2>1, <2>2, <2>4, <2>5, <2>6 DEF SlotInvOf
<1>7. CASE Decide(p)
  <2>1. /\ pc[p] = "allreduce" /\ pc'[p] \in {"start", "report"}
        /\ slot' = slot /\ round' = round /\ late' = late
        /\ i'[p] = NextIndex(Decision, i[p])
        /\ n_rep'[p] = NextNRep(Decision, i[p], n_rep[p])
        /\ pc'[p] = "report" <=> LoopEnds(Decision, i[p], n_rep[p])
    BY <1>0, <1>7 DEF Decide
  <2>2. /\ DOMAIN slot[p] = 0 .. n_rep[p] - 1 /\ i[p] < n_rep[p]
        /\ Holds(p, i[p]) /\ slot[p][i[p]] = round[p]
    BY <1>a, <2>1 DEF SlotInvOf, Active, Position, Between
  <2>3. /\ Decided(p) = round[p] - 1 /\ Decided(p)' = round[p]
        /\ round[p] >= 1
    <3>1. round[p] > 0
      BY <2>1 DEF RoundInv, PacketInv, Between
    <3>2. Decided(p) = round[p] - 1 /\ Decided(p)' = round[p]
      BY <2>1 DEF Decided, Between
    <3> QED
      BY <1>0, <3>1, <3>2
  <2>4. PICK n \in Nat : n = i[p]
    BY <1>0
  <2>5. \A k \in 0 .. n - 1 : k \in DOMAIN slot'[p] /\ slot'[p][k] = slot[p][k]
    BY <1>0, <2>1, <2>2, <2>4
  <2>6. Holds(p, n)'
    <3>1. Holds(p, n)
      BY <2>2, <2>4, <2>5 DEF Holds
    <3>2. Decided(p)' >= Decided(p) /\ Decided(p)' \in Int
      BY <1>0, <2>1, <2>3
    <3>3. \A k \in 0 .. n - 1 : k \in DOMAIN slot'[p]
                                  /\ slot'[p][k] = slot[p][k]
      BY <2>4, <2>5
    <3> QED
      BY <3>1, <3>2, <3>3, HoldsStable
  <2>7. \A m \in Nat : m <= n => Holds(p, m)'
    BY <2>6 DEF Holds
  <2>8. ASSUME Accepts(Decision)
        PROVE  Holds(p, n + 1)'
    <3>1. n \in DOMAIN slot'[p] /\ slot'[p][n] = round[p]
      BY <1>0, <2>1, <2>2, <2>4
    <3>2. round[p] \in (1 .. Decided(p)') \ late'
      BY <1>0, <1>7, <2>1, <2>3, <2>8, AcceptedNotLate
    <3>3. n > 0 => slot'[p][n - 1] < round[p]
      <4> SUFFICES ASSUME n > 0 PROVE slot'[p][n - 1] < round[p]
        OBVIOUS
      <4>1. n - 1 \in 0 .. n - 1
        OBVIOUS
      <4>2. slot[p][n - 1] \in 1 .. Decided(p)
        BY <2>2, <2>4, <4>1 DEF Holds
      <4> QED
        BY <1>0, <2>1, <2>3, <4>2
    <3>4. \A k \in 0 .. n : k \in 0 .. n - 1 \/ k = n
      OBVIOUS
    <3> QED
      BY <2>6, <3>1, <3>2, <3>3, <3>4 DEF Holds
  <2>9. CASE Decision = CORRECT
    <3>1. i'[p] = n + 1 /\ n_rep'[p] = n_rep[p]
          /\ (pc'[p] = "report" <=> n + 1 = n_rep[p])
      BY <2>1, <2>4, <2>9 DEF NextIndex, NextNRep, LoopEnds, OutOfTime,
         CORRECT, OUT_OF_TIME_VALID, OUT_OF_TIME_INVALID
    <3> QED
      <4>1. Holds(p, n + 1)'
        BY <2>8, <2>9 DEF Accepts
      <4>2. PICK m \in Nat : m = n + 1
        OBVIOUS
      <4>3. Holds(p, m)'
        BY <4>1, <4>2
      <4>4. i'[p] < n_rep'[p] \/ i'[p] = n_rep'[p]
        BY <1>0, <2>2, <2>4, <3>1
      <4>5. i'[p] = m /\ (pc'[p] = "report" => n_rep'[p] = m)
        BY <3>1, <4>2
      <4>6. pc'[p] # "report" => i'[p] < n_rep'[p]
        BY <3>1, <4>4
      <4>7. DOMAIN slot'[p] = 0 .. n_rep'[p] - 1
        BY <2>1, <2>2, <3>1
      <4>8. pc'[p] = "report" => Holds(p, n_rep[p])'
        BY <4>3, <4>5 DEF Holds
      <4>9. Holds(p, i[p])'
        BY <4>3, <4>5 DEF Holds
      <4> QED
        BY <2>1, <4>6, <4>7, <4>8, <4>9 DEF SlotInvOf, Active
  <2>10. CASE Decision = INVALID
    <3>1. i'[p] = n /\ n_rep'[p] = n_rep[p] /\ pc'[p] = "start"
      BY <1>0, <2>1, <2>2, <2>4, <2>10 DEF NextIndex, NextNRep, LoopEnds,
         OutOfTime, CORRECT, INVALID, OUT_OF_TIME_VALID, OUT_OF_TIME_INVALID
    <3> QED
      BY <2>1, <2>2, <2>4, <2>6, <3>1 DEF SlotInvOf
  <2>11. CASE Decision = OUT_OF_TIME_VALID
    <3>1. n_rep'[p] = n + 1 /\ pc'[p] = "report"
      BY <2>1, <2>4, <2>11 DEF NextNRep, LoopEnds, OutOfTime
    <3> QED
      BY <2>8, <2>11, <3>1 DEF SlotInvOf, Accepts, Active
  <2>12. CASE Decision = OUT_OF_TIME_INVALID
    <3>1. n_rep'[p] \in Nat /\ n_rep'[p] <= n /\ pc'[p] = "report"
      BY <2>1, <2>4, <2>12 DEF NextNRep, LoopEnds, OutOfTime,
         OUT_OF_TIME_VALID, OUT_OF_TIME_INVALID
    <3>2. PICK m \in Nat : m = n_rep'[p]
      BY <3>1
    <3> QED
      BY <2>7, <3>1, <3>2 DEF SlotInvOf, Active
  <2> QED
    BY <2>9, <2>10, <2>11, <2>12, DecisionTyped DEF Verdict
<1>8. CASE Report(p)
  <2>1. pc'[p] \in {"init_job", "done"}
    BY <1>0, <1>8 DEF Report
  <2> QED
    BY <2>1 DEF SlotInvOf, Active
<1> QED
  BY <1>2, <1>3, <1>4, <1>5, <1>6, <1>7, <1>8
  DEF Next, Step, Tick, Ended, vars

-----------------------------------------------------------------------------
(* The start time of a round. *)

LEMMA BcastInvInit == Init => BcastInv
  BY NPAssumption DEF Init, BcastInv, Rank, Master

LEMMA BcastInvStep ==
    ASSUME TypeOK, RoundInv, BcastInv, [Next]_vars
    PROVE  BcastInv'
<1>0. /\ round \in [Rank -> Nat] /\ pc \in [Rank -> Position]
      /\ start_sync \in [Rank -> Nat] /\ barrier_sync_mode \in [Rank -> Bit]
      /\ bcast \in [round : Nat, value : Nat] /\ Master \in Rank
  <2>1. Master \in Rank
    BY NPAssumption DEF Rank, Master
  <2> QED
    BY <2>1 DEF TypeOK, ControlOK
<1> USE DEF BcastInv
<1>1. CASE UNCHANGED <<bcast, pc, round, barrier_sync_mode, start_sync>>
  BY <1>1
<1>2. ASSUME NEW r \in Rank, InitJob(r) \/ Report(r)
      PROVE  BcastInv'
  BY <1>0, <1>2 DEF InitJob, Report, module
<1>3. ASSUME NEW r \in Rank, StartSync(r)
      PROVE  BcastInv'
  BY <1>0, <1>3 DEF StartSync, module
<1>4. ASSUME NEW r \in Rank, LeaveBarrierOnly(r) \/ EnterBcast(r)
      PROVE  BcastInv'
  BY <1>0, <1>4 DEF LeaveBarrierOnly, EnterBcast, module
<1>5. ASSUME NEW r \in Rank, SendStartTime(r)
      PROVE  BcastInv'
  <2>1. \A q \in Rank : round[q] >= round[Master]
    BY <1>5 DEF SendStartTime, BarrierComplete
  <2>2. bcast.round <= round[Master] - 1
    BY <1>5 DEF SendStartTime
  <2>3. \A q \in Rank :
           ~(barrier_sync_mode[q] = 0 /\
             pc[q] \in {"first_poll", "poll", "call", "in_call", "allreduce"})
    BY <1>0, <2>1, <2>2
  <2> QED
    BY <1>0, <1>5, <2>3 DEF SendStartTime, module
<1>6. ASSUME NEW r \in Rank, RecvStartTime(r)
      PROVE  BcastInv'
  BY <1>0, <1>6 DEF RecvStartTime, module
<1>7. ASSUME NEW r \in Rank, FirstPoll(r) \/ Poll(r) \/ StartCall(r)
      PROVE  BcastInv'
  BY <1>0, <1>7 DEF FirstPoll, Poll, StartCall, module
<1>8. ASSUME NEW r \in Rank, StopSync(r) \/ Decide(r)
      PROVE  BcastInv'
  BY <1>0, <1>8 DEF StopSync, Decide, module
<1> QED
  BY <1>1, <1>2, <1>3, <1>4, <1>5, <1>6, <1>7, <1>8
  DEF Next, Step, Tick, Ended, vars, module

LEMMA WaitInvInit == Init => WaitInv
  BY DEF Init, WaitInv

LEMMA WaitInvStep ==
    ASSUME TypeOK, WaitInv, [Next]_vars
    PROVE  WaitInv'
<1>0. /\ pc \in [Rank -> Position] /\ now \in Nat
      /\ start_sync \in [Rank -> Nat] /\ barrier_sync_mode \in [Rank -> Bit]
      /\ err \in [Rank -> Int] /\ first \in [Rank -> Nat]
      /\ tstart \in [Rank -> Nat] /\ invalid \in [Rank -> Bit]
  <2>1. err \in [Rank -> Errs \cup {0}]
    BY DEF TypeOK
  <2>2. \A e \in Errs \cup {0} : e \in Int
    BY ErrsAssumption
  <2>3. err \in [Rank -> Int]
    BY <2>1, <2>2, Zenon
  <2> QED
    BY <2>3 DEF TypeOK, ControlOK
<1> USE DEF WaitInv
<1>1. CASE UNCHANGED <<pc, start_sync, barrier_sync_mode, err, first, tstart,
                       invalid>> /\ now' \in {now, now + 1}
  BY <1>0, <1>1
<1>2. ASSUME NEW r \in Rank, InitJob(r) \/ StartSync(r) \/ Report(r)
      PROVE  WaitInv'
  BY <1>0, <1>2 DEF InitJob, StartSync, Report, module, clocks
<1>3. ASSUME NEW r \in Rank, LeaveBarrierOnly(r) \/ EnterBcast(r)
      PROVE  WaitInv'
  BY <1>0, <1>3 DEF LeaveBarrierOnly, EnterBcast, module, clocks
<1>4. ASSUME NEW r \in Rank, SendStartTime(r) \/ RecvStartTime(r)
      PROVE  WaitInv'
  BY <1>0, <1>4 DEF SendStartTime, RecvStartTime, module, clocks
<1>5. ASSUME NEW r \in Rank, FirstPoll(r)
      PROVE  WaitInv'
  BY <1>0, <1>5 DEF FirstPoll, GlobalTime, module, CORRECT, INVALID
<1>6. ASSUME NEW r \in Rank, Poll(r)
      PROVE  WaitInv'
  BY <1>0, <1>6 DEF Poll, GlobalTime, module, clocks
<1>7. ASSUME NEW r \in Rank, StartCall(r)
      PROVE  WaitInv'
  BY <1>0, <1>7 DEF StartCall, module
<1>8. ASSUME NEW r \in Rank, StopSync(r) \/ Decide(r)
      PROVE  WaitInv'
  BY <1>0, <1>8 DEF StopSync, Decide, module, clocks
<1> QED
  BY <1>1, <1>2, <1>3, <1>4, <1>5, <1>6, <1>7, <1>8
  DEF Next, Step, Tick, Ended, vars, module, clocks

-----------------------------------------------------------------------------
(* The invariant, and what follows from it. *)

LEMMA Invariant == Spec => []IInv
<1>1. Init => IInv
  BY TypeInit, RoundInvInit, LateInvInit, SlotInvInit, BcastInvInit,
     WaitInvInit DEF IInv, RoundInv
<1>2. IInv /\ [Next]_vars => IInv'
  BY TypeStep, RoundInvStep, LateInvStep, SlotInvStep, BcastInvStep,
     WaitInvStep DEF IInv, RoundInv
<1> QED
  BY <1>1, <1>2, PTL DEF Spec

\* In clock mode nobody starts the call before all the processes that do not
\* flag the round have arrived, up to their clock errors
\* (roundtimesync_start_synchronization).
THEOREM StartIsSynchronised == Spec => []SynchronisedStart
<1>1. IInv => SynchronisedStart
  <2> SUFFICES ASSUME IInv, NEW p \in Rank, NEW q \in Rank,
                      round[p] = round[q],
                      barrier_sync_mode[p] = 0, barrier_sync_mode[q] = 0,
                      pc[p] \in {"poll", "call", "in_call", "allreduce"},
                      invalid[p] = CORRECT,
                      pc[q] \in {"in_call", "allreduce"}
               PROVE  first[p] + err[p] < tstart[q] + err[q]
    BY DEF SynchronisedStart
  <2>1. start_sync[p] = start_sync[q]
    BY DEF IInv, BcastInv
  <2>2. first[p] + err[p] < start_sync[p]
    BY DEF IInv, WaitInv
  <2>3. start_sync[q] <= tstart[q] + err[q]
    BY DEF IInv, WaitInv
  <2>4. /\ first[p] \in Nat /\ tstart[q] \in Nat /\ start_sync[p] \in Nat
        /\ err[p] \in Int /\ err[q] \in Int
    <3>1. err[p] \in Errs \cup {0} /\ err[q] \in Errs \cup {0}
      BY DEF IInv, TypeOK
    <3>2. err[p] \in Int /\ err[q] \in Int
      BY <3>1, ErrsAssumption
    <3> QED
      BY <3>2 DEF IInv, TypeOK
  <2> QED
    BY <2>1, <2>2, <2>3, <2>4
<1> QED
  BY <1>1, Invariant, PTL

\* What run_collective reports are measurements of rounds in which every
\* process was in time, in the order in which they were made.
THEOREM ReportIsValid == Spec => []ReportedAreValid
<1>1. IInv => ReportedAreValid
  BY DEF IInv, SlotInv, Holds, Decided, Between, ReportedAreValid
<1> QED
  BY <1>1, Invariant, PTL

-----------------------------------------------------------------------------
(* What the processes report: the invariant of the results. *)

\* Where a process will be at the start of its next round, once it has
\* reported a job whose loop has ended: its job, i, n_rep and results.
InLoop(r) == pc[r] \in Active
EJob(r) == IF pc[r] = "report" THEN job[r] + 1 ELSE job[r]
EResult(r) == IF pc[r] = "report" THEN Append(result[r], n_rep[r]) ELSE result[r]
EIndex(r) == IF InLoop(r) THEN i[r] ELSE 0

\* Processes with the same verdicts are there together.
SameProgress ==
    \A p, q \in Rank : Decided(p) = Decided(q) =>
        EJob(p) = EJob(q) /\ EIndex(p) = EIndex(q) /\ EResult(p) = EResult(q)

\* Where the verdict it waits for will take a process in the allreduce.
Ends(p) == LoopEnds(Decision, i[p], n_rep[p])
NextJob(p) == IF Ends(p) THEN job[p] + 1 ELSE job[p]
NextI(p) == IF Ends(p) THEN 0 ELSE NextIndex(Decision, i[p])
NextResult(p) == IF Ends(p)
                 THEN Append(result[p], NextNRep(Decision, i[p], n_rep[p]))
                 ELSE result[p]

\* A process one verdict ahead is where the other one, which still has to get
\* that verdict, will be.
OneAhead ==
    \A p, q \in Rank : Decided(q) = Decided(p) + 1 =>
        EJob(q) = NextJob(p) /\ EIndex(q) = NextI(p) /\ EResult(q) = NextResult(p)

\* n_rep is only changed by the verdict that ends the loop.
FullNRep == \A r \in Rank : InLoop(r) => n_rep[r] = Jobs[job[r]].nrep

\* A stop flag is raised when the time slot of the job is used up, and sent.
TimeUp(r) == now - job_start_time[r] >= time_slot[r]
StopInv ==
    \A r \in Rank :
        /\ (InLoop(r) \/ pc[r] = "report") /\ stop_flag[r] = 1 => TimeUp(r)
        /\ pc[r] \in {"allreduce", "report"} => packet[r].stop = stop_flag[r]

\* Who reports fewer repetitions was told to stop in the last round.
ShortInv ==
    \A r \in Rank : pc[r] = "report" /\ n_rep[r] # Jobs[job[r]].nrep =>
        \E q \in Rank : packet[q].round = round[r] /\ packet[q].stop = 1

\* Only a missed start time makes a round invalid.
InvalidInv ==
    \A r \in Rank :
        /\ packet[r].invalid = INVALID => packet[r].round \in late
        /\ pc[r] \in InRound \cup {"barrier"} /\ invalid[r] = INVALID
               => round[r] \in late
        /\ InLoop(r) /\ barrier_sync_mode[r] = 1 => invalid[r] = CORRECT
        /\ pc[r] \in {"bcast", "first_poll", "poll"} => barrier_sync_mode[r] = 0

\* Above the measurements a process keeps there is none that it might keep,
\* but for the one it gets the verdict on.
NoneAbove ==
    \A r \in Rank :
        /\ DOMAIN slot[r] \subseteq Nat
        /\ InLoop(r) => \A k \in DOMAIN slot[r] :
               /\ k > i[r] => slot[r][k] = 0
               /\ k = i[r] /\ pc[r] # "allreduce" => slot[r][k] \in late \cup {0}
        /\ pc[r] = "report" => \A k \in DOMAIN slot[r] :
               k > n_rep[r] => slot[r][k] \in late \cup {0}

RInv == SameProgress /\ OneAhead /\ FullNRep /\ StopInv /\ ShortInv
        /\ InvalidInv /\ NoneAbove

-----------------------------------------------------------------------------
(* Verdicts of different processes. *)

\* Nobody is more than one verdict ahead; whoever is behind waits for the
\* verdict in the allreduce, to which everybody has contributed.
LEMMA Stages ==
    ASSUME TypeOK, RoundInv, NEW p \in Rank, NEW q \in Rank
    PROVE  /\ Decided(q) <= Decided(p) + 1
           /\ Decided(q) = Decided(p) + 1 =>
                  /\ pc[p] = "allreduce" /\ round[p] = Decided(q)
                  /\ \A x \in Rank : packet[x].round = Decided(q)
<1>0. /\ round \in [Rank -> Nat] /\ pc \in [Rank -> Position]
      /\ \A r \in Rank : packet[r].round \in Nat
      /\ \A r \in Rank : Decided(r) \in Int
  BY RoundTypes
<1>1. packet[p].round >= Decided(q)
  BY DEF RoundInv, PacketsCover
<1>2. /\ packet[p].round <= Decided(p) + 1
      /\ packet[p].round = Decided(p) + 1 => pc[p] = "allreduce"
  BY <1>0 DEF RoundInv, PacketInv, Decided
<1>3. ASSUME Decided(q) = Decided(p) + 1
      PROVE  /\ pc[p] = "allreduce" /\ round[p] = Decided(q)
             /\ \A x \in Rank : packet[x].round = Decided(q)
  <2>1. pc[p] = "allreduce" /\ round[p] = Decided(q)
    BY <1>0, <1>1, <1>2, <1>3 DEF Decided, Between
  <2>2. ASSUME NEW x \in Rank PROVE packet[x].round = Decided(q)
    <3>1. packet[x].round >= Decided(q)
      BY DEF RoundInv, PacketsCover
    <3>2. packet[p].round = round[p]
      BY <2>1 DEF RoundInv, PacketInv
    <3>3. packet[p].round >= Decided(x)
      BY DEF RoundInv, PacketsCover
    <3>4. pc[x] # "barrier" => round[p] >= round[x]
      BY DEF RoundInv, RoundsAligned
    <3>5. packet[x].round = IF pc[x] \in Between \cup {"allreduce"}
                            THEN round[x] ELSE round[x] - 1
      BY DEF RoundInv, PacketInv
    <3>6. pc[x] = "barrier" => Decided(x) = round[x] - 1 /\ packet[x].round = round[x] - 1
      BY <3>5 DEF Decided, Between
    <3> QED
      BY <1>0, <2>1, <3>1, <3>2, <3>3, <3>4, <3>5, <3>6
  <2> QED
    BY <2>1, <2>2
<1> QED
  BY <1>0, <1>1, <1>2, <1>3

-----------------------------------------------------------------------------
(* The same progress everywhere. *)

Progress == SameProgress /\ OneAhead /\ FullNRep

LEMMA ProgressTypes ==
    ASSUME TypeOK
    PROVE  /\ pc \in [Rank -> Position] /\ job \in [Rank -> Nat]
           /\ i \in [Rank -> Nat] /\ n_rep \in [Rank -> Nat]
           /\ result \in [Rank -> Seq(Nat)] /\ round \in [Rank -> Nat]
<1>1. \A n \in 1 .. NJobs + 1 : n \in Nat
  BY NJobsNat
<1>2. job \in [Rank -> 1 .. NJobs + 1]
  BY DEF TypeOK, ControlOK
<1>3. job \in [Rank -> Nat]
  BY <1>1, <1>2
<1> QED
  BY <1>3 DEF TypeOK, ControlOK

LEMMA ProgressInit == Init => Progress
  BY DEF Init, Progress, SameProgress, OneAhead, FullNRep, Decided, Between,
     EJob, EIndex, EResult, InLoop, Active, Position, InRound

\* What an action may do without a change of any process's progress.
Keeps(r) ==
    /\ \A q \in Rank : /\ EJob(q)' = EJob(q) /\ EIndex(q)' = EIndex(q)
                       /\ EResult(q)' = EResult(q) /\ Decided(q)' = Decided(q)
    /\ \A q \in Rank : (q # r \/ pc[q] = "allreduce") =>
           /\ job'[q] = job[q] /\ i'[q] = i[q] /\ n_rep'[q] = n_rep[q]
           /\ result'[q] = result[q] /\ pc'[q] = pc[q]

LEMMA SameVerdict ==
    ASSUME NEW p \in Rank, packet' = packet,
           job'[p] = job[p], i'[p] = i[p], n_rep'[p] = n_rep[p],
           result'[p] = result[p]
    PROVE  /\ NextJob(p)' = NextJob(p) /\ NextI(p)' = NextI(p)
           /\ NextResult(p)' = NextResult(p)
<1>1. Decision' = Decision
  BY DEF Decision
<1>2. /\ NextIndex(Decision, i[p])' = NextIndex(Decision, i[p])
      /\ NextNRep(Decision, i[p], n_rep[p])' = NextNRep(Decision, i[p], n_rep[p])
      /\ Ends(p)' <=> Ends(p)
  BY <1>1 DEF NextIndex, NextNRep, Ends, LoopEnds, OutOfTime
<1> QED
  BY <1>2 DEF NextJob, NextI, NextResult

LEMMA KeepsProgress ==
    ASSUME TypeOK, RoundInv, Progress, NEW r \in Rank, Keeps(r), packet' = packet
    PROVE  (SameProgress /\ OneAhead)'
<1>1. SameProgress'
  BY DEF Keeps, Progress, SameProgress
<1>2. ASSUME NEW p \in Rank, NEW q \in Rank, (Decided(q) = Decided(p) + 1)'
      PROVE  (EJob(q) = NextJob(p) /\ EIndex(q) = NextI(p)
                /\ EResult(q) = NextResult(p))'
  <2>1. Decided(q) = Decided(p) + 1
    BY <1>2 DEF Keeps
  <2>2. pc[p] = "allreduce"
    BY <2>1, Stages
  <2>3. /\ NextJob(p)' = NextJob(p) /\ NextI(p)' = NextI(p)
        /\ NextResult(p)' = NextResult(p)
    BY <2>2, SameVerdict DEF Keeps
  <2> QED
    BY <2>1, <2>3 DEF Keeps, Progress, OneAhead
<1> QED
  BY <1>1, <1>2 DEF OneAhead

\* Every action but the two around the allreduce.
LEMMA MostKeep ==
    ASSUME TypeOK, NEW r \in Rank, Step(r), ~StopSync(r), ~Decide(r)
    PROVE  Keeps(r) /\ packet' = packet
<1> USE DEF Keeps, EJob, EIndex, EResult, InLoop, Active, Decided, Between,
            Position, InRound
<1>0. /\ pc \in [Rank -> Position] /\ job \in [Rank -> Nat]
      /\ i \in [Rank -> Nat] /\ n_rep \in [Rank -> Nat]
      /\ result \in [Rank -> Seq(Nat)] /\ round \in [Rank -> Nat]
  BY ProgressTypes
<1>1. CASE InitJob(r)
  BY <1>0, <1>1 DEF InitJob
<1>2. CASE StartSync(r)
  BY <1>0, <1>2 DEF StartSync
<1>3. CASE \/ LeaveBarrierOnly(r) \/ SendStartTime(r) \/ EnterBcast(r)
           \/ RecvStartTime(r) \/ FirstPoll(r) \/ Poll(r) \/ StartCall(r)
  BY <1>0, <1>3 DEF LeaveBarrierOnly, SendStartTime, EnterBcast, RecvStartTime,
     FirstPoll, Poll, StartCall
<1>4. CASE Report(r)
  BY <1>0, <1>4 DEF Report
<1> QED
  BY <1>1, <1>2, <1>3, <1>4 DEF Step

LEMMA StopSyncProgress ==
    ASSUME TypeOK, RoundInv, Progress, NEW r \in Rank, StopSync(r)
    PROVE  (SameProgress /\ OneAhead)'
<1>0. /\ pc \in [Rank -> Position] /\ round \in [Rank -> Nat]
      /\ \A q \in Rank : packet[q].round \in Nat /\ Decided(q) \in Int
  BY RoundTypes
<1>1. \A q \in Rank : /\ EJob(q)' = EJob(q) /\ EIndex(q)' = EIndex(q)
                      /\ EResult(q)' = EResult(q) /\ Decided(q)' = Decided(q)
  BY <1>0 DEF StopSync, EJob, EIndex, EResult, InLoop, Active, Decided,
     Between, Position, InRound
<1>2. SameProgress'
  BY <1>1 DEF Progress, SameProgress
<1>3. ASSUME NEW p \in Rank, NEW q \in Rank, Decided(q) = Decided(p) + 1
      PROVE  FALSE
  <2>1. pc[p] = "allreduce" /\ round[p] = Decided(q) /\ packet[r].round = Decided(q)
    BY <1>3, Stages
  <2>2. packet[r].round = round[r] - 1 /\ round[p] >= round[r]
    BY DEF StopSync, RoundInv, RoundsAligned, PacketInv, Between
  <2> QED
    BY <1>0, <2>1, <2>2
<1>4. OneAhead'
  BY <1>1, <1>3 DEF OneAhead
<1> QED
  BY <1>2, <1>4

LEMMA DecideProgress ==
    ASSUME TypeOK, RoundInv, Progress, NEW r \in Rank, Decide(r)
    PROVE  (SameProgress /\ OneAhead)'
<1>0. /\ pc \in [Rank -> Position] /\ job \in [Rank -> Nat]
      /\ i \in [Rank -> Nat] /\ n_rep \in [Rank -> Nat]
      /\ result \in [Rank -> Seq(Nat)] /\ round \in [Rank -> Nat]
      /\ \A q \in Rank : packet[q].round \in Nat /\ Decided(q) \in Int
  BY ProgressTypes, RoundTypes
<1>1. \A q \in Rank : packet[q].round = round[r]
  BY VerdictOfRound
<1>2. /\ packet' = packet /\ pc[r] = "allreduce"
      /\ Decided(r) = round[r] - 1 /\ Decided(r)' = round[r]
  BY <1>0 DEF Decide, Decided, Between
<1>3. ASSUME NEW q \in Rank, q # r
      PROVE  /\ EJob(q)' = EJob(q) /\ EIndex(q)' = EIndex(q)
             /\ EResult(q)' = EResult(q) /\ Decided(q)' = Decided(q)
             /\ job'[q] = job[q] /\ i'[q] = i[q] /\ n_rep'[q] = n_rep[q]
             /\ result'[q] = result[q] /\ pc'[q] = pc[q]
  BY <1>0, <1>3 DEF Decide, EJob, EIndex, EResult, InLoop, Decided
<1>4. /\ EJob(r)' = NextJob(r) /\ EIndex(r)' = NextI(r)
      /\ EResult(r)' = NextResult(r)
  BY <1>0 DEF Decide, EJob, EIndex, EResult, InLoop, NextJob, NextI, NextResult,
     Ends, Active, Position, Between
<1>5. SameProgress'
  <2>1. ASSUME NEW q \in Rank, q # r, Decided(q)' = Decided(r)'
        PROVE  /\ EJob(q)' = EJob(r)' /\ EIndex(q)' = EIndex(r)'
               /\ EResult(q)' = EResult(r)'
    <3>1. Decided(q) = Decided(r) + 1
      BY <1>0, <1>2, <1>3, <2>1
    <3> QED
      BY <1>3, <1>4, <2>1, <3>1 DEF Progress, OneAhead
  <2>2. ASSUME NEW p \in Rank, NEW q \in Rank, p # r, q # r,
               Decided(p)' = Decided(q)'
        PROVE  /\ EJob(p)' = EJob(q)' /\ EIndex(p)' = EIndex(q)'
               /\ EResult(p)' = EResult(q)'
    BY <1>3, <2>2 DEF Progress, SameProgress
  <2> QED
    BY <2>1, <2>2 DEF SameProgress
<1>6. ASSUME NEW p \in Rank, NEW q \in Rank, (Decided(q) = Decided(p) + 1)'
      PROVE  (EJob(q) = NextJob(p) /\ EIndex(q) = NextI(p)
                /\ EResult(q) = NextResult(p))'
  <2>1. p # r
    <3> SUFFICES ASSUME p = r PROVE FALSE
      OBVIOUS
    <3>1. q # r /\ Decided(q) = round[r] + 1
      BY <1>0, <1>2, <1>3, <1>6
    <3>2. Decided(q) <= Decided(r) + 1
      BY Stages
    <3> QED
      BY <1>0, <1>2, <3>1, <3>2
  <2>2. /\ NextJob(p)' = NextJob(p) /\ NextI(p)' = NextI(p)
        /\ NextResult(p)' = NextResult(p)
    BY <1>2, <1>3, <2>1, SameVerdict
  <2>3. CASE q # r
    BY <1>3, <1>6, <2>1, <2>2, <2>3 DEF Progress, OneAhead
  <2>4. CASE q = r
    <3>1. Decided(p) = Decided(r)
      BY <1>0, <1>2, <1>3, <1>6, <2>1, <2>4
    <3>2. pc[p] = "allreduce"
      <4>1. packet[p].round = Decided(p) + 1
        <5>1. packet[p].round = round[r] /\ Decided(p) = round[r] - 1
          BY <1>1, <1>2, <3>1
        <5>2. round[r] \in Nat
          BY <1>0
        <5> QED
          BY <5>1, <5>2
      <4>2. packet[p].round = IF pc[p] \in Between \cup {"allreduce"}
                              THEN round[p] ELSE round[p] - 1
        BY DEF RoundInv, PacketInv
      <4> QED
        <5>1. round[p] \in Nat /\ Decided(p) \in Int
          BY <1>0 DEF Decided
        <5>2. pc[p] \notin Between
          <6> SUFFICES ASSUME pc[p] \in Between PROVE FALSE
            OBVIOUS
          <6>1. Decided(p) = round[p] /\ packet[p].round = round[p]
            BY <4>2 DEF Decided
          <6> QED
            BY <4>1, <5>1, <6>1
        <5>3. Decided(p) = round[p] - 1
          BY <5>2 DEF Decided
        <5>4. packet[p].round = round[p]
          BY <4>1, <5>1, <5>3
        <5>5. packet[p].round # round[p] - 1
          BY <5>1, <5>4
        <5> QED
          BY <4>2, <5>2, <5>5
    <3>3. job[p] = job[r] /\ i[p] = i[r] /\ result[p] = result[r]
      BY <1>2, <3>1, <3>2 DEF Progress, SameProgress, EJob, EIndex, EResult,
         InLoop, Active, Position, Between
    <3>4. n_rep[p] = n_rep[r]
      BY <1>2, <3>2, <3>3 DEF Progress, FullNRep, InLoop, Active, Position, Between
    <3>5. /\ NextJob(p) = NextJob(r) /\ NextI(p) = NextI(r)
          /\ NextResult(p) = NextResult(r)
      BY <3>3, <3>4 DEF NextJob, NextI, NextResult, Ends
    <3> QED
      BY <1>4, <2>2, <2>4, <3>5
  <2> QED
    BY <2>3, <2>4
<1> QED
  BY <1>5, <1>6 DEF OneAhead

LEMMA FullNRepStep ==
    ASSUME TypeOK, FullNRep, [Next]_vars
    PROVE  FullNRep'
<1> USE DEF FullNRep, InLoop, Active, Position, InRound, Between
<1>0. /\ pc \in [Rank -> Position] /\ job \in [Rank -> Nat]
      /\ n_rep \in [Rank -> Nat]
  BY ProgressTypes
<1>1. CASE UNCHANGED <<pc, job, n_rep>>
  BY <1>1
<1>2. ASSUME NEW r \in Rank, InitJob(r)
      PROVE  FullNRep'
  BY <1>0, <1>2 DEF InitJob
<1>3. ASSUME NEW r \in Rank,
             \/ StartSync(r) \/ LeaveBarrierOnly(r) \/ SendStartTime(r)
             \/ EnterBcast(r) \/ RecvStartTime(r) \/ FirstPoll(r) \/ Poll(r)
             \/ StartCall(r) \/ StopSync(r) \/ Report(r)
      PROVE  FullNRep'
  BY <1>0, <1>3 DEF StartSync, LeaveBarrierOnly, SendStartTime, EnterBcast,
     RecvStartTime, FirstPoll, Poll, StartCall, StopSync, Report
<1>4. ASSUME NEW r \in Rank, Decide(r)
      PROVE  FullNRep'
  <2>1. pc'[r] # "report" => n_rep'[r] = n_rep[r]
    BY <1>0, <1>4 DEF Decide, LoopEnds, OutOfTime, NextNRep
  <2> QED
    BY <1>0, <1>4, <2>1 DEF Decide
<1> QED
  BY <1>1, <1>2, <1>3, <1>4 DEF Next, Step, Tick, Ended, vars

LEMMA ProgressStep ==
    ASSUME TypeOK, RoundInv, Progress, [Next]_vars
    PROVE  Progress'
<1>1. FullNRep'
  BY FullNRepStep DEF Progress
<1>2. ASSUME NEW r \in Rank, Step(r)
      PROVE  (SameProgress /\ OneAhead)'
  BY <1>2, MostKeep, KeepsProgress, StopSyncProgress, DecideProgress
<1>3. CASE UNCHANGED <<pc, round, packet, job, i, n_rep, result>>
  <2>1. \A p \in Rank : /\ NextJob(p)' = NextJob(p) /\ NextI(p)' = NextI(p)
                        /\ NextResult(p)' = NextResult(p)
    BY <1>3, SameVerdict
  <2>2. \A p \in Rank : /\ EJob(p)' = EJob(p) /\ EIndex(p)' = EIndex(p)
                        /\ EResult(p)' = EResult(p) /\ Decided(p)' = Decided(p)
    BY <1>3 DEF EJob, EIndex, EResult, InLoop, Decided
  <2>3. SameProgress'
    BY <2>2 DEF Progress, SameProgress
  <2>4. OneAhead'
    BY <2>1, <2>2 DEF Progress, OneAhead
  <2> QED
    BY <1>1, <2>3, <2>4 DEF Progress
<1> QED
  BY <1>1, <1>2, <1>3 DEF Progress, Next, Tick, Ended, vars

-----------------------------------------------------------------------------
(* Stop flags. *)

LEMMA StopInvStep ==
    ASSUME TypeOK, StopInv, [Next]_vars
    PROVE  StopInv'
<1> USE DEF StopInv, TimeUp, InLoop, Active, Position, InRound, Between
<1>0. /\ pc \in [Rank -> Position] /\ now \in Nat
      /\ job_start_time \in [Rank -> Nat] /\ time_slot \in [Rank -> Nat]
      /\ stop_flag \in [Rank -> Bit] /\ packet \in [Rank -> Packet]
  BY DEF TypeOK, ControlOK
<1>1. CASE UNCHANGED <<pc, job_start_time, time_slot, stop_flag, packet>>
           /\ now' \in {now, now + 1}
  BY <1>0, <1>1
<1>2. ASSUME NEW r \in Rank, InitJob(r)
      PROVE  StopInv'
  <2>1. \A q \in Rank : q # r =>
            /\ time_slot'[q] = time_slot[q] /\ job_start_time'[q] = job_start_time[q]
            /\ stop_flag'[q] = stop_flag[q] /\ pc'[q] = pc[q]
    BY <1>0, <1>2 DEF InitJob
  <2>2. stop_flag'[r] = 0 /\ pc'[r] = "start"
    BY <1>0, <1>2 DEF InitJob
  <2>3. now' = now /\ packet' = packet
    BY <1>2 DEF InitJob
  <2> QED
    BY <2>1, <2>2, <2>3
<1>3. ASSUME NEW r \in Rank,
             \/ StartSync(r) \/ LeaveBarrierOnly(r) \/ SendStartTime(r)
             \/ EnterBcast(r) \/ RecvStartTime(r) \/ FirstPoll(r) \/ Poll(r)
             \/ StartCall(r)
      PROVE  StopInv'
  BY <1>0, <1>3 DEF StartSync, LeaveBarrierOnly, SendStartTime, EnterBcast,
     RecvStartTime, FirstPoll, Poll, StartCall, module
<1>4. ASSUME NEW r \in Rank, StopSync(r)
      PROVE  StopInv'
  BY <1>0, <1>4 DEF StopSync, module
<1>5. ASSUME NEW r \in Rank, Decide(r) \/ Report(r)
      PROVE  StopInv'
  BY <1>0, <1>5 DEF Decide, Report, module
<1> QED
  BY <1>1, <1>2, <1>3, <1>4, <1>5 DEF Next, Step, Tick, Ended, vars, module

LEMMA ShortInvStep ==
    ASSUME TypeOK, RoundInv, FullNRep, ShortInv, [Next]_vars
    PROVE  ShortInv'
<1> USE DEF ShortInv
<1>0. /\ pc \in [Rank -> Position] /\ round \in [Rank -> Nat]
      /\ packet \in [Rank -> Packet] /\ job \in [Rank -> Nat]
      /\ n_rep \in [Rank -> Nat]
  BY RoundTypes, ProgressTypes
<1>1. CASE UNCHANGED <<pc, round, job, n_rep, packet>>
  BY <1>1
<1>2. ASSUME NEW r \in Rank,
             \/ InitJob(r) \/ StartSync(r) \/ LeaveBarrierOnly(r)
             \/ SendStartTime(r) \/ EnterBcast(r) \/ RecvStartTime(r)
             \/ FirstPoll(r) \/ Poll(r) \/ StartCall(r) \/ Report(r)
      PROVE  ShortInv'
  <2>1. packet' = packet /\ pc'[r] # "report"
    BY <1>0, <1>2 DEF InitJob, StartSync, LeaveBarrierOnly, SendStartTime,
       EnterBcast, RecvStartTime, FirstPoll, Poll, StartCall, Report
  <2>2. \A q \in Rank \ {r} : /\ pc'[q] = pc[q] /\ n_rep'[q] = n_rep[q]
                              /\ job'[q] = job[q] /\ round'[q] = round[q]
    BY <1>0, <1>2 DEF InitJob, StartSync, LeaveBarrierOnly, SendStartTime,
       EnterBcast, RecvStartTime, FirstPoll, Poll, StartCall, Report
  <2> QED
    BY <2>1, <2>2
<1>3. ASSUME NEW s \in Rank, StopSync(s)
      PROVE  ShortInv'
  <2> SUFFICES ASSUME NEW r \in Rank, pc'[r] = "report",
                      n_rep'[r] # Jobs[job'[r]].nrep
               PROVE  \E q \in Rank : packet'[q].round = round'[r]
                                        /\ packet'[q].stop = 1
    OBVIOUS
  <2>1. pc[r] = "report" /\ n_rep[r] # Jobs[job[r]].nrep /\ round' = round
    BY <1>0, <1>3 DEF StopSync
  <2>2. PICK q \in Rank : packet[q].round = round[r] /\ packet[q].stop = 1
    BY <2>1
  <2>3. q # s
    <3>1. packet[s].round = round[s] - 1 /\ round[r] >= round[s]
      BY <1>3 DEF StopSync, RoundInv, RoundsAligned, PacketInv, Between
    <3> QED
      BY <1>0, <2>2, <3>1
  <2> QED
    BY <1>0, <1>3, <2>1, <2>2, <2>3 DEF StopSync
<1>4. ASSUME NEW s \in Rank, Decide(s)
      PROVE  ShortInv'
  <2>1. packet' = packet /\ round' = round /\ job' = job
    BY <1>4 DEF Decide
  <2>2. \A r \in Rank \ {s} : pc'[r] = pc[r] /\ n_rep'[r] = n_rep[r]
    BY <1>0, <1>4 DEF Decide
  <2>3. ASSUME n_rep'[s] # Jobs[job[s]].nrep
        PROVE  \E q \in Rank : packet[q].round = round[s] /\ packet[q].stop = 1
    <3>1. n_rep[s] = Jobs[job[s]].nrep
      BY <1>4 DEF Decide, FullNRep, InLoop, Active, Position, Between
    <3>2. n_rep'[s] = NextNRep(Decision, i[s], n_rep[s])
      BY <1>0, <1>4 DEF Decide
    <3>3. Decision \in {OUT_OF_TIME_VALID, OUT_OF_TIME_INVALID}
      BY <2>3, <3>1, <3>2 DEF NextNRep
    <3>4. \E q \in Rank : packet[q].stop = 1
      BY <3>3 DEF Decision, OUT_OF_TIME_VALID, OUT_OF_TIME_INVALID, CORRECT, INVALID
    <3> QED
      BY <1>4, <3>4, VerdictOfRound
  <2> QED
    BY <2>1, <2>2, <2>3
<1> QED
  BY <1>1, <1>2, <1>3, <1>4 DEF Next, Step, Tick, Ended, vars

-----------------------------------------------------------------------------
(* Invalid rounds, and the measurements not kept. *)

LEMMA InvalidInvStep ==
    ASSUME TypeOK, InvalidInv, [Next]_vars
    PROVE  InvalidInv'
<1> USE DEF InvalidInv, InLoop, Active, Position, InRound, Between, CORRECT, INVALID
<1>0. /\ pc \in [Rank -> Position] /\ round \in [Rank -> Nat]
      /\ packet \in [Rank -> Packet] /\ invalid \in [Rank -> Bit]
      /\ barrier_sync_mode \in [Rank -> Bit]
  BY RoundTypes DEF TypeOK
<1>1. CASE UNCHANGED <<pc, round, packet, invalid, barrier_sync_mode, late>>
  BY <1>1
<1>2. ASSUME NEW r \in Rank, InitJob(r)
      PROVE  InvalidInv'
  <2>1. \A q \in Rank : q # r =>
            /\ barrier_sync_mode'[q] = barrier_sync_mode[q]
            /\ invalid'[q] = invalid[q] /\ pc'[q] = pc[q]
    BY <1>0, <1>2 DEF InitJob
  <2>2. invalid'[r] = CORRECT /\ pc'[r] = "start"
    BY <1>0, <1>2 DEF InitJob
  <2>3. late' = late /\ packet' = packet /\ round' = round
    BY <1>2 DEF InitJob
  <2> QED
    BY <2>1, <2>2, <2>3
<1>3. ASSUME NEW r \in Rank, StartSync(r)
      PROVE  InvalidInv'
  BY <1>0, <1>3 DEF StartSync, module, Bit
<1>4. ASSUME NEW r \in Rank,
             \/ LeaveBarrierOnly(r) \/ SendStartTime(r) \/ EnterBcast(r)
             \/ RecvStartTime(r) \/ Poll(r) \/ StartCall(r) \/ Report(r)
      PROVE  InvalidInv'
  BY <1>0, <1>4 DEF LeaveBarrierOnly, SendStartTime, EnterBcast, RecvStartTime,
     Poll, StartCall, Report, module
<1>5. ASSUME NEW r \in Rank, FirstPoll(r)
      PROVE  InvalidInv'
  BY <1>0, <1>5 DEF FirstPoll, module
<1>6. ASSUME NEW r \in Rank, StopSync(r)
      PROVE  InvalidInv'
  BY <1>0, <1>6 DEF StopSync, module
<1>7. ASSUME NEW r \in Rank, Decide(r)
      PROVE  InvalidInv'
  BY <1>0, <1>7 DEF Decide, module
<1> QED
  BY <1>1, <1>2, <1>3, <1>4, <1>5, <1>6, <1>7
  DEF Next, Step, Tick, Ended, vars, module

\* A round is redone, or the last one dropped, only if somebody was late.
LEMMA RejectedIsLate ==
    ASSUME TypeOK, RoundInv, InvalidInv, NEW r \in Rank, Decide(r),
           ~Accepts(Decision)
    PROVE  round[r] \in late
<1>1. PICK q \in Rank : packet[q].invalid # CORRECT
  BY DEF Decision, Accepts
<1>2. packet[q] \in Packet
  BY DEF TypeOK
<1>3. packet[q].invalid = INVALID
  BY <1>1, <1>2 DEF Packet, Bit, CORRECT, INVALID
<1> QED
  BY <1>3, VerdictOfRound DEF InvalidInv

NoneAboveOf(r) ==
    /\ DOMAIN slot[r] \subseteq Nat
    /\ InLoop(r) => \A k \in DOMAIN slot[r] :
           /\ k > i[r] => slot[r][k] = 0
           /\ k = i[r] /\ pc[r] # "allreduce" => slot[r][k] \in late \cup {0}
    /\ pc[r] = "report" => \A k \in DOMAIN slot[r] :
           k > n_rep[r] => slot[r][k] \in late \cup {0}

LEMMA LateGrows ==
    ASSUME [Next]_vars
    PROVE  late \subseteq late'
  BY DEF Next, Step, InitJob, StartSync, LeaveBarrierOnly, SendStartTime,
     EnterBcast, RecvStartTime, FirstPoll, Poll, StartCall, StopSync, Decide,
     Report, Tick, Ended, vars

LEMMA NoneAboveStep ==
    ASSUME TypeOK, RoundInv, SlotInv, InvalidInv, NoneAbove, [Next]_vars
    PROVE  NoneAbove'
<1> SUFFICES ASSUME NEW p \in Rank PROVE NoneAboveOf(p)'
  BY DEF NoneAbove, NoneAboveOf
<1>0. /\ pc \in [Rank -> Position] /\ i \in [Rank -> Nat]
      /\ n_rep \in [Rank -> Nat] /\ DOMAIN slot = Rank
  BY ProgressTypes DEF TypeOK
<1>a. NoneAboveOf(p) /\ late \subseteq late'
  BY LateGrows DEF NoneAbove, NoneAboveOf
<1>1. ASSUME slot'[p] = slot[p], i'[p] = i[p], n_rep'[p] = n_rep[p],
             pc'[p] = pc[p] \/ pc'[p] \notin Active \cup {"report"}
             \/ (pc[p] \in Active \ {"allreduce"} /\ pc'[p] \in Active)
      PROVE  NoneAboveOf(p)'
  BY <1>0, <1>1, <1>a DEF NoneAboveOf, InLoop, Active
<1>2. CASE UNCHANGED <<slot, i, n_rep, pc>>
  BY <1>1, <1>2
<1>3. ASSUME NEW r \in Rank, Step(r), r # p
      PROVE  NoneAboveOf(p)'
  BY <1>1, <1>3, OthersKeepSlots
<1>4. CASE \/ StartSync(p) \/ LeaveBarrierOnly(p) \/ SendStartTime(p)
           \/ EnterBcast(p) \/ RecvStartTime(p) \/ FirstPoll(p) \/ Poll(p)
           \/ StartCall(p) \/ Report(p)
  <2>1. /\ slot'[p] = slot[p] /\ i'[p] = i[p] /\ n_rep'[p] = n_rep[p]
        /\ \/ pc'[p] \notin Active \cup {"report"}
           \/ pc[p] \in Active \ {"allreduce"} /\ pc'[p] \in Active
    BY <1>0, <1>4 DEF StartSync, LeaveBarrierOnly, SendStartTime, EnterBcast,
       RecvStartTime, FirstPoll, Poll, StartCall, Report, Active, Position,
       InRound, Between
  <2> QED
    BY <1>1, <2>1
<1>5. CASE InitJob(p)
  <2>1. /\ pc'[p] = "start"
        /\ slot'[p] = [k \in 0 .. Jobs[job[p]].nrep - 1 |-> 0]
    BY <1>0, <1>5 DEF InitJob
  <2> QED
    BY <2>1 DEF NoneAboveOf
<1>6. CASE StopSync(p)
  <2>1. /\ slot'[p] = [slot[p] EXCEPT ![i[p]] = round[p]]
        /\ pc[p] = "in_call" /\ pc'[p] = "allreduce" /\ i'[p] = i[p]
    BY <1>0, <1>6 DEF StopSync
  <2>2. InLoop(p) /\ i[p] \in Nat
    BY <1>0, <2>1 DEF InLoop, Active, Position, InRound
  <2>3. \A k \in DOMAIN slot[p] : k > i[p] => slot[p][k] = 0
    BY <1>a, <2>2 DEF NoneAboveOf
  <2>4. \A k \in DOMAIN slot'[p] : k > i[p] => slot'[p][k] = 0
    BY <1>a, <2>1, <2>2, <2>3 DEF NoneAboveOf
  <2> QED
    BY <1>a, <2>1, <2>4 DEF NoneAboveOf
<1>7. CASE Decide(p)
  <2>1. /\ pc[p] = "allreduce" /\ slot' = slot
        /\ i'[p] = NextIndex(Decision, i[p])
        /\ n_rep'[p] = NextNRep(Decision, i[p], n_rep[p])
        /\ pc'[p] = IF LoopEnds(Decision, i[p], n_rep[p]) THEN "report" ELSE "start"
    BY <1>0, <1>7 DEF Decide
  <2>2. /\ i[p] < n_rep[p] /\ slot[p][i[p]] = round[p]
        /\ i[p] \in Nat /\ n_rep[p] \in Nat
    BY <1>0, <2>1 DEF SlotInv, Position, Between
  <2>3. /\ DOMAIN slot[p] \subseteq Nat
        /\ \A k \in DOMAIN slot[p] : k > i[p] => slot[p][k] = 0
    BY <1>a, <2>1 DEF NoneAboveOf, InLoop, Active, Position, Between
  <2>4. ASSUME ~Accepts(Decision)
        PROVE  slot[p][i[p]] \in late'
    BY <1>7, <1>a, <2>2, <2>4, RejectedIsLate
  <2>5. /\ Accepts(Decision) => i'[p] >= i[p] /\ (i'[p] > i[p] \/ pc'[p] = "report")
        /\ ~Accepts(Decision) => i'[p] = i[p]
        /\ i'[p] \in Nat /\ i'[p] >= i[p]
    BY <2>1, <2>2 DEF Accepts, NextIndex, LoopEnds, OutOfTime, CORRECT,
       OUT_OF_TIME_VALID
  <2>6. /\ Accepts(Decision) /\ pc'[p] = "report" => n_rep'[p] > i[p]
        /\ pc'[p] = "report" => n_rep'[p] \in Nat /\ n_rep'[p] >= i[p] - 1
    BY <2>1, <2>2, DecisionTyped DEF Verdict, Accepts, NextIndex, NextNRep,
       LoopEnds, OutOfTime, CORRECT, INVALID, OUT_OF_TIME_VALID,
       OUT_OF_TIME_INVALID
  <2>7. CASE pc'[p] = "report"
    <3>1. ASSUME NEW k \in DOMAIN slot[p], k > n_rep'[p]
          PROVE  slot[p][k] \in late' \cup {0}
      <4>1. k \in Int /\ (k > i[p] \/ (k = i[p] /\ ~Accepts(Decision)))
        <5>1. k \in Int
          BY <2>3
        <5>2. n_rep'[p] \in Nat /\ n_rep'[p] >= i[p] - 1
          BY <2>6, <2>7
        <5>3. Accepts(Decision) => n_rep'[p] > i[p]
          BY <2>6, <2>7
        <5>4. k >= i[p]
          BY <2>2, <3>1, <5>1, <5>2
        <5>5. CASE Accepts(Decision)
          BY <2>2, <3>1, <5>1, <5>2, <5>3, <5>5
        <5>6. CASE ~Accepts(Decision)
          BY <2>2, <5>1, <5>4, <5>6
        <5> QED
          BY <5>5, <5>6
      <4> QED
        BY <2>3, <2>4, <4>1
    <3> QED
      BY <2>1, <2>3, <2>7, <3>1 DEF NoneAboveOf, InLoop, Active
  <2>8. CASE pc'[p] = "start"
    <3>1. ASSUME NEW k \in DOMAIN slot[p], k >= i'[p]
          PROVE  k > i'[p] => slot[p][k] = 0
      BY <2>2, <2>3, <2>5, <3>1
    <3>2. ASSUME NEW k \in DOMAIN slot[p], k = i'[p]
          PROVE  slot[p][k] \in late' \cup {0}
      BY <2>2, <2>3, <2>4, <2>5, <2>8, <3>2
    <3> QED
      BY <2>1, <2>3, <2>5, <2>8, <3>1, <3>2 DEF NoneAboveOf
  <2> QED
    BY <2>1, <2>7, <2>8
<1> QED
  BY <1>2, <1>3, <1>4, <1>5, <1>6, <1>7 DEF Next, Step, Tick, Ended, vars

-----------------------------------------------------------------------------
(* What the processes report. *)

LEMMA RInvInit == Init => RInv
<1> SUFFICES ASSUME Init PROVE RInv
  OBVIOUS
<1>1. SameProgress /\ OneAhead /\ FullNRep
  BY ProgressInit DEF Progress
<1>2. StopInv /\ ShortInv /\ InvalidInv /\ NoneAbove
  BY DEF Init, StopInv, ShortInv, InvalidInv, NoneAbove, InLoop, Active,
     Position, InRound, Between, INVALID, CORRECT
<1> QED
  BY <1>1, <1>2 DEF RInv

LEMMA ReportInvariant == Spec => [](IInv /\ RInv)
<1>1. IInv /\ RInv /\ [Next]_vars => RInv'
  BY ProgressStep, StopInvStep, ShortInvStep, InvalidInvStep, NoneAboveStep
  DEF IInv, RoundInv, RInv, Progress
<1> QED
  BY <1>1, Invariant, RInvInit, PTL DEF Spec

\* The results of a process are the first ones of where it will be.
LEMMA Extends ==
    ASSUME TypeOK, NEW r \in Rank
    PROVE  /\ \A k \in DOMAIN result[r] : /\ k \in DOMAIN EResult(r)
                                          /\ EResult(r)[k] = result[r][k]
           /\ \A k \in DOMAIN result[r] : /\ k \in DOMAIN NextResult(r)
                                          /\ NextResult(r)[k] = result[r][k]
<1>1. result[r] \in Seq(Nat)
  BY ProgressTypes
<1>2. ASSUME NEW n PROVE \A k \in DOMAIN result[r] :
          /\ k \in DOMAIN Append(result[r], n)
          /\ Append(result[r], n)[k] = result[r][k]
  BY <1>1
<1> QED
  BY <1>2 DEF EResult, NextResult

\* Every process counts the same repetitions in every job: the verdict of
\* stop_sync is the same for all, and so is what run_collective does with it.
THEOREM ResultsAreSame == Spec => []SameResults
<1>1. IInv /\ RInv => SameResults
  <2> SUFFICES ASSUME IInv, RInv, NEW p \in Rank, NEW q \in Rank,
                      NEW k \in DOMAIN result[p] \cap DOMAIN result[q]
               PROVE  result[p][k] = result[q][k]
    BY DEF SameResults
  <2>1. TypeOK /\ RoundInv
    BY DEF IInv, RoundInv
  <2>2. /\ EResult(p)[k] = result[p][k] /\ EResult(q)[k] = result[q][k]
        /\ NextResult(p)[k] = result[p][k] /\ NextResult(q)[k] = result[q][k]
    BY <2>1, Extends
  <2>3. \/ Decided(p) = Decided(q) \/ Decided(q) = Decided(p) + 1
        \/ Decided(p) = Decided(q) + 1
    <3>1. Decided(q) <= Decided(p) + 1 /\ Decided(p) <= Decided(q) + 1
      BY <2>1, Stages
    <3>2. Decided(q) \in Int /\ Decided(p) \in Int
      BY <2>1, RoundTypes
    <3> QED
      BY <3>1, <3>2
  <2> QED
    BY <2>2, <2>3 DEF RInv, SameProgress, OneAhead
<1> QED
  BY <1>1, ReportInvariant, PTL

\* After a stop flag has been sent nobody starts another round of the job
\* (roundtimesync_stop_synchronization, run_collective).
THEOREM StopsTogether == Spec => []NoRoundAfterTimeUp
<1>1. IInv /\ RInv => NoRoundAfterTimeUp
  <2> SUFFICES ASSUME IInv, RInv, NEW p \in Rank, NEW q \in Rank,
                      packet[p].stop = 1, pc[p] \in {"allreduce", "report"},
                      round[q] > packet[p].round
               PROVE  job[q] > job[p]
    BY DEF NoRoundAfterTimeUp
  <2>1. TypeOK /\ RoundInv
    BY DEF IInv, RoundInv
  <2>2. /\ round[p] \in Nat /\ round[q] \in Nat /\ job[p] \in Nat
        /\ Decided(q) \in Int /\ Decided(p) \in Int
    BY <2>1, RoundTypes, ProgressTypes
  <2>3. packet[p].round = round[p]
    BY <2>1 DEF RoundInv, PacketInv, Between
  <2>4. pc[q] = "barrier"
    BY <2>1, <2>2, <2>3 DEF RoundInv, RoundsAligned
  <2>5. Decided(q) = round[q] - 1 /\ EJob(q) = job[q]
    BY <2>4 DEF Decided, EJob, Between
  <2>6. /\ Decided(q) <= Decided(p) + 1
        /\ Decided(q) = Decided(p) + 1 => pc[p] = "allreduce"
    BY <2>1, Stages
  <2>7. CASE pc[p] = "allreduce"
    <3>1. Decided(p) = round[p] - 1
      BY <2>7 DEF Decided, Between
    <3>2. Decided(q) = Decided(p) + 1
      BY <2>2, <2>3, <2>5, <2>6, <3>1
    <3>3. Decision \in {OUT_OF_TIME_VALID, OUT_OF_TIME_INVALID}
      BY DEF Decision
    <3>4. Ends(p)
      BY <3>3 DEF Ends, LoopEnds, OutOfTime
    <3> QED
      BY <2>2, <2>5, <3>2, <3>4 DEF RInv, OneAhead, NextJob
  <2>8. CASE pc[p] = "report"
    <3>1. Decided(p) = round[p]
      BY <2>8 DEF Decided, Between
    <3>2. Decided(q) = Decided(p)
      BY <2>2, <2>3, <2>5, <2>6, <2>8, <3>1
    <3> QED
      BY <2>2, <2>5, <2>8, <3>2 DEF RInv, SameProgress, EJob
  <2> QED
    BY <2>7, <2>8
<1> QED
  BY <1>1, ReportInvariant, PTL

\* Fewer repetitions than asked for are reported only if the time slot of
\* some process is used up (roundtimesync_stop_synchronization).
THEOREM ShortForTime == Spec => []ShortOnlyWhenTimeUp
<1>1. IInv /\ RInv => ShortOnlyWhenTimeUp
  <2> SUFFICES ASSUME IInv, RInv, NEW r \in Rank, pc[r] = "report",
                      n_rep[r] # Jobs[job[r]].nrep
               PROVE  \E q \in Rank :
                          /\ packet[q].round = round[r] /\ packet[q].stop = 1
                          /\ job[q] = job[r] => TimeUp(q)
    BY DEF ShortOnlyWhenTimeUp, TimeUp
  <2>1. TypeOK /\ RoundInv
    BY DEF IInv, RoundInv
  <2>2. PICK q \in Rank : packet[q].round = round[r] /\ packet[q].stop = 1
    BY DEF RInv, ShortInv
  <2>3. CASE pc[q] \in {"allreduce", "report"}
    <3>1. stop_flag[q] = 1 /\ (InLoop(q) \/ pc[q] = "report")
      BY <2>2, <2>3 DEF RInv, StopInv, InLoop, Active, Position, Between
    <3> QED
      BY <2>2, <3>1 DEF RInv, StopInv
  <2>4. CASE pc[q] \notin {"allreduce", "report"}
    <3>1. Decided(q) = packet[q].round
      BY <2>1, <2>4 DEF Decided, RoundInv, PacketInv
    <3>2. Decided(r) = round[r]
      BY DEF Decided, Between
    <3>3. EJob(q) = EJob(r)
      BY <2>2, <3>1, <3>2 DEF RInv, SameProgress
    <3>4. job[q] = job[r] + 1 /\ job[r] \in Nat
      BY <2>1, <2>4, <3>3, ProgressTypes DEF EJob
    <3> QED
      BY <2>2, <3>4
  <2> QED
    BY <2>3, <2>4
<1> QED
  BY <1>1, ReportInvariant, PTL

\* A valid measurement is left out only when time runs out in the round that
\* would have replaced the invalid one after it (MY_MAX(0, i-1)).
THEOREM FewAreDropped == Spec => []AtMostOneDropped
<1>1. IInv /\ RInv => AtMostOneDropped
  <2> SUFFICES ASSUME IInv, RInv, NEW r \in Rank, pc[r] = "report"
               PROVE  Cardinality({k \in DOMAIN slot[r] : slot[r][k] \notin late \cup {0}})
                          <= n_rep[r] + 1
    BY DEF AtMostOneDropped
  <2> DEFINE Kept == {k \in DOMAIN slot[r] : slot[r][k] \notin late \cup {0}}
  <2>1. n_rep[r] \in Nat
    BY ProgressTypes DEF IInv
  <2>2. Kept \subseteq 0 .. n_rep[r]
    BY <2>1 DEF RInv, NoneAbove
  <2>3. IsFiniteSet(0 .. n_rep[r]) /\ Cardinality(0 .. n_rep[r]) = n_rep[r] + 1
    <3> DEFINE n == n_rep[r]
    <3>1. n \in Int /\ 0 \in Int /\ ~(0 > n) /\ n - 0 + 1 = n + 1
      BY <2>1
    <3> HIDE DEF n
    <3>2. IsFiniteSet(0 .. n) /\ Cardinality(0 .. n) = IF 0 > n THEN 0 ELSE n - 0 + 1
      BY <3>1, FS_Interval
    <3>3. Cardinality(0 .. n) = n + 1
      BY <3>1, <3>2
    <3> QED
      BY <3>2, <3>3 DEF n
  <2>4. Cardinality(Kept) <= Cardinality(0 .. n_rep[r])
    BY <2>2, <2>3, FS_Subset
  <2> QED
    BY <2>3, <2>4
<1> QED
  BY <1>1, ReportInvariant, PTL
-----------------------------------------------------------------------------
(* The mode of the synchronisation.  It depends on the options of all      *)
(* calls so far, and is the same for all who have begun the same jobs.     *)

\* The number of jobs a process has begun.
Begun(r) == IF pc[r] \in {"init_job", "done"} THEN job[r] - 1 ELSE job[r]

\* What InitJob of the next job will make of the module's static variables.
NextSwitch(r) ==
    LET J == Jobs[Begun(r) + 1]
    IN  IF J.first /\ J.barrier_count # NoOption THEN J.barrier_count
        ELSE switch_count[r]
NextMode(r) ==
    IF NextSwitch(r) > -1 /\ Jobs[Begun(r) + 1].count >= NextSwitch(r)
    THEN 1 ELSE barrier_sync_mode[r]

ModeInv ==
    \A p, q \in Rank :
        /\ Begun(q) = Begun(p) => /\ switch_count[q] = switch_count[p]
                                 /\ barrier_sync_mode[q] = barrier_sync_mode[p]
        /\ Begun(q) = Begun(p) + 1 => /\ switch_count[q] = NextSwitch(p)
                                     /\ barrier_sync_mode[q] = NextMode(p)

\* Nobody begins a job before the others have begun the one before it.
LEMMA BegunClose ==
    ASSUME TypeOK, RoundInv, Progress, NEW p \in Rank, NEW q \in Rank
    PROVE  Begun(p) \in Int /\ Begun(q) \in Int /\ Begun(q) <= Begun(p) + 1
<1>0. /\ job[p] \in Nat /\ job[q] \in Nat
      /\ Decided(p) \in Int /\ Decided(q) \in Int
  BY ProgressTypes, RoundTypes
<1>1. \A r \in {p, q} : Begun(r) <= EJob(r) /\ EJob(r) - 1 <= Begun(r)
  BY <1>0 DEF Begun, EJob
<1>2. Decided(q) <= Decided(p) + 1 /\ Decided(p) <= Decided(q) + 1
  BY Stages
<1>3. Begun(p) \in Int /\ Begun(q) \in Int /\ EJob(p) \in Int /\ EJob(q) \in Int
  BY <1>0 DEF Begun, EJob
<1>4. CASE Decided(q) = Decided(p)
  <2>1. EJob(q) = EJob(p)
    BY <1>4 DEF Progress, SameProgress
  <2> QED
    BY <1>1, <1>3, <2>1
<1>5. CASE Decided(q) = Decided(p) + 1
  <2>1. pc[p] = "allreduce" /\ EJob(q) = NextJob(p)
    BY <1>5, Stages DEF Progress, OneAhead
  <2>2. Begun(p) = job[p] /\ EJob(q) <= job[p] + 1
    BY <1>0, <2>1 DEF Begun, NextJob
  <2> QED
    BY <1>1, <1>3, <2>2
<1>6. CASE Decided(p) = Decided(q) + 1
  <2>1. pc[q] = "allreduce" /\ EJob(p) = NextJob(q)
    BY <1>6, Stages DEF Progress, OneAhead
  <2>2. Begun(q) = job[q] /\ EJob(p) >= job[q]
    BY <1>0, <2>1 DEF Begun, NextJob
  <2> QED
    BY <1>1, <1>3, <2>2
<1> QED
  BY <1>0, <1>2, <1>3, <1>4, <1>5, <1>6

LEMMA ModeInvInit == Init => ModeInv
<1> SUFFICES ASSUME Init PROVE ModeInv
  OBVIOUS
<1>1. \A r \in Rank : Begun(r) = 0 /\ switch_count[r] = -1 /\ barrier_sync_mode[r] = 0
  BY DEF Init, Begun
<1> QED
  BY <1>1 DEF ModeInv

\* Only InitJob begins a job or writes the static variables.
LEMMA OthersKeepMode ==
    ASSUME TypeOK, [Next]_vars, \A r \in Rank : ~InitJob(r), NEW q \in Rank
    PROVE  /\ Begun(q)' = Begun(q) /\ switch_count'[q] = switch_count[q]
           /\ barrier_sync_mode'[q] = barrier_sync_mode[q]
<1>0. pc \in [Rank -> Position] /\ job \in [Rank -> Nat]
  BY ProgressTypes
<1>1. UNCHANGED module
  BY DEF Next, Step, StartSync, LeaveBarrierOnly, SendStartTime, EnterBcast,
     RecvStartTime, FirstPoll, Poll, StartCall, StopSync, Decide, Report, Tick,
     Ended, vars
<1>2. CASE UNCHANGED <<pc, job>>
  BY <1>1, <1>2 DEF Begun, module
<1>3. ASSUME NEW r \in Rank, Report(r)
      PROVE  Begun(q)' = Begun(q)
  BY <1>0, <1>3 DEF Report, Begun
<1>4. ASSUME NEW r \in Rank,
             \/ StartSync(r) \/ LeaveBarrierOnly(r) \/ SendStartTime(r)
             \/ EnterBcast(r) \/ RecvStartTime(r) \/ FirstPoll(r) \/ Poll(r)
             \/ StartCall(r) \/ StopSync(r) \/ Decide(r)
      PROVE  Begun(q)' = Begun(q)
  BY <1>0, <1>4 DEF StartSync, LeaveBarrierOnly, SendStartTime, EnterBcast,
     RecvStartTime, FirstPoll, Poll, StartCall, StopSync, Decide, Begun
<1> QED
  BY <1>1, <1>2, <1>3, <1>4 DEF Next, Step, Tick, Ended, vars, module

LEMMA ModeInvStep ==
    ASSUME TypeOK, RoundInv, Progress, ModeInv, [Next]_vars
    PROVE  ModeInv'
<1>1. CASE \A r \in Rank : ~InitJob(r)
  <2>1. \A q \in Rank : /\ Begun(q)' = Begun(q) /\ switch_count'[q] = switch_count[q]
                        /\ barrier_sync_mode'[q] = barrier_sync_mode[q]
    BY <1>1, OthersKeepMode
  <2>2. \A q \in Rank : NextSwitch(q)' = NextSwitch(q) /\ NextMode(q)' = NextMode(q)
    BY <2>1 DEF NextSwitch, NextMode
  <2> QED
    BY <2>1, <2>2 DEF ModeInv
<1>2. ASSUME NEW r \in Rank, InitJob(r)
      PROVE  ModeInv'
  <2>0. /\ pc \in [Rank -> Position] /\ job \in [Rank -> Nat]
        /\ DOMAIN switch_count = Rank /\ DOMAIN barrier_sync_mode = Rank
    BY ProgressTypes DEF TypeOK
  <2>1. \A q \in Rank : Begun(q) \in Int /\ Begun(q) <= Begun(r) + 1
                        /\ Begun(r) <= Begun(q) + 1
    BY BegunClose
  <2>2. Begun(r) + 1 = job[r] /\ Begun(r)' = job[r]
    BY <1>2, <2>0 DEF InitJob, Begun
  <2>3. switch_count'[r] = NextSwitch(r) /\ barrier_sync_mode'[r] = NextMode(r)
    <3>1. switch_count'[r] = NextSwitch(r)
      BY <1>2, <2>0, <2>2 DEF InitJob, NextSwitch
    <3>2. barrier_sync_mode'[r] = NextMode(r)
      BY <1>2, <2>0, <2>2 DEF InitJob, NextSwitch, NextMode
    <3> QED
      BY <3>1, <3>2
  <2>4. ASSUME NEW q \in Rank, q # r
        PROVE  /\ Begun(q)' = Begun(q) /\ switch_count'[q] = switch_count[q]
               /\ barrier_sync_mode'[q] = barrier_sync_mode[q]
               /\ NextSwitch(q)' = NextSwitch(q) /\ NextMode(q)' = NextMode(q)
    <3>1. /\ Begun(q)' = Begun(q) /\ switch_count'[q] = switch_count[q]
          /\ barrier_sync_mode'[q] = barrier_sync_mode[q]
      BY <1>2, <2>0, <2>4 DEF InitJob, Begun
    <3> QED
      BY <3>1 DEF NextSwitch, NextMode
  <2>5. ASSUME NEW p \in Rank, NEW q \in Rank, Begun(q)' = Begun(p)'
        PROVE  /\ switch_count'[q] = switch_count'[p]
               /\ barrier_sync_mode'[q] = barrier_sync_mode'[p]
    <3>1. ASSUME NEW x \in Rank, x # r, Begun(x)' = Begun(r)'
          PROVE  /\ switch_count'[x] = switch_count'[r]
                 /\ barrier_sync_mode'[x] = barrier_sync_mode'[r]
      <4>1. Begun(x) = Begun(r) + 1
        BY <2>2, <2>4, <3>1
      <4> QED
        BY <2>3, <2>4, <3>1, <4>1 DEF ModeInv
    <3> QED
      BY <2>4, <2>5, <3>1 DEF ModeInv
  <2>6. ASSUME NEW p \in Rank, NEW q \in Rank, Begun(q)' = Begun(p)' + 1
        PROVE  /\ switch_count'[q] = NextSwitch(p)'
               /\ barrier_sync_mode'[q] = NextMode(p)'
    <3>1. p # r
      <4>1. CASE q = r
        BY <2>0, <2>2, <2>6, <4>1
      <4>2. CASE q # r /\ p = r
        BY <2>1, <2>2, <2>4, <2>6, <4>2
      <4> QED
        BY <4>1, <4>2
    <3>2. CASE q = r
      <4>1. Begun(p) = Begun(r)
        BY <2>1, <2>2, <2>4, <2>6, <3>1, <3>2
      <4>2. NextSwitch(p) = NextSwitch(r) /\ NextMode(p) = NextMode(r)
        BY <4>1 DEF ModeInv, NextSwitch, NextMode
      <4> QED
        BY <2>3, <2>4, <3>1, <3>2, <4>2
    <3>3. CASE q # r
      BY <2>4, <2>6, <3>1, <3>3 DEF ModeInv
    <3> QED
      BY <3>2, <3>3
  <2> QED
    BY <2>5, <2>6 DEF ModeInv
<1> QED
  BY <1>1, <1>2

\* Processes in one round measure the same repetition of the same job, in the
\* same mode and with the same start time: the options, the loop index and the
\* verdicts each of them follows by itself agree (run_collective,
\* roundtimesync_init_synchronization, roundtimesync_start_synchronization).
THEOREM RoundsStayInStep == Spec => []InStep
<1>1. IInv /\ RInv /\ ModeInv => InStep
  <2> DEFINE InOne == InRound \cup {"barrier", "allreduce"}
  <2> SUFFICES ASSUME IInv, RInv, ModeInv, NEW p \in Rank, NEW q \in Rank,
                      round[p] = round[q], pc[p] \in InOne, pc[q] \in InOne
               PROVE  /\ job[p] = job[q] /\ i[p] = i[q] /\ n_rep[p] = n_rep[q]
                      /\ barrier_sync_mode[p] = barrier_sync_mode[q]
                      /\ (/\ barrier_sync_mode[p] = 0
                          /\ {pc[p], pc[q]} \cap {"barrier", "bcast"} = {})
                         => start_sync[p] = start_sync[q]
    BY DEF InStep
  <2>1. Decided(p) = Decided(q)
    BY DEF Decided, Between, InRound
  <2>2. \A r \in {p, q} : /\ EJob(r) = job[r] /\ EIndex(r) = i[r] /\ InLoop(r)
                          /\ Begun(r) = job[r]
    BY DEF EJob, EIndex, InLoop, Active, Position, Begun, InRound, Between
  <2>3. job[p] = job[q] /\ i[p] = i[q]
    BY <2>1, <2>2 DEF RInv, SameProgress
  <2>4. n_rep[p] = n_rep[q]
    BY <2>2, <2>3 DEF RInv, FullNRep
  <2>5. barrier_sync_mode[p] = barrier_sync_mode[q]
    BY <2>2, <2>3 DEF ModeInv
  <2>6. ASSUME barrier_sync_mode[p] = 0,
               {pc[p], pc[q]} \cap {"barrier", "bcast"} = {}
        PROVE  start_sync[p] = start_sync[q]
    <3>1. \A r \in {p, q} : pc[r] \in {"first_poll", "poll", "call", "in_call", "allreduce"}
      BY <2>6 DEF InRound
    <3> QED
      BY <2>5, <2>6, <3>1 DEF IInv, BcastInv
  <2> QED
    BY <2>3, <2>4, <2>5, <2>6
<1>2. IInv /\ RInv /\ ModeInv /\ [Next]_vars => ModeInv'
  BY ModeInvStep DEF IInv, RoundInv, RInv, Progress
<1> QED
  BY <1>1, <1>2, ReportInvariant, ModeInvInit, PTL DEF Spec
=============================================================================
