--------------------------- MODULE StartupProofs ---------------------------
(***************************************************************************)
(* Proofs about the way from the command line to the first job (Startup,   *)
(* JobList), for any number of processes, any command lines and any input  *)
(* files: the processes take the same branches, whichever parser or check  *)
(* ends the program, and come to the same jobs in the same order.          *)
(***************************************************************************)
EXTENDS Startup, TLAPS

allvars == <<vars, ovars>>

-----------------------------------------------------------------------------
(* The invariant. *)

Listed == {"check", "shuffle", "indices", "ready"}
PC == {"common", "output", "modules", "open", "read", "build", "error", "number",
       "jobs"} \cup Listed \cup Exits

\* s is a sequence, and f an array indexed by the ranks, of anything.
IsSequence(s) == s \in Seq({s[k] : k \in 1 .. Len(s)})
PerRank(f) == f = [r \in Rank |-> f[r]]

\* What the command line decides.
WithOutput == Args(argv, "output-file") # {}
OutputFails == Arg(argv, "output-file", NULL) = Unreadable
FromFile == input.file # NoFile

Types ==
    /\ argv \in CommandLines /\ input = JobInput(argv)
    /\ pc \in [Rank -> PC] /\ pos \in [Rank -> Nat] /\ n_jobs \in [Rank -> Nat]
    /\ PerRank(jobs)
    /\ job_indices \in [Rank -> Seq(Nat)]
    /\ timing \in [Rank -> {Uninitialized, TimingMethod(argv, Uninitialized)}]
    /\ IsSequence(bcasts)
    /\ line \in Nat \ {0} /\ capacity \in Nat /\ shuffled \in Nat

\* The broadcasts before generate_job_list, and those before the last one.
Before == IF WithOutput THEN 1 ELSE 0
BeforeIndices(r) ==
    IF ~FromFile THEN Before ELSE IF n_jobs[r] > 0 THEN Before + 3 ELSE Before + 2

\* A process's position tells how many broadcasts it has taken part in.
PositionOf(r) ==
    /\ pc[r] \in {"common", "output"} => pos[r] = 0
    /\ pc[r] \in {"modules", "open", "read", "build", "error"} => pos[r] = Before
    /\ pc[r] = "number" => pos[r] = Before + 1
    /\ pc[r] = "jobs" => pos[r] = Before + 2
    /\ pc[r] \in {"check", "shuffle", "indices"} => pos[r] = BeforeIndices(r)
    /\ pc[r] = "ready" => pos[r] = BeforeIndices(r) + 1
    /\ pc[r] \in Exits => pos[r] <= IF FromFile THEN Before + 3 ELSE Before

\* What a process has found on its way.
FoundOf(r) ==
    /\ pc[r] \notin {"common"} \cup Exits => ~CommonRejected(argv, NP)
    /\ pc[r] = "output" => WithOutput
    /\ pc[r] \notin {"common", "output"} \cup Exits => ~(WithOutput /\ OutputFails)
    /\ pc[r] \notin {"common", "output", "modules"} \cup Exits => ~ModulesRejected
    /\ pc[r] \in {"open", "read", "error", "number", "jobs"} => FromFile
    /\ pc[r] = "build" => ~FromFile
    /\ FromFile /\ pc[r] \in {"read", "number", "jobs"} \cup Listed =>
           input.file # Unreadable
    /\ pc[r] \in {"open", "read", "shuffle"} => r = Root
    /\ pc[r] \in {"jobs", "shuffle", "indices", "ready"} => n_jobs[r] > 0
    /\ pc[r] \in {"shuffle", "indices", "ready"} => SizesFit(r)

\* The list of a process is the root's or the one all make from their command
\* line; what its datatype carries.
CarriedList(l) == [k \in DOMAIN l |-> Carried(l[k])]
Complete(r) ==
    IF FromFile THEN pos[r] >= BeforeIndices(r)
    ELSE jobs[r] = List /\ n_jobs[r] = Len(List)
ListOf(r) ==
    /\ pc[r] \in Listed => Complete(r)
    /\ FromFile /\ pos[r] >= Before + 2 => n_jobs[r] = n_jobs[Root]
    /\ FromFile /\ pos[r] >= Before + 3 =>
           r = Root \/ jobs[r] = CarriedList(jobs[Root])

\* A process exits for a reason that all find.
ReasonOf(r) ==
    pc[r] \in Exits =>
        \/ CommonRejected(argv, NP) \/ ModulesRejected
        \/ WithOutput /\ OutputFails
        \/ FromFile /\ input.file = Unreadable
        \/ Complete(r) /\ (n_jobs[r] = 0 \/ ~SizesFit(r))

\* The order is the root's.
OrderOf(r) ==
    pc[r] = "ready" => pc[Root] = "ready" /\ job_indices[r] = job_indices[Root]

TimingOf(r) ==
    /\ pc[r] \in {"common", "output", "modules"} => timing[r] = Uninitialized
    /\ pc[r] \notin {"common", "output", "modules"} \cup Exits =>
           timing[r] = TimingMethod(argv, Uninitialized)

ProcessInv(r) == /\ PositionOf(r) /\ FoundOf(r) /\ ListOf(r) /\ ReasonOf(r)
                 /\ OrderOf(r) /\ TimingOf(r)

\* The root's array while and after it reads the file.
Loaded == {"error", "number", "jobs"} \cup Listed
Reading ==
    /\ FromFile => jobs[Root] \in Seq(Jobs)
    /\ pc[Root] \in {"common", "output", "modules", "open"} => jobs[Root] = <<>>
    /\ pc[Root] = "read" =>
           /\ input.file \in Seq(Jobs \cup {BadLine})
           /\ Len(jobs[Root]) < capacity /\ capacity % LEN_JOB_BATCH = 0
    /\ FromFile /\ input.file # Unreadable /\ pc[Root] \in Loaded =>
           n_jobs[Root] = Len(jobs[Root])

\* Every job is in the root's order once.
Shuffled ==
    pc[Root] \in {"shuffle", "indices", "ready"} =>
        /\ Len(job_indices[Root]) = n_jobs[Root]
        /\ \A k \in 1 .. n_jobs[Root] : job_indices[Root][k] \in 0 .. n_jobs[Root] - 1
        /\ \A n \in 0 .. n_jobs[Root] - 1 :
               \E k \in 1 .. n_jobs[Root] : job_indices[Root][k] = n

\* The broadcast number k, once the root has made it.
Made(k) ==
    IF k <= Before THEN [kind |-> "output", value |-> IF OutputFails THEN 1 ELSE 0]
    ELSE IF FromFile /\ k = Before + 1
         THEN [kind |-> "error", value |-> IF input.file = Unreadable THEN 1 ELSE 0]
    ELSE IF FromFile /\ k = Before + 2 THEN [kind |-> "number", value |-> n_jobs[Root]]
    ELSE IF FromFile /\ k = Before + 3 THEN [kind |-> "jobs", value |-> jobs[Root]]
    ELSE [kind |-> "indices", value |-> job_indices[Root]]

Published ==
    /\ Len(bcasts) = pos[Root]
    /\ \A k \in 1 .. Len(bcasts) : bcasts[k] = Made(k)
    /\ \A r \in Rank : pos[r] <= Len(bcasts)

IInv == /\ Types /\ (\A r \in Rank : ProcessInv(r))
        /\ Reading /\ Shuffled /\ Published

-----------------------------------------------------------------------------
(* Facts about single states. *)

LEMMA Appended ==
    ASSUME NEW s, IsSequence(s), NEW e
    PROVE  /\ IsSequence(Append(s, e))
           /\ Len(s) \in Nat /\ Len(Append(s, e)) = Len(s) + 1
           /\ Append(s, e)[Len(s) + 1] = e
           /\ \A k \in 1 .. Len(s) : Append(s, e)[k] = s[k]
<1> DEFINE t == Append(s, e)
           S == {s[k] : k \in 1 .. Len(s)} \cup {e}
<1>1. s \in Seq(S) /\ e \in S
  BY DEF IsSequence
<1> HIDE DEF S
<1>2. t \in Seq(S) /\ Len(s) \in Nat /\ Len(t) = Len(s) + 1
  BY <1>1
<1>3. t[Len(s) + 1] = e /\ \A k \in 1 .. Len(s) : t[k] = s[k]
  BY <1>1
<1>4. t \in Seq({t[k] : k \in 1 .. Len(t)})
  BY <1>2
<1> QED
  BY <1>2, <1>3, <1>4 DEF IsSequence

LEMMA RootIsRank == Root \in Rank /\ Before \in {0, 1}
  BY NPAssumption DEF Root, Rank, Before

LEMMA Facts ==
    ASSUME IInv, NEW r \in Rank
    PROVE  /\ pc[r] \in PC /\ pos[r] \in Nat /\ n_jobs[r] \in Nat
           /\ job_indices[r] \in Seq(Nat)
           /\ Before \in {0, 1} /\ Root \in Rank
           /\ ProcessInv(r) /\ pos[r] <= pos[Root]
           /\ Len(bcasts) = pos[Root]
  BY RootIsRank DEF IInv, Types, Published

-----------------------------------------------------------------------------
(* Steps. *)

\* Process r takes a step: the others keep what they have, and the root leaves
\* alone what it has broadcast.
Moves(r) ==
    /\ argv' = argv /\ input' = input
    /\ \A q \in Rank \ {r} :
           /\ pc'[q] = pc[q] /\ pos'[q] = pos[q] /\ n_jobs'[q] = n_jobs[q]
           /\ jobs'[q] = jobs[q] /\ job_indices'[q] = job_indices[q]
           /\ timing'[q] = timing[q]
    /\ r = Root => /\ pc[Root] # "ready"
                   /\ FromFile /\ pos[Root] >= Before + 2 =>
                          n_jobs'[Root] = n_jobs[Root]
                   /\ FromFile /\ pos[Root] >= Before + 3 =>
                          jobs'[Root] = jobs[Root]

\* What the others know stays true.
LEMMA OthersKeep ==
    ASSUME IInv, NEW r \in Rank, Moves(r), NEW q \in Rank \ {r}
    PROVE  ProcessInv(q)'
<1>1. /\ q \in Rank /\ q # r /\ argv' = argv /\ input' = input
      /\ pc'[q] = pc[q] /\ pos'[q] = pos[q] /\ n_jobs'[q] = n_jobs[q]
      /\ jobs'[q] = jobs[q] /\ job_indices'[q] = job_indices[q]
      /\ timing'[q] = timing[q]
  BY DEF Moves
<1>2. ProcessInv(q) /\ pos[q] \in Nat /\ pos[q] <= pos[Root] /\ Root \in Rank
      /\ pos[Root] \in Nat /\ Before \in {0, 1}
  BY <1>1, Facts, RootIsRank
<1>3. /\ FromFile' = FromFile /\ WithOutput' = WithOutput /\ Before' = Before
      /\ OutputFails' = OutputFails /\ List' = List
      /\ ModulesRejected' = ModulesRejected
      /\ CommonRejected(argv, NP)' = CommonRejected(argv, NP)
      /\ BeforeIndices(q)' = BeforeIndices(q) /\ SizesFit(q)' = SizesFit(q)
  BY <1>1 DEF FromFile, WithOutput, Before, OutputFails, List, ModulesRejected,
              BeforeIndices, SizesFit
<1>4. Complete(q)' = Complete(q)
  BY <1>1, <1>3 DEF Complete
<1>5. PositionOf(q)' /\ FoundOf(q)' /\ ReasonOf(q)' /\ TimingOf(q)'
  BY <1>1, <1>2, <1>3, <1>4 DEF ProcessInv, PositionOf, FoundOf, ReasonOf, TimingOf
<1>6. /\ FromFile /\ pos[q] >= Before + 2 => n_jobs'[Root] = n_jobs[Root]
      /\ FromFile /\ pos[q] >= Before + 3 => jobs'[Root] = jobs[Root]
      /\ pc[q] = "ready" => /\ pc'[Root] = pc[Root]
                           /\ job_indices'[Root] = job_indices[Root]
  BY <1>1, <1>2 DEF Moves, ProcessInv, OrderOf
<1>7. ListOf(q)'
  BY <1>1, <1>2, <1>3, <1>4, <1>6 DEF ProcessInv, ListOf, CarriedList
<1>8. OrderOf(q)'
  BY <1>1, <1>2, <1>6 DEF ProcessInv, OrderOf
<1> QED
  BY <1>5, <1>7, <1>8 DEF ProcessInv

\* A step without a broadcast: what has been broadcast stays so.
LEMMA NoBroadcast ==
    ASSUME IInv, NEW r \in Rank, Moves(r), bcasts' = bcasts, pos' = pos,
           r = Root /\ job_indices'[Root] # job_indices[Root] =>
               pos[Root] = BeforeIndices(Root)
    PROVE  Published'
<1>1. argv' = argv /\ input' = input /\ FromFile' = FromFile /\ Before' = Before
      /\ OutputFails' = OutputFails
  BY DEF Moves, FromFile, Before, OutputFails, WithOutput
<1>2. Root \in Rank /\ Before \in {0, 1} /\ pos[Root] = Len(bcasts)
      /\ pos[Root] \in Nat /\ n_jobs[Root] \in Nat
  BY Facts, RootIsRank
<1>3. ASSUME NEW k \in 1 .. Len(bcasts)
      PROVE  Made(k)' = Made(k)
  <2>1. /\ FromFile /\ k = Before + 2 => n_jobs'[Root] = n_jobs[Root]
        /\ FromFile /\ k = Before + 3 => jobs'[Root] = jobs[Root]
    BY <1>2 DEF Moves
  <2>2. (FromFile /\ k > Before + 3) \/ (~FromFile /\ k > Before) =>
            job_indices'[Root] = job_indices[Root]
    BY <1>2 DEF Moves, BeforeIndices
  <2> QED
    BY <1>1, <1>2, <2>1, <2>2 DEF Made
<1> QED
  BY <1>2, <1>3 DEF IInv, Published

\* The root's part of what is broadcast.
RootKeeps == /\ argv' = argv /\ input' = input
             /\ n_jobs'[Root] = n_jobs[Root] /\ jobs'[Root] = jobs[Root]
             /\ job_indices'[Root] = job_indices[Root]

LEMMA MadeKept ==
    ASSUME RootKeeps, NEW k
    PROVE  Made(k)' = Made(k)
  BY DEF RootKeeps, Made, FromFile, Before, OutputFails, WithOutput

\* A step with one: the root makes the broadcast the others expect, or the
\* process receives it.
LEMMA WithBroadcast ==
    ASSUME IInv, NEW r \in Rank, NEW value, Broadcast(r, value), Counted(r)
    PROVE  /\ IsSequence(bcasts') /\ pos' \in [Rank -> Nat]
           /\ pos'[r] = pos[r] + 1
           /\ \A q \in Rank \ {r} : pos'[q] = pos[q]
           /\ r = Root => Received(r, value) = value
           /\ r # Root => /\ Received(r, value) = Made(pos[r] + 1)
                          /\ pos[r] + 1 \in 1 .. pos[Root]
           /\ RootKeeps /\ (r = Root => value = Made(pos[r] + 1)) => Published'
<1>1. /\ Root \in Rank /\ Before \in {0, 1} /\ pos[Root] = Len(bcasts)
      /\ \A q \in Rank : pos[q] \in Nat /\ pos[q] <= Len(bcasts)
      /\ pos \in [Rank -> Nat]
      /\ IsSequence(bcasts) /\ \A k \in 1 .. Len(bcasts) : bcasts[k] = Made(k)
  BY Facts, RootIsRank DEF IInv, Published, Types
<1>2. pos' \in [Rank -> Nat] /\ pos'[r] = pos[r] + 1
      /\ \A q \in Rank \ {r} : pos'[q] = pos[q]
  BY <1>1 DEF Counted
<1>3. CASE r = Root
  <2>1. bcasts' = Append(bcasts, value) /\ Received(r, value) = value
    BY <1>3 DEF Broadcast, Received
  <2>2. /\ IsSequence(bcasts') /\ Len(bcasts) \in Nat
        /\ Len(bcasts') = Len(bcasts) + 1 /\ bcasts'[Len(bcasts) + 1] = value
        /\ \A k \in 1 .. Len(bcasts) : bcasts'[k] = bcasts[k]
    BY <1>1, <2>1, Appended
  <2>3. ASSUME RootKeeps, value = Made(pos[r] + 1)
        PROVE  Published'
    <3>1. \A k : Made(k)' = Made(k)
      BY <2>3, MadeKept
    <3>2. ASSUME NEW k \in 1 .. Len(bcasts')
          PROVE  bcasts'[k] = Made(k)'
      <4>1. CASE k = Len(bcasts) + 1
        BY <1>1, <1>3, <2>2, <2>3, <3>1, <4>1
      <4>2. CASE k \in 1 .. Len(bcasts)
        BY <1>1, <2>2, <3>1, <4>2
      <4> QED
        BY <2>2, <4>1, <4>2
    <3>3. Len(bcasts') = pos'[Root] /\ \A q \in Rank : pos'[q] <= Len(bcasts')
      BY <1>1, <1>2, <1>3, <2>2
    <3> QED
      BY <3>2, <3>3 DEF Published
  <2> QED
    BY <1>2, <1>3, <2>1, <2>2, <2>3
<1>4. CASE r # Root
  <2>1. /\ bcasts' = bcasts /\ Len(bcasts) > pos[r]
        /\ Received(r, value) = bcasts[pos[r] + 1]
    BY <1>4 DEF Broadcast, Received
  <2>2. pos[r] + 1 \in 1 .. Len(bcasts)
    BY <1>1, <2>1
  <2>3. ASSUME RootKeeps
        PROVE  Published'
    <3>1. \A k : Made(k)' = Made(k)
      BY <2>3, MadeKept
    <3>2. pos'[Root] = pos[Root] /\ \A q \in Rank : pos'[q] <= Len(bcasts)
      BY <1>1, <1>2, <1>4, <2>2
    <3> QED
      BY <1>1, <2>1, <3>1, <3>2 DEF Published
  <2> QED
    BY <1>1, <1>2, <1>4, <2>1, <2>2, <2>3
<1> QED
  BY <1>3, <1>4

\* The constant part of a process's knowledge.
LEMMA InputKept ==
    ASSUME argv' = argv, input' = input
    PROVE  /\ FromFile' = FromFile /\ WithOutput' = WithOutput /\ Before' = Before
           /\ OutputFails' = OutputFails /\ List' = List
           /\ ModulesRejected' = ModulesRejected
           /\ CommonRejected(argv, NP)' = CommonRejected(argv, NP)
  BY DEF FromFile, WithOutput, Before, OutputFails, List, ModulesRejected

\* The root neither reads nor shuffles.
LEMMA RootStays ==
    ASSUME IInv, RootKeeps, capacity' = capacity,
           pc'[Root] \in {"common", "output", "modules", "open"} =>
               pc[Root] \in {"common", "output", "modules", "open"},
           pc'[Root] = "read" => pc[Root] = "read",
           FromFile /\ pc'[Root] \in Loaded => pc[Root] \in Loaded,
           pc'[Root] \in {"shuffle", "indices", "ready"} =>
               pc[Root] \in {"shuffle", "indices", "ready"}
    PROVE  Reading' /\ Shuffled'
<1>1. FromFile' = FromFile
  BY DEF RootKeeps, FromFile
<1> QED
  BY <1>1 DEF IInv, RootKeeps, Reading, Shuffled

LEMMA Assembled ==
    ASSUME IInv, NEW r \in Rank, Moves(r), ProcessInv(r)', Types', Reading',
           Shuffled', Published'
    PROVE  IInv'
<1>1. \A q \in Rank \ {r} : ProcessInv(q)'
  BY OthersKeep
<1>2. \A q \in Rank : ProcessInv(q)'
  BY <1>1
<1> QED
  BY <1>2 DEF IInv

\* The parsers.

LEMMA ParseCommonStep ==
    ASSUME IInv, NEW r \in Rank, ParseCommon(r)
    PROVE  IInv'
<1> USE DEF ParseCommon, ovars
<1>1. ProcessInv(r) /\ pc[r] = "common" /\ pc \in [Rank -> PC] /\ Root \in Rank
  BY Facts DEF IInv, Types
<1>2. /\ pc'[r] \in {"exit1", "output", "modules"}
      /\ pc'[r] = "exit1" => CommonRejected(argv, NP)
      /\ pc'[r] # "exit1" => ~CommonRejected(argv, NP)
      /\ pc'[r] = "output" => WithOutput
      /\ pc'[r] = "modules" => ~WithOutput
      /\ \A q \in Rank \ {r} : pc'[q] = pc[q]
      /\ pc' \in [Rank -> PC]
  BY <1>1 DEF WithOutput, PC, Exits
<1>3. Moves(r) /\ RootKeeps
  BY <1>1, <1>2 DEF Moves, RootKeeps
<1>4. ProcessInv(r)'
  <2> HIDE DEF ParseCommon
  <2>1. /\ argv' = argv /\ input' = input /\ pos'[r] = pos[r] /\ timing'[r] = timing[r]
    BY DEF ParseCommon
  <2>2. pos[r] = 0 /\ timing[r] = Uninitialized
    BY <1>1 DEF ProcessInv, PositionOf, TimingOf
  <2>3. PositionOf(r)' /\ TimingOf(r)' /\ ReasonOf(r)' /\ FoundOf(r)' /\ OrderOf(r)'
    BY <1>2, <2>1, <2>2, InputKept
       DEF PositionOf, TimingOf, ReasonOf, FoundOf, OrderOf, Exits, Listed, Before
  <2>4. ListOf(r)'
    BY <1>2, <2>1, <2>2, InputKept, RootIsRank DEF ListOf, Listed
  <2> QED
    BY <2>3, <2>4 DEF ProcessInv
<1>5. Types'
  BY <1>2 DEF IInv, Types
<1>6. Reading' /\ Shuffled'
  BY <1>1, <1>2, <1>3, RootStays DEF Loaded, Listed, Exits
<1>7. Published'
  BY <1>3, NoBroadcast
<1> QED
  BY <1>3, <1>4, <1>5, <1>6, <1>7, Assembled

LEMMA BcastOutputErrorStep ==
    ASSUME IInv, NEW r \in Rank, BcastOutputError(r)
    PROVE  IInv'
<1> DEFINE error == [kind |-> "output", value |-> IF OutputFails THEN 1 ELSE 0]
<1>1. /\ ProcessInv(r) /\ pc[r] = "output" /\ pc \in [Rank -> PC] /\ Root \in Rank
      /\ WithOutput /\ Before = 1 /\ pos[r] = 0 /\ timing[r] = Uninitialized
      /\ ~CommonRejected(argv, NP)
  BY Facts DEF BcastOutputError, IInv, Types, ProcessInv, FoundOf, PositionOf, TimingOf,
               Before, Exits
<1>2. Broadcast(r, error) /\ Counted(r)
  BY DEF BcastOutputError, OutputFails
<1>3. Made(pos[r] + 1) = error
  BY <1>1 DEF Made
<1>4. Received(r, error) = error
  BY <1>1, <1>2, <1>3, WithBroadcast
<1>5. pc' = [pc EXCEPT ![r] = IF error.value # 0 THEN "exit1" ELSE "modules"]
  BY <1>4 DEF BcastOutputError, OutputFails
<1>6. /\ pc' \in [Rank -> PC] /\ pc'[r] \in {"exit1", "modules"}
      /\ pc'[r] = "exit1" => OutputFails
      /\ pc'[r] = "modules" => ~OutputFails
      /\ \A q \in Rank \ {r} : pc'[q] = pc[q]
  BY <1>1, <1>5 DEF PC, Exits
<1>7. /\ argv' = argv /\ input' = input /\ UNCHANGED <<jobs, n_jobs, job_indices, line,
                                                     capacity, shuffled, timing>>
  BY DEF BcastOutputError, ovars
<1>8. /\ IsSequence(bcasts') /\ pos' \in [Rank -> Nat] /\ pos'[r] = 1
      /\ \A q \in Rank \ {r} : pos'[q] = pos[q]
      /\ RootKeeps /\ (r = Root => error = Made(pos[r] + 1)) => Published'
  <2> HIDE DEF error
  <2> QED
    BY <1>1, <1>2, WithBroadcast
<1>9. Moves(r) /\ RootKeeps
  BY <1>1, <1>6, <1>7, <1>8 DEF Moves, RootKeeps
<1>10. ProcessInv(r)'
  <2>1. PositionOf(r)' /\ TimingOf(r)' /\ ReasonOf(r)' /\ FoundOf(r)' /\ OrderOf(r)'
    BY <1>1, <1>6, <1>7, <1>8, InputKept
       DEF PositionOf, TimingOf, ReasonOf, FoundOf, OrderOf, Exits, Listed, Before
  <2>2. ListOf(r)'
    BY <1>1, <1>6, <1>7, <1>8, InputKept DEF ListOf, Listed
  <2> QED
    BY <2>1, <2>2 DEF ProcessInv
<1>11. Types'
  BY <1>6, <1>7, <1>8 DEF IInv, Types, PerRank
<1>12. Reading' /\ Shuffled'
  BY <1>1, <1>6, <1>7, <1>9, RootStays DEF Loaded, Listed, Exits
<1>13. Published'
  BY <1>3, <1>8, <1>9
<1> QED
  BY <1>9, <1>10, <1>11, <1>12, <1>13, Assembled

LEMMA InitModulesStep ==
    ASSUME IInv, NEW r \in Rank, InitModules(r)
    PROVE  IInv'
<1>1. /\ ProcessInv(r) /\ pc[r] = "modules" /\ pc \in [Rank -> PC] /\ Root \in Rank
      /\ Before \in {0, 1} /\ pos[r] = Before /\ timing[r] = Uninitialized
      /\ ~CommonRejected(argv, NP) /\ ~(WithOutput /\ OutputFails)
      /\ timing \in [Rank -> {Uninitialized, TimingMethod(argv, Uninitialized)}]
  BY Facts DEF InitModules, IInv, Types, ProcessInv, FoundOf, PositionOf, TimingOf, Exits
<1>2. /\ argv' = argv /\ input' = input
      /\ UNCHANGED <<pos, bcasts, jobs, n_jobs, job_indices, line, capacity, shuffled>>
      /\ timing' = [timing EXCEPT ![r] = TimingMethod(argv, Uninitialized)]
      /\ pc' = [pc EXCEPT ![r] = IF ModulesRejected THEN "exit1" ELSE Begin(r)]
  BY <1>1 DEF InitModules
<1>3. /\ Begin(r) \in {"build", "open", "error"}
      /\ Begin(r) = "build" => ~FromFile
      /\ Begin(r) # "build" => FromFile
      /\ Begin(r) = "open" => r = Root
  BY DEF Begin, FromFile
<1>4. /\ pc' \in [Rank -> PC] /\ pc'[r] \in {"exit1", "build", "open", "error"}
      /\ pc'[r] = "exit1" => ModulesRejected
      /\ pc'[r] # "exit1" => ~ModulesRejected /\ pc'[r] = Begin(r)
      /\ \A q \in Rank \ {r} : pc'[q] = pc[q]
  BY <1>1, <1>2, <1>3 DEF PC, Exits
<1>5. /\ timing'[r] = TimingMethod(argv, Uninitialized)
      /\ \A q \in Rank \ {r} : timing'[q] = timing[q]
      /\ timing' \in [Rank -> {Uninitialized, TimingMethod(argv, Uninitialized)}]
  BY <1>1, <1>2
<1>6. Moves(r) /\ RootKeeps
  BY <1>1, <1>2, <1>4, <1>5 DEF Moves, RootKeeps
<1>7. ProcessInv(r)'
  <2>1. PositionOf(r)' /\ ReasonOf(r)' /\ FoundOf(r)' /\ OrderOf(r)'
    BY <1>1, <1>2, <1>3, <1>4, InputKept
       DEF PositionOf, ReasonOf, FoundOf, OrderOf, Exits, Listed
  <2>2. ListOf(r)'
    BY <1>1, <1>2, <1>4, InputKept DEF ListOf, Listed
  <2>3. TimingOf(r)'
    BY <1>2, <1>4, <1>5 DEF TimingOf
  <2> QED
    BY <2>1, <2>2, <2>3 DEF ProcessInv
<1>8. Types'
  <2>1. TimingMethod(argv, Uninitialized)' = TimingMethod(argv, Uninitialized)
    BY <1>2
  <2> QED
    BY <1>2, <1>4, <1>5, <2>1 DEF IInv, Types, PerRank, IsSequence
<1>9. Reading' /\ Shuffled'
  <2>1. FromFile /\ r = Root => pc'[Root] \notin Loaded
    BY <1>3, <1>4 DEF Loaded, Listed, Begin, FromFile, Root
  <2>2. r # Root => pc'[Root] = pc[Root]
    BY <1>1, <1>4
  <2> QED
    BY <1>1, <1>2, <1>3, <1>4, <1>6, <2>1, <2>2, RootStays
<1>10. Published'
  BY <1>2, <1>6, NoBroadcast
<1> QED
  BY <1>6, <1>7, <1>8, <1>9, <1>10, Assembled

-----------------------------------------------------------------------------
(* The root reads the file. *)

LEMMA FileIsRead ==
    ASSUME IInv, pc[Root] \in {"open", "read"}
    PROVE  /\ ProcessInv(Root) /\ pos[Root] = Before /\ FromFile
           /\ input.file # Unreadable => input.file \in Seq(Jobs \cup {BadLine})
           /\ jobs[Root] \in Seq(Jobs) /\ Len(jobs[Root]) \in Nat
           /\ line \in Nat \ {0} /\ capacity \in Nat /\ LEN_JOB_BATCH \in Nat \ {0}
           /\ Root \in Rank /\ Before \in {0, 1} /\ PerRank(jobs)
           /\ pc \in [Rank -> PC] /\ n_jobs \in [Rank -> Nat]
<1>1. /\ ProcessInv(Root) /\ Root \in Rank /\ Before \in {0, 1}
      /\ line \in Nat \ {0} /\ capacity \in Nat /\ PerRank(jobs)
      /\ pc \in [Rank -> PC] /\ n_jobs \in [Rank -> Nat]
      /\ argv \in CommandLines /\ input = JobInput(argv)
  BY Facts, RootIsRank DEF IInv, Types
<1>2. pos[Root] = Before /\ FromFile
  BY <1>1 DEF ProcessInv, PositionOf, FoundOf
<1>3. jobs[Root] \in Seq(Jobs)
  BY <1>2 DEF IInv, Reading
<1>4. input.file \in {NoFile, Unreadable} \cup Seq(Jobs \cup {BadLine})
  BY <1>1, CommandLinesAssumption
<1> QED
  BY <1>1, <1>2, <1>3, <1>4, SizesAssumption DEF FromFile

\* What the root knows while it reads.
LEMMA RootReads ==
    ASSUME IInv, pc[Root] \in {"open", "read"}, Moves(Root),
           pc'[Root] \in {"read", "error"}, pos' = pos, timing' = timing,
           input.file = Unreadable => pc'[Root] = "error"
    PROVE  ProcessInv(Root)'
<1>1. /\ ProcessInv(Root) /\ pos[Root] = Before /\ FromFile /\ Root \in Rank
      /\ Before \in {0, 1}
  BY FileIsRead
<1>2. argv' = argv /\ input' = input
  BY DEF Moves
<1>3. /\ ~CommonRejected(argv, NP) /\ ~(WithOutput /\ OutputFails) /\ ~ModulesRejected
      /\ timing[Root] = TimingMethod(argv, Uninitialized)
  BY <1>1 DEF ProcessInv, FoundOf, TimingOf, Exits
<1>4. PositionOf(Root)' /\ ReasonOf(Root)' /\ FoundOf(Root)' /\ OrderOf(Root)'
  BY <1>1, <1>2, <1>3, InputKept
     DEF PositionOf, ReasonOf, FoundOf, OrderOf, Exits, Listed
<1>5. ListOf(Root)' /\ TimingOf(Root)'
  BY <1>1, <1>2, <1>3, InputKept DEF ListOf, TimingOf, Listed
<1> QED
  BY <1>4, <1>5 DEF ProcessInv

LEMMA OpenFileStep ==
    ASSUME IInv, OpenFile, UNCHANGED ovars
    PROVE  IInv'
<1> USE DEF OpenFile, ovars
<1>1. /\ pc[Root] = "open" /\ Root \in Rank /\ pc \in [Rank -> PC] /\ FromFile
      /\ input.file # Unreadable => input.file \in Seq(Jobs \cup {BadLine})
      /\ LEN_JOB_BATCH \in Nat \ {0} /\ jobs[Root] \in Seq(Jobs)
  BY FileIsRead
<1>2. /\ pc' \in [Rank -> PC] /\ \A q \in Rank \ {Root} : pc'[q] = pc[q]
      /\ pc'[Root] = IF input.file = Unreadable THEN "error" ELSE "read"
  BY <1>1 DEF PC
<1>3. Moves(Root)
  BY <1>1, <1>2 DEF Moves
<1>4. ProcessInv(Root)'
  BY <1>1, <1>2, <1>3, RootReads
<1>5. Types'
  BY <1>1, <1>2 DEF IInv, Types
<1>6. Reading'
  <2>1. jobs[Root] = <<>>
    BY <1>1 DEF IInv, Reading
  <2>2. Len(jobs[Root]) < LEN_JOB_BATCH /\ LEN_JOB_BATCH % LEN_JOB_BATCH = 0
    BY <1>1, <2>1
  <2> QED
    BY <1>1, <1>2, <2>2 DEF Reading, FromFile, Loaded, Listed
<1>7. Shuffled'
  BY <1>2 DEF Shuffled
<1>8. Published'
  BY <1>1, <1>3, NoBroadcast
<1> QED
  BY <1>1, <1>3, <1>4, <1>5, <1>6, <1>7, <1>8, Assembled

\* The array always grows in whole batches.
LEMMA Grown ==
    ASSUME NEW n \in Nat, NEW c \in Nat, NEW b \in Nat \ {0}, n < c, c % b = 0
    PROVE  IF (n + 1) % b = 0 THEN n + 1 < n + 1 + b /\ (n + 1 + b) % b = 0
                              ELSE n + 1 < c
<1>1. CASE (n + 1) % b = 0
  <2> DEFINE q == (n + 1) \div b
             p == (n + 1 + b) \div b
             m == (n + 1 + b) % b
  <2>1. q \in Int /\ n + 1 = b * q
    BY <1>1
  <2>2. p \in Int /\ m \in 0 .. b - 1 /\ n + 1 + b = b * p + m
    OBVIOUS
  <2> HIDE DEF q, p, m
  <2>3. PICK k \in Int : k = q + 1 - p
    BY <2>1, <2>2
  <2>4. b * k = m
    BY <2>1, <2>2, <2>3
  <2>5. k >= 1 => b * k >= b
    OBVIOUS
  <2>6. k <= -1 => b * k <= -b
    OBVIOUS
  <2>7. k = 0
    BY <2>2, <2>4, <2>5, <2>6
  <2>8. m = 0
    BY <2>4, <2>7
  <2> QED
    BY <1>1, <2>8 DEF m
<1>2. CASE (n + 1) % b # 0
  <2>1. n + 1 # c
    BY <1>2
  <2> QED
    BY <1>2, <2>1
<1> QED
  BY <1>1, <1>2

LEMMA ReadJobStep ==
    ASSUME IInv, ReadJob, UNCHANGED ovars
    PROVE  IInv'
<1> DEFINE f == input.file
           job == f[line]
           full == (Len(jobs[Root]) + 1) % LEN_JOB_BATCH = 0
<1>1. /\ pc[Root] = "read" /\ Root \in Rank /\ pc \in [Rank -> PC] /\ FromFile
      /\ pos[Root] = Before /\ Before \in {0, 1}
      /\ LEN_JOB_BATCH \in Nat \ {0} /\ jobs[Root] \in Seq(Jobs) /\ PerRank(jobs)
      /\ Len(jobs[Root]) \in Nat /\ line \in Nat \ {0} /\ capacity \in Nat
  BY FileIsRead DEF ReadJob
<1>2. /\ f \in Seq(Jobs \cup {BadLine}) /\ Len(jobs[Root]) < capacity
      /\ capacity % LEN_JOB_BATCH = 0
  BY <1>1 DEF IInv, Reading
<1>3. job \in Jobs
  BY <1>1, <1>2 DEF ReadJob
<1>4. /\ jobs' = [jobs EXCEPT ![Root] = Append(jobs[Root], job)]
      /\ UNCHANGED <<argv, timing, input, pc, pos, bcasts, n_jobs, job_indices, shuffled>>
      /\ line' = line + 1
      /\ capacity' = IF full THEN Len(jobs[Root]) + 1 + LEN_JOB_BATCH ELSE capacity
  BY DEF ReadJob, ovars
<1> HIDE DEF job, f
<1>5. /\ PerRank(jobs') /\ jobs'[Root] = Append(jobs[Root], job)
      /\ \A q \in Rank \ {Root} : jobs'[q] = jobs[q]
  BY <1>1, <1>4 DEF PerRank
<1>6. jobs'[Root] \in Seq(Jobs) /\ Len(jobs'[Root]) = Len(jobs[Root]) + 1
  BY <1>1, <1>3, <1>5
<1>7. /\ capacity' \in Nat /\ Len(jobs[Root]) + 1 < capacity'
      /\ capacity' % LEN_JOB_BATCH = 0
  <2> DEFINE n == Len(jobs[Root])
             b == LEN_JOB_BATCH
  <2>1. n \in Nat /\ b \in Nat \ {0} /\ n < capacity /\ capacity % b = 0
    BY <1>1, <1>2
  <2>2. capacity' = IF (n + 1) % b = 0 THEN n + 1 + b ELSE capacity
    BY <1>4
  <2> HIDE DEF n, b
  <2>3. IF (n + 1) % b = 0 THEN n + 1 < n + 1 + b /\ (n + 1 + b) % b = 0
                           ELSE n + 1 < capacity
    BY <1>1, <2>1, Grown
  <2>4. capacity' \in Nat /\ n + 1 < capacity' /\ capacity' % b = 0
    BY <1>1, <2>1, <2>2, <2>3
  <2> QED
    BY <2>4 DEF n, b
<1>8. Moves(Root)
  BY <1>1, <1>4, <1>5 DEF Moves
<1>9. ProcessInv(Root)'
  <2>1. f # Unreadable
    BY <1>1, Facts DEF ProcessInv, FoundOf, f
  <2> QED
    BY <1>1, <1>4, <1>8, <2>1, RootReads DEF f
<1>10. Types'
  <2>1. TimingMethod(argv, Uninitialized)' = TimingMethod(argv, Uninitialized)
    BY <1>4
  <2>2. PerRank(jobs)' /\ IsSequence(bcasts)'
    BY <1>4, <1>5 DEF IInv, Types, PerRank, IsSequence
  <2>3. Types
    BY DEF IInv
  <2>4. line' \in Nat \ {0}
    BY <1>1, <1>4
  <2> HIDE DEF full
  <2>5. UNCHANGED <<argv, timing, input, pc, pos, n_jobs, job_indices, shuffled>>
    BY <1>4
  <2> QED
    BY <1>7, <2>1, <2>2, <2>3, <2>4, <2>5 DEF Types
<1>11. Reading'
  BY <1>1, <1>2, <1>4, <1>6, <1>7 DEF Reading, FromFile, f, Loaded, Listed
<1>12. Shuffled'
  BY <1>1, <1>4 DEF Shuffled
<1>13. Published'
  BY <1>1, <1>4, <1>8, NoBroadcast
<1> QED
  BY <1>1, <1>8, <1>9, <1>10, <1>11, <1>12, <1>13, Assembled

LEMMA SkipLineStep ==
    ASSUME IInv, SkipLine, UNCHANGED ovars
    PROVE  IInv'
<1> USE DEF SkipLine, ovars
<1>1. /\ pc[Root] = "read" /\ Root \in Rank /\ line \in Nat \ {0}
      /\ ProcessInv(Root)
  BY FileIsRead
<1>2. Moves(Root) /\ RootKeeps
  BY <1>1 DEF Moves, RootKeeps
<1>3. ProcessInv(Root)'
  BY <1>1, <1>2, RootReads DEF ProcessInv, FoundOf
<1>4. Types'
  BY <1>1 DEF IInv, Types
<1>5. Reading' /\ Shuffled'
  BY <1>1, <1>2, RootStays DEF Loaded, Listed, Exits
<1>6. Published'
  BY <1>1, <1>2, NoBroadcast
<1> QED
  BY <1>1, <1>2, <1>3, <1>4, <1>5, <1>6, Assembled

LEMMA EndReadStep ==
    ASSUME IInv, EndRead, UNCHANGED ovars
    PROVE  IInv'
<1> USE DEF EndRead, ovars
<1>1. /\ pc[Root] = "read" /\ Root \in Rank /\ pc \in [Rank -> PC] /\ FromFile
      /\ pos[Root] = Before /\ Before \in {0, 1} /\ n_jobs \in [Rank -> Nat]
      /\ jobs[Root] \in Seq(Jobs) /\ Len(jobs[Root]) \in Nat /\ capacity \in Nat
  BY FileIsRead
<1>2. /\ pc' \in [Rank -> PC] /\ \A q \in Rank \ {Root} : pc'[q] = pc[q]
      /\ pc'[Root] = "error"
      /\ n_jobs' \in [Rank -> Nat] /\ \A q \in Rank \ {Root} : n_jobs'[q] = n_jobs[q]
  BY <1>1 DEF PC
<1>3. Moves(Root)
  BY <1>1, <1>2 DEF Moves
<1>4. ProcessInv(Root)'
  BY <1>1, <1>2, <1>3, RootReads
<1>5. Types'
  BY <1>1, <1>2 DEF IInv, Types
<1>6. Reading' /\ Shuffled'
  BY <1>1, <1>2 DEF Reading, Shuffled, FromFile
<1>7. Published'
  BY <1>1, <1>3, NoBroadcast
<1> QED
  BY <1>1, <1>3, <1>4, <1>5, <1>6, <1>7, Assembled

-----------------------------------------------------------------------------
(* The broadcasts of generate_job_list. *)

LEMMA BcastErrorStep ==
    ASSUME IInv, NEW r \in Rank, BcastError(r), UNCHANGED ovars
    PROVE  IInv'
<1> DEFINE error == [kind |-> "error", value |-> IF input.file = Unreadable THEN 1 ELSE 0]
<1>1. /\ ProcessInv(r) /\ pc[r] = "error" /\ pc \in [Rank -> PC] /\ Root \in Rank
      /\ Before \in {0, 1} /\ FromFile /\ pos[r] = Before
      /\ ~CommonRejected(argv, NP) /\ ~ModulesRejected /\ ~(WithOutput /\ OutputFails)
      /\ timing[r] = TimingMethod(argv, Uninitialized)
  BY Facts DEF BcastError, IInv, Types, ProcessInv, FoundOf, PositionOf, TimingOf, Exits
<1>2. Broadcast(r, error) /\ Counted(r)
  BY DEF BcastError
<1>3. Made(pos[r] + 1) = error
  BY <1>1 DEF Made
<1>4. Received(r, error) = error
  BY <1>1, <1>2, <1>3, WithBroadcast
<1>5. pc' = [pc EXCEPT ![r] = IF error.value # 0 THEN "exit0" ELSE "number"]
  BY <1>4 DEF BcastError
<1>6. /\ pc' \in [Rank -> PC] /\ pc'[r] \in {"exit0", "number"}
      /\ pc'[r] = "exit0" => input.file = Unreadable
      /\ pc'[r] = "number" => input.file # Unreadable
      /\ \A q \in Rank \ {r} : pc'[q] = pc[q]
  BY <1>1, <1>5 DEF PC, Exits
<1>7. /\ argv' = argv /\ input' = input /\ UNCHANGED <<jobs, n_jobs, job_indices, line,
                                                     capacity, shuffled, timing>>
  BY DEF BcastError, ovars
<1>8. /\ IsSequence(bcasts') /\ pos' \in [Rank -> Nat] /\ pos'[r] = Before + 1
      /\ \A q \in Rank \ {r} : pos'[q] = pos[q]
      /\ RootKeeps /\ (r = Root => error = Made(pos[r] + 1)) => Published'
  <2> HIDE DEF error
  <2> QED
    BY <1>1, <1>2, WithBroadcast
<1>9. Moves(r) /\ RootKeeps
  BY <1>1, <1>6, <1>7, <1>8 DEF Moves, RootKeeps
<1>10. ProcessInv(r)'
  <2>1. PositionOf(r)' /\ TimingOf(r)' /\ ReasonOf(r)' /\ FoundOf(r)' /\ OrderOf(r)'
    BY <1>1, <1>6, <1>7, <1>8, InputKept
       DEF PositionOf, TimingOf, ReasonOf, FoundOf, OrderOf, Exits, Listed
  <2>2. ListOf(r)'
    BY <1>1, <1>6, <1>7, <1>8, InputKept DEF ListOf, Listed
  <2> QED
    BY <2>1, <2>2 DEF ProcessInv
<1>11. Types'
  BY <1>6, <1>7, <1>8 DEF IInv, Types, PerRank
<1>12. Reading' /\ Shuffled'
  BY <1>1, <1>6, <1>7, <1>9, RootStays DEF Loaded, Listed, Exits
<1>13. Published'
  BY <1>3, <1>8, <1>9
<1> QED
  BY <1>9, <1>10, <1>11, <1>12, <1>13, Assembled

LEMMA BcastNumberStep ==
    ASSUME IInv, NEW r \in Rank, BcastNumber(r), UNCHANGED ovars
    PROVE  IInv'
<1> DEFINE number == [kind |-> "number", value |-> n_jobs[r]]
<1>1. /\ ProcessInv(r) /\ pc[r] = "number" /\ pc \in [Rank -> PC] /\ Root \in Rank
      /\ Before \in {0, 1} /\ FromFile /\ pos[r] = Before + 1 /\ input.file # Unreadable
      /\ ~CommonRejected(argv, NP) /\ ~ModulesRejected /\ ~(WithOutput /\ OutputFails)
      /\ timing[r] = TimingMethod(argv, Uninitialized)
      /\ n_jobs \in [Rank -> Nat] /\ n_jobs[Root] \in Nat
  BY Facts DEF BcastNumber, IInv, Types, ProcessInv, FoundOf, PositionOf, TimingOf, Exits
<1>2. Broadcast(r, number) /\ Counted(r)
  BY DEF BcastNumber
<1>3. Made(pos[r] + 1) = [kind |-> "number", value |-> n_jobs[Root]]
  BY <1>1 DEF Made
<1>4. Received(r, number).value = n_jobs[Root]
  <2> HIDE DEF number
  <2>1. Received(r, number) = IF r = Root THEN number ELSE Made(pos[r] + 1)
    BY <1>1, <1>2, WithBroadcast
  <2> QED
    BY <1>3, <2>1 DEF number
<1>5. /\ pc' = [pc EXCEPT ![r] = IF n_jobs[Root] > 0 THEN "jobs" ELSE "check"]
      /\ n_jobs' = [n_jobs EXCEPT ![r] = n_jobs[Root]]
  BY <1>4 DEF BcastNumber
<1>6. /\ pc' \in [Rank -> PC] /\ pc'[r] \in {"jobs", "check"}
      /\ pc'[r] = "jobs" <=> n_jobs[Root] > 0
      /\ \A q \in Rank \ {r} : pc'[q] = pc[q]
      /\ n_jobs' \in [Rank -> Nat] /\ n_jobs'[r] = n_jobs[Root]
      /\ \A q \in Rank \ {r} : n_jobs'[q] = n_jobs[q]
      /\ n_jobs'[Root] = n_jobs[Root]
  BY <1>1, <1>5 DEF PC, Listed
<1>7. /\ argv' = argv /\ input' = input /\ UNCHANGED <<jobs, job_indices, line,
                                                     capacity, shuffled, timing>>
  BY DEF BcastNumber, ovars
<1>8. /\ IsSequence(bcasts') /\ pos' \in [Rank -> Nat] /\ pos'[r] = Before + 2
      /\ \A q \in Rank \ {r} : pos'[q] = pos[q]
      /\ RootKeeps /\ (r = Root => number = Made(pos[r] + 1)) => Published'
  <2> HIDE DEF number
  <2> QED
    BY <1>1, <1>2, WithBroadcast
<1>9. Moves(r) /\ RootKeeps
  BY <1>1, <1>6, <1>7, <1>8 DEF Moves, RootKeeps
<1>10. ProcessInv(r)'
  <2>1. BeforeIndices(r)' = IF n_jobs[Root] > 0 THEN Before + 3 ELSE Before + 2
    BY <1>1, <1>6, <1>7, InputKept DEF BeforeIndices
  <2>2. PositionOf(r)' /\ TimingOf(r)' /\ ReasonOf(r)' /\ FoundOf(r)' /\ OrderOf(r)'
    BY <1>1, <1>6, <1>7, <1>8, <2>1, InputKept
       DEF PositionOf, TimingOf, ReasonOf, FoundOf, OrderOf, Exits, Listed
  <2>3. ListOf(r)'
    BY <1>1, <1>6, <1>7, <1>8, <2>1, InputKept DEF ListOf, Listed, Complete
  <2> QED
    BY <2>2, <2>3 DEF ProcessInv
<1>11. Types'
  BY <1>6, <1>7, <1>8 DEF IInv, Types, PerRank
<1>12. Reading' /\ Shuffled'
  BY <1>1, <1>6, <1>7, <1>9, RootStays DEF Loaded, Listed, Exits
<1>13. Published'
  BY <1>3, <1>8, <1>9
<1> QED
  BY <1>9, <1>10, <1>11, <1>12, <1>13, Assembled

LEMMA BcastJobsStep ==
    ASSUME IInv, NEW r \in Rank, BcastJobs(r), UNCHANGED ovars
    PROVE  IInv'
<1> DEFINE list == [kind |-> "jobs", value |-> jobs[r]]
<1>1. /\ ProcessInv(r) /\ pc[r] = "jobs" /\ pc \in [Rank -> PC] /\ Root \in Rank
      /\ Before \in {0, 1} /\ FromFile /\ pos[r] = Before + 2 /\ input.file # Unreadable
      /\ ~CommonRejected(argv, NP) /\ ~ModulesRejected /\ ~(WithOutput /\ OutputFails)
      /\ timing[r] = TimingMethod(argv, Uninitialized)
      /\ n_jobs[r] \in Nat /\ n_jobs[r] > 0 /\ n_jobs[r] = n_jobs[Root]
      /\ PerRank(jobs)
  <2>1. /\ ProcessInv(r) /\ pc[r] = "jobs" /\ pc \in [Rank -> PC] /\ Root \in Rank
        /\ Before \in {0, 1} /\ n_jobs[r] \in Nat /\ PerRank(jobs)
    BY Facts DEF BcastJobs, IInv, Types
  <2>2. PositionOf(r) /\ FoundOf(r) /\ ListOf(r) /\ TimingOf(r)
    BY <2>1 DEF ProcessInv
  <2>3. FromFile /\ pos[r] = Before + 2
    BY <2>1, <2>2 DEF PositionOf, FoundOf
  <2>4. n_jobs[r] = n_jobs[Root]
    BY <2>1, <2>2, <2>3 DEF ListOf
  <2> QED
    BY <2>1, <2>2, <2>3, <2>4 DEF FoundOf, TimingOf, Exits
<1>2. Broadcast(r, list) /\ Counted(r)
  BY DEF BcastJobs
<1>3. Made(pos[r] + 1) = [kind |-> "jobs", value |-> jobs[Root]]
  BY <1>1 DEF Made
<1>4. Received(r, list).value = jobs[Root]
  <2> HIDE DEF list
  <2>1. Received(r, list) = IF r = Root THEN list ELSE Made(pos[r] + 1)
    BY <1>1, <1>2, WithBroadcast
  <2> QED
    BY <1>3, <2>1 DEF list
<1>5. /\ pc' = [pc EXCEPT ![r] = "check"]
      /\ jobs' = [jobs EXCEPT ![r] = IF r = Root THEN jobs[Root]
                                     ELSE CarriedList(jobs[Root])]
  BY <1>4 DEF BcastJobs, CarriedList
<1>6. /\ pc' \in [Rank -> PC] /\ pc'[r] = "check"
      /\ \A q \in Rank \ {r} : pc'[q] = pc[q]
      /\ PerRank(jobs)'
      /\ jobs'[r] = IF r = Root THEN jobs[Root] ELSE CarriedList(jobs[Root])
      /\ \A q \in Rank \ {r} : jobs'[q] = jobs[q]
      /\ jobs'[Root] = jobs[Root]
  BY <1>1, <1>5 DEF PC, Listed, PerRank
<1>7. /\ argv' = argv /\ input' = input /\ UNCHANGED <<n_jobs, job_indices, line,
                                                     capacity, shuffled, timing>>
  BY DEF BcastJobs, ovars
<1>8. /\ IsSequence(bcasts') /\ pos' \in [Rank -> Nat] /\ pos'[r] = Before + 3
      /\ \A q \in Rank \ {r} : pos'[q] = pos[q]
      /\ RootKeeps /\ (r = Root => list = Made(pos[r] + 1)) => Published'
  <2> HIDE DEF list
  <2> QED
    BY <1>1, <1>2, WithBroadcast
<1>9. Moves(r) /\ RootKeeps
  BY <1>1, <1>6, <1>7, <1>8 DEF Moves, RootKeeps
<1>10. ProcessInv(r)'
  <2>1. BeforeIndices(r)' = Before + 3
    BY <1>1, <1>6, <1>7, InputKept DEF BeforeIndices
  <2>2. PositionOf(r)' /\ TimingOf(r)' /\ ReasonOf(r)' /\ FoundOf(r)' /\ OrderOf(r)'
    BY <1>1, <1>6, <1>7, <1>8, <2>1, InputKept
       DEF PositionOf, TimingOf, ReasonOf, FoundOf, OrderOf, Exits, Listed
  <2>3. CarriedList(jobs[Root])' = CarriedList(jobs[Root])
    BY <1>6 DEF CarriedList
  <2>4. ListOf(r)'
    BY <1>1, <1>6, <1>7, <1>8, <2>1, <2>3, InputKept DEF ListOf, Listed, Complete
  <2> QED
    BY <2>2, <2>4 DEF ProcessInv
<1>11. Types'
  BY <1>6, <1>7, <1>8 DEF IInv, Types
<1>12. Reading' /\ Shuffled'
  BY <1>1, <1>6, <1>7, <1>9, RootStays DEF Loaded, Listed, Exits
<1>13. Published'
  BY <1>3, <1>8, <1>9
<1> QED
  BY <1>9, <1>10, <1>11, <1>12, <1>13, Assembled

\* When the order is broadcast the root is done.
LEMMA IndicesReceived ==
    ASSUME IInv, NEW r \in Rank, pc[r] = "indices"
    PROVE  /\ Made(pos[r] + 1) = [kind |-> "indices", value |-> job_indices[Root]]
           /\ r # Root /\ pos[r] + 1 \in 1 .. pos[Root] => pc[Root] = "ready"
<1>1. /\ ProcessInv(r) /\ Root \in Rank /\ Before \in {0, 1} /\ pos[r] \in Nat
      /\ ProcessInv(Root) /\ pos[Root] \in Nat /\ pc[Root] \in PC
  BY Facts, RootIsRank
<1>2. pos[r] = IF FromFile THEN Before + 3 ELSE Before
  BY <1>1 DEF ProcessInv, PositionOf, FoundOf, BeforeIndices
<1>3. Made(pos[r] + 1) = [kind |-> "indices", value |-> job_indices[Root]]
  BY <1>1, <1>2 DEF Made
<1>4. BeforeIndices(Root) <= IF FromFile THEN Before + 3 ELSE Before
  BY <1>1 DEF BeforeIndices
<1>5. BeforeIndices(Root) \in Nat
  BY <1>1 DEF BeforeIndices
<1>6. pc[Root] # "ready" => pos[Root] <= IF FromFile THEN Before + 3 ELSE Before
  <2>1. PositionOf(Root)
    BY <1>1 DEF ProcessInv
  <2> DEFINE most == IF FromFile THEN Before + 3 ELSE Before
  <2>2. most \in Nat /\ Before <= most /\ BeforeIndices(Root) <= most /\ Before \in Nat
    BY <1>1, <1>4
  <2>3. FromFile => Before + 1 <= most /\ Before + 2 <= most /\ Before + 3 <= most
    BY <1>1
  <2>4. pc[Root] \in Exits => pos[Root] <= most
    BY <2>1 DEF PositionOf
  <2> HIDE DEF most
  <2>5. pc[Root] \in {"number", "jobs"} => FromFile
    BY <1>1 DEF ProcessInv, FoundOf
  <2>6. pc[Root] # "ready" => pos[Root] <= most
    BY <1>1, <2>1, <2>2, <2>3, <2>4, <2>5 DEF PositionOf, PC, Listed
  <2> QED
    BY <2>6 DEF most
<1> QED
  BY <1>1, <1>2, <1>3, <1>6

LEMMA BcastIndicesStep ==
    ASSUME IInv, NEW r \in Rank, BcastIndices(r), UNCHANGED ovars
    PROVE  IInv'
<1> DEFINE order == [kind |-> "indices", value |-> job_indices[r]]
<1>1. /\ ProcessInv(r) /\ pc[r] = "indices" /\ pc \in [Rank -> PC] /\ Root \in Rank
      /\ Before \in {0, 1} /\ pos[r] \in Nat /\ job_indices[Root] \in Seq(Nat)
      /\ job_indices \in [Rank -> Seq(Nat)] /\ n_jobs[r] \in Nat
  <2>1. job_indices \in [Rank -> Seq(Nat)] /\ pc \in [Rank -> PC] /\ pc[r] = "indices"
    BY DEF BcastIndices, IInv, Types
  <2>2. /\ ProcessInv(r) /\ Root \in Rank /\ Before \in {0, 1} /\ pos[r] \in Nat
        /\ n_jobs[r] \in Nat
    BY Facts, RootIsRank
  <2> QED
    BY <2>1, <2>2
<1>2. Broadcast(r, order) /\ Counted(r)
  BY DEF BcastIndices
<1>3. Made(pos[r] + 1) = [kind |-> "indices", value |-> job_indices[Root]]
  BY <1>1, IndicesReceived
<1>4. Received(r, order).value = job_indices[Root]
  <2> HIDE DEF order
  <2>1. Received(r, order) = IF r = Root THEN order ELSE Made(pos[r] + 1)
    BY <1>1, <1>2, WithBroadcast
  <2> QED
    BY <1>3, <2>1 DEF order
<1>5. /\ pc' = [pc EXCEPT ![r] = "ready"]
      /\ job_indices' = [job_indices EXCEPT ![r] = job_indices[Root]]
  BY <1>4 DEF BcastIndices
<1>6. /\ pc' \in [Rank -> PC] /\ pc'[r] = "ready"
      /\ \A q \in Rank \ {r} : pc'[q] = pc[q]
      /\ job_indices' \in [Rank -> Seq(Nat)]
      /\ job_indices'[r] = job_indices[Root]
      /\ \A q \in Rank \ {r} : job_indices'[q] = job_indices[q]
      /\ job_indices'[Root] = job_indices[Root]
  BY <1>1, <1>5 DEF PC, Listed
<1>7. /\ argv' = argv /\ input' = input /\ UNCHANGED <<jobs, n_jobs, line, capacity,
                                                     shuffled, timing>>
  BY DEF BcastIndices, ovars
<1>8. /\ IsSequence(bcasts') /\ pos' \in [Rank -> Nat] /\ pos'[r] = pos[r] + 1
      /\ \A q \in Rank \ {r} : pos'[q] = pos[q]
      /\ r # Root => pos[r] + 1 \in 1 .. pos[Root]
      /\ RootKeeps /\ (r = Root => order = Made(pos[r] + 1)) => Published'
  <2> HIDE DEF order
  <2> QED
    BY <1>1, <1>2, WithBroadcast
<1>9. Moves(r) /\ RootKeeps
  BY <1>1, <1>6, <1>7, <1>8 DEF Moves, RootKeeps
<1>10. ProcessInv(r)'
  <2>1. /\ BeforeIndices(r)' = BeforeIndices(r) /\ SizesFit(r)' = SizesFit(r)
        /\ BeforeIndices(r) \in Nat /\ CarriedList(jobs[Root])' = CarriedList(jobs[Root])
    BY <1>1, <1>7, InputKept DEF BeforeIndices, SizesFit, CarriedList
  <2>2. PositionOf(r) /\ FoundOf(r) /\ ListOf(r) /\ TimingOf(r)
    BY <1>1 DEF ProcessInv
  <2>3. /\ pos[r] = BeforeIndices(r) /\ Complete(r) /\ n_jobs[r] > 0 /\ SizesFit(r)
        /\ FromFile => input.file # Unreadable
        /\ timing[r] = TimingMethod(argv, Uninitialized)
        /\ ~CommonRejected(argv, NP) /\ ~ModulesRejected /\ ~(WithOutput /\ OutputFails)
    BY <1>1, <2>2 DEF PositionOf, ListOf, FoundOf, TimingOf, Listed, Exits
  <2>4. PositionOf(r)' /\ TimingOf(r)' /\ ReasonOf(r)' /\ FoundOf(r)'
    BY <1>6, <1>7, <1>8, <2>1, <2>3, InputKept
       DEF PositionOf, TimingOf, ReasonOf, FoundOf, Exits, Listed
  <2>5. Complete(r)'
    BY <1>1, <1>7, <1>8, <2>1, <2>3, InputKept DEF Complete
  <2>6. BeforeIndices(r) = IF FromFile THEN Before + 3 ELSE Before
    BY <2>3 DEF BeforeIndices
  <2>7. ListOf(r)'
    BY <1>1, <1>6, <1>7, <1>8, <2>1, <2>2, <2>3, <2>5, <2>6, InputKept DEF ListOf
  <2>8. OrderOf(r)'
    BY <1>1, <1>6, <1>8, IndicesReceived DEF OrderOf
  <2> QED
    BY <2>4, <2>7, <2>8 DEF ProcessInv
<1>11. Types'
  BY <1>6, <1>7, <1>8 DEF IInv, Types, PerRank
<1>12. Reading' /\ Shuffled'
  BY <1>1, <1>6, <1>7, <1>9, RootStays DEF Loaded, Listed, Exits
<1>13. Published'
  BY <1>3, <1>8, <1>9
<1> QED
  BY <1>9, <1>10, <1>11, <1>12, <1>13, Assembled

-----------------------------------------------------------------------------
(* The list and its order. *)

LEMMA ListLength ==
    ASSUME IInv
    PROVE  Len(List) \in Nat
<1>1. input.calls \in Seq(STRING) /\ input.msizes \in Seq(Int)
  BY CommandLinesAssumption DEF IInv, Types
<1> DEFINE n == Len(input.msizes) * Len(input.calls)
<1>2. n \in Nat
  <2> DEFINE k == Len(input.msizes)
             l == Len(input.calls)
  <2>1. k \in Nat /\ l \in Nat
    BY <1>1
  <2> HIDE DEF k, l
  <2>2. k * l \in Nat
    BY <2>1
  <2> QED
    BY <2>2 DEF k, l
<1>3. DOMAIN List = 1 .. n
  BY DEF List
<1> HIDE DEF n
<1>4. List = [k \in 1 .. n |-> List[k]]
  BY DEF List, n
<1>5. List \in Seq({List[k] : k \in 1 .. n})
  BY <1>2, <1>4
<1> QED
  BY <1>5

LEMMA BuildListStep ==
    ASSUME IInv, NEW r \in Rank, BuildList(r), UNCHANGED ovars
    PROVE  IInv'
<1>1. /\ ProcessInv(r) /\ pc[r] = "build" /\ pc \in [Rank -> PC] /\ Root \in Rank
      /\ Before \in {0, 1} /\ n_jobs \in [Rank -> Nat] /\ PerRank(jobs)
  BY Facts, RootIsRank DEF BuildList, IInv, Types
<1>2. /\ ~FromFile /\ pos[r] = Before /\ timing[r] = TimingMethod(argv, Uninitialized)
      /\ ~CommonRejected(argv, NP) /\ ~ModulesRejected /\ ~(WithOutput /\ OutputFails)
  BY <1>1 DEF ProcessInv, PositionOf, FoundOf, TimingOf, Exits
<1>3. /\ pc' = [pc EXCEPT ![r] = "check"] /\ jobs' = [jobs EXCEPT ![r] = List]
      /\ n_jobs' = [n_jobs EXCEPT ![r] = Len(List)]
      /\ argv' = argv /\ input' = input
      /\ UNCHANGED <<pos, bcasts, job_indices, line, capacity, shuffled, timing>>
  BY DEF BuildList, ovars
<1>4. /\ pc' \in [Rank -> PC] /\ pc'[r] = "check"
      /\ \A q \in Rank \ {r} : pc'[q] = pc[q]
      /\ n_jobs' \in [Rank -> Nat] /\ n_jobs'[r] = Len(List)
      /\ \A q \in Rank \ {r} : n_jobs'[q] = n_jobs[q]
      /\ PerRank(jobs)' /\ jobs'[r] = List
      /\ \A q \in Rank \ {r} : jobs'[q] = jobs[q]
  BY <1>1, <1>3, ListLength DEF PC, Listed, PerRank
<1>5. Moves(r)
  BY <1>1, <1>2, <1>3, <1>4 DEF Moves
<1>6. ProcessInv(r)'
  <2>1. BeforeIndices(r)' = Before
    BY <1>2, <1>3, InputKept DEF BeforeIndices
  <2>3. PositionOf(r)' /\ TimingOf(r)' /\ ReasonOf(r)' /\ OrderOf(r)'
    BY <1>2, <1>3, <1>4, <2>1, InputKept
       DEF PositionOf, TimingOf, ReasonOf, OrderOf, Exits
  <2>4. FoundOf(r)'
    BY <1>2, <1>3, <1>4, InputKept DEF FoundOf, Exits, Listed, FromFile
  <2>5. ListOf(r)'
    BY <1>2, <1>3, <1>4, InputKept DEF ListOf, Complete
  <2> QED
    BY <2>3, <2>4, <2>5 DEF ProcessInv
<1>7. Types'
  BY <1>3, <1>4 DEF IInv, Types, IsSequence
<1>8. Reading' /\ Shuffled'
  BY <1>1, <1>2, <1>3, <1>4, InputKept DEF Reading, Shuffled, IInv
<1>9. Published'
  BY <1>1, <1>3, <1>5, NoBroadcast
<1> QED
  BY <1>5, <1>6, <1>7, <1>8, <1>9, Assembled

\* The order before it is shuffled.
LEMMA Ascending ==
    ASSUME NEW n \in Nat
    PROVE  LET f == [k \in 1 .. n |-> k - 1]
           IN  f \in Seq(Nat) /\ Len(f) = n /\ \A k \in 1 .. n : f[k] = k - 1
<1> DEFINE f == [k \in 1 .. n |-> k - 1]
<1>1. f \in [1 .. n -> Nat]
  OBVIOUS
<1>2. \A k \in 1 .. n : f[k] = k - 1
  OBVIOUS
<1> HIDE DEF f
<1>3. f \in Seq(Nat)
  BY <1>1
<1>4. Len(f) = n
  BY <1>1, <1>3
<1> QED
  BY <1>2, <1>3, <1>4 DEF f

LEMMA CheckStep ==
    ASSUME IInv, NEW r \in Rank, Check(r), UNCHANGED ovars
    PROVE  IInv'
<1> DEFINE n == n_jobs[Root]
           first == [k \in 1 .. n |-> k - 1]
<1>1. /\ ProcessInv(r) /\ pc[r] = "check" /\ pc \in [Rank -> PC] /\ Root \in Rank
      /\ Before \in {0, 1} /\ n_jobs[r] \in Nat /\ n_jobs[Root] \in Nat
      /\ job_indices \in [Rank -> Seq(Nat)] /\ pos[r] \in Nat
  <2>1. job_indices \in [Rank -> Seq(Nat)] /\ pc \in [Rank -> PC] /\ pc[r] = "check"
    BY DEF Check, IInv, Types
  <2>2. /\ ProcessInv(r) /\ Root \in Rank /\ Before \in {0, 1} /\ pos[r] \in Nat
        /\ n_jobs[r] \in Nat /\ n_jobs[Root] \in Nat
    BY Facts, RootIsRank
  <2> QED
    BY <2>1, <2>2
<1>2. PositionOf(r) /\ FoundOf(r) /\ ListOf(r) /\ TimingOf(r)
  BY <1>1 DEF ProcessInv
<1>3. /\ pos[r] = BeforeIndices(r) /\ Complete(r)
      /\ FromFile => input.file # Unreadable
      /\ timing[r] = TimingMethod(argv, Uninitialized)
      /\ ~CommonRejected(argv, NP) /\ ~ModulesRejected /\ ~(WithOutput /\ OutputFails)
  BY <1>1, <1>2 DEF PositionOf, ListOf, FoundOf, TimingOf, Listed, Exits
<1>4. /\ BeforeIndices(r) \in Nat
      /\ BeforeIndices(r) <= IF FromFile THEN Before + 3 ELSE Before
  BY <1>1 DEF BeforeIndices
<1>5. /\ argv' = argv /\ input' = input
      /\ UNCHANGED <<pos, bcasts, jobs, n_jobs, line, capacity, shuffled, timing>>
      /\ pc' = [pc EXCEPT ![r] =
             IF n_jobs[r] <= 0 THEN "exit1"
             ELSE IF ~SizesFit(r) THEN "exit0"
             ELSE IF r = Root /\ input.shuffle THEN "shuffle" ELSE "indices"]
      /\ job_indices' = [job_indices EXCEPT ![r] = IF r = Root THEN first
                                                   ELSE job_indices[r]]
  BY DEF Check, ovars
<1>6. first \in Seq(Nat) /\ Len(first) = n /\ \A k \in 1 .. n : first[k] = k - 1
  BY <1>1, Ascending
<1> HIDE DEF first
<1>7. /\ pc' \in [Rank -> PC] /\ pc'[r] \in {"exit1", "exit0", "shuffle", "indices"}
      /\ pc'[r] = "exit1" => n_jobs[r] = 0
      /\ pc'[r] = "exit0" => ~SizesFit(r)
      /\ pc'[r] \in {"shuffle", "indices"} => n_jobs[r] > 0 /\ SizesFit(r)
      /\ pc'[r] = "shuffle" => r = Root
      /\ \A q \in Rank \ {r} : pc'[q] = pc[q]
  BY <1>1, <1>5 DEF PC, Listed, Exits
<1>8. /\ job_indices' \in [Rank -> Seq(Nat)]
      /\ job_indices'[r] = IF r = Root THEN first ELSE job_indices[r]
      /\ \A q \in Rank \ {r} : job_indices'[q] = job_indices[q]
  BY <1>1, <1>5, <1>6
<1>9. Moves(r)
  BY <1>1, <1>5, <1>7, <1>8 DEF Moves
<1>10. ProcessInv(r)'
  <2>1. /\ BeforeIndices(r)' = BeforeIndices(r) /\ SizesFit(r)' = SizesFit(r)
        /\ CarriedList(jobs[Root])' = CarriedList(jobs[Root])
    BY <1>5, InputKept DEF BeforeIndices, SizesFit, CarriedList
  <2>2. Complete(r)'
    BY <1>3, <1>5, <2>1, InputKept DEF Complete
  <2>3. FoundOf(r)' /\ TimingOf(r)' /\ OrderOf(r)'
    BY <1>3, <1>5, <1>7, <2>1, InputKept DEF TimingOf, FoundOf, OrderOf, Exits, Listed
  <2>4. PositionOf(r)'
    BY <1>3, <1>4, <1>5, <1>7, <2>1, InputKept DEF PositionOf, Exits
  <2>5. ReasonOf(r)'
    BY <1>5, <1>7, <2>1, <2>2 DEF ReasonOf, Exits
  <2>6. ListOf(r)'
    BY <1>2, <1>5, <2>1, <2>2, InputKept DEF ListOf
  <2> QED
    BY <2>3, <2>4, <2>5, <2>6 DEF ProcessInv
<1>11. Types'
  <2>1. TimingMethod(argv, Uninitialized)' = TimingMethod(argv, Uninitialized)
    BY <1>5
  <2>2. PerRank(jobs)' /\ IsSequence(bcasts)' /\ pc' \in [Rank -> PC]
        /\ job_indices' \in [Rank -> Seq(Nat)]
    BY <1>5, <1>7, <1>8 DEF IInv, Types, PerRank, IsSequence
  <2>3. UNCHANGED <<argv, input, pos, n_jobs, line, capacity, shuffled, timing>> /\ Types
    BY <1>5 DEF IInv
  <2> QED
    BY <2>1, <2>2, <2>3 DEF Types
<1>12. Reading' /\ Shuffled'
  <2>1. CASE r = Root
    <3>1. /\ job_indices'[Root] = first /\ n_jobs'[Root] = n /\ jobs'[Root] = jobs[Root]
          /\ pc'[Root] \in {"exit1", "exit0", "shuffle", "indices"}
      BY <1>5, <1>7, <1>8, <2>1
    <3>2. \A m \in 0 .. n - 1 : m + 1 \in 1 .. n /\ first[m + 1] = m
      BY <1>1, <1>6
    <3>3. \A k \in 1 .. n : first[k] \in 0 .. n - 1
      BY <1>1, <1>6
    <3>4. Shuffled'
      BY <1>6, <3>1, <3>2, <3>3 DEF Shuffled
    <3>5. Reading'
      BY <1>1, <1>5, <2>1, <3>1, InputKept DEF Reading, IInv, Loaded, Listed, Exits
    <3> QED
      BY <3>4, <3>5
  <2>2. CASE r # Root
    <3>1. RootKeeps /\ pc'[Root] = pc[Root]
      BY <1>1, <1>5, <1>7, <1>8, <2>2 DEF RootKeeps
    <3> QED
      BY <1>5, <3>1, RootStays DEF Loaded, Listed, Exits
  <2> QED
    BY <2>1, <2>2
<1>13. Published'
  BY <1>3, <1>5, <1>9, NoBroadcast
<1> QED
  BY <1>9, <1>10, <1>11, <1>12, <1>13, Assembled

\* s has each of the numbers below n once.
Permuted(s, n) ==
    /\ s \in Seq(Nat) /\ Len(s) = n
    /\ \A k \in 1 .. n : s[k] \in 0 .. n - 1
    /\ \A m \in 0 .. n - 1 : \E k \in 1 .. n : s[k] = m

\* Swapping two elements keeps every element.
LEMMA Swapped ==
    ASSUME NEW n \in Nat, NEW a,
           NEW x \in 1 .. n, NEW y \in 1 .. n,
           Permuted(a, n)
    PROVE  Permuted([a EXCEPT ![x] = a[y], ![y] = a[x]], n)
<1> DEFINE b == [a EXCEPT ![x] = a[y], ![y] = a[x]]
<1>1. DOMAIN a = 1 .. n /\ a[x] \in Nat /\ a[y] \in Nat
  BY DEF Permuted
<1>2. b \in Seq(Nat) /\ Len(b) = n
  BY DEF Permuted
<1>3. /\ b[x] = a[y] /\ b[y] = a[x]
      /\ \A k \in 1 .. n : k # x /\ k # y => b[k] = a[k]
  BY <1>1
<1> HIDE DEF b
<1>4. \A k \in 1 .. n : b[k] \in 0 .. n - 1
  BY <1>3 DEF Permuted
<1>5. ASSUME NEW m \in 0 .. n - 1
      PROVE  \E k \in 1 .. n : b[k] = m
  <2>1. PICK k \in 1 .. n : a[k] = m
    BY DEF Permuted
  <2>2. CASE k = x
    BY <1>3, <2>1, <2>2
  <2>3. CASE k = y
    BY <1>3, <2>1, <2>3
  <2>4. CASE k # x /\ k # y
    BY <1>3, <2>1, <2>4
  <2> QED
    BY <2>2, <2>3, <2>4
<1> QED
  BY <1>2, <1>4, <1>5 DEF b, Permuted

LEMMA ShuffleStep ==
    ASSUME IInv, Shuffle, UNCHANGED ovars
    PROVE  IInv'
<1> DEFINE n == n_jobs[Root]
           a == job_indices[Root]
<1>1. /\ pc[Root] = "shuffle" /\ Root \in Rank /\ n \in Nat /\ shuffled \in Nat
      /\ shuffled < n - 1 /\ job_indices \in [Rank -> Seq(Nat)] /\ a \in Seq(Nat)
      /\ ProcessInv(Root)
  <2>1. job_indices \in [Rank -> Seq(Nat)] /\ shuffled \in Nat /\ pc[Root] = "shuffle"
        /\ shuffled < n - 1
    BY DEF Shuffle, IInv, Types
  <2> QED
    BY <2>1, Facts, RootIsRank
<1>2. PICK j \in shuffled .. n - 1 :
          job_indices' = [job_indices EXCEPT ![Root] =
              [a EXCEPT ![shuffled + 1] = a[j + 1], ![j + 1] = a[shuffled + 1]]]
  BY DEF Shuffle
<1> DEFINE b == [a EXCEPT ![shuffled + 1] = a[j + 1], ![j + 1] = a[shuffled + 1]]
<1>3. /\ Len(a) = n /\ \A k \in 1 .. n : a[k] \in 0 .. n - 1
      /\ \A m \in 0 .. n - 1 : \E k \in 1 .. n : a[k] = m
  BY <1>1 DEF IInv, Shuffled
<1>4. shuffled + 1 \in 1 .. n /\ j + 1 \in 1 .. n
  BY <1>1
<1>5. Permuted(b, n)
  <2> DEFINE x == shuffled + 1
             y == j + 1
  <2>1. n \in Nat /\ a \in Seq(Nat) /\ x \in 1 .. n /\ y \in 1 .. n
    BY <1>1, <1>4
  <2>2. b = [a EXCEPT ![x] = a[y], ![y] = a[x]] /\ Permuted(a, n)
    BY <1>1, <1>3 DEF Permuted
  <2> HIDE DEF a, n, b, x, y
  <2> QED
    BY <2>1, <2>2, Swapped
<1>6. job_indices' = [job_indices EXCEPT ![Root] = b]
  BY <1>2
<1> HIDE DEF b
<1>7. job_indices' \in [Rank -> Seq(Nat)] /\ job_indices'[Root] = b
      /\ \A q \in Rank \ {Root} : job_indices'[q] = job_indices[q]
  BY <1>1, <1>5, <1>6 DEF Permuted
<1>8. /\ UNCHANGED <<argv, timing, input, pc, pos, bcasts, jobs, n_jobs, line, capacity>>
      /\ shuffled' = shuffled + 1
  BY DEF Shuffle, ovars
<1>9. Moves(Root)
  BY <1>1, <1>7, <1>8 DEF Moves
<1>10. ProcessInv(Root)'
  BY <1>1, <1>8, InputKept
     DEF ProcessInv, PositionOf, FoundOf, ListOf, ReasonOf, OrderOf, TimingOf, SizesFit,
         BeforeIndices, Complete, CarriedList
<1>11. Types'
  <2>1. TimingMethod(argv, Uninitialized)' = TimingMethod(argv, Uninitialized)
    BY <1>8
  <2>2. PerRank(jobs)' /\ IsSequence(bcasts)' /\ shuffled' \in Nat
    BY <1>1, <1>8 DEF IInv, Types, PerRank, IsSequence
  <2>3. Types /\ UNCHANGED <<argv, timing, input, pc, pos, n_jobs, line, capacity>>
    BY <1>8 DEF IInv
  <2> QED
    BY <1>7, <2>1, <2>2, <2>3 DEF Types
<1>12. Reading'
  BY <1>8 DEF IInv, Reading, FromFile
<1>13. Shuffled'
  BY <1>5, <1>7, <1>8 DEF Shuffled, Permuted
<1>14. Published'
  BY <1>1, <1>8, <1>9, NoBroadcast DEF ProcessInv, PositionOf
<1> QED
  BY <1>1, <1>9, <1>10, <1>11, <1>12, <1>13, <1>14, Assembled

LEMMA EndShuffleStep ==
    ASSUME IInv, EndShuffle, UNCHANGED ovars
    PROVE  IInv'
<1>1. /\ pc[Root] = "shuffle" /\ Root \in Rank /\ pc \in [Rank -> PC] /\ ProcessInv(Root)
      /\ pc' = [pc EXCEPT ![Root] = "indices"]
      /\ UNCHANGED <<argv, timing, input, pos, bcasts, jobs, n_jobs, job_indices, line,
                     capacity, shuffled>>
  BY Facts, RootIsRank DEF EndShuffle, ovars, IInv, Types
<1>2. /\ pc' \in [Rank -> PC] /\ pc'[Root] = "indices"
      /\ \A q \in Rank \ {Root} : pc'[q] = pc[q]
  BY <1>1 DEF PC, Listed
<1>3. Moves(Root) /\ RootKeeps
  BY <1>1, <1>2 DEF Moves, RootKeeps
<1>4. ProcessInv(Root)'
  BY <1>1, <1>2, InputKept
     DEF ProcessInv, PositionOf, FoundOf, ListOf, ReasonOf, OrderOf, TimingOf, SizesFit,
         BeforeIndices, Complete, CarriedList, Listed, Exits
<1>5. Types'
  <2>1. TimingMethod(argv, Uninitialized)' = TimingMethod(argv, Uninitialized)
    BY <1>1
  <2> QED
    BY <1>1, <1>2, <2>1 DEF IInv, Types, PerRank, IsSequence
<1>6. Reading' /\ Shuffled'
  BY <1>1, <1>2, <1>3, RootStays DEF Loaded, Listed, Exits
<1>7. Published'
  BY <1>1, <1>3, NoBroadcast
<1> QED
  BY <1>1, <1>3, <1>4, <1>5, <1>6, <1>7, Assembled

-----------------------------------------------------------------------------
(* The invariant holds. *)

LEMMA InitInv == Init => IInv
<1> SUFFICES ASSUME Init PROVE IInv
  OBVIOUS
<1> USE DEF Init, InitJobList
<1>1. Root \in Rank /\ Before \in {0, 1}
  BY RootIsRank
<1>2. IsSequence(bcasts) /\ PerRank(jobs) /\ Len(bcasts) = 0 /\ <<>> \in Seq(Nat)
      /\ <<>> \in Seq(Jobs)
  BY DEF IsSequence, PerRank
<1>3. Types
  BY <1>2 DEF Types, PC
<1>4. ASSUME NEW r \in Rank
      PROVE  ProcessInv(r)
  <2>1. pc[r] = "common" /\ pos[r] = 0 /\ timing[r] = Uninitialized
    OBVIOUS
  <2>2. PositionOf(r) /\ FoundOf(r) /\ ReasonOf(r) /\ OrderOf(r) /\ TimingOf(r)
    BY <2>1 DEF PositionOf, FoundOf, ReasonOf, OrderOf, TimingOf, Exits, Listed
  <2>3. ListOf(r)
    BY <1>1, <2>1 DEF ListOf, Listed
  <2> QED
    BY <2>2, <2>3 DEF ProcessInv
<1>5. Reading /\ Shuffled
  BY <1>1, <1>2 DEF Reading, Shuffled
<1>6. Published
  BY <1>1, <1>2 DEF Published
<1> QED
  BY <1>3, <1>4, <1>5, <1>6 DEF IInv

LEMMA UnchangedInv == IInv /\ UNCHANGED allvars => IInv'
<1> SUFFICES ASSUME IInv, UNCHANGED allvars PROVE IInv'
  OBVIOUS
<1> USE DEF allvars, vars, ovars
<1>1. Types' /\ Reading' /\ Shuffled' /\ Published'
  <2>1. Types'
    BY DEF IInv, Types, PerRank, IsSequence
  <2>2. Reading' /\ Shuffled'
    BY DEF IInv, Reading, Shuffled, FromFile
  <2>3. \A k : Made(k)' = Made(k)
    BY MadeKept DEF RootKeeps
  <2>4. Published'
    BY <2>3 DEF IInv, Published
  <2> QED
    BY <2>1, <2>2, <2>4
<1>2. ASSUME NEW r \in Rank
      PROVE  ProcessInv(r)'
  <2>1. ProcessInv(r)
    BY DEF IInv
  <2>2. BeforeIndices(r)' = BeforeIndices(r) /\ SizesFit(r)' = SizesFit(r)
        /\ CarriedList(jobs[Root])' = CarriedList(jobs[Root])
    BY InputKept DEF BeforeIndices, SizesFit, CarriedList
  <2>3. Complete(r)' = Complete(r)
    BY <2>2, InputKept DEF Complete
  <2> QED
    BY <2>1, <2>2, <2>3, InputKept
       DEF ProcessInv, PositionOf, FoundOf, ListOf, ReasonOf, OrderOf, TimingOf
<1> QED
  BY <1>1, <1>2 DEF IInv

LEMMA NextInv == IInv /\ [Next]_allvars => IInv'
<1> SUFFICES ASSUME IInv, [Next]_allvars PROVE IInv'
  OBVIOUS
<1>1. CASE RootStep /\ UNCHANGED ovars
  BY <1>1, OpenFileStep, ReadJobStep, SkipLineStep, EndReadStep, ShuffleStep,
     EndShuffleStep DEF RootStep
<1>2. ASSUME NEW r \in Rank, Step(r), UNCHANGED ovars
      PROVE  IInv'
  BY <1>2, BcastErrorStep, BcastNumberStep, BcastJobsStep, BuildListStep, CheckStep,
     BcastIndicesStep DEF Step
<1>3. ASSUME NEW r \in Rank, ParseStep(r)
      PROVE  IInv'
  BY <1>3, ParseCommonStep, BcastOutputErrorStep, InitModulesStep DEF ParseStep
<1>4. CASE Finished \/ UNCHANGED allvars
  BY <1>4, UnchangedInv DEF Finished, allvars
<1> QED
  BY <1>1, <1>2, <1>3, <1>4 DEF Next

LEMMA Invariant == Spec => []IInv
<1>1. Init => IInv
  BY InitInv
<1>2. IInv /\ [Next]_allvars => IInv'
  BY NextInv
<1> QED
  BY <1>1, <1>2, PTL DEF Spec, allvars

-----------------------------------------------------------------------------
(* What follows from it. *)

\* read_input_jobs never writes beyond its array, whatever the size of a batch
\* and the number of lines.
THEOREM ArrayHasRoom == Spec => []RoomForNextJob
<1>1. IInv => RoomForNextJob
  BY DEF IInv, Reading, RoomForNextJob
<1> QED
  BY <1>1, Invariant, PTL

\* Whatever the command line and the file, a process that waits for a broadcast
\* waits for the one that the root has made or will make next: MPI can match
\* the collective operations of the start on every path, errors included.
THEOREM CollectivesStayMatched == Spec => []CollectivesMatch
<1>1. ASSUME IInv, NEW r \in Rank, pc[r] \in Waits, pos[r] < Len(bcasts)
      PROVE  bcasts[pos[r] + 1].kind = pc[r]
  <2>1. /\ ProcessInv(r) /\ pos[r] \in Nat /\ Len(bcasts) \in Nat
        /\ Before \in {0, 1} /\ n_jobs[r] \in Nat
    BY <1>1, Facts DEF IInv, Published
  <2>2. bcasts[pos[r] + 1] = Made(pos[r] + 1)
    BY <1>1, <2>1 DEF IInv, Published
  <2>3. PositionOf(r) /\ FoundOf(r)
    BY <2>1 DEF ProcessInv
  <2>4. CASE pc[r] = "output"
    BY <2>2, <2>3, <2>4 DEF PositionOf, FoundOf, Made, Before
  <2>5. CASE pc[r] \in {"error", "number", "jobs"}
    BY <2>1, <2>2, <2>3, <2>5 DEF PositionOf, FoundOf, Made
  <2>6. CASE pc[r] = "indices"
    BY <1>1, <2>2, <2>6, IndicesReceived
  <2> QED
    BY <1>1, <2>4, <2>5, <2>6 DEF Waits
<1>2. IInv => CollectivesMatch
  BY <1>1 DEF CollectivesMatch
<1> QED
  BY <1>2, Invariant, PTL

\* When the root is done, a complete list is the root's.
LEMMA SameList ==
    ASSUME IInv, NEW r \in Rank, pc[Root] = "ready", Complete(r)
    PROVE  /\ n_jobs[r] = n_jobs[Root] /\ n_jobs[r] > 0
           /\ \/ jobs[r] = jobs[Root]
              \/ /\ jobs[r] = CarriedList(jobs[Root]) /\ jobs[Root] \in Seq(Jobs)
                 /\ n_jobs[Root] = Len(jobs[Root])
<1>1. /\ ProcessInv(r) /\ ProcessInv(Root) /\ Before \in {0, 1} /\ pos[r] \in Nat
      /\ n_jobs[r] \in Nat /\ n_jobs[Root] \in Nat
  BY Facts, RootIsRank
<1>2. ListOf(r) /\ ListOf(Root) /\ FoundOf(Root) /\ n_jobs[Root] > 0
  BY <1>1 DEF ProcessInv, FoundOf
<1>3. CASE FromFile
  <2>1. pos[r] >= Before + 2 /\ n_jobs[r] = n_jobs[Root]
    BY <1>1, <1>2, <1>3 DEF Complete, BeforeIndices, ListOf
  <2>2. pos[r] >= Before + 3
    BY <1>1, <1>2, <1>3, <2>1 DEF Complete, BeforeIndices
  <2>3. r = Root \/ jobs[r] = CarriedList(jobs[Root])
    BY <1>2, <1>3, <2>2 DEF ListOf
  <2>4. input.file # Unreadable
    BY <1>2, <1>3 DEF FoundOf, Listed
  <2>5. jobs[Root] \in Seq(Jobs) /\ n_jobs[Root] = Len(jobs[Root])
    BY <1>3, <2>4 DEF IInv, Reading, Loaded, Listed
  <2> QED
    BY <1>2, <2>1, <2>3, <2>5
<1>4. CASE ~FromFile
  BY <1>2, <1>4 DEF Complete, ListOf, Listed
<1> QED
  BY <1>3, <1>4

LEMMA JobsCarried ==
    /\ \A j \in Jobs : Carried(j).msize = j.msize /\ Carried(Carried(j)) = Carried(j)
<1> SUFFICES ASSUME NEW j \in Jobs
             PROVE  Carried(j).msize = j.msize /\ Carried(Carried(j)) = Carried(j)
  OBVIOUS
<1>1. Half \in Nat \ {0} /\ j.n_rep \in Int
  BY SizesAssumption DEF Jobs
<1> DEFINE n == j.n_rep % Half
<1>2. n \in 0 .. Half - 1 /\ n % Half = n
  BY <1>1
<1> HIDE DEF n
<1>3. Carried(j) = [j EXCEPT !.n_rep = n]
  BY DEF Carried, n
<1>4. j = [call |-> j.call, msize |-> j.msize, n_rep |-> j.n_rep]
  BY DEF Jobs
<1>5. Carried(j) = [call |-> j.call, msize |-> j.msize, n_rep |-> n]
  BY <1>3, <1>4
<1>6. Carried(Carried(j)) = [Carried(j) EXCEPT !.n_rep = Carried(j).n_rep % Half]
  BY DEF Carried
<1>7. Carried(j).n_rep = n /\ Carried(j).msize = j.msize
  BY <1>5
<1>8. Carried(Carried(j)) = [call |-> j.call, msize |-> j.msize, n_rep |-> n]
  BY <1>2, <1>5, <1>6, <1>7
<1> QED
  BY <1>5, <1>7, <1>8

\* Then all make the same of their lists.
LEMMA SameUse ==
    ASSUME IInv, NEW r \in Rank, pc[Root] = "ready", Complete(r)
    PROVE  /\ SizesFit(r)
           /\ pc[r] = "ready" => Schedule(r) = Schedule(Root)
<1>1. /\ ProcessInv(Root) /\ ProcessInv(r) /\ n_jobs[Root] \in Nat
      /\ job_indices[Root] \in Seq(Nat)
  BY Facts, RootIsRank
<1>2. SizesFit(Root)
  BY <1>1 DEF ProcessInv, FoundOf
<1>3. pc[r] = "ready" => job_indices[r] = job_indices[Root]
  BY <1>1 DEF ProcessInv, OrderOf
<1>4. CASE jobs[r] = jobs[Root]
  BY <1>2, <1>3, <1>4 DEF SizesFit, Schedule
<1>5. CASE /\ jobs[r] = CarriedList(jobs[Root]) /\ jobs[Root] \in Seq(Jobs)
           /\ n_jobs[Root] = Len(jobs[Root])
  <2>1. /\ DOMAIN jobs[r] = DOMAIN jobs[Root] /\ DOMAIN jobs[Root] = 1 .. n_jobs[Root]
        /\ \A k \in DOMAIN jobs[Root] : /\ jobs[Root][k] \in Jobs
                                       /\ jobs[r][k] = Carried(jobs[Root][k])
    BY <1>5 DEF CarriedList
  <2>2. SizesFit(r)
    BY <1>2, <2>1, JobsCarried DEF SizesFit
  <2>3. \A k \in DOMAIN job_indices[Root] :
            job_indices[Root][k] + 1 \in DOMAIN jobs[Root]
    <3>1. /\ Len(job_indices[Root]) = n_jobs[Root]
          /\ \A k \in 1 .. n_jobs[Root] : job_indices[Root][k] \in 0 .. n_jobs[Root] - 1
      BY DEF IInv, Shuffled
    <3>2. DOMAIN job_indices[Root] = 1 .. n_jobs[Root]
      BY <1>1, <3>1
    <3> QED
      BY <1>1, <2>1, <3>1, <3>2
  <2>4. ASSUME pc[r] = "ready"
        PROVE  Schedule(r) = Schedule(Root)
    <3>1. \A k \in DOMAIN job_indices[Root] :
              Carried(jobs[r][job_indices[Root][k] + 1])
                  = Carried(jobs[Root][job_indices[Root][k] + 1])
      BY <2>1, <2>3, JobsCarried
    <3> QED
      BY <1>3, <2>4, <3>1 DEF Schedule
  <2> QED
    BY <2>2, <2>4
<1> QED
  BY <1>4, <1>5, SameList

\* Processes that come to the measurements have the same schedule, which has
\* every job once, and no process of them exits, for any files, whatever the
\* shuffling makes of the order.
THEOREM SchedulesAreSame == Spec => []SameSchedule
<1>1. ASSUME IInv, NEW p \in Rank, NEW q \in Rank, pc[p] = "ready"
      PROVE  /\ pc[q] \notin Exits
             /\ ToSet(job_indices[p]) = 0 .. n_jobs[p] - 1
             /\ Len(job_indices[p]) = n_jobs[p]
             /\ pc[q] = "ready" => Schedule(p) = Schedule(q)
  <2>1. /\ ProcessInv(p) /\ ProcessInv(q) /\ ProcessInv(Root) /\ n_jobs[Root] \in Nat
        /\ job_indices[Root] \in Seq(Nat) /\ n_jobs[q] \in Nat
    BY <1>1, Facts, RootIsRank
  <2>2. /\ pc[Root] = "ready" /\ job_indices[p] = job_indices[Root] /\ Complete(p)
        /\ pc[q] = "ready" => Complete(q)
    BY <1>1, <2>1 DEF ProcessInv, OrderOf, ListOf, Listed
  <2>3. pc[q] \notin Exits
    <3>1. /\ ~CommonRejected(argv, NP) /\ ~ModulesRejected /\ ~(WithOutput /\ OutputFails)
          /\ FromFile => input.file # Unreadable
      BY <2>1, <2>2 DEF ProcessInv, FoundOf, Listed, Exits
    <3>2. Complete(q) => n_jobs[q] > 0 /\ SizesFit(q)
      BY <1>1, <2>2, SameList, SameUse
    <3> QED
      BY <2>1, <3>1, <3>2 DEF ProcessInv, ReasonOf
  <2>4. n_jobs[p] = n_jobs[Root]
    BY <1>1, <2>2, SameList
  <2>5. /\ Len(job_indices[Root]) = n_jobs[Root]
        /\ \A k \in 1 .. n_jobs[Root] : job_indices[Root][k] \in 0 .. n_jobs[Root] - 1
        /\ \A n \in 0 .. n_jobs[Root] - 1 :
               \E k \in 1 .. n_jobs[Root] : job_indices[Root][k] = n
    BY <1>1, <2>2 DEF IInv, Shuffled
  <2>6. ToSet(job_indices[Root]) = 0 .. n_jobs[Root] - 1
    <3> DEFINE s == job_indices[Root]
               n == n_jobs[Root]
    <3>1. DOMAIN s = 1 .. n
      BY <2>1, <2>5
    <3>2. ToSet(s) = {s[k] : k \in 1 .. n}
      BY <3>1 DEF ToSet
    <3>3. \A x \in {s[k] : k \in 1 .. n} : x \in 0 .. n - 1
      BY <2>5
    <3>4. \A x \in 0 .. n - 1 : x \in {s[k] : k \in 1 .. n}
      BY <2>5
    <3> QED
      BY <3>2, <3>3, <3>4
  <2>7. pc[q] = "ready" => Schedule(p) = Schedule(q)
    BY <1>1, <2>2, SameUse
  <2> QED
    BY <2>2, <2>3, <2>4, <2>5, <2>6, <2>7
<1>2. IInv => SameSchedule
  BY <1>1 DEF SameSchedule
<1> QED
  BY <1>2, Invariant, PTL

\* The timing method is defined, and the same for all, whenever a process comes
\* to the measurements: every command line without a timing option that gets
\* that far has another option.
THEOREM TimingIsSet == Spec => []TimingMethodSet
<1>1. ASSUME IInv, NEW p \in Rank, pc[p] = "ready"
      PROVE  /\ timing[p] = TimingMethod(argv, Uninitialized)
             /\ TimingMethod(argv, Uninitialized) # Uninitialized
  <2>1. timing[p] = TimingMethod(argv, Uninitialized) /\ ~CommonRejected(argv, NP)
        /\ ~ModulesRejected
    BY <1>1, Facts DEF ProcessInv, TimingOf, FoundOf, Exits
  <2>2. Len(argv) \in Nat /\ DOMAIN argv = 1 .. Len(argv)
    BY <1>1, CommandLinesAssumption DEF IInv, Types
  <2>3. Args(argv, "input-file") # {} \/ Args(argv, "calls-list") # {}
    BY <2>1 DEF CommonRejected
  <2>4. DOMAIN argv # {}
    BY <2>3 DEF Args
  <2>5. argv # <<>> /\ Len(argv) \in DOMAIN argv
    BY <2>2, <2>4
  <2> DEFINE last == argv[Len(argv)]
  <2>6. SX!Last(argv) = last
    BY DEF SX!Last
  <2>7. last.name = "runtime-type" => last.arg \in RuntimeTypes
    <3>1. last.name = "runtime-type" => last.arg \in Args(argv, "runtime-type")
      BY <2>5 DEF Args
    <3> QED
      BY <2>1, <3>1 DEF ModulesRejected, RuntimeRejected
  <2>8. "local" \in RuntimeTypes
    BY DEF RuntimeTypes
  <2> HIDE DEF last
  <2>9. TimingMethod(argv, Uninitialized) \in RuntimeTypes
    BY <2>5, <2>6, <2>7, <2>8 DEF TimingMethod
  <2> QED
    BY <2>1, <2>9, UninitializedAssumption
<1>2. IInv => TimingMethodSet
  BY <1>1 DEF TimingMethodSet
<1> QED
  BY <1>2, Invariant, PTL
=============================================================================
