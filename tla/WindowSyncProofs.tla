-------------------------- MODULE WindowSyncProofs --------------------------
(***************************************************************************)
(* Proofs about window-based synchronisation (WindowSync) and the results  *)
(* it leads to (Output), for any number of processes, any jobs, any window *)
(* size and any clock errors: the windows agree, flags are filed under the *)
(* right repetition, what the summary keeps was measured within its        *)
(* window, and the verbose rows say what was measured.                     *)
(***************************************************************************)
EXTENDS WindowSync, FiniteSetTheorems, WellFoundedInduction, TLAPS

-----------------------------------------------------------------------------
(* The invariant. *)

PC == InLoop \cup {"init_job", "init_round", "report", "collect", "done"}
InJob == PC \ {"init_job", "done"}
Flags == {FLAG_START_TIME_HAS_PASSED, FLAG_SYNC_WIN_EXPIRED}

\* s is a sequence, and f an array indexed by the ranks, of anything.
IsSequence(s) == s \in Seq({s[k] : k \in 1 .. Len(s)})
PerRank(f) == f = [r \in Rank |-> f[r]]

Types ==
    /\ now \in Nat /\ report \in Report
    /\ pc \in [Rank -> PC] /\ job \in [Rank -> Nat \ {0}]
    /\ i \in [Rank -> Nat] /\ repetition_counter \in [Rank -> Nat]
    /\ start_sync \in [Rank -> Int] /\ err \in [Rank -> Nat]
    /\ sent \in Seq(Int)
    /\ PerRank(invalid) /\ PerRank(tstart) /\ PerRank(tend) /\ PerRank(posted)
    /\ \A r \in Rank : IsSequence(posted[r])
    /\ IsSequence(summary) /\ IsSequence(results)

\* Where a process can be with which indices.
ControlOf(r) ==
    /\ IF pc[r] = "done" THEN job[r] = NJobs + 1 ELSE job[r] <= NJobs
    /\ pc[r] = "init_round" => i[r] = 0 /\ repetition_counter[r] = 0
    /\ pc[r] \in InLoop => repetition_counter[r] = i[r] /\ i[r] < NReps[job[r]]
    /\ pc[r] \in {"report", "collect"} => i[r] = NReps[job[r]]
    /\ pc[r] = "collect" => r = Master

\* The start of the first window is broadcast once for each job, and everybody
\* derives the later ones from it.
Broadcasts ==
    Len(sent) = IF pc[Master] \in {"init_job", "init_round", "done"}
                THEN job[Master] - 1 ELSE job[Master]
WindowOf(r) ==
    /\ pc[r] \in InLoop \cup {"report", "collect"} => job[r] <= Len(sent)
    /\ pc[r] \in InLoop => start_sync[r] = sent[job[r]] + i[r] * WindowSize

\* The arrays of process r for its job.
ArraysOf(r) ==
    pc[r] \in InJob =>
        /\ invalid[r] \in [Rep(job[r]) -> SUBSET Flags]
        /\ tstart[r] \in [Rep(job[r]) -> Int] /\ tend[r] \in [Rep(job[r]) -> Int]

\* A measurement never begins before its window, and ends within it unless it
\* is flagged.
Within(start, k, e, from, to, expired) ==
    /\ start + k * WindowSize <= from + e /\ from <= to
    /\ ~expired => to + e <= start + (k + 1) * WindowSize

\* The finished measurements of process r in its job, and the one it is making.
FinishedOf(r) ==
    pc[r] \in InLoop \cup {"report", "collect"} =>
        \A k \in Rep(job[r]) : k < i[r] =>
            Within(sent[job[r]], k, err[r], tstart[r][k], tend[r][k],
                   FLAG_SYNC_WIN_EXPIRED \in invalid[r][k])
CurrentOf(r) ==
    /\ pc[r] = "call" => start_sync[r] <= now + err[r]
    /\ pc[r] \in {"in_call", "stop"} =>
           start_sync[r] <= tstart[r][i[r]] + err[r] /\ tstart[r][i[r]] <= now
    /\ pc[r] = "stop" => tstart[r][i[r]] <= tend[r][i[r]] /\ tend[r][i[r]] <= now

\* What process r has contributed to the output of job j.
Contributed(r, j) ==
    LET m == Measured(r, j)
    IN  /\ posted[r][j] = [measured |-> m, calls |-> Calls(m, NReps[j], report)]
        /\ m.err \in Nat
        /\ m.codes \in [Rep(j) -> 0 .. 3]
        /\ m.tstart \in [Rep(j) -> Int] /\ m.tend \in [Rep(j) -> Int]
        /\ j <= Len(sent)
        /\ \A k \in Rep(j) :
               Within(sent[j], k, m.err, m.tstart[k], m.tend[k], m.codes[k] # 0)
PostedOf(r) ==
    /\ Len(posted[r]) = IF pc[r] = "collect" THEN job[r] ELSE job[r] - 1
    /\ \A j \in 1 .. Len(posted[r]) : Contributed(r, j)

\* What the root has printed for job j.
Contributions(j) == [q \in Rank |-> posted[q][j].calls]
Printed ==
    /\ Len(summary) = job[Master] - 1 /\ Len(results) = job[Master] - 1
    /\ \A j \in 1 .. Len(summary) :
           /\ \A q \in Rank : Len(posted[q]) >= j
           /\ summary[j] = SummaryPrinted(Contributions(j), NReps[j], report)
           /\ results[j] = ResultsPrinted(Contributions(j), NReps[j], report)

ProcessInv(r) == /\ ControlOf(r) /\ WindowOf(r) /\ ArraysOf(r)
                 /\ FinishedOf(r) /\ CurrentOf(r) /\ PostedOf(r)

IInv == Types /\ Broadcasts /\ (\A r \in Rank : ProcessInv(r)) /\ Printed

-----------------------------------------------------------------------------
(* Sequences and numbers. *)

LEMMA Appended ==
    ASSUME NEW s, IsSequence(s), NEW e
    PROVE  /\ IsSequence(Append(s, e))
           /\ Len(s) \in Nat /\ Len(Append(s, e)) = Len(s) + 1
           /\ Append(s, e)[Len(s) + 1] = e
           /\ \A k \in 1 .. Len(s) : Append(s, e)[k] = s[k]
<1> DEFINE t == Append(s, e)
           S == {s[k] : k \in 1 .. Len(s)} \cup {e}
<1>1. s \in Seq(S) /\ e \in S
  BY DEF IsSequence
<1> HIDE DEF S
<1>2. t \in Seq(S) /\ Len(s) \in Nat /\ Len(t) = Len(s) + 1
  BY <1>1
<1>3. t[Len(s) + 1] = e /\ \A k \in 1 .. Len(s) : t[k] = s[k]
  BY <1>1
<1>4. t \in Seq({t[k] : k \in 1 .. Len(t)})
  BY <1>2
<1> QED
  BY <1>2, <1>3, <1>4 DEF IsSequence

LEMMA Counts ==
    /\ NP \in Nat \ {0} /\ Master \in Rank /\ NJobs \in Nat
    /\ \A j \in 1 .. NJobs : NReps[j] \in Nat \ {0}
    /\ WindowSize \in Nat \ {0} /\ WaitTime \in Nat \ {0}
  BY NPAssumption, NRepsAssumption, TimesAssumption DEF Master, Rank, NJobs

LEMMA Facts ==
    ASSUME IInv, NEW r \in Rank
    PROVE  /\ now \in Nat /\ pc[r] \in PC /\ job[r] \in Nat \ {0}
           /\ i[r] \in Nat /\ repetition_counter[r] \in Nat
           /\ start_sync[r] \in Int /\ err[r] \in Nat
           /\ sent \in Seq(Int) /\ Len(sent) \in Nat
           /\ \A j \in 1 .. Len(sent) : sent[j] \in Int
           /\ pc[r] # "done" => job[r] \in 1 .. NJobs /\ NReps[job[r]] \in Nat \ {0}
           /\ ProcessInv(r)
<1>1. /\ now \in Nat /\ pc[r] \in PC /\ job[r] \in Nat \ {0}
      /\ i[r] \in Nat /\ repetition_counter[r] \in Nat
      /\ start_sync[r] \in Int /\ err[r] \in Nat /\ sent \in Seq(Int)
  BY DEF IInv, Types
<1>2. ControlOf(r) /\ ProcessInv(r)
  BY DEF IInv, ProcessInv
<1>3. pc[r] # "done" => job[r] \in 1 .. NJobs
  BY <1>1, <1>2, Counts DEF ControlOf
<1> QED
  BY <1>1, <1>2, <1>3, Counts

\* Times of the windows are numbers.
LEMMA WindowTimes ==
    ASSUME NEW k \in Int
    PROVE  /\ k * WindowSize \in Int /\ (k + 1) * WindowSize = k * WindowSize + WindowSize
           /\ 0 * WindowSize = 0
  BY Counts

-----------------------------------------------------------------------------
(* What a step leaves alone. *)

LaterOrSame == now' \in Nat /\ now <= now' /\ report' = report
SentExtends == sent' \in Seq(Int) /\ Len(sent) <= Len(sent')
               /\ \A j \in 1 .. Len(sent) : sent'[j] = sent[j]
Unchanged(q) == /\ pc'[q] = pc[q] /\ job'[q] = job[q] /\ i'[q] = i[q]
                /\ repetition_counter'[q] = repetition_counter[q]
                /\ start_sync'[q] = start_sync[q] /\ err'[q] = err[q]
                /\ invalid'[q] = invalid[q]
                /\ tstart'[q] = tstart[q] /\ tend'[q] = tend[q]
                /\ posted'[q] = posted[q]

\* What a process has contributed to the output of a job stays.
LEMMA ContributedStays ==
    ASSUME NEW q \in Rank, NEW j \in Nat \ {0}, Contributed(q, j), SentExtends, LaterOrSame,
           posted'[q][j] = posted[q][j], Len(sent) \in Nat
    PROVE  Contributed(q, j)'
<1>1. Measured(q, j)' = Measured(q, j) /\ report' = report
  BY DEF Measured, LaterOrSame
<1>2. sent'[j] = sent[j] /\ j <= Len(sent')
  BY DEF Contributed, SentExtends
<1> QED
  BY <1>1, <1>2 DEF Contributed

LEMMA Others ==
    ASSUME IInv, NEW q \in Rank, LaterOrSame, SentExtends, Unchanged(q)
    PROVE  ProcessInv(q)'
<1>1. /\ ProcessInv(q) /\ Len(sent) \in Nat /\ job[q] \in Nat \ {0} /\ now \in Nat
      /\ err[q] \in Nat /\ start_sync[q] \in Int /\ pc[q] \in PC
  BY Facts
<1>2. ControlOf(q)'
  BY <1>1 DEF Unchanged, ProcessInv, ControlOf
<1>3. WindowOf(q)'
  BY <1>1 DEF Unchanged, ProcessInv, WindowOf, SentExtends
<1>4. ArraysOf(q)'
  BY <1>1 DEF Unchanged, ProcessInv, ArraysOf
<1>5. FinishedOf(q)'
  <2>1. pc[q] \in InLoop \cup {"report", "collect"} => sent'[job[q]] = sent[job[q]]
    BY <1>1 DEF ProcessInv, WindowOf, SentExtends
  <2> QED
    BY <1>1, <2>1 DEF Unchanged, ProcessInv, FinishedOf
<1>6. CurrentOf(q)'
  <2>1. pc[q] = "call" => start_sync[q] <= now' + err[q]
    BY <1>1 DEF ProcessInv, CurrentOf, LaterOrSame
  <2>2. pc[q] \in {"in_call", "stop"} => tstart[q][i[q]] \in Int
    BY <1>1, Facts DEF ProcessInv, ControlOf, ArraysOf, InJob, InLoop, PC, Rep
  <2>3. pc[q] = "stop" => tend[q][i[q]] \in Int
    BY <1>1, Facts DEF ProcessInv, ControlOf, ArraysOf, InJob, InLoop, PC, Rep
  <2>4. pc[q] \in {"in_call", "stop"} =>
            start_sync[q] <= tstart[q][i[q]] + err[q] /\ tstart[q][i[q]] <= now'
    BY <1>1, <2>2 DEF ProcessInv, CurrentOf, LaterOrSame
  <2>5. pc[q] = "stop" => tstart[q][i[q]] <= tend[q][i[q]] /\ tend[q][i[q]] <= now'
    BY <1>1, <2>3 DEF ProcessInv, CurrentOf, LaterOrSame
  <2> QED
    BY <2>1, <2>4, <2>5 DEF Unchanged, CurrentOf
<1>7. PostedOf(q)'
  <2>1. \A j \in 1 .. Len(posted[q]) : Contributed(q, j)'
    <3> SUFFICES ASSUME NEW j \in 1 .. Len(posted[q])
                 PROVE  Contributed(q, j)'
      OBVIOUS
    <3>1. Len(posted[q]) = IF pc[q] = "collect" THEN job[q] ELSE job[q] - 1
      BY <1>1 DEF ProcessInv, PostedOf
    <3>2. j \in Nat \ {0}
      BY <1>1, <3>1
    <3>3. Contributed(q, j)
      BY <1>1 DEF ProcessInv, PostedOf
    <3> QED
      BY <1>1, <3>2, <3>3, ContributedStays DEF Unchanged
  <2> QED
    BY <1>1, <2>1 DEF Unchanged, ProcessInv, PostedOf
<1> QED
  BY <1>2, <1>3, <1>4, <1>5, <1>6, <1>7 DEF ProcessInv

\* The root prints nothing, and what has been contributed stays.
LEMMA PrintedStays ==
    ASSUME IInv, UNCHANGED <<printed, report>>, job'[Master] = job[Master],
           \A q \in Rank : /\ Len(posted[q]) <= Len(posted'[q]) /\ Len(posted'[q]) \in Nat
                           /\ \A j \in 1 .. Len(posted[q]) : posted'[q][j] = posted[q][j]
    PROVE  Printed'
<1>1. /\ summary' = summary /\ results' = results /\ report' = report
  BY DEF printed
<1>2. ASSUME NEW j \in 1 .. Len(summary)
      PROVE  /\ \A q \in Rank : Len(posted'[q]) >= j
             /\ Contributions(j)' = Contributions(j)
  <2>1. \A q \in Rank : Len(posted[q]) >= j
    BY DEF IInv, Printed
  <2>2. j \in Nat \ {0}
    <3>1. job[Master] \in Nat \ {0}
      BY Facts, Counts
    <3> QED
      BY <3>1 DEF IInv, Printed
  <2>3. \A q \in Rank : Len(posted[q]) \in Nat
    BY Facts, Counts DEF IInv, ProcessInv, PostedOf
  <2>4. \A q \in Rank : posted'[q][j] = posted[q][j]
    BY <2>1, <2>2, <2>3
  <2>5. \A q \in Rank : Len(posted'[q]) >= j
    BY <2>1, <2>2, <2>3
  <2> QED
    BY <2>4, <2>5 DEF Contributions
<1> QED
  BY <1>1, <1>2 DEF IInv, Printed

LEMMA PostedStays ==
    ASSUME IInv, NEW r \in Rank, LaterOrSame, SentExtends, posted'[r] = posted[r],
           job'[r] = job[r], pc[r] # "collect", pc'[r] # "collect"
    PROVE  PostedOf(r)'
<1>1. PostedOf(r) /\ Len(sent) \in Nat /\ job[r] \in Nat \ {0}
  BY Facts DEF ProcessInv
<1>2. Len(posted[r]) = job[r] - 1
  BY <1>1 DEF PostedOf
<1>3. \A j \in 1 .. Len(posted[r]) : Contributed(r, j)'
  <2> SUFFICES ASSUME NEW j \in 1 .. Len(posted[r])
               PROVE  Contributed(r, j)'
    OBVIOUS
  <2>1. j \in Nat \ {0} /\ Contributed(r, j)
    BY <1>1, <1>2 DEF PostedOf
  <2> QED
    BY <1>1, <2>1, ContributedStays
<1> QED
  BY <1>2, <1>3 DEF PostedOf

LEMMA StepOf ==
    ASSUME IInv, NEW r \in Rank, Types', LaterOrSame, SentExtends,
           \A q \in Rank \ {r} : Unchanged(q),
           ProcessInv(r)', Broadcasts', Printed'
    PROVE  IInv'
<1>1. \A q \in Rank : ProcessInv(q)'
  BY Others
<1> QED
  BY <1>1 DEF IInv

\* Nothing has been sent or printed by a step.
LEMMA SilentStep ==
    ASSUME IInv, NEW r \in Rank, UNCHANGED <<now, sent, posted, report, printed>>,
           job'[r] = job[r], \A q \in Rank \ {r} : Unchanged(q)
    PROVE  LaterOrSame /\ SentExtends /\ Printed'
<1>1. now \in Nat /\ sent \in Seq(Int) /\ Len(sent) \in Nat
  BY Facts
<1>2. LaterOrSame /\ SentExtends
  BY <1>1 DEF LaterOrSame, SentExtends
<1>3. \A q \in Rank : Len(posted[q]) \in Nat
  BY Facts DEF IInv, ProcessInv, PostedOf
<1>4. job'[Master] = job[Master]
  BY Counts DEF Unchanged
<1>5. Printed'
  BY <1>3, <1>4, PrintedStays
<1> QED
  BY <1>2, <1>5

-----------------------------------------------------------------------------
(* Each action keeps the invariant. *)

LEMMA InvInit == Init => IInv
<1> SUFFICES ASSUME Init PROVE IInv
  OBVIOUS
<1> USE DEF Init
<1>1. \A r \in Rank : /\ pc[r] = (IF NJobs = 0 THEN "done" ELSE "init_job") /\ job[r] = 1
                      /\ i[r] = 0 /\ posted[r] = <<>>
  OBVIOUS
<1>2. IsSequence(<<>>) /\ Len(<<>>) = 0
  BY DEF IsSequence
<1>3. Types
  <2>1. report \in Report
    BY ReportsAssumption
  <2>2. pc \in [Rank -> PC] /\ job \in [Rank -> Nat \ {0}] /\ sent \in Seq(Int)
    BY DEF PC
  <2>3. PerRank(invalid) /\ PerRank(tstart) /\ PerRank(tend) /\ PerRank(posted)
    BY DEF PerRank
  <2> QED
    BY <1>1, <1>2, <2>1, <2>2, <2>3 DEF Types
<1>4. Broadcasts
  BY <1>1, <1>2, Counts DEF Broadcasts
<1>5. ASSUME NEW r \in Rank
      PROVE  ProcessInv(r)
  <2>1. pc[r] \in {"done", "init_job"} /\ pc[r] # "collect"
    BY <1>1
  <2>2. ControlOf(r)
    BY <1>1, Counts DEF ControlOf, InLoop
  <2>3. WindowOf(r) /\ ArraysOf(r) /\ FinishedOf(r) /\ CurrentOf(r)
    BY <2>1 DEF WindowOf, ArraysOf, FinishedOf, CurrentOf, InLoop, InJob, PC
  <2>4. PostedOf(r)
    BY <1>1, <1>2, <2>1 DEF PostedOf
  <2> QED
    BY <2>2, <2>3, <2>4 DEF ProcessInv
<1>6. Printed
  BY <1>1, <1>2, Counts DEF Printed
<1> QED
  BY <1>3, <1>4, <1>5, <1>6 DEF IInv

LEMMA InitJobKeeps ==
    ASSUME IInv, NEW r \in Rank, InitJob(r)
    PROVE  IInv'
<1>1. /\ pc[r] = "init_job" /\ pc' = [pc EXCEPT ![r] = "init_round"]
      /\ repetition_counter' = [repetition_counter EXCEPT ![r] = 0]
      /\ invalid' = [invalid EXCEPT ![r] = [k \in Rep(job[r]) |-> {}]]
      /\ tstart' = [tstart EXCEPT ![r] = [k \in Rep(job[r]) |-> 0]]
      /\ tend' = [tend EXCEPT ![r] = [k \in Rep(job[r]) |-> 0]]
      /\ i' = [i EXCEPT ![r] = 0]
      /\ UNCHANGED <<now, job, start_sync, sent, posted, report, printed>>
  BY DEF InitJob
<1>2. PICK e \in Errs : err' = [err EXCEPT ![r] = e]
  BY DEF InitJob
<1>3. Types
  BY DEF IInv
<1>4. /\ pc'[r] = "init_round" /\ repetition_counter'[r] = 0 /\ i'[r] = 0
      /\ \A q \in Rank \ {r} : /\ pc'[q] = pc[q] /\ i'[q] = i[q] /\ err'[q] = err[q]
                               /\ repetition_counter'[q] = repetition_counter[q]
  BY <1>1, <1>2, <1>3 DEF Types
<1>5. /\ PerRank(invalid') /\ PerRank(tstart') /\ PerRank(tend')
      /\ invalid'[r] = [k \in Rep(job[r]) |-> {}]
      /\ tstart'[r] = [k \in Rep(job[r]) |-> 0] /\ tend'[r] = [k \in Rep(job[r]) |-> 0]
      /\ \A q \in Rank \ {r} : invalid'[q] = invalid[q] /\ tstart'[q] = tstart[q]
                               /\ tend'[q] = tend[q]
  <2>1. PerRank(invalid) /\ PerRank(tstart) /\ PerRank(tend)
    BY <1>3 DEF Types
  <2> DEFINE none == [k \in Rep(job[r]) |-> {}]
             zero == [k \in Rep(job[r]) |-> 0]
  <2>2. /\ invalid' = [invalid EXCEPT ![r] = none] /\ tstart' = [tstart EXCEPT ![r] = zero]
        /\ tend' = [tend EXCEPT ![r] = zero]
    BY <1>1
  <2> HIDE DEF none, zero
  <2>3. /\ PerRank(invalid') /\ invalid'[r] = none
        /\ \A q \in Rank \ {r} : invalid'[q] = invalid[q]
    BY <2>1, <2>2 DEF PerRank
  <2>4. /\ PerRank(tstart') /\ tstart'[r] = zero
        /\ \A q \in Rank \ {r} : tstart'[q] = tstart[q]
    BY <2>1, <2>2 DEF PerRank
  <2>5. /\ PerRank(tend') /\ tend'[r] = zero
        /\ \A q \in Rank \ {r} : tend'[q] = tend[q]
    BY <2>1, <2>2 DEF PerRank
  <2> QED
    BY <2>3, <2>4, <2>5 DEF none, zero
<1>6. Types'
  <2>1. pc' \in [Rank -> PC] /\ i' \in [Rank -> Nat] /\ repetition_counter' \in [Rank -> Nat]
    BY <1>1, <1>3 DEF Types, PC
  <2>2. err' \in [Rank -> Nat]
    BY <1>2, <1>3, ErrsAssumption DEF Types
  <2> QED
    BY <1>1, <1>3, <1>5, <2>1, <2>2 DEF Types, PerRank, printed
<1>7. \A q \in Rank \ {r} : Unchanged(q)
  BY <1>1, <1>4, <1>5 DEF Unchanged
<1>8. LaterOrSame /\ SentExtends /\ Printed'
  BY <1>1, <1>7, SilentStep
<1>9. ProcessInv(r)'
  <2>1. ControlOf(r)'
    <3>1. job[r] <= NJobs
      BY <1>1, Facts DEF ProcessInv, ControlOf
    <3> QED
      BY <1>1, <1>4, <3>1 DEF ControlOf, InLoop
  <2>2. ArraysOf(r)'
    BY <1>1, <1>5 DEF ArraysOf, Rep
  <2>3. WindowOf(r)' /\ FinishedOf(r)' /\ CurrentOf(r)'
    BY <1>4 DEF WindowOf, FinishedOf, CurrentOf, InLoop
  <2>4. PostedOf(r)'
    BY <1>1, <1>4, <1>8, PostedStays
  <2> QED
    BY <2>1, <2>2, <2>3, <2>4 DEF ProcessInv
<1>10. Broadcasts'
  BY <1>1, <1>4, Counts DEF IInv, Broadcasts
<1> QED
  BY <1>6, <1>7, <1>8, <1>9, <1>10, StepOf

LEMMA SendFirstWindowKeeps ==
    ASSUME IInv, NEW r \in Rank, SendFirstWindow(r)
    PROVE  IInv'
<1> DEFINE v == GlobalTime(r) + WaitTime
<1>1. /\ pc[r] = "init_round" /\ r = Master /\ pc' = [pc EXCEPT ![r] = "first_poll"]
      /\ start_sync' = [start_sync EXCEPT ![r] = v] /\ sent' = Append(sent, v)
      /\ UNCHANGED <<now, job, i, repetition_counter, invalid, err, tstart, tend,
                     report, posted, printed>>
  BY DEF SendFirstWindow, measured
<1>2. Types /\ v \in Int /\ Len(sent) \in Nat /\ now \in Nat
  BY Facts, Counts DEF IInv, GlobalTime
<1> HIDE DEF v
<1>3. /\ pc'[r] = "first_poll" /\ start_sync'[r] = v
      /\ \A q \in Rank \ {r} : pc'[q] = pc[q] /\ start_sync'[q] = start_sync[q]
  BY <1>1, <1>2 DEF Types
<1>4. /\ sent' \in Seq(Int) /\ Len(sent') = Len(sent) + 1 /\ sent'[Len(sent) + 1] = v
      /\ \A j \in 1 .. Len(sent) : sent'[j] = sent[j]
  BY <1>1, <1>2 DEF Types
<1>5. Types'
  <2>1. pc' \in [Rank -> PC] /\ start_sync' \in [Rank -> Int]
    BY <1>1, <1>2 DEF Types, PC, InLoop
  <2> QED
    BY <1>1, <1>2, <1>4, <2>1 DEF Types, PerRank, printed
<1>6. \A q \in Rank \ {r} : Unchanged(q)
  BY <1>1, <1>3 DEF Unchanged
<1>7. LaterOrSame /\ SentExtends
  BY <1>1, <1>2, <1>4 DEF LaterOrSame, SentExtends
<1>8. Printed'
  <2>1. \A q \in Rank : Len(posted[q]) \in Nat
    BY Facts DEF IInv, ProcessInv, PostedOf
  <2> QED
    BY <1>1, <2>1, PrintedStays
<1>9. Len(sent) = job[r] - 1 /\ job[r] \in Nat \ {0} /\ NReps[job[r]] \in Nat \ {0}
  BY <1>1, Facts DEF IInv, Broadcasts
<1>10. ProcessInv(r)'
  <2>1. ProcessInv(r)
    BY Facts
  <2>2. ControlOf(r)'
    BY <1>1, <1>3, <1>9, <2>1 DEF ProcessInv, ControlOf
  <2>3. WindowOf(r)'
    <3>1. i[r] = 0 /\ 0 * WindowSize = 0
      BY <1>1, <2>1, Counts DEF ProcessInv, ControlOf
    <3>2. sent'[job[r]] = v /\ job[r] <= Len(sent')
      BY <1>4, <1>9
    <3> QED
      BY <1>1, <1>2, <1>3, <3>1, <3>2 DEF WindowOf
  <2>4. ArraysOf(r)'
    BY <1>1, <1>3, <2>1 DEF ProcessInv, ArraysOf, InJob, PC, InLoop
  <2>5. FinishedOf(r)' /\ CurrentOf(r)'
    <3>1. i[r] = 0
      BY <1>1, <2>1 DEF ProcessInv, ControlOf
    <3>2. \A k \in Rep(job[r]) : ~(k < i[r])
      BY <1>9, <3>1 DEF Rep
    <3> QED
      BY <1>1, <1>3, <3>2 DEF FinishedOf, CurrentOf
  <2>6. PostedOf(r)'
    BY <1>1, <1>3, <1>7, PostedStays
  <2> QED
    BY <2>2, <2>3, <2>4, <2>5, <2>6 DEF ProcessInv
<1>11. Broadcasts'
  BY <1>1, <1>3, <1>4, <1>9 DEF Broadcasts
<1> QED
  BY <1>5, <1>6, <1>7, <1>8, <1>10, <1>11, StepOf

LEMMA RecvFirstWindowKeeps ==
    ASSUME IInv, NEW r \in Rank, RecvFirstWindow(r)
    PROVE  IInv'
<1> DEFINE v == sent[job[r]]
<1>1. /\ pc[r] = "init_round" /\ r # Master /\ pc' = [pc EXCEPT ![r] = "first_poll"]
      /\ Len(sent) >= job[r] /\ start_sync' = [start_sync EXCEPT ![r] = v]
      /\ UNCHANGED <<now, job, i, repetition_counter, invalid, sent, err, tstart, tend,
                     report, posted, printed>>
  BY DEF RecvFirstWindow, measured
<1>2. Types /\ v \in Int /\ NReps[job[r]] \in Nat \ {0} /\ job[r] \in Nat \ {0}
  <2>1. job[r] \in 1 .. Len(sent)
    BY <1>1, Facts
  <2> QED
    BY <1>1, <2>1, Facts DEF IInv
<1> HIDE DEF v
<1>3. /\ pc'[r] = "first_poll" /\ start_sync'[r] = v
      /\ \A q \in Rank \ {r} : pc'[q] = pc[q] /\ start_sync'[q] = start_sync[q]
  BY <1>1, <1>2 DEF Types
<1>4. Types'
  <2>1. pc' \in [Rank -> PC] /\ start_sync' \in [Rank -> Int]
    BY <1>1, <1>2 DEF Types, PC, InLoop
  <2> QED
    BY <1>1, <1>2, <2>1 DEF Types, PerRank, printed
<1>5. \A q \in Rank \ {r} : Unchanged(q)
  BY <1>1, <1>3 DEF Unchanged
<1>6. LaterOrSame /\ SentExtends /\ Printed'
  BY <1>1, <1>5, SilentStep
<1>7. ProcessInv(r)'
  <2>1. ProcessInv(r)
    BY Facts
  <2>2. i[r] = 0 /\ 0 * WindowSize = 0
    BY <1>1, <2>1, Counts DEF ProcessInv, ControlOf
  <2>3. ControlOf(r)'
    BY <1>1, <1>2, <1>3, <2>1 DEF ProcessInv, ControlOf
  <2>4. WindowOf(r)'
    BY <1>1, <1>2, <1>3, <2>2 DEF WindowOf, v
  <2>5. ArraysOf(r)'
    BY <1>1, <1>3, <2>1 DEF ProcessInv, ArraysOf, InJob, PC, InLoop
  <2>6. FinishedOf(r)' /\ CurrentOf(r)'
    <3>1. \A k \in Rep(job[r]) : ~(k < i[r])
      BY <1>2, <2>2 DEF Rep
    <3> QED
      BY <1>1, <1>3, <3>1 DEF FinishedOf, CurrentOf
  <2>7. PostedOf(r)'
    BY <1>1, <1>3, <1>6, PostedStays
  <2> QED
    BY <2>3, <2>4, <2>5, <2>6, <2>7 DEF ProcessInv
<1>8. Broadcasts'
  BY <1>1, <1>3, Counts DEF IInv, Broadcasts
<1> QED
  BY <1>4, <1>5, <1>6, <1>7, <1>8, StepOf

\* The repetition that a process is measuring has its place in the arrays.
LEMMA InArrays ==
    ASSUME IInv, NEW r \in Rank, pc[r] \in InLoop
    PROVE  /\ i[r] \in Rep(job[r]) /\ repetition_counter[r] = i[r]
           /\ i[r] < NReps[job[r]] /\ job[r] <= NJobs
           /\ invalid[r] \in [Rep(job[r]) -> SUBSET Flags]
           /\ tstart[r] \in [Rep(job[r]) -> Int] /\ tend[r] \in [Rep(job[r]) -> Int]
           /\ job[r] <= Len(sent) /\ sent[job[r]] \in Int
           /\ start_sync[r] = sent[job[r]] + i[r] * WindowSize
<1>1. /\ ProcessInv(r) /\ i[r] \in Nat /\ NReps[job[r]] \in Nat \ {0}
      /\ pc[r] \in InJob /\ job[r] \in Nat \ {0} /\ pc[r] # "done"
      /\ \A j \in 1 .. Len(sent) : sent[j] \in Int
  BY Facts DEF InLoop, InJob, PC
<1>2. repetition_counter[r] = i[r] /\ i[r] < NReps[job[r]] /\ job[r] <= NJobs
  BY <1>1 DEF ProcessInv, ControlOf
<1>3. i[r] \in Rep(job[r])
  BY <1>1, <1>2 DEF Rep
<1>4. job[r] <= Len(sent) /\ start_sync[r] = sent[job[r]] + i[r] * WindowSize
  BY <1>1 DEF ProcessInv, WindowOf
<1>5. sent[job[r]] \in Int
  BY <1>1, <1>4, Facts
<1> QED
  BY <1>1, <1>2, <1>3, <1>4, <1>5 DEF ProcessInv, ArraysOf

\* Within the loop, a process that takes a step towards the measurement.
LEMMA LoopStep ==
    ASSUME IInv, NEW r \in Rank, pc[r] \in InLoop, NEW next \in InLoop,
           pc' = [pc EXCEPT ![r] = next],
           UNCHANGED <<now, job, i, start_sync, repetition_counter, sent, err,
                       posted, report, printed>>,
           PerRank(invalid'), PerRank(tstart'), PerRank(tend'),
           \A q \in Rank \ {r} : invalid'[q] = invalid[q] /\ tstart'[q] = tstart[q]
                                 /\ tend'[q] = tend[q],
           ArraysOf(r)', CurrentOf(r)',
           \A k \in Rep(job[r]) : k < i[r] =>
               invalid'[r][k] = invalid[r][k] /\ tstart'[r][k] = tstart[r][k]
               /\ tend'[r][k] = tend[r][k]
    PROVE  IInv'
<1>1. Types
  BY DEF IInv
<1>2. pc'[r] = next /\ \A q \in Rank \ {r} : pc'[q] = pc[q]
  BY <1>1 DEF Types
<1>3. Types'
  <2>1. pc' \in [Rank -> PC]
    BY <1>1 DEF Types, PC
  <2> QED
    BY <1>1, <2>1 DEF Types, PerRank, printed
<1>4. \A q \in Rank \ {r} : Unchanged(q)
  BY <1>2 DEF Unchanged
<1>5. LaterOrSame /\ SentExtends /\ Printed'
  BY <1>4, SilentStep
<1>6. ProcessInv(r)
  BY Facts
<1>7. ControlOf(r)'
  BY <1>2, <1>6 DEF ProcessInv, ControlOf, InLoop
<1>8. WindowOf(r)'
  BY <1>2, <1>6 DEF ProcessInv, WindowOf
<1>9. FinishedOf(r)'
  BY <1>2, <1>6 DEF ProcessInv, FinishedOf
<1>10. PostedOf(r)'
  BY <1>2, <1>5, PostedStays DEF InLoop
<1>11. ProcessInv(r)'
  BY <1>7, <1>8, <1>9, <1>10 DEF ProcessInv
<1>12. Broadcasts'
  <2>1. pc'[Master] \in {"init_job", "init_round", "done"}
            <=> pc[Master] \in {"init_job", "init_round", "done"}
    BY <1>2, Counts DEF InLoop
  <2> QED
    BY <2>1 DEF IInv, Broadcasts
<1> QED
  BY <1>3, <1>4, <1>5, <1>11, <1>12, StepOf

LEMMA FirstPollKeeps ==
    ASSUME IInv, NEW r \in Rank, FirstPoll(r)
    PROVE  IInv'
<1> DEFINE missed == GlobalTime(r) >= start_sync[r]
           next == IF missed THEN "call" ELSE "poll"
           flags == [invalid[r] EXCEPT ![repetition_counter[r]] =
                         invalid[r][repetition_counter[r]] \cup {FLAG_START_TIME_HAS_PASSED}]
<1>1. /\ pc[r] = "first_poll" /\ pc' = [pc EXCEPT ![r] = next]
      /\ invalid' = IF missed THEN [invalid EXCEPT ![r] = flags] ELSE invalid
      /\ UNCHANGED <<now, job, i, start_sync, repetition_counter, sent, err,
                     tstart, tend, posted, report, printed>>
  BY DEF FirstPoll, measured
<1>2. pc[r] \in InLoop /\ next \in InLoop
  BY <1>1 DEF InLoop
<1>3. /\ i[r] \in Rep(job[r]) /\ repetition_counter[r] = i[r]
      /\ invalid[r] \in [Rep(job[r]) -> SUBSET Flags]
      /\ tstart[r] \in [Rep(job[r]) -> Int] /\ tend[r] \in [Rep(job[r]) -> Int]
  BY <1>2, InArrays
<1>4. Types
  BY DEF IInv
<1>5. pc'[r] = next /\ (missed => start_sync[r] <= now + err[r])
  <2>1. pc'[r] = next
    BY <1>1, <1>4 DEF Types
  <2> QED
    BY <2>1, Facts DEF GlobalTime
<1>6. /\ flags \in [Rep(job[r]) -> SUBSET Flags]
      /\ \A k \in Rep(job[r]) : k < i[r] => flags[k] = invalid[r][k]
  <2>1. \A k \in Rep(job[r]) : k < i[r] => k # i[r]
    BY Facts DEF Rep
  <2> QED
    BY <1>3, <2>1 DEF Flags
<1> HIDE DEF flags, missed
<1>7. /\ PerRank(invalid') /\ PerRank(tstart') /\ PerRank(tend')
      /\ invalid'[r] = IF missed THEN flags ELSE invalid[r]
      /\ \A q \in Rank \ {r} : invalid'[q] = invalid[q]
  BY <1>1, <1>4 DEF Types, PerRank
<1>8. ArraysOf(r)'
  BY <1>1, <1>3, <1>6, <1>7 DEF ArraysOf
<1>9. CurrentOf(r)'
  BY <1>1, <1>5 DEF CurrentOf
<1>10. \A k \in Rep(job[r]) : k < i[r] => invalid'[r][k] = invalid[r][k]
  BY <1>6, <1>7
<1> HIDE DEF next
<1> QED
  BY <1>1, <1>2, <1>7, <1>8, <1>9, <1>10, LoopStep

LEMMA PollKeeps ==
    ASSUME IInv, NEW r \in Rank, Poll(r)
    PROVE  IInv'
<1>1. /\ pc[r] = "poll" /\ pc' = [pc EXCEPT ![r] = "call"]
      /\ GlobalTime(r) >= start_sync[r]
      /\ UNCHANGED <<now, job, i, start_sync, repetition_counter, invalid, sent, err,
                     tstart, tend, posted, report, printed>>
  BY DEF Poll, measured
<1>2. pc[r] \in InLoop /\ "call" \in InLoop
  BY <1>1 DEF InLoop
<1>3. Types
  BY DEF IInv
<1>4. pc'[r] = "call" /\ start_sync[r] <= now + err[r]
  BY <1>1, <1>3, Facts DEF Types, GlobalTime
<1>5. PerRank(invalid') /\ PerRank(tstart') /\ PerRank(tend')
  BY <1>1, <1>3 DEF Types, PerRank
<1>6. ArraysOf(r)'
  BY <1>1, <1>2, InArrays DEF ArraysOf
<1>7. CurrentOf(r)'
  BY <1>1, <1>4 DEF CurrentOf
<1> QED
  BY <1>1, <1>2, <1>5, <1>6, <1>7, LoopStep

LEMMA StartCallKeeps ==
    ASSUME IInv, NEW r \in Rank, StartCall(r)
    PROVE  IInv'
<1> DEFINE times == [tstart[r] EXCEPT ![i[r]] = now]
<1>1. /\ pc[r] = "call" /\ pc' = [pc EXCEPT ![r] = "in_call"]
      /\ tstart' = [tstart EXCEPT ![r] = times]
      /\ UNCHANGED <<now, job, i, start_sync, repetition_counter, invalid, sent, err,
                     tend, posted, report, printed>>
  BY DEF StartCall
<1>2. pc[r] \in InLoop /\ "in_call" \in InLoop
  BY <1>1 DEF InLoop
<1>3. /\ i[r] \in Rep(job[r]) /\ invalid[r] \in [Rep(job[r]) -> SUBSET Flags]
      /\ tstart[r] \in [Rep(job[r]) -> Int] /\ tend[r] \in [Rep(job[r]) -> Int]
  BY <1>2, InArrays
<1>4. Types /\ now \in Nat /\ i[r] \in Nat /\ err[r] \in Nat /\ start_sync[r] \in Int
  BY Facts DEF IInv
<1>5. pc'[r] = "in_call"
  BY <1>1, <1>4 DEF Types
<1>6. /\ times \in [Rep(job[r]) -> Int] /\ times[i[r]] = now
      /\ \A k \in Rep(job[r]) : k < i[r] => times[k] = tstart[r][k]
  <2>1. \A k \in Rep(job[r]) : k < i[r] => k # i[r]
    BY <1>4 DEF Rep
  <2> QED
    BY <1>3, <1>4, <2>1
<1> HIDE DEF times
<1>7. /\ PerRank(invalid') /\ PerRank(tstart') /\ PerRank(tend')
      /\ tstart'[r] = times /\ \A q \in Rank \ {r} : tstart'[q] = tstart[q]
  BY <1>1, <1>4 DEF Types, PerRank
<1>8. ArraysOf(r)'
  BY <1>1, <1>3, <1>6, <1>7 DEF ArraysOf
<1>9. CurrentOf(r)'
  <2>1. start_sync[r] <= now + err[r]
    BY <1>1, Facts DEF ProcessInv, CurrentOf
  <2> QED
    BY <1>1, <1>4, <1>5, <1>6, <1>7, <2>1 DEF CurrentOf
<1>10. \A k \in Rep(job[r]) : k < i[r] => tstart'[r][k] = tstart[r][k]
  BY <1>6, <1>7
<1> QED
  BY <1>1, <1>2, <1>7, <1>8, <1>9, <1>10, LoopStep

LEMMA EndCallKeeps ==
    ASSUME IInv, NEW r \in Rank, EndCall(r)
    PROVE  IInv'
<1> DEFINE times == [tend[r] EXCEPT ![i[r]] = now]
<1>1. /\ pc[r] = "in_call" /\ pc' = [pc EXCEPT ![r] = "stop"]
      /\ tend' = [tend EXCEPT ![r] = times]
      /\ UNCHANGED <<now, job, i, start_sync, repetition_counter, invalid, sent, err,
                     tstart, posted, report, printed>>
  BY DEF EndCall
<1>2. pc[r] \in InLoop /\ "stop" \in InLoop
  BY <1>1 DEF InLoop
<1>3. /\ i[r] \in Rep(job[r]) /\ invalid[r] \in [Rep(job[r]) -> SUBSET Flags]
      /\ tstart[r] \in [Rep(job[r]) -> Int] /\ tend[r] \in [Rep(job[r]) -> Int]
  BY <1>2, InArrays
<1>4. Types /\ now \in Nat /\ i[r] \in Nat
  BY Facts DEF IInv
<1>5. pc'[r] = "stop"
  BY <1>1, <1>4 DEF Types
<1>6. /\ times \in [Rep(job[r]) -> Int] /\ times[i[r]] = now
      /\ \A k \in Rep(job[r]) : k < i[r] => times[k] = tend[r][k]
  <2>1. \A k \in Rep(job[r]) : k < i[r] => k # i[r]
    BY <1>4 DEF Rep
  <2> QED
    BY <1>3, <1>4, <2>1
<1> HIDE DEF times
<1>7. /\ PerRank(invalid') /\ PerRank(tstart') /\ PerRank(tend')
      /\ tend'[r] = times /\ \A q \in Rank \ {r} : tend'[q] = tend[q]
  BY <1>1, <1>4 DEF Types, PerRank
<1>8. ArraysOf(r)'
  BY <1>1, <1>3, <1>6, <1>7 DEF ArraysOf
<1>9. CurrentOf(r)'
  <2>1. start_sync[r] <= tstart[r][i[r]] + err[r] /\ tstart[r][i[r]] <= now
    BY <1>1, Facts DEF ProcessInv, CurrentOf
  <2> QED
    BY <1>1, <1>4, <1>5, <1>6, <1>7, <2>1 DEF CurrentOf
<1>10. \A k \in Rep(job[r]) : k < i[r] => tend'[r][k] = tend[r][k]
  BY <1>6, <1>7
<1> QED
  BY <1>1, <1>2, <1>7, <1>8, <1>9, <1>10, LoopStep

LEMMA StopSyncKeeps ==
    ASSUME IInv, NEW r \in Rank, StopSync(r)
    PROVE  IInv'
<1> DEFINE expired == GlobalTime(r) > start_sync[r] + WindowSize
           next == IF i[r] + 1 = NReps[job[r]] THEN "report" ELSE "first_poll"
           flags == [invalid[r] EXCEPT ![repetition_counter[r]] =
                         invalid[r][repetition_counter[r]] \cup {FLAG_SYNC_WIN_EXPIRED}]
           after == IF expired THEN flags ELSE invalid[r]
<1>1. /\ pc[r] = "stop"
      /\ invalid' = IF expired THEN [invalid EXCEPT ![r] = flags] ELSE invalid
      /\ start_sync' = [start_sync EXCEPT ![r] = start_sync[r] + WindowSize]
      /\ repetition_counter' = [repetition_counter EXCEPT ![r] = repetition_counter[r] + 1]
      /\ UNCHANGED <<now, job, sent, err, tstart, tend, posted, report, printed>>
  BY DEF StopSync, measured
<1>2. i' = [i EXCEPT ![r] = i[r] + 1] /\ pc' = [pc EXCEPT ![r] = next]
  <2>1. ~OutOfTime(CORRECT) /\ NextIndex(CORRECT, i[r]) = i[r] + 1
    BY DEF OutOfTime, NextIndex, CORRECT, OUT_OF_TIME_VALID, OUT_OF_TIME_INVALID
  <2>2. LoopEnds(CORRECT, i[r], NReps[job[r]]) <=> i[r] + 1 = NReps[job[r]]
    BY <2>1 DEF LoopEnds
  <2> QED
    BY <2>1, <2>2 DEF StopSync
<1>3. /\ i[r] \in Rep(job[r]) /\ repetition_counter[r] = i[r] /\ i[r] < NReps[job[r]]
      /\ invalid[r] \in [Rep(job[r]) -> SUBSET Flags] /\ job[r] <= NJobs
      /\ tstart[r] \in [Rep(job[r]) -> Int] /\ tend[r] \in [Rep(job[r]) -> Int]
      /\ job[r] <= Len(sent) /\ sent[job[r]] \in Int
      /\ start_sync[r] = sent[job[r]] + i[r] * WindowSize
  BY <1>1, InArrays DEF InLoop
<1>4. /\ Types /\ now \in Nat /\ i[r] \in Nat /\ err[r] \in Nat /\ start_sync[r] \in Int
      /\ WindowSize \in Nat /\ NReps[job[r]] \in Nat
  BY <1>1, Facts, Counts DEF IInv
<1>5. /\ pc'[r] = next /\ i'[r] = i[r] + 1 /\ repetition_counter'[r] = i[r] + 1
      /\ start_sync'[r] = start_sync[r] + WindowSize
      /\ \A q \in Rank \ {r} : /\ pc'[q] = pc[q] /\ i'[q] = i[q]
                               /\ repetition_counter'[q] = repetition_counter[q]
                               /\ start_sync'[q] = start_sync[q]
  BY <1>1, <1>2, <1>3, <1>4 DEF Types
<1>6. /\ after \in [Rep(job[r]) -> SUBSET Flags]
      /\ \A k \in Rep(job[r]) : k < i[r] => after[k] = invalid[r][k]
      /\ expired => FLAG_SYNC_WIN_EXPIRED \in after[i[r]]
  <2>1. \A k \in Rep(job[r]) : k < i[r] => k # i[r]
    BY <1>4 DEF Rep
  <2> QED
    BY <1>3, <2>1 DEF Flags
<1> HIDE DEF flags
<1>7. /\ PerRank(invalid') /\ PerRank(tstart') /\ PerRank(tend')
      /\ invalid'[r] = after /\ \A q \in Rank \ {r} : invalid'[q] = invalid[q]
  BY <1>1, <1>4 DEF Types, PerRank
<1> HIDE DEF after
<1>8. next \in {"report", "first_poll"} /\ pc'[r] \in InLoop \cup {"report"}
  BY <1>5 DEF InLoop
<1>9. Types'
  <2>1. pc' \in [Rank -> PC] /\ i' \in [Rank -> Nat]
    BY <1>2, <1>4, <1>8 DEF Types, PC, InLoop
  <2>2. start_sync[r] + WindowSize \in Int /\ repetition_counter[r] + 1 \in Nat
    BY <1>3, <1>4
  <2>3. start_sync' \in [Rank -> Int]
    BY <1>1, <1>4, <2>2 DEF Types
  <2>4. repetition_counter' \in [Rank -> Nat]
    BY <1>1, <1>4, <2>2 DEF Types
  <2> QED
    BY <1>1, <1>4, <1>7, <2>1, <2>3, <2>4 DEF Types, PerRank, printed
<1>10. \A q \in Rank \ {r} : Unchanged(q)
  BY <1>1, <1>5, <1>7 DEF Unchanged
<1>11. LaterOrSame /\ SentExtends /\ Printed'
  BY <1>1, <1>10, SilentStep
<1>12. (i[r] + 1) * WindowSize = i[r] * WindowSize + WindowSize /\ i[r] * WindowSize \in Int
  BY <1>4, WindowTimes
<1>13. ProcessInv(r)'
  <2>1. ControlOf(r)'
    BY <1>1, <1>3, <1>4, <1>5 DEF ControlOf, InLoop
  <2>2. WindowOf(r)'
    BY <1>1, <1>3, <1>4, <1>5, <1>12 DEF WindowOf
  <2>3. ArraysOf(r)'
    BY <1>1, <1>3, <1>7, <1>6 DEF ArraysOf
  <2>4. FinishedOf(r)'
    <3> SUFFICES ASSUME NEW k \in Rep(job[r]), k < i[r] + 1
                 PROVE  Within(sent[job[r]], k, err[r], tstart[r][k], tend[r][k],
                               FLAG_SYNC_WIN_EXPIRED \in after[k])
      BY <1>1, <1>5, <1>7 DEF FinishedOf, Within
    <3>1. CASE k < i[r]
      <4>1. Within(sent[job[r]], k, err[r], tstart[r][k], tend[r][k],
                   FLAG_SYNC_WIN_EXPIRED \in invalid[r][k])
        BY <1>1, <3>1, Facts DEF ProcessInv, FinishedOf, InLoop
      <4> QED
        BY <1>6, <3>1, <4>1
    <3>2. CASE k = i[r]
      <4>1. /\ start_sync[r] <= tstart[r][k] + err[r] /\ tstart[r][k] <= tend[r][k]
            /\ tend[r][k] <= now
        BY <1>1, <3>2, Facts DEF ProcessInv, CurrentOf
      <4>2. FLAG_SYNC_WIN_EXPIRED \notin after[k] => now + err[r] <= start_sync[r] + WindowSize
        BY <1>4, <1>6, <3>2 DEF GlobalTime
      <4>3. tstart[r][k] \in Int /\ tend[r][k] \in Int
        BY <1>3, <3>2
      <4>4. sent[job[r]] + k * WindowSize <= tstart[r][k] + err[r]
        BY <1>3, <3>2, <4>1
      <4>5. FLAG_SYNC_WIN_EXPIRED \notin after[k] =>
                tend[r][k] + err[r] <= sent[job[r]] + (k + 1) * WindowSize
        <5> DEFINE w == i[r] * WindowSize
        <5>1. start_sync[r] = sent[job[r]] + w /\ (k + 1) * WindowSize = w + WindowSize
              /\ w \in Int
          BY <1>3, <1>12, <3>2
        <5>2. sent[job[r]] \in Int /\ start_sync[r] \in Int /\ err[r] \in Int /\ now \in Int
              /\ WindowSize \in Int
          BY <1>3, <1>4
        <5> HIDE DEF w, expired, next
        <5> QED
          BY <4>1, <4>2, <4>3, <5>1, <5>2
      <4> QED
        BY <4>1, <4>4, <4>5 DEF Within
    <3> QED
      BY <1>4, <3>1, <3>2 DEF Rep
  <2>5. CurrentOf(r)'
    BY <1>5, <1>8 DEF CurrentOf
  <2>6. PostedOf(r)'
    BY <1>1, <1>5, <1>8, <1>11, PostedStays
  <2> QED
    BY <2>1, <2>2, <2>3, <2>4, <2>5, <2>6 DEF ProcessInv
<1>14. Broadcasts'
  <2>1. pc'[Master] \in {"init_job", "init_round", "done"}
            <=> pc[Master] \in {"init_job", "init_round", "done"}
    BY <1>1, <1>5, <1>8, Counts
  <2> QED
    BY <1>1, <2>1 DEF IInv, Broadcasts
<1> QED
  BY <1>9, <1>10, <1>11, <1>13, <1>14, StepOf

\* No error code: no flag of an expired window.
LEMMA CodesRight ==
    ASSUME NEW S, NEW flags \in [S -> SUBSET Flags]
    PROVE  /\ Codes(flags) \in [S -> 0 .. 3]
           /\ \A k \in S : Codes(flags)[k] = 0 => FLAG_SYNC_WIN_EXPIRED \notin flags[k]
  BY DEF Codes, FLAG_SYNC_WIN_EXPIRED, FLAG_START_TIME_HAS_PASSED

\* Where a process goes after a job.
LEMMA NextJobSteps ==
    ASSUME IInv, NEW r \in Rank, pc[r] \in {"report", "collect"}, NextJob(r)
    PROVE  /\ pc' \in [Rank -> PC] /\ job' \in [Rank -> Nat \ {0}]
           /\ job'[r] = job[r] + 1 /\ pc'[r] \in {"done", "init_job"}
           /\ IF pc'[r] = "done" THEN job'[r] = NJobs + 1 ELSE job'[r] <= NJobs
           /\ \A q \in Rank \ {r} : pc'[q] = pc[q] /\ job'[q] = job[q]
<1> DEFINE next == IF job[r] = NJobs THEN "done" ELSE "init_job"
<1>1. Types /\ job[r] \in 1 .. NJobs /\ NJobs \in Nat
  BY Facts, Counts DEF IInv
<1>2. job' = [job EXCEPT ![r] = job[r] + 1] /\ pc' = [pc EXCEPT ![r] = next]
  BY DEF NextJob
<1>3. next \in PC
  BY DEF PC
<1>4. /\ pc' \in [Rank -> PC] /\ job' \in [Rank -> Nat \ {0}]
      /\ job'[r] = job[r] + 1 /\ pc'[r] = next
      /\ \A q \in Rank \ {r} : pc'[q] = pc[q] /\ job'[q] = job[q]
  BY <1>1, <1>2, <1>3 DEF Types
<1> QED
  BY <1>1, <1>4

LEMMA ContributeKeeps ==
    ASSUME IInv, NEW r \in Rank, Contribute(r)
    PROVE  IInv'
<1> DEFINE m == [codes |-> Codes(invalid[r]), tstart |-> tstart[r], tend |-> tend[r],
                 err |-> err[r]]
           p == [measured |-> m, calls |-> Calls(m, NReps[job[r]], report)]
           s == Append(posted[r], p)
<1>1. /\ pc[r] = "report" /\ posted' = [posted EXCEPT ![r] = s]
      /\ IF r = Master THEN pc' = [pc EXCEPT ![r] = "collect"] /\ job' = job ELSE NextJob(r)
      /\ UNCHANGED <<now, i, start_sync, repetition_counter, invalid, sent, err, tstart,
                     tend, report, printed>>
  BY DEF Contribute, measured
<1>2. /\ Types /\ ProcessInv(r) /\ job[r] \in 1 .. NJobs /\ NJobs \in Nat
      /\ now \in Nat /\ sent \in Seq(Int) /\ Len(sent) \in Nat /\ err[r] \in Nat
      /\ NReps[job[r]] \in Nat
  BY <1>1, Facts, Counts DEF IInv
<1>3. /\ m.codes = Codes(invalid[r]) /\ m.tstart = tstart[r] /\ m.tend = tend[r]
      /\ m.err = err[r] /\ p.measured = m
      /\ p = [measured |-> p.measured, calls |-> Calls(p.measured, NReps[job[r]], report)]
  OBVIOUS
<1> HIDE DEF p, m
<1>4. \* where it goes
      /\ pc' \in [Rank -> PC] /\ job' \in [Rank -> Nat \ {0}]
      /\ \A q \in Rank \ {r} : pc'[q] = pc[q] /\ job'[q] = job[q]
      /\ r = Master => pc'[r] = "collect" /\ job'[r] = job[r]
      /\ r # Master => /\ pc'[r] \in {"done", "init_job"} /\ job'[r] = job[r] + 1
                       /\ IF pc'[r] = "done" THEN job'[r] = NJobs + 1 ELSE job'[r] <= NJobs
  <2>1. CASE r = Master
    BY <1>1, <1>2, <2>1 DEF Types, PC
  <2>2. CASE r # Master
    BY <1>1, <2>2, NextJobSteps
  <2> QED
    BY <2>1, <2>2
<1>5. /\ IsSequence(s) /\ Len(posted[r]) = job[r] - 1 /\ Len(s) = job[r] /\ s[job[r]] = p
      /\ \A j \in 1 .. job[r] - 1 : s[j] = posted[r][j]
  <2>1. IsSequence(posted[r])
    BY <1>2 DEF Types
  <2>2. Len(posted[r]) = job[r] - 1
    BY <1>1, <1>2 DEF ProcessInv, PostedOf
  <2>3. /\ IsSequence(s) /\ Len(s) = Len(posted[r]) + 1
        /\ s[Len(posted[r]) + 1] = p /\ \A k \in 1 .. Len(posted[r]) : s[k] = posted[r][k]
    BY <2>1, Appended
  <2> HIDE DEF s
  <2>4. Len(posted[r]) + 1 = job[r]
    BY <1>2, <2>2
  <2> QED
    BY <2>2, <2>3, <2>4
<1> HIDE DEF s
<1>6. /\ PerRank(posted') /\ posted'[r] = s
      /\ \A q \in Rank \ {r} : posted'[q] = posted[q]
  BY <1>1, <1>2 DEF Types, PerRank
<1>7. Types'
  <2>1. \A q \in Rank : IsSequence(posted'[q])
    BY <1>2, <1>5, <1>6 DEF Types
  <2> QED
    BY <1>1, <1>2, <1>4, <1>6, <2>1 DEF Types, PerRank, printed
<1>8. \A q \in Rank \ {r} : Unchanged(q)
  BY <1>1, <1>4, <1>6 DEF Unchanged
<1>9. LaterOrSame /\ SentExtends
  BY <1>1, <1>2 DEF LaterOrSame, SentExtends
<1>10. Printed'
  <2>1. job'[Master] = job[Master]
    BY <1>4, Counts
  <2>2. \A q \in Rank : Len(posted[q]) \in Nat
    BY Facts DEF IInv, ProcessInv, PostedOf
  <2>3. \A q \in Rank : /\ Len(posted[q]) <= Len(posted'[q]) /\ Len(posted'[q]) \in Nat
                        /\ \A j \in 1 .. Len(posted[q]) : posted'[q][j] = posted[q][j]
    BY <1>2, <1>5, <1>6, <2>2
  <2> QED
    BY <1>1, <2>1, <2>3, PrintedStays
<1>11. PICK n \in Nat \ {0} : n = job[r]
  BY <1>2
<1>12. Contributed(r, n)'
  <2>1. n <= Len(sent) /\ i[r] = NReps[n]
    BY <1>1, <1>2, <1>11 DEF ProcessInv, WindowOf, ControlOf
  <2>2. /\ invalid[r] \in [Rep(n) -> SUBSET Flags]
        /\ tstart[r] \in [Rep(n) -> Int] /\ tend[r] \in [Rep(n) -> Int]
    BY <1>1, <1>2, <1>11 DEF ProcessInv, ArraysOf, InJob, PC, InLoop
  <2>3. /\ m.codes \in [Rep(n) -> 0 .. 3]
        /\ \A k \in Rep(n) : m.codes[k] = 0 => FLAG_SYNC_WIN_EXPIRED \notin invalid[r][k]
    BY <1>3, <2>2, CodesRight
  <2>4. ASSUME NEW k \in Rep(n)
        PROVE  Within(sent[n], k, m.err, m.tstart[k], m.tend[k], m.codes[k] # 0)
    <3>1. k < i[r]
      BY <1>2, <1>11, <2>1 DEF Rep
    <3>2. Within(sent[n], k, err[r], tstart[r][k], tend[r][k],
                 FLAG_SYNC_WIN_EXPIRED \in invalid[r][k])
      BY <1>1, <1>2, <1>11, <3>1 DEF ProcessInv, FinishedOf
    <3> QED
      BY <1>3, <2>3, <3>2 DEF Within
  <2>5. posted'[r][n] = p
    BY <1>5, <1>6, <1>11
  <2>6. /\ p = [measured |-> p.measured, calls |-> Calls(p.measured, NReps[n], report)]
        /\ p.measured = m
        /\ m.err \in Nat /\ m.tstart \in [Rep(n) -> Int] /\ m.tend \in [Rep(n) -> Int]
    BY <1>2, <1>3, <1>11, <2>2
  <2>7. Measured(r, n)' = m
    BY <2>5, <2>6 DEF Measured
  <2> QED
    BY <1>1, <2>1, <2>3, <2>4, <2>5, <2>6, <2>7 DEF Contributed
<1>13. PostedOf(r)'
  <2>1. Len(posted'[r]) = n
    BY <1>5, <1>6, <1>11
  <2>2. ASSUME NEW j \in 1 .. n - 1
        PROVE  Contributed(r, j)'
    <3>1. Contributed(r, j)
      BY <1>2, <1>5, <1>11 DEF ProcessInv, PostedOf
    <3>2. posted'[r][j] = posted[r][j]
      BY <1>5, <1>6, <1>11
    <3> QED
      BY <1>2, <1>9, <3>1, <3>2, ContributedStays
  <2>3. \A j \in 1 .. n : Contributed(r, j)'
    BY <1>12, <2>2
  <2>4. n = IF pc'[r] = "collect" THEN job'[r] ELSE job'[r] - 1
    BY <1>2, <1>4, <1>11
  <2> QED
    BY <2>1, <2>3, <2>4 DEF PostedOf
<1>14. ProcessInv(r)'
  <2>1. ControlOf(r)'
    BY <1>1, <1>2, <1>4 DEF ProcessInv, ControlOf, InLoop
  <2>2. WindowOf(r)'
    BY <1>1, <1>2, <1>4 DEF ProcessInv, WindowOf, InLoop
  <2>3. ArraysOf(r)'
    BY <1>1, <1>2, <1>4 DEF ProcessInv, ArraysOf, InJob, PC, InLoop
  <2>4. FinishedOf(r)'
    BY <1>1, <1>2, <1>4 DEF ProcessInv, FinishedOf, InLoop
  <2>5. CurrentOf(r)'
    BY <1>4 DEF CurrentOf
  <2> QED
    BY <1>13, <2>1, <2>2, <2>3, <2>4, <2>5 DEF ProcessInv
<1>15. Broadcasts'
  BY <1>1, <1>4, Counts DEF IInv, Broadcasts
<1> QED
  BY <1>7, <1>8, <1>9, <1>10, <1>14, <1>15, StepOf

LEMMA CollectKeeps ==
    ASSUME IInv, NEW r \in Rank, Collect(r)
    PROVE  IInv'
<1> DEFINE calls == [q \in Rank |-> posted[q][job[r]].calls]
           a == SummaryPrinted(calls, NReps[job[r]], report)
           b == ResultsPrinted(calls, NReps[job[r]], report)
<1>1. /\ pc[r] = "collect" /\ AllPosted(job[r]) /\ NextJob(r)
      /\ summary' = Append(summary, a) /\ results' = Append(results, b)
      /\ UNCHANGED <<now, i, start_sync, repetition_counter, invalid, sent, err, tstart,
                     tend, posted, report>>
  BY DEF Collect, measured
<1>2. /\ Types /\ ProcessInv(r) /\ job[r] \in Nat \ {0} /\ now \in Nat
      /\ sent \in Seq(Int) /\ Len(sent) \in Nat
  BY Facts DEF IInv
<1>3. r = Master
  BY <1>1, <1>2 DEF ProcessInv, ControlOf
<1>4. /\ pc' \in [Rank -> PC] /\ job' \in [Rank -> Nat \ {0}]
      /\ job'[r] = job[r] + 1 /\ pc'[r] \in {"done", "init_job"}
      /\ IF pc'[r] = "done" THEN job'[r] = NJobs + 1 ELSE job'[r] <= NJobs
      /\ \A q \in Rank \ {r} : pc'[q] = pc[q] /\ job'[q] = job[q]
  BY <1>1, NextJobSteps
<1>5. PICK n \in Nat \ {0} : n = job[r]
  BY <1>2
<1>6. calls = Contributions(n)
  BY <1>5 DEF Contributions
<1> HIDE DEF a, b
<1>7. /\ IsSequence(summary') /\ Len(summary') = n /\ summary'[n] = a
      /\ \A j \in 1 .. n - 1 : summary'[j] = summary[j]
      /\ IsSequence(results') /\ Len(results') = n /\ results'[n] = b
      /\ \A j \in 1 .. n - 1 : results'[j] = results[j]
      /\ Len(summary) = n - 1 /\ Len(results) = n - 1
  <2>1. IsSequence(summary) /\ IsSequence(results)
    BY <1>2 DEF Types
  <2>2. Len(summary) = n - 1 /\ Len(results) = n - 1
    BY <1>3, <1>5 DEF IInv, Printed
  <2>3. /\ IsSequence(summary') /\ Len(summary') = Len(summary) + 1
        /\ summary'[Len(summary) + 1] = a
        /\ \A j \in 1 .. Len(summary) : summary'[j] = summary[j]
    BY <1>1, <2>1, Appended
  <2>4. /\ IsSequence(results') /\ Len(results') = Len(results) + 1
        /\ results'[Len(results) + 1] = b
        /\ \A j \in 1 .. Len(results) : results'[j] = results[j]
    BY <1>1, <2>1, Appended
  <2>5. (n - 1) + 1 = n
    OBVIOUS
  <2> QED
    BY <2>2, <2>3, <2>4, <2>5
<1>8. Types'
  BY <1>1, <1>2, <1>4, <1>7 DEF Types, PerRank
<1>9. \A q \in Rank \ {r} : Unchanged(q)
  BY <1>1, <1>4 DEF Unchanged
<1>10. LaterOrSame /\ SentExtends
  BY <1>1, <1>2 DEF LaterOrSame, SentExtends
<1>11. Printed'
  <2>1. Len(summary') = job'[Master] - 1 /\ Len(results') = job'[Master] - 1
    BY <1>3, <1>4, <1>5, <1>7
  <2>2. ASSUME NEW j \in 1 .. n
        PROVE  /\ \A q \in Rank : Len(posted'[q]) >= j
               /\ summary'[j] = SummaryPrinted(Contributions(j), NReps[j], report)'
               /\ results'[j] = ResultsPrinted(Contributions(j), NReps[j], report)'
    <3>1. Contributions(j)' = Contributions(j) /\ report' = report /\ posted' = posted
      BY <1>1 DEF Contributions
    <3>2. CASE j = n
      BY <1>1, <1>5, <1>6, <1>7, <3>1, <3>2 DEF a, b, AllPosted
    <3>3. CASE j # n
      BY <1>7, <3>1, <3>3 DEF IInv, Printed
    <3> QED
      BY <3>2, <3>3
  <2> QED
    BY <1>7, <2>1, <2>2 DEF Printed
<1>12. ProcessInv(r)'
  <2>1. ControlOf(r)'
    BY <1>4 DEF ControlOf, InLoop
  <2>2. WindowOf(r)' /\ ArraysOf(r)' /\ FinishedOf(r)' /\ CurrentOf(r)'
    BY <1>4 DEF WindowOf, ArraysOf, FinishedOf, CurrentOf, InLoop, InJob
  <2>3. PostedOf(r)'
    <3>1. Len(posted[r]) = n /\ job'[r] - 1 = n
      BY <1>1, <1>2, <1>4, <1>5 DEF ProcessInv, PostedOf
    <3>2. \A j \in 1 .. n : Contributed(r, j)'
      <4> SUFFICES ASSUME NEW j \in 1 .. n
                   PROVE  Contributed(r, j)'
        OBVIOUS
      <4>1. Contributed(r, j)
        BY <1>2, <3>1 DEF ProcessInv, PostedOf
      <4> QED
        BY <1>1, <1>2, <1>10, <4>1, ContributedStays
    <3> QED
      BY <1>1, <1>4, <3>1, <3>2 DEF PostedOf
  <2> QED
    BY <2>1, <2>2, <2>3 DEF ProcessInv
<1>13. Broadcasts'
  BY <1>1, <1>2, <1>3, <1>4 DEF IInv, Broadcasts
<1> QED
  BY <1>8, <1>9, <1>10, <1>11, <1>12, <1>13, StepOf

LEMMA TickKeeps ==
    ASSUME IInv, Tick
    PROVE  IInv'
<1>1. /\ now' = now + 1
      /\ UNCHANGED <<pc, job, i, start_sync, repetition_counter, invalid, sent, err,
                     tstart, tend, report, posted, summary, results>>
  BY DEF Tick, measured, printed
<1>2. Types /\ now \in Nat /\ sent \in Seq(Int) /\ Len(sent) \in Nat
  BY Facts, Counts DEF IInv
<1>3. LaterOrSame /\ SentExtends /\ \A q \in Rank : Unchanged(q)
  BY <1>1, <1>2 DEF LaterOrSame, SentExtends, Unchanged
<1>4. \A q \in Rank : ProcessInv(q)'
  BY <1>3, Others
<1>5. Types'
  BY <1>1, <1>2 DEF Types, PerRank
<1>6. Printed'
  <2>1. \A q \in Rank : Len(posted[q]) \in Nat
    BY Facts DEF IInv, ProcessInv, PostedOf
  <2> QED
    BY <1>1, <2>1, PrintedStays DEF printed
<1>7. Broadcasts'
  BY <1>1 DEF IInv, Broadcasts
<1> QED
  BY <1>4, <1>5, <1>6, <1>7 DEF IInv

LEMMA StutterKeeps ==
    ASSUME IInv, UNCHANGED vars
    PROVE  IInv'
<1>1. UNCHANGED <<now, pc, job, i, start_sync, repetition_counter, invalid, sent, err,
                  tstart, tend, report, posted, summary, results>>
  BY DEF vars, measured, printed
<1>2. Types /\ now \in Nat /\ sent \in Seq(Int) /\ Len(sent) \in Nat
  BY Facts, Counts DEF IInv
<1>3. LaterOrSame /\ SentExtends /\ \A q \in Rank : Unchanged(q)
  BY <1>1, <1>2 DEF LaterOrSame, SentExtends, Unchanged
<1>4. \A q \in Rank : ProcessInv(q)'
  BY <1>3, Others
<1>5. Types'
  BY <1>1, <1>2 DEF Types, PerRank
<1>6. Printed'
  <2>1. \A q \in Rank : Len(posted[q]) \in Nat
    BY Facts DEF IInv, ProcessInv, PostedOf
  <2> QED
    BY <1>1, <2>1, PrintedStays DEF printed
<1>7. Broadcasts'
  BY <1>1 DEF IInv, Broadcasts
<1> QED
  BY <1>4, <1>5, <1>6, <1>7 DEF IInv

LEMMA InvStep == IInv /\ [Next]_vars => IInv'
<1> SUFFICES ASSUME IInv, [Next]_vars PROVE IInv'
  OBVIOUS
<1>1. ASSUME NEW r \in Rank, Step(r)
      PROVE  IInv'
  BY <1>1, InitJobKeeps, SendFirstWindowKeeps, RecvFirstWindowKeeps, FirstPollKeeps,
     PollKeeps, StartCallKeeps, EndCallKeeps, StopSyncKeeps, ContributeKeeps,
     CollectKeeps DEF Step
<1>2. CASE Tick
  BY <1>2, TickKeeps
<1>3. CASE Ended \/ UNCHANGED vars
  BY <1>3, StutterKeeps DEF Ended
<1> QED
  BY <1>1, <1>2, <1>3 DEF Next

-----------------------------------------------------------------------------
(* What follows. *)

\* A flag is filed under the repetition that is being measured: the module's
\* repetition_counter and the loop's i stay together (window_sync.c,
\* benchmarkCollective.c).
THEOREM FlagsFiled == Spec => []FlagsBelongToMeasurement
<1>1. IInv => FlagsBelongToMeasurement
  BY DEF IInv, ProcessInv, ControlOf, FlagsBelongToMeasurement
<1> QED
  BY <1>1, InvInit, InvStep, PTL DEF Spec

\* The processes agree on the start of every window, although only the first
\* one is broadcast (init_sync_round, stop_sync).
THEOREM WindowsStayAgreed == Spec => []WindowsAgree
<1>1. IInv => WindowsAgree
  BY DEF IInv, ProcessInv, WindowOf, WindowsAgree
<1> QED
  BY <1>1, InvInit, InvStep, PTL DEF Spec

-----------------------------------------------------------------------------
(* Maxima and minima over the processes. *)

\* Every set of natural numbers has a least element: what the prover has for
\* induction over a set.
Before == {ss \in Nat \X Nat : ss[1] < ss[2]}
LEMMA Least ==
    ASSUME NEW T \in SUBSET Nat, T # {}
    PROVE  \E x \in T : \A y \in T : x <= y
<1>1. IsWellFoundedOn(Before, Nat)
  BY NatLessThanWellFounded DEF OpToRel, Before
<1>2. PICK x \in T : \A y \in T : ~(<<y, x>> \in Before)
  BY <1>1, WFMin
<1>3. ASSUME NEW y \in T
      PROVE  x <= y
  <2>1. x \in Nat /\ y \in Nat
    OBVIOUS
  <2>2. ~(y < x)
    BY <1>2, <2>1 DEF Before
  <2> QED
    BY <2>1, <2>2
<1> QED
  BY <1>3

LEMMA Greatest ==
    ASSUME NEW f \in [Rank -> Int]
    PROVE  \E q \in Rank : \A r \in Rank : f[r] <= f[q]
<1> DEFINE Good(n) == \E q \in 0 .. n : \A r \in 0 .. n : f[r] <= f[q]
           T == {n \in Nat : n < NP /\ ~Good(n)}
<1>1. SUFFICES T = {}
  <2>1. NP - 1 \in Nat /\ NP - 1 < NP /\ Rank = 0 .. NP - 1
    BY Counts DEF Rank
  <2>2. Good(NP - 1)
    BY <1>1, <2>1
  <2> QED
    BY <2>1, <2>2
<1>2. SUFFICES ASSUME T # {} PROVE FALSE
  OBVIOUS
<1>3. PICK n \in T : \A m \in T : n <= m
  BY <1>2, Least
<1>4. n \in Nat /\ n < NP /\ ~Good(n) /\ NP \in Nat
  BY Counts
<1>5. n # 0
  <2>1. 0 \in Rank
    BY Counts DEF Rank
  <2>2. Good(0)
    BY <2>1
  <2> QED
    BY <1>4, <2>2
<1>6. Good(n - 1)
  <2>1. n - 1 \in Nat /\ n - 1 < NP /\ ~(n <= n - 1)
    BY <1>4, <1>5
  <2> QED
    BY <1>3, <2>1
<1>7. PICK q \in 0 .. n - 1 : \A r \in 0 .. n - 1 : f[r] <= f[q]
  BY <1>6
<1>8. /\ \A r \in 0 .. n : r \in Rank /\ f[r] \in Int /\ (r \in 0 .. n - 1 \/ r = n)
      /\ q \in 0 .. n /\ n \in 0 .. n
  BY <1>4, <1>5 DEF Rank
<1>9. Good(n)
  <2>1. CASE f[n] <= f[q]
    <3>1. \A r \in 0 .. n : f[r] <= f[q]
      BY <1>7, <1>8, <2>1
    <3> QED
      BY <1>8, <3>1
  <2>2. CASE f[q] <= f[n]
    <3>1. \A r \in 0 .. n : f[r] <= f[n]
      BY <1>7, <1>8, <2>2
    <3> QED
      BY <1>8, <3>1
  <2> QED
    BY <1>8, <2>1, <2>2
<1> QED
  BY <1>4, <1>9

LEMMA MaxOfRanks ==
    ASSUME NEW calls, DOMAIN calls = Rank, NEW p, NEW k,
           \A q \in Rank : calls[q][p][k] \in Int
    PROVE  /\ \E q \in Rank : MaxOf(calls, p, k) = calls[q][p][k]
           /\ \A q \in Rank : calls[q][p][k] <= MaxOf(calls, p, k)
<1> DEFINE f == [q \in Rank |-> calls[q][p][k]]
           S == {calls[q][p][k] : q \in DOMAIN calls}
<1>1. f \in [Rank -> Int]
  OBVIOUS
<1>2. PICK q \in Rank : \A r \in Rank : f[r] <= f[q]
  BY <1>1, Greatest
<1>3. calls[q][p][k] \in S /\ \A y \in S : calls[q][p][k] >= y
  BY <1>2
<1>4. MaxOf(calls, p, k) \in S /\ \A y \in S : MaxOf(calls, p, k) >= y
  BY <1>3 DEF MaxOf, FX!Max
<1> QED
  BY <1>4

LEMMA MinOfRanks ==
    ASSUME NEW calls, DOMAIN calls = Rank, NEW p, NEW k,
           \A q \in Rank : calls[q][p][k] \in Int
    PROVE  /\ \E q \in Rank : MinOf(calls, p, k) = calls[q][p][k]
           /\ \A q \in Rank : MinOf(calls, p, k) <= calls[q][p][k]
<1> DEFINE f == [q \in Rank |-> 0 - calls[q][p][k]]
           S == {calls[q][p][k] : q \in DOMAIN calls}
<1>1. f \in [Rank -> Int]
  OBVIOUS
<1>2. PICK q \in Rank : \A r \in Rank : f[r] <= f[q]
  BY <1>1, Greatest
<1>3. \A r \in Rank : calls[q][p][k] <= calls[r][p][k]
  BY <1>2
<1>4. calls[q][p][k] \in S /\ \A y \in S : calls[q][p][k] <= y
  BY <1>3
<1>5. MinOf(calls, p, k) \in S /\ \A y \in S : MinOf(calls, p, k) <= y
  BY <1>4 DEF MinOf, FX!Min
<1> QED
  BY <1>5

-----------------------------------------------------------------------------
(* What the root reads for the summary is what the processes contributed   *)
(* to its reductions, whatever is gathered after that.                     *)

LEMMA ChunkCount ==
    ASSUME NEW n \in Nat
    PROVE  NChunks(n) \in Nat
  BY ChunkAssumption DEF NChunks

LEMMA SummaryCalls ==
    ASSUME NEW m, NEW n \in Nat, report.summary
    PROVE  /\ Calls(m, n, report)[1] = m.codes
           /\ report.timing = "global" =>
                  /\ Calls(m, n, report)[2] = GlobalTimes(m, m.tstart)
                  /\ Calls(m, n, report)[3] = GlobalTimes(m, m.tend)
           /\ report.timing # "global" => Calls(m, n, report)[2] = LocalRuntimes(m)
<1> DEFINE first == Reductions(m, report.timing)
           G(p) == Gathers(m, n, (p - 1) \div 5)[((p - 1) % 5) + 1]
           gathered == [p \in 1 .. 5 * NChunks(n) |-> G(p)]
           rest == IF ~PrintsResults(report) THEN <<>>
                   ELSE IF ~report.verbose THEN first ELSE gathered
           V == {first[p] : p \in 1 .. 3} \cup {G(p) : p \in 1 .. 5 * NChunks(n)}
<1>1. Calls(m, n, report) = first \o rest
  BY DEF Calls
<1>2. first \in Seq(V)
  <2>1. first[1] \in V /\ first[2] \in V /\ first[3] \in V
    OBVIOUS
  <2> HIDE DEF V, first
  <2>2. CASE report.timing = "global"
    <3>1. first = <<m.codes, GlobalTimes(m, m.tstart), GlobalTimes(m, m.tend)>>
      BY <2>2 DEF Reductions, first
    <3>2. <<first[1], first[2], first[3]>> \in Seq(V)
      BY <2>1
    <3> QED
      BY <3>1, <3>2
  <2>3. CASE report.timing # "global"
    <3>1. first = <<m.codes, LocalRuntimes(m)>>
      BY <2>3 DEF Reductions, first
    <3>2. <<first[1], first[2]>> \in Seq(V)
      BY <2>1
    <3> QED
      BY <3>1, <3>2
  <2> QED
    BY <2>2, <2>3
<1>3. gathered \in Seq(V)
  <2>1. 5 * NChunks(n) \in Nat
    BY ChunkCount
  <2>2. \A p \in 1 .. 5 * NChunks(n) : G(p) \in V
    OBVIOUS
  <2> HIDE DEF G, V
  <2> QED
    BY <2>1, <2>2
<1> HIDE DEF V, gathered
<1>4. rest \in Seq(V)
  BY <1>2, <1>3
<1> HIDE DEF rest
<1>5. \A p \in 1 .. Len(first) : (first \o rest)[p] = first[p]
  BY <1>2, <1>4
<1>6. CASE report.timing = "global"
  <2>1. /\ Len(first) = 3 /\ first[1] = m.codes /\ first[2] = GlobalTimes(m, m.tstart)
        /\ first[3] = GlobalTimes(m, m.tend)
    BY <1>6 DEF Reductions
  <2> HIDE DEF first
  <2>2. 1 \in 1 .. Len(first) /\ 2 \in 1 .. Len(first) /\ 3 \in 1 .. Len(first)
    BY <2>1
  <2>3. \A p \in 1 .. Len(first) : Calls(m, n, report)[p] = first[p]
    BY <1>1, <1>5, Zenon
  <2> QED
    BY <1>6, <2>1, <2>2, <2>3
<1>7. CASE report.timing # "global"
  <2>1. Len(first) = 2 /\ first[1] = m.codes /\ first[2] = LocalRuntimes(m)
    BY <1>7 DEF Reductions
  <2> HIDE DEF first
  <2>2. 1 \in 1 .. Len(first) /\ 2 \in 1 .. Len(first)
    BY <2>1
  <2>3. \A p \in 1 .. Len(first) : Calls(m, n, report)[p] = first[p]
    BY <1>1, <1>5, Zenon
  <2> QED
    BY <1>7, <2>1, <2>2, <2>3
<1> QED
  BY <1>6, <1>7

-----------------------------------------------------------------------------
(* What the summary keeps. *)

LEMMA KeptBy ==
    ASSUME IInv, NEW j \in DOMAIN summary, NEW k \in DOMAIN summary[j]
    PROVE  /\ report \in Report /\ report.summary
           /\ k \in Rep(j) /\ NReps[j] \in Nat /\ sent[j] \in Int
           /\ summary[j][k] = Runtime(Contributions(j), 1, k, report.timing)
           /\ ErrorCode(Contributions(j), 1, k) = 0
           /\ \A r \in Rank : Contributed(r, j)
<1> DEFINE calls == Contributions(j)
<1>1. Types /\ Printed
  BY DEF IInv
<1>2. report \in Report /\ IsSequence(summary)
  BY <1>1 DEF Types
<1>3. j \in 1 .. Len(summary) /\ Len(summary) \in Nat
  BY <1>2 DEF IsSequence
<1>4. /\ Len(summary) = job[Master] - 1
      /\ \A q \in Rank : Len(posted[q]) >= j
      /\ summary[j] = SummaryPrinted(calls, NReps[j], report)
  BY <1>1, <1>3 DEF Printed
<1>5. j \in 1 .. NJobs
  <2>1. job[Master] <= NJobs + 1 /\ job[Master] \in Nat
    BY Counts, Facts DEF ProcessInv, ControlOf
  <2> QED
    BY <1>3, <1>4, <2>1, Counts
<1>6. report.summary /\ summary[j] = Summarized(calls, NReps[j], report.timing)
  <2>1. DOMAIN <<>> = {}
    OBVIOUS
  <2>2. CASE report.summary
    BY <1>4, <2>2 DEF SummaryPrinted
  <2>3. CASE ~report.summary
    <3>1. summary[j] = <<>>
      BY <1>4, <2>3 DEF SummaryPrinted
    <3> QED
      BY <2>1, <3>1
  <2> QED
    BY <2>2, <2>3
<1>7. k \in Rep(j) /\ ErrorCode(calls, 1, k) = 0 /\ summary[j][k] = Runtime(calls, 1, k, report.timing)
  BY <1>6 DEF Summarized, Rep
<1>8. \A r \in Rank : Contributed(r, j)
  <2> SUFFICES ASSUME NEW r \in Rank PROVE Contributed(r, j)
    OBVIOUS
  <2>1. PostedOf(r) /\ Len(posted[r]) >= j /\ job[r] \in Nat
    BY <1>4, Facts DEF ProcessInv
  <2>2. Len(posted[r]) \in Int
    BY <2>1 DEF PostedOf
  <2>3. j \in 1 .. Len(posted[r])
    BY <1>3, <2>1, <2>2
  <2> QED
    BY <2>1, <2>3 DEF PostedOf
<1>9. sent[j] \in Int
  <2>1. j <= Len(sent) /\ sent \in Seq(Int)
    BY <1>8, Counts, Facts DEF Contributed
  <2> QED
    BY <1>5, <2>1
<1> QED
  BY <1>2, <1>5, <1>6, <1>7, <1>8, <1>9, Counts

\* The calls of the summary, in terms of the measurements.
LEMMA KeptCalls ==
    ASSUME IInv, NEW j \in DOMAIN summary, NEW k \in DOMAIN summary[j], NEW r \in Rank
    PROVE  LET m == Measured(r, j)
               c == Contributions(j)[r]
           IN  /\ m.err \in Nat /\ m.tstart[k] \in Int /\ m.tend[k] \in Int
               /\ m.codes[k] \in 0 .. 3 /\ c[1][k] = m.codes[k]
               /\ report.timing = "global" => /\ c[2][k] = m.tstart[k] + m.err
                                              /\ c[3][k] = m.tend[k] + m.err
               /\ report.timing # "global" => c[2][k] = m.tend[k] - m.tstart[k]
<1> DEFINE m == Measured(r, j)
           c == Contributions(j)[r]
<1>1. /\ report.summary /\ k \in Rep(j) /\ NReps[j] \in Nat /\ Contributed(r, j)
  BY KeptBy
<1>2. /\ m.err \in Nat /\ m.codes \in [Rep(j) -> 0 .. 3]
      /\ m.tstart \in [Rep(j) -> Int] /\ m.tend \in [Rep(j) -> Int]
      /\ posted[r][j] = [measured |-> m, calls |-> Calls(m, NReps[j], report)]
  BY <1>1 DEF Contributed
<1>3. c = Calls(m, NReps[j], report)
  BY <1>2 DEF Contributions
<1> HIDE DEF m, c
<1>4. /\ c[1] = m.codes
      /\ report.timing = "global" => /\ c[2] = GlobalTimes(m, m.tstart)
                                     /\ c[3] = GlobalTimes(m, m.tend)
      /\ report.timing # "global" => c[2] = LocalRuntimes(m)
  BY <1>1, <1>3, SummaryCalls
<1>5. /\ GlobalTimes(m, m.tstart)[k] = m.tstart[k] + m.err
      /\ GlobalTimes(m, m.tend)[k] = m.tend[k] + m.err
      /\ LocalRuntimes(m)[k] = m.tend[k] - m.tstart[k]
  BY <1>1, <1>2 DEF GlobalTimes, LocalRuntimes
<1>6. /\ m.err \in Nat /\ m.tstart[k] \in Int /\ m.tend[k] \in Int
      /\ m.codes[k] \in 0 .. 3 /\ c[1][k] = m.codes[k]
      /\ report.timing = "global" => /\ c[2][k] = m.tstart[k] + m.err
                                     /\ c[3][k] = m.tend[k] + m.err
      /\ report.timing # "global" => c[2][k] = m.tend[k] - m.tstart[k]
  BY <1>1, <1>2, <1>4, <1>5
<1> QED
  BY <1>6 DEF m, c

\* A repetition without an error code has been measured in its window by every
\* process.
LEMMA KeptWithin ==
    ASSUME IInv, NEW j \in DOMAIN summary, NEW k \in DOMAIN summary[j], NEW r \in Rank
    PROVE  LET m == Measured(r, j)
           IN  /\ sent[j] + k * WindowSize <= m.tstart[k] + m.err
               /\ m.tstart[k] <= m.tend[k]
               /\ m.tend[k] + m.err <= sent[j] + (k + 1) * WindowSize
<1> DEFINE m == Measured(r, j)
           calls == Contributions(j)
<1>1. DOMAIN calls = Rank
  BY DEF Contributions
<1>2. /\ k \in Rep(j) /\ Contributed(r, j) /\ MaxOf(calls, 1, k) = 0
  BY KeptBy DEF ErrorCode
<1>3. \A q \in Rank : calls[q][1][k] \in 0 .. 3 /\ calls[q][1][k] = Measured(q, j).codes[k]
  BY KeptCalls
<1>4. \A q \in Rank : calls[q][1][k] \in Int
  BY <1>3
<1>5. calls[r][1][k] <= MaxOf(calls, 1, k)
  BY <1>1, <1>4, MaxOfRanks
<1>6. m.codes[k] = 0
  BY <1>2, <1>3, <1>5
<1>7. Within(sent[j], k, m.err, m.tstart[k], m.tend[k], m.codes[k] # 0)
  BY <1>2 DEF Contributed
<1> HIDE DEF m
<1>8. /\ sent[j] + k * WindowSize <= m.tstart[k] + m.err
      /\ m.tstart[k] <= m.tend[k]
      /\ m.tend[k] + m.err <= sent[j] + (k + 1) * WindowSize
  BY <1>6, <1>7 DEF Within
<1> QED
  BY <1>8 DEF m

LEMMA InvKeptInWindow == IInv => KeptInWindow
<1> SUFFICES ASSUME IInv, NEW j \in DOMAIN summary, NEW k \in DOMAIN summary[j], NEW r \in Rank
             PROVE  LET m == Measured(r, j)
                    IN  /\ sent[j] + k * WindowSize <= m.tstart[k] + m.err
                        /\ m.tend[k] + m.err <= sent[j] + (k + 1) * WindowSize
  BY DEF KeptInWindow
<1> QED
  BY KeptWithin

LEMMA InvKeptRuntimesBounded == IInv => KeptRuntimesBounded
<1> SUFFICES ASSUME IInv, NEW j \in DOMAIN summary, NEW k \in DOMAIN summary[j]
             PROVE  /\ summary[j][k] <= WindowSize
                    /\ \A r \in Rank : Measured(r, j).tend[k] - Measured(r, j).tstart[k]
                                           <= summary[j][k]
  BY DEF KeptRuntimesBounded
<1> DEFINE calls == Contributions(j)
           from(r) == Measured(r, j).tstart[k]
           to(r) == Measured(r, j).tend[k]
           e(r) == Measured(r, j).err
           begin == sent[j] + k * WindowSize
           end == sent[j] + (k + 1) * WindowSize
<1>1. DOMAIN calls = Rank
  BY DEF Contributions
<1>2. /\ report \in Report /\ k \in Rep(j) /\ sent[j] \in Int /\ NReps[j] \in Nat
      /\ summary[j][k] = Runtime(calls, 1, k, report.timing)
  BY KeptBy
<1>3. begin \in Int /\ end = begin + WindowSize /\ WindowSize \in Nat
  <2>1. k \in Int
    BY <1>2 DEF Rep
  <2>2. k * WindowSize \in Int /\ (k + 1) * WindowSize = k * WindowSize + WindowSize
    BY <2>1, WindowTimes
  <2> QED
    BY <1>2, <2>2, Counts
<1>4. \A r \in Rank : /\ from(r) \in Int /\ to(r) \in Int /\ e(r) \in Int
                      /\ begin <= from(r) + e(r) /\ from(r) <= to(r)
                      /\ to(r) + e(r) <= end
  BY KeptCalls, KeptWithin
<1>5. \A r \in Rank : /\ report.timing = "global" => /\ calls[r][2][k] = from(r) + e(r)
                                                    /\ calls[r][3][k] = to(r) + e(r)
                      /\ report.timing # "global" => calls[r][2][k] = to(r) - from(r)
  BY KeptCalls
<1> HIDE DEF calls, from, to, e, begin, end
<1>6. CASE report.timing = "global"
  <2> DEFINE hi == MaxOf(calls, 3, k)
             lo == MinOf(calls, 2, k)
  <2>1. /\ \A q \in Rank : calls[q][3][k] \in Int /\ calls[q][2][k] \in Int
    BY <1>4, <1>5, <1>6
  <2>2. /\ \E q \in Rank : hi = calls[q][3][k]
        /\ \A q \in Rank : calls[q][3][k] <= hi
    BY <1>1, <2>1, MaxOfRanks
  <2>3. /\ \E q \in Rank : lo = calls[q][2][k]
        /\ \A q \in Rank : lo <= calls[q][2][k]
    BY <1>1, <2>1, MinOfRanks
  <2>4. summary[j][k] = hi - lo
    BY <1>2, <1>6 DEF Runtime
  <2> HIDE DEF hi, lo
  <2>5. hi \in Int /\ lo \in Int /\ hi <= end /\ begin <= lo
    BY <1>4, <1>5, <1>6, <2>1, <2>2, <2>3
  <2>6. hi - lo <= WindowSize
    BY <1>3, <2>5
  <2>7. \A r \in Rank : to(r) - from(r) <= hi - lo
    BY <1>4, <1>5, <1>6, <2>2, <2>3, <2>5
  <2> QED
    BY <2>4, <2>6, <2>7 DEF to, from
<1>7. CASE report.timing # "global"
  <2> DEFINE hi == MaxOf(calls, 2, k)
  <2>1. \A q \in Rank : calls[q][2][k] \in Int
    BY <1>4, <1>5, <1>7
  <2>2. /\ \E q \in Rank : hi = calls[q][2][k]
        /\ \A q \in Rank : calls[q][2][k] <= hi
    BY <1>1, <2>1, MaxOfRanks
  <2>3. summary[j][k] = hi
    BY <1>2, <1>7 DEF Runtime
  <2> HIDE DEF hi
  <2>4. hi <= WindowSize
    BY <1>3, <1>4, <1>5, <1>7, <2>2
  <2>5. \A r \in Rank : to(r) - from(r) <= hi
    BY <1>5, <1>7, <2>2
  <2> QED
    BY <2>3, <2>4, <2>5 DEF to, from
<1> QED
  BY <1>6, <1>7

\* What the summary keeps was measured within its window by every process,
\* however late some of them were (stop_sync, print_summary).
THEOREM KeptStaysInWindow == Spec => []KeptInWindow
  BY InvKeptInWindow, InvInit, InvStep, PTL DEF Spec

\* The runtime that the summary is made of is at most the window and at least
\* what each process measured (compute_runtimes, print_summary).
THEOREM KeptRuntimesStayBounded == Spec => []KeptRuntimesBounded
  BY InvKeptRuntimesBounded, InvInit, InvStep, PTL DEF Spec

-----------------------------------------------------------------------------
(* The chunks of the verbose results. *)

CHUNK == OUTPUT_NITERATIONS_CHUNK

LEMMA DivisionBy ==
    ASSUME NEW C \in Nat \ {0}, NEW n \in Nat
    PROVE  /\ n \div C \in Nat /\ n % C \in 0 .. C - 1
           /\ n = (n \div C) * C + (n % C)
<1>1. n \div C \in Nat
  BY Z3
<1>2. n % C \in 0 .. C - 1
  BY SMTT(30)
<1>3. n = C * (n \div C) + (n % C)
  BY SMTT(30)
<1> DEFINE d == n \div C
           e == n % C
<1>4. d \in Nat /\ e \in 0 .. C - 1 /\ n = C * d + e
  BY <1>1, <1>2, <1>3
<1> HIDE DEF d, e
<1>5. n = d * C + e
  BY <1>4
<1> QED BY <1>4, <1>5 DEF d, e

LEMMA Division ==
    ASSUME NEW n \in Nat
    PROVE  /\ n \div CHUNK \in Nat /\ n % CHUNK \in 0 .. CHUNK - 1
           /\ n = (n \div CHUNK) * CHUNK + (n % CHUNK)
<1>1. CHUNK \in Nat \ {0}
  BY ChunkAssumption DEF CHUNK
<1> QED BY <1>1, DivisionBy

LEMMA Multiples ==
    ASSUME NEW a \in Nat, NEW b \in Nat
    PROVE  /\ a * CHUNK \in Nat /\ (a + 1) * CHUNK = a * CHUNK + CHUNK
           /\ a <= b => a * CHUNK <= b * CHUNK
           /\ 0 * CHUNK = 0
<1> DEFINE C == CHUNK
<1>1. C \in Nat \ {0}
  BY ChunkAssumption DEF CHUNK
<1> HIDE DEF C
<1>2. a * C \in Nat /\ (a + 1) * C = a * C + C /\ 0 * C = 0
  BY <1>1
<1>3. a <= b => a * C <= b * C
  BY <1>1
<1> QED BY <1>2, <1>3 DEF C

\* All chunks are full but the last, which takes what is left.
LEMMA ChunkSize ==
    ASSUME NEW n \in Nat, NEW c \in 0 .. NChunks(n) - 1
    PROVE  LET q == n \div CHUNK
               s == n % CHUNK
           IN  \/ c < q /\ ChunkNRep(n, c) = CHUNK
               \/ c = q /\ s # 0 /\ ChunkNRep(n, c) = s
<1> DEFINE q == n \div CHUNK
           s == n % CHUNK
<1>1. q \in Nat /\ s \in 0 .. CHUNK - 1
  BY Division
<1>2. /\ NChunks(n) = q + (IF s # 0 THEN 1 ELSE 0)
      /\ ChunkNRep(n, c) = IF c = NChunks(n) - 1 /\ s # 0 THEN s ELSE CHUNK
  BY DEF NChunks, ChunkNRep, CHUNK
<1> HIDE DEF q, s
<1>3. (c < q /\ ChunkNRep(n, c) = CHUNK) \/ (c = q /\ s # 0 /\ ChunkNRep(n, c) = s)
  BY <1>1, <1>2
<1> QED BY <1>3 DEF q, s

\* Element k of chunk c is a repetition that comes after all earlier chunks.
LEMMA RepOfChunk ==
    ASSUME NEW n \in Nat, NEW c \in 0 .. NChunks(n) - 1, NEW k \in 0 .. ChunkNRep(n, c) - 1
    PROVE  /\ c \in Nat /\ k \in Nat /\ k < CHUNK
           /\ c * CHUNK \in Nat /\ c * CHUNK + k \in 0 .. n - 1
           /\ \A d \in 0 .. c - 1 : ChunkNRep(n, d) <= c * CHUNK
           /\ c * CHUNK + k < CHUNK => c = 0
<1> DEFINE q == n \div CHUNK
           s == n % CHUNK
           M(a) == a * CHUNK
           f(d) == ChunkNRep(n, d)
<1>1. q \in Nat /\ s \in 0 .. CHUNK - 1 /\ n = M(q) + s /\ CHUNK \in Nat \ {0}
      /\ NChunks(n) \in Nat /\ c \in Nat
  BY Division, ChunkCount, ChunkAssumption DEF CHUNK
<1>2. (c < q /\ f(c) = CHUNK) \/ (c = q /\ s # 0 /\ f(c) = s)
  BY ChunkSize
<1>3. \A d \in 0 .. c - 1 : f(d) <= CHUNK
  <2>1. ASSUME NEW d \in 0 .. c - 1 PROVE (d < q /\ f(d) = CHUNK) \/ (d = q /\ s # 0 /\ f(d) = s)
    <3>1. d \in 0 .. NChunks(n) - 1
      BY <1>1
    <3> QED BY <3>1, ChunkSize
  <2> HIDE DEF f, q, s
  <2> QED BY <1>1, <2>1
<1>4. \A a \in Nat : \A b \in Nat :
          /\ M(a) \in Nat /\ M(a + 1) = M(a) + CHUNK /\ M(0) = 0
          /\ a <= b => M(a) <= M(b)
  BY Multiples
<1>5. k \in Nat /\ k < f(c)
  <2>1. f(c) \in Nat
    <3> HIDE DEF f, q, s
    <3> QED BY <1>1, <1>2
  <2> HIDE DEF f
  <2>2. k \in 0 .. f(c) - 1
    BY DEF f
  <2> QED BY <2>1, <2>2
<1> HIDE DEF f, q, s, M
<1>6. k < CHUNK
  BY <1>1, <1>2, <1>5
<1>7. M(c) + k \in 0 .. n - 1
  <2>1. CASE c < q
    <3>1. M(c + 1) = M(c) + CHUNK /\ M(c + 1) <= M(q) /\ M(c) \in Nat /\ M(q) \in Nat
      BY <1>1, <1>4, <2>1
    <3> QED BY <1>1, <1>5, <1>6, <3>1
  <2>2. CASE c = q /\ f(c) = s
    <3>1. M(c) \in Nat
      BY <1>1, <1>4
    <3> QED BY <1>1, <1>5, <2>2, <3>1
  <2> QED BY <1>2, <2>1, <2>2
<1>8. c # 0 => CHUNK <= M(c) /\ M(c) \in Nat
  <2>1. c # 0 => M(1) <= M(c) /\ M(0 + 1) = M(0) + CHUNK /\ M(0) = 0 /\ M(c) \in Nat
    BY <1>1, <1>4
  <2> QED BY <1>1, <2>1
<1>9. \A d \in 0 .. c - 1 : f(d) <= M(c)
  <2>1. ASSUME NEW d \in 0 .. c - 1 PROVE f(d) <= M(c)
    <3>1. c # 0 /\ f(d) <= CHUNK
      BY <1>1, <1>3
    <3>2. f(d) \in Int
      <4>1. (d < q /\ f(d) = CHUNK) \/ (d = q /\ s # 0 /\ f(d) = s)
        <5>1. d \in 0 .. NChunks(n) - 1
          BY <1>1
        <5> QED BY <5>1, ChunkSize DEF f, q, s
      <4> QED BY <1>1, <4>1
    <3> QED BY <1>1, <1>8, <3>1, <3>2
  <2> QED BY <2>1
<1>10. M(c) + k < CHUNK => c = 0
  BY <1>1, <1>5, <1>8
<1>11. M(c) \in Nat
  BY <1>1, <1>4
<1> QED BY <1>1, <1>5, <1>6, <1>7, <1>9, <1>10, <1>11 DEF M, f

\* Every repetition is in a chunk.
LEMMA ChunkOfRep ==
    ASSUME NEW n \in Nat, NEW x \in 0 .. n - 1
    PROVE  \E c \in 0 .. NChunks(n) - 1 : \E k \in 0 .. ChunkNRep(n, c) - 1 : x = c * CHUNK + k
<1> DEFINE q == n \div CHUNK
           s == n % CHUNK
           c == x \div CHUNK
           k == x % CHUNK
           M(a) == a * CHUNK
           f(d) == ChunkNRep(n, d)
<1>1. /\ q \in Nat /\ s \in 0 .. CHUNK - 1 /\ n = M(q) + s
      /\ c \in Nat /\ k \in 0 .. CHUNK - 1 /\ x = M(c) + k
      /\ CHUNK \in Nat \ {0} /\ x < n /\ NChunks(n) \in Nat
  <2>1. x \in Nat /\ x < n
    OBVIOUS
  <2>2. q \in Nat /\ s \in 0 .. CHUNK - 1 /\ n = M(q) + s
    BY Division, Zenon
  <2>3. c \in Nat /\ k \in 0 .. CHUNK - 1 /\ x = M(c) + k
    BY <2>1, Division, Zenon
  <2>4. CHUNK \in Nat \ {0} /\ NChunks(n) \in Nat
    BY ChunkCount, ChunkAssumption DEF CHUNK
  <2> QED BY <2>1, <2>2, <2>3, <2>4
<1>2. NChunks(n) = q + (IF s # 0 THEN 1 ELSE 0)
  BY DEF NChunks, CHUNK
<1>3. \A a \in Nat : \A b \in Nat :
          /\ M(a) \in Nat /\ M(a + 1) = M(a) + CHUNK
          /\ a <= b => M(a) <= M(b)
  BY Multiples
<1>4. c \in 0 .. NChunks(n) - 1 => (c < q /\ f(c) = CHUNK) \/ (c = q /\ s # 0 /\ f(c) = s)
  <2> SUFFICES ASSUME c \in 0 .. NChunks(n) - 1
               PROVE  (c < q /\ f(c) = CHUNK) \/ (c = q /\ s # 0 /\ f(c) = s)
    OBVIOUS
  <2> HIDE DEF c
  <2> QED BY ChunkSize
<1> HIDE DEF q, s, c, k, M, f
<1>5. c < q \/ (c = q /\ k < s)
  <2>1. CASE c > q
    <3>1. M(q + 1) = M(q) + CHUNK /\ M(q + 1) <= M(c) /\ M(c) \in Nat /\ M(q) \in Nat
      BY <1>1, <1>3, <2>1
    <3> QED BY <1>1, <3>1
  <2>2. CASE c = q
    <3>1. M(q) \in Nat
      BY <1>1, <1>3
    <3> QED BY <1>1, <2>2, <3>1
  <2> QED BY <1>1, <2>1, <2>2
<1>6. c \in 0 .. NChunks(n) - 1
  BY <1>1, <1>2, <1>5
<1>7. k \in 0 .. f(c) - 1
  BY <1>1, <1>4, <1>5, <1>6
<1> QED BY <1>1, <1>6, <1>7 DEF M, f

-----------------------------------------------------------------------------
(* What is gathered for the verbose results. *)

\* Where the gathers are among the calls of a job.
At == IF ~report.summary THEN 1 ELSE IF report.timing = "global" THEN 4 ELSE 3

LEMMA VerboseCalls ==
    ASSUME NEW m, NEW n \in Nat, report.verbose, PrintsResults(report),
           NEW c \in 0 .. NChunks(n) - 1, NEW x \in 0 .. 4
    PROVE  Calls(m, n, report)[At + 5 * c + x] = Gathers(m, n, c)[x + 1]
<1> DEFINE first == IF report.summary THEN Reductions(m, report.timing) ELSE <<>>
           G(p) == Gathers(m, n, (p - 1) \div 5)[((p - 1) % 5) + 1]
           gathered == [p \in 1 .. 5 * NChunks(n) |-> G(p)]
           p0 == 5 * c + x + 1
           V == {first[p] : p \in 1 .. 3} \cup {G(p) : p \in 1 .. 5 * NChunks(n)}
<1>1. Calls(m, n, report) = first \o gathered
  BY DEF Calls
<1>2. first \in Seq(V) /\ Len(first) = At - 1 /\ Len(first) \in Nat
  <2>1. first[1] \in V /\ first[2] \in V /\ first[3] \in V
    OBVIOUS
  <2> HIDE DEF V, first
  <2>2. CASE ~report.summary
    BY <2>2 DEF first, At
  <2>3. CASE report.summary /\ report.timing = "global"
    <3>1. first = <<m.codes, GlobalTimes(m, m.tstart), GlobalTimes(m, m.tend)>>
      BY <2>3 DEF Reductions, first
    <3>2. <<first[1], first[2], first[3]>> \in Seq(V)
      BY <2>1
    <3> QED
      BY <2>3, <3>1, <3>2 DEF At
  <2>4. CASE report.summary /\ report.timing # "global"
    <3>1. first = <<m.codes, LocalRuntimes(m)>>
      BY <2>4 DEF Reductions, first
    <3>2. <<first[1], first[2]>> \in Seq(V)
      BY <2>1
    <3> QED
      BY <2>4, <3>1, <3>2 DEF At
  <2> QED
    BY <2>2, <2>3, <2>4
<1>3. gathered \in Seq(V) /\ Len(gathered) = 5 * NChunks(n)
  <2>1. 5 * NChunks(n) \in Nat
    BY ChunkCount
  <2>2. \A p \in 1 .. 5 * NChunks(n) : G(p) \in V
    OBVIOUS
  <2> HIDE DEF G, V
  <2> QED
    BY <2>1, <2>2
<1>4. p0 \in 1 .. 5 * NChunks(n) /\ (p0 - 1) \div 5 = c /\ (p0 - 1) % 5 = x
  BY ChunkCount
<1>5. gathered[p0] = Gathers(m, n, c)[x + 1]
  <2>1. gathered[p0] = G(p0)
    <3> HIDE DEF G, p0
    <3> QED BY <1>4
  <2>2. G(p0) = Gathers(m, n, c)[x + 1]
    <3> HIDE DEF p0
    <3> QED BY <1>4
  <2> QED BY <2>1, <2>2
<1> HIDE DEF V, gathered, first
<1>6. (first \o gathered)[Len(first) + p0] = gathered[p0]
  <2> HIDE DEF p0
  <2> QED BY <1>2, <1>3, <1>4
<1>7. Len(first) + p0 = At + 5 * c + x
  <2>1. At \in Nat /\ c \in Nat
    BY ChunkCount DEF At
  <2> QED BY <1>2, <2>1
<1> QED BY <1>1, <1>5, <1>6, <1>7

\* No chunk before c has normalised the times of chunk c.
LEMMA NotNormalized ==
    ASSUME NEW m, NEW times, NEW n \in Nat, NEW c \in 0 .. NChunks(n) - 1,
           NEW k \in 0 .. ChunkNRep(n, c) - 1,
           m.err \in Nat, times \in [0 .. n - 1 -> Int]
    PROVE  Normalized(m, times, n, c)[c * CHUNK + k] = times[c * CHUNK + k]
<1> DEFINE x == c * CHUNK + k
           D == {d \in 0 .. c - 1 : x < ChunkNRep(n, d)}
<1>1. /\ x \in 0 .. n - 1 /\ k \in Nat /\ c * CHUNK \in Nat /\ c \in Nat
      /\ \A d \in 0 .. c - 1 : ChunkNRep(n, d) <= c * CHUNK
  BY RepOfChunk
<1>2. ASSUME NEW d \in 0 .. c - 1 PROVE ~(x < ChunkNRep(n, d))
  <2>1. ChunkNRep(n, d) \in Int
    <3>1. d \in 0 .. NChunks(n) - 1
      BY <1>1, ChunkCount
    <3>2. n \div CHUNK \in Nat /\ n % CHUNK \in 0 .. CHUNK - 1 /\ CHUNK \in Nat
      BY Division, ChunkAssumption DEF CHUNK
    <3>3. ChunkNRep(n, d) \in {CHUNK, n % CHUNK}
      BY <3>1, ChunkSize
    <3> QED BY <3>2, <3>3
  <2> DEFINE M == c * CHUNK
  <2>2. M \in Nat /\ x = M + k /\ ChunkNRep(n, d) <= M
    BY <1>1
  <2> HIDE DEF M, x
  <2> QED BY <1>1, <2>1, <2>2
<1>3. D = {}
  BY <1>2
<1>4. Cardinality(D) = 0
  BY <1>3, FS_EmptySet
<1>5. Normalized(m, times, n, c)[x] = times[x] + m.err * Cardinality(D)
  BY <1>1 DEF Normalized
<1> HIDE DEF D, x
<1>6. Normalized(m, times, n, c)[x] = times[x]
  BY <1>1, <1>4, <1>5
<1> QED BY <1>6 DEF x

\* The first chunk has normalised its own times, once.
LEMMA FirstNormalized ==
    ASSUME NEW m, NEW times, NEW n \in Nat, 0 \in 0 .. NChunks(n) - 1,
           NEW k \in 0 .. ChunkNRep(n, 0) - 1,
           m.err \in Nat, times \in [0 .. n - 1 -> Int], k \in 0 .. n - 1
    PROVE  Normalized(m, times, n, 0 + 1)[k] = times[k] + m.err
<1> DEFINE D == {d \in 0 .. 0 + 1 - 1 : k < ChunkNRep(n, d)}
<1>1. D = {0}
  <2>1. k < ChunkNRep(n, 0)
    <3>1. n \div CHUNK \in Nat /\ n % CHUNK \in 0 .. CHUNK - 1 /\ CHUNK \in Nat
      BY Division, ChunkAssumption DEF CHUNK
    <3>2. ChunkNRep(n, 0) \in {CHUNK, n % CHUNK}
      BY ChunkSize
    <3>3. ChunkNRep(n, 0) \in Int
      BY <3>1, <3>2
    <3> QED BY <3>3
  <2>2. \A d : d \in 0 .. 0 + 1 - 1 <=> d = 0
    OBVIOUS
  <2> QED BY <2>1, <2>2
<1>2. Cardinality(D) = 1
  BY <1>1, FS_Singleton
<1>3. Normalized(m, times, n, 0 + 1)[k] = times[k] + m.err * Cardinality(D)
  BY DEF Normalized
<1> HIDE DEF D
<1> QED BY <1>2, <1>3

\* What a process contributes to the gathers of a chunk.
LEMMA GatheredRight ==
    ASSUME NEW m, NEW n \in Nat, report.verbose, PrintsResults(report),
           NEW c \in 0 .. NChunks(n) - 1, NEW k \in 0 .. ChunkNRep(n, c) - 1,
           m.err \in Nat, m.tstart \in [0 .. n - 1 -> Int], m.tend \in [0 .. n - 1 -> Int]
    PROVE  LET a == Calls(m, n, report)
               x == c * CHUNK + k
           IN  /\ a[At + 5 * c + 1][k] = m.tstart[x]
               /\ a[At + 5 * c + 2][k] = m.tend[x]
               /\ x < CHUNK => /\ a[At + 5 * c][k] = m.codes[x]
                               /\ a[At + 5 * c + 3][k] = m.tstart[x] + m.err
                               /\ a[At + 5 * c + 4][k] = m.tend[x] + m.err
<1> DEFINE a == Calls(m, n, report)
           x == c * CHUNK + k
           b == At + 5 * c
           g == Gathers(m, n, c)
<1>1. /\ c \in Nat /\ k \in Nat /\ c * CHUNK \in Nat /\ x \in 0 .. n - 1
      /\ x < CHUNK => c = 0
  BY RepOfChunk
<1>2. /\ a[b] = g[1] /\ a[b + 1] = g[2] /\ a[b + 2] = g[3]
      /\ a[b + 3] = g[4] /\ a[b + 4] = g[5]
  <2>1. b \in Nat
    BY <1>1 DEF At
  <2>2. \A y \in 0 .. 4 : a[b + y] = g[y + 1]
    BY VerboseCalls
  <2> HIDE DEF a, b, g
  <2>3. a[b + 0] = g[0 + 1] /\ a[b + 1] = g[1 + 1] /\ a[b + 2] = g[2 + 1]
        /\ a[b + 3] = g[3 + 1] /\ a[b + 4] = g[4 + 1]
    BY <2>2
  <2> QED BY <2>1, <2>3
<1>3. /\ g[1][k] = m.codes[0 + k]
      /\ g[2][k] = Normalized(m, m.tstart, n, c)[x]
      /\ g[3][k] = Normalized(m, m.tend, n, c)[x]
      /\ g[4][k] = Normalized(m, m.tstart, n, c + 1)[x]
      /\ g[5][k] = Normalized(m, m.tend, n, c + 1)[x]
  BY Zenon DEF Gathers, CHUNK
<1>4. /\ Normalized(m, m.tstart, n, c)[x] = m.tstart[x]
      /\ Normalized(m, m.tend, n, c)[x] = m.tend[x]
  BY NotNormalized
<1>5. ASSUME x < CHUNK
      PROVE  /\ m.codes[0 + k] = m.codes[x]
             /\ Normalized(m, m.tstart, n, c + 1)[x] = m.tstart[x] + m.err
             /\ Normalized(m, m.tend, n, c + 1)[x] = m.tend[x] + m.err
  <2>1. c = 0 /\ 0 * CHUNK = 0
    BY <1>1, <1>5, Multiples
  <2>2. x = k /\ 0 + k = k
    BY <1>1, <2>1
  <2>3. /\ 0 \in 0 .. NChunks(n) - 1 /\ k \in 0 .. ChunkNRep(n, 0) - 1 /\ k \in 0 .. n - 1
    BY <1>1, <2>1, <2>2
  <2>4. /\ Normalized(m, m.tstart, n, 0 + 1)[k] = m.tstart[k] + m.err
        /\ Normalized(m, m.tend, n, 0 + 1)[k] = m.tend[k] + m.err
    BY <2>3, FirstNormalized
  <2> HIDE DEF x
  <2> QED BY <2>1, <2>2, <2>4
<1> HIDE DEF a, x, b, g
<1>6. /\ a[b + 1][k] = m.tstart[x] /\ a[b + 2][k] = m.tend[x]
      /\ x < CHUNK => /\ a[b][k] = m.codes[x]
                      /\ a[b + 3][k] = m.tstart[x] + m.err
                      /\ a[b + 4][k] = m.tend[x] + m.err
  BY <1>2, <1>3, <1>4, <1>5
<1> QED BY <1>6 DEF a, x, b

\* What the root prints is made of the contributions of all processes.
LEMMA ResultsBy ==
    ASSUME IInv, NEW j \in DOMAIN results
    PROVE  /\ report \in Report /\ NReps[j] \in Nat
           /\ results[j] = ResultsPrinted(Contributions(j), NReps[j], report)
           /\ \A r \in Rank : Contributed(r, j)
<1>1. Types /\ Printed
  BY DEF IInv
<1>2. report \in Report /\ IsSequence(results) /\ IsSequence(summary)
  BY <1>1 DEF Types
<1>3. j \in 1 .. Len(results) /\ Len(results) \in Nat
  BY <1>2 DEF IsSequence
<1>4. Len(results) = job[Master] - 1 /\ Len(summary) = Len(results)
  BY <1>1 DEF Printed
<1>5. /\ \A q \in Rank : Len(posted[q]) >= j
      /\ results[j] = ResultsPrinted(Contributions(j), NReps[j], report)
  BY <1>1, <1>3, <1>4 DEF Printed
<1>6. j \in 1 .. NJobs
  <2>1. job[Master] <= NJobs + 1 /\ job[Master] \in Nat
    BY Counts, Facts DEF ProcessInv, ControlOf
  <2> QED
    BY <1>3, <1>4, <2>1, Counts
<1>7. ASSUME NEW r \in Rank PROVE Contributed(r, j)
  <2>1. PostedOf(r) /\ Len(posted[r]) >= j /\ job[r] \in Nat
    BY <1>5, Facts DEF ProcessInv
  <2>2. Len(posted[r]) \in Int
    BY <2>1 DEF PostedOf
  <2>3. j \in 1 .. Len(posted[r])
    BY <1>3, <2>1, <2>2
  <2> QED
    BY <2>1, <2>3 DEF PostedOf
<1> QED
  BY <1>2, <1>5, <1>6, <1>7, Counts

\* A verbose row: where it comes from, and what it says.
RowFrom(row, calls, n, q, c, k) ==
    /\ row.rank = q /\ row.rep = c * CHUNK + k
    /\ row.code = calls[q][At + 5 * c][k]
    /\ row.tstart = calls[q][At + 5 * c + 1][k] /\ row.tend = calls[q][At + 5 * c + 2][k]
    /\ row.gl_tstart = calls[q][At + 5 * c + 3][k] /\ row.gl_tend = calls[q][At + 5 * c + 4][k]

LEMMA RowsOf ==
    ASSUME NEW calls, NEW n \in Nat, DOMAIN calls = Rank
    PROVE  /\ \A row \in VerboseRows(calls, At, n) :
                  \E q \in Rank, c \in 0 .. NChunks(n) - 1 : \E k \in 0 .. ChunkNRep(n, c) - 1 :
                      RowFrom(row, calls, n, q, c, k)
           /\ \A q \in Rank, c \in 0 .. NChunks(n) - 1 : \A k \in 0 .. ChunkNRep(n, c) - 1 :
                  \E row \in VerboseRows(calls, At, n) : RowFrom(row, calls, n, q, c, k)
<1> DEFINE R(q, c, k) ==
              [rank |-> q, rep |-> c * OUTPUT_NITERATIONS_CHUNK + k,
               code |-> calls[q][At + 5 * c][k],
               tstart |-> calls[q][At + 5 * c + 1][k], tend |-> calls[q][At + 5 * c + 2][k],
               gl_tstart |-> calls[q][At + 5 * c + 3][k],
               gl_tend |-> calls[q][At + 5 * c + 4][k]]
           S(c) == {R(q, c, k) : q \in Rank, k \in 0 .. ChunkNRep(n, c) - 1}
<1>1. VerboseRows(calls, At, n) = UNION {S(c) : c \in 0 .. NChunks(n) - 1}
  BY SMTT(30) DEF VerboseRows
<1>2. \A q, c, k : RowFrom(R(q, c, k), calls, n, q, c, k)
  BY DEF RowFrom, CHUNK
<1> HIDE DEF R
<1>3. ASSUME NEW row \in VerboseRows(calls, At, n)
      PROVE  \E q \in Rank, c \in 0 .. NChunks(n) - 1 : \E k \in 0 .. ChunkNRep(n, c) - 1 :
                 RowFrom(row, calls, n, q, c, k)
  <2>1. PICK c \in 0 .. NChunks(n) - 1 : row \in S(c)
    BY <1>1
  <2>2. PICK q \in Rank, k \in 0 .. ChunkNRep(n, c) - 1 : row = R(q, c, k)
    BY <2>1
  <2> QED BY <1>2, <2>2
<1>4. ASSUME NEW q \in Rank, NEW c \in 0 .. NChunks(n) - 1, NEW k \in 0 .. ChunkNRep(n, c) - 1
      PROVE  \E row \in VerboseRows(calls, At, n) : RowFrom(row, calls, n, q, c, k)
  <2>1. R(q, c, k) \in S(c)
    OBVIOUS
  <2>2. R(q, c, k) \in VerboseRows(calls, At, n)
    BY <1>1, <2>1
  <2> QED BY <1>2, <2>2
<1> QED BY <1>3, <1>4

LEMMA RowTells ==
    ASSUME IInv, report.verbose, PrintsResults(report), NEW j \in DOMAIN results,
           NEW row, NEW q \in Rank, NEW c \in 0 .. NChunks(NReps[j]) - 1,
           NEW k \in 0 .. ChunkNRep(NReps[j], c) - 1,
           RowFrom(row, Contributions(j), NReps[j], q, c, k)
    PROVE  /\ row.rank = q /\ row.rep \in Rep(j)
           /\ row.tstart = Measured(row.rank, j).tstart[row.rep]
           /\ row.tend = Measured(row.rank, j).tend[row.rep]
           /\ row.rep < OUTPUT_NITERATIONS_CHUNK => RowIsRight(row, j)
<1> DEFINE n == NReps[j]
           m == Measured(q, j)
           a == Calls(m, n, report)
           x == c * CHUNK + k
<1>1. n \in Nat /\ Contributed(q, j)
  BY ResultsBy
<1>2. /\ m.err \in Nat /\ m.tstart \in [0 .. n - 1 -> Int] /\ m.tend \in [0 .. n - 1 -> Int]
      /\ Contributions(j)[q] = a
  BY <1>1 DEF Contributed, Contributions, Rep
<1>3. x \in 0 .. n - 1
  BY <1>1, RepOfChunk
<1> HIDE DEF m
<1>4. /\ a[At + 5 * c + 1][k] = m.tstart[x]
      /\ a[At + 5 * c + 2][k] = m.tend[x]
      /\ x < CHUNK => /\ a[At + 5 * c][k] = m.codes[x]
                      /\ a[At + 5 * c + 3][k] = m.tstart[x] + m.err
                      /\ a[At + 5 * c + 4][k] = m.tend[x] + m.err
  BY <1>1, <1>2, GatheredRight
<1>5. /\ row.rank = q /\ row.rep = x
      /\ row.code = a[At + 5 * c][k]
      /\ row.tstart = a[At + 5 * c + 1][k] /\ row.tend = a[At + 5 * c + 2][k]
      /\ row.gl_tstart = a[At + 5 * c + 3][k] /\ row.gl_tend = a[At + 5 * c + 4][k]
  BY <1>2 DEF RowFrom
<1>6. x \in Rep(j) /\ Measured(q, j) = m
  BY <1>3 DEF Rep, m
<1> HIDE DEF a, x
<1>7. row.tstart = m.tstart[x] /\ row.tend = m.tend[x]
  BY <1>4, <1>5
<1>8. row.rep < OUTPUT_NITERATIONS_CHUNK => RowIsRight(row, j)
  BY <1>4, <1>5, <1>6 DEF RowIsRight, CHUNK
<1> QED BY <1>5, <1>6, <1>7, <1>8

LEMMA InvVerboseRowsRight == IInv => VerboseRowsRight
<1> SUFFICES ASSUME IInv, report.verbose, NEW j \in DOMAIN results
             PROVE  /\ {<<row.rank, row.rep>> : row \in results[j]} =
                           IF PrintsResults(report) THEN Rank \X Rep(j) ELSE {}
                    /\ \A row \in results[j] :
                           /\ row.tstart = Measured(row.rank, j).tstart[row.rep]
                           /\ row.tend = Measured(row.rank, j).tend[row.rep]
                           /\ row.rep < OUTPUT_NITERATIONS_CHUNK => RowIsRight(row, j)
  BY DEF VerboseRowsRight
<1> DEFINE calls == Contributions(j)
           n == NReps[j]
<1>1. n \in Nat /\ results[j] = ResultsPrinted(calls, n, report)
  BY ResultsBy
<1>2. CASE ~PrintsResults(report)
  <2>1. results[j] = {}
    BY <1>1, <1>2 DEF ResultsPrinted
  <2> QED BY <1>2, <2>1
<1>3. CASE PrintsResults(report)
  <2>1. results[j] = VerboseRows(calls, At, n)
    BY <1>1, <1>3 DEF ResultsPrinted, At
  <2>2. DOMAIN calls = Rank
    BY DEF Contributions
  <2>3. \A row \in results[j] :
            \E q \in Rank, c \in 0 .. NChunks(n) - 1 : \E k \in 0 .. ChunkNRep(n, c) - 1 :
                RowFrom(row, calls, n, q, c, k)
    <3> HIDE DEF calls, n
    <3> QED BY <1>1, <2>1, <2>2, RowsOf
  <2>4. ASSUME NEW row \in results[j]
        PROVE  /\ row.rank \in Rank /\ row.rep \in Rep(j)
               /\ row.tstart = Measured(row.rank, j).tstart[row.rep]
               /\ row.tend = Measured(row.rank, j).tend[row.rep]
               /\ row.rep < OUTPUT_NITERATIONS_CHUNK => RowIsRight(row, j)
    <3>1. PICK q \in Rank, c \in 0 .. NChunks(n) - 1 : \E k \in 0 .. ChunkNRep(n, c) - 1 :
                   RowFrom(row, calls, n, q, c, k)
      BY <2>3
    <3>2. PICK k \in 0 .. ChunkNRep(n, c) - 1 : RowFrom(row, calls, n, q, c, k)
      BY <3>1
    <3> QED BY <1>3, <3>2, RowTells
  <2>5. ASSUME NEW q \in Rank, NEW x \in Rep(j)
        PROVE  \E row \in results[j] : row.rank = q /\ row.rep = x
    <3>1. x \in 0 .. n - 1
      BY DEF Rep
    <3>2. PICK c \in 0 .. NChunks(n) - 1 : \E k \in 0 .. ChunkNRep(n, c) - 1 : x = c * CHUNK + k
      BY <1>1, <3>1, ChunkOfRep
    <3>3. PICK k \in 0 .. ChunkNRep(n, c) - 1 : x = c * CHUNK + k
      BY <3>2
    <3>4. \E row \in VerboseRows(calls, At, n) : RowFrom(row, calls, n, q, c, k)
      <4> HIDE DEF calls, n
      <4> QED BY <1>1, <2>2, RowsOf
    <3> QED BY <2>1, <3>3, <3>4 DEF RowFrom
  <2>6. {<<row.rank, row.rep>> : row \in results[j]} = Rank \X Rep(j)
    <3>1. \A row \in results[j] : <<row.rank, row.rep>> \in Rank \X Rep(j)
      BY <2>4
    <3>2. \A p \in Rank \X Rep(j) : \E row \in results[j] : p = <<row.rank, row.rep>>
      BY <2>5
    <3> QED BY <3>1, <3>2
  <2> QED BY <1>3, <2>4, <2>6
<1> QED BY <1>2, <1>3

\* The verbose rows are those of all processes and repetitions, with the local
\* times that were measured, and right in the first chunk although the arrays
\* are normalised while they are gathered (print_measurement_results).
THEOREM VerboseRowsStayRight == Spec => []VerboseRowsRight
  BY InvVerboseRowsRight, InvInit, InvStep, PTL DEF Spec
=============================================================================
