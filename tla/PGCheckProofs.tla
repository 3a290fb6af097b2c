--------------------------- MODULE PGCheckProofs ---------------------------
(***************************************************************************)
(* Proofs about PGCheck, for any number of processes, mockups, counts and  *)
(* test cases, in three parts.                                             *)
(*                                                                         *)
(* The rows of the grouped comparer (IInv): what the root has collected    *)
(* are data files of the implementations (DataInv), and while the comparer *)
(* runs every entry of def_res is right about the mockups visited so far   *)
(* (ResInv).                                                               *)
(*                                                                         *)
(* The collective operations (CallsInv): processes that have entered as    *)
(* many of them have the same measurements before them (Pair).             *)
(*                                                                         *)
(* The types of the variables (TypeInv).                                   *)
(***************************************************************************)
EXTENDS PGCheck, TLAPS

\* A data file of implementation a.
IsDataOf(a, data) == a \in DOMAIN Results /\ data \in [DOMAIN data -> Runtimes]

LoopInv ==
    /\ env \in Envs
    /\ Root \in Rank
    /\ DOMAIN pc = Rank /\ DOMAIN case_id = Rank
    /\ version \in [Rank -> Nat \ {0}]
    /\ \A r \in Rank : pc[r] = "running" => version[r] <= Len(Versions(env, case_id[r]))

DataInv == \A a \in DOMAIN coll_data : IsDataOf(a, coll_data[a])

EntryInv(c) ==
    /\ def_res[c] \in Entry
    /\ (def_res[c].fastest_mockup = NoMockup) <=> (def_res[c].fastest_mockup_median = 0)
    /\ NamesFastest(c)
    /\ env.test = "ttest" => VerdictMatches(c)

ResInv ==
    /\ \A m \in DOMAIN mockup2data : IsDataOf(m, mockup2data[m])
    /\ todo \subseteq DOMAIN mockup2data \ {Default}
    /\ \A c \in DOMAIN def_res : EntryInv(c)

IInv ==
    /\ LoopInv
    /\ DataInv
    /\ def_res = NoResults \/ ResInv
    /\ pc[Root] = "grouped" => ResInv

-----------------------------------------------------------------------------
\* What Judge returns: an entry that names the mockup if it is faster, with
\* the verdict of its own runtimes if the test is the t-test, and otherwise
\* differs in the statistic kept at most.
LEMMA JudgeEntry ==
    ASSUME NEW test, NEW d \in Entry, NEW m \in DOMAIN Results, NEW rts \in Runtimes
    PROVE  LET j == Judge(test, d, m, rts)
           IN  /\ j \in Entry
               /\ IF IsFaster(d, rts)
                  THEN /\ j.fastest_mockup = m
                       /\ j.fastest_mockup_median = rts.median
                       /\ test = "ttest" => (j.violation <=> rts.z = "below")
                  ELSE /\ j.fastest_mockup = d.fastest_mockup
                       /\ j.fastest_mockup_median = d.fastest_mockup_median
                       /\ j.violation = d.violation
<1> DEFINE used == StatisticUsed(test, d.z_value, rts)
           z == IF test = "wilcoxon" THEN used ELSE d.z_value
<1>1. used \in Statistic /\ z \in Statistic
  BY DEF Entry, Runtimes, StatisticUsed
<1>2. test = "ttest" => used = rts.z
  BY DEF StatisticUsed
<1> HIDE DEF used, z
<1>3. CASE IsFaster(d, rts)
  <2>1. Judge(test, d, m, rts) =
            [median |-> d.median, z_value |-> z, violation |-> (used = "below"),
             fastest_mockup |-> m, fastest_mockup_median |-> rts.median]
    BY <1>3 DEF Judge, Entry, used, z
  <2>2. Judge(test, d, m, rts) \in Entry
    BY <1>1, <2>1 DEF Entry, Runtimes
  <2>3. /\ Judge(test, d, m, rts).fastest_mockup = m
        /\ Judge(test, d, m, rts).fastest_mockup_median = rts.median
    BY <2>1
  <2>4. Judge(test, d, m, rts).violation = (used = "below")
    BY <2>1
  <2> QED BY <1>2, <1>3, <2>2, <2>3, <2>4
<1>4. CASE ~ IsFaster(d, rts)
  <2>1. Judge(test, d, m, rts) =
            [median |-> d.median, z_value |-> z, violation |-> d.violation,
             fastest_mockup |-> d.fastest_mockup,
             fastest_mockup_median |-> d.fastest_mockup_median]
    BY <1>4 DEF Judge, Entry, used, z
  <2>2. Judge(test, d, m, rts) \in Entry
    BY <1>1, <2>1 DEF Entry
  <2>3. /\ Judge(test, d, m, rts).fastest_mockup = d.fastest_mockup
        /\ Judge(test, d, m, rts).fastest_mockup_median = d.fastest_mockup_median
    BY <2>1
  <2>4. Judge(test, d, m, rts).violation = d.violation
    BY <2>1
  <2> QED BY <1>4, <2>2, <2>3, <2>4
<1> QED BY <1>3, <1>4

-----------------------------------------------------------------------------
\* The first loop of get_results makes entries that name nobody.
LEMMA StartKeeps ==
    ASSUME IInv, StartGrouped(coll_data), UNCHANGED env
    PROVE  ResInv'
<1> DEFINE def == coll_data[Default]
<1>1. def \in [DOMAIN def -> Runtimes]
  BY DEF IInv, DataInv, IsDataOf, StartGrouped
<1>2. \A m \in DOMAIN mockup2data' : IsDataOf(m, mockup2data'[m])
  BY DEF IInv, DataInv, StartGrouped
<1>3. todo' \subseteq DOMAIN mockup2data' \ {Default}
  BY DEF StartGrouped
<1>4. ASSUME NEW c \in DOMAIN def_res' PROVE EntryInv(c)'
  <2>1. c \in DOMAIN def /\ def_res'[c] = ComparerData(def[c].median)
    BY <1>4 DEF StartGrouped
  <2>2. def[c].median \in Nat
    BY <1>1, <2>1 DEF Runtimes
  <2>3. /\ def_res'[c] \in Entry
        /\ def_res'[c].fastest_mockup = NoMockup
        /\ def_res'[c].fastest_mockup_median = 0
    BY <2>1, <2>2 DEF ComparerData, Entry, Statistic
  <2>4. Visited(c)' = {}
    BY DEF Visited, StartGrouped
  <2> QED BY <2>3, <2>4 DEF EntryInv, NamesFastest, VerdictMatches
<1> QED BY <1>2, <1>3, <1>4 DEF ResInv

\* One mockup more: the entries of its counts are judged, the others keep
\* what they say.
LEMMA CompareKeeps ==
    ASSUME ResInv, NEW mockup, CompareMockup(env.test, mockup), UNCHANGED env
    PROVE  ResInv'
<1> DEFINE rts == mockup2data[mockup]
<1>1. /\ mockup \in DOMAIN mockup2data /\ mockup # Default /\ mockup \in DOMAIN Results
      /\ mockup # NoMockup
      /\ rts \in [DOMAIN rts -> Runtimes]
      /\ mockup2data' = mockup2data /\ todo' = todo \ {mockup}
  BY NoMockupAssumption DEF ResInv, CompareMockup, IsDataOf
<1>2. todo' \subseteq DOMAIN mockup2data' \ {Default}
  BY <1>1 DEF ResInv
<1>3. ASSUME NEW c \in DOMAIN def_res' PROVE EntryInv(c)'
  <2>1. c \in DOMAIN def_res /\ EntryInv(c)
    BY <1>3 DEF CompareMockup, ResInv
  <2>2. CASE c \in DOMAIN rts
    <3> DEFINE d == def_res[c]
               j == def_res'[c]
    <3>1. j = Judge(env.test, d, mockup, rts[c])
      BY <2>1, <2>2 DEF CompareMockup
    <3>2. rts[c] \in Runtimes /\ d \in Entry
      BY <1>1, <2>1, <2>2 DEF EntryInv
    <3>3. /\ j \in Entry
          /\ IF IsFaster(d, rts[c])
             THEN /\ j.fastest_mockup = mockup
                  /\ j.fastest_mockup_median = rts[c].median
                  /\ env.test = "ttest" => (j.violation <=> rts[c].z = "below")
             ELSE /\ j.fastest_mockup = d.fastest_mockup
                  /\ j.fastest_mockup_median = d.fastest_mockup_median
                  /\ j.violation = d.violation
      BY <1>1, <3>1, <3>2, JudgeEntry
    <3>4. Visited(c)' = Visited(c) \cup {mockup}
      BY <1>1, <2>2 DEF Visited
    <3>5. \A m \in Visited(c) : mockup2data[m][c].median \in Nat
      BY DEF Visited, ResInv, IsDataOf, Runtimes
    <3>6. rts[c].median \in Nat \ {0} /\ d.fastest_mockup_median \in Nat
      BY <3>2 DEF Runtimes, Entry
    <3>7. CASE IsFaster(d, rts[c])
      <4>1. \A m \in Visited(c)' : j.fastest_mockup_median <= mockup2data'[m][c].median
        BY <1>1, <2>1, <3>3, <3>4, <3>5, <3>6, <3>7
        DEF EntryInv, NamesFastest, IsFaster
      <4>2. NamesFastest(c)'
        BY <1>1, <3>3, <3>4, <3>7, <4>1 DEF NamesFastest
      <4>3. (env.test = "ttest" => VerdictMatches(c))'
        BY <1>1, <3>3, <3>7 DEF VerdictMatches
      <4> QED BY <1>1, <3>3, <3>6, <3>7, <4>2, <4>3 DEF EntryInv
    <3>8. CASE ~ IsFaster(d, rts[c])
      <4>1. /\ d.fastest_mockup # NoMockup
            /\ d.fastest_mockup_median <= rts[c].median
        BY <2>1, <3>6, <3>8 DEF EntryInv, IsFaster
      <4>2. NamesFastest(c)'
        BY <1>1, <2>1, <3>3, <3>4, <3>8, <4>1 DEF EntryInv, NamesFastest
      <4>3. (env.test = "ttest" => VerdictMatches(c))'
        BY <1>1, <2>1, <3>3, <3>8 DEF EntryInv, VerdictMatches
      <4> QED BY <2>1, <3>3, <3>8, <4>2, <4>3 DEF EntryInv
    <3> QED BY <3>7, <3>8
  <2>3. CASE c \notin DOMAIN rts
    <3>1. def_res'[c] = def_res[c]
      BY <2>1, <2>3 DEF CompareMockup
    <3>2. Visited(c)' = Visited(c)
      BY <1>1, <2>3 DEF Visited
    <3> QED BY <1>1, <2>1, <3>1, <3>2 DEF EntryInv, NamesFastest, VerdictMatches
  <2> QED BY <2>2, <2>3
<1> QED BY <1>1, <1>2, <1>3 DEF ResInv

-----------------------------------------------------------------------------
\* An implementation of a test case can be measured.
LEMMA VersionsTyped ==
    ASSUME NEW e \in Envs, NEW case
    PROVE  Versions(e, case) \in Seq(DOMAIN Results)
<1>1. CASE e.input[case] \in DOMAIN e.csv
  BY <1>1, EnvsAssumption DEF Versions
<1>2. CASE e.input[case] \notin DOMAIN e.csv
  BY <1>2 DEF Versions
<1> QED BY <1>1, <1>2

LEMMA InitEstablishes == Init => IInv
<1> SUFFICES ASSUME Init PROVE IInv
  OBVIOUS
<1> QED BY NPAssumption DEF Init, ComparerInit, IInv, LoopInv, DataInv, Rank, Root

\* Every step of main keeps the invariant; the comparer's own steps by the
\* lemmas above.
LEMMA StepKeeps == IInv /\ [Next]_vars => IInv'
<1> SUFFICES ASSUME IInv, [Next]_vars PROVE IInv'
  OBVIOUS
<1> USE DEF Goto, Enter, comparer_vars
<1>1. CASE UNCHANGED vars
  BY <1>1 DEF IInv, LoopInv, DataInv, ResInv, EntryInv, NamesFastest, VerdictMatches,
     Visited, vars, main_vars
<1>2. ASSUME UNCHANGED comparer_vars, env' = env PROVE ResInv' <=> ResInv
  BY <1>2 DEF ResInv, EntryInv, NamesFastest, VerdictMatches, Visited
<1>3. ASSUME NEW r \in Rank,
             \/ Parse(r) \/ Agree(r) \/ CheckInput(r) \/ BarrierMeasured(r)
             \/ ReadConfig(r) \/ StartVersion(r) \/ EndCase(r) \/ Finish(r) \/ Finalized(r)
      PROVE  IInv'
  <2>1. /\ UNCHANGED comparer_vars /\ env' = env /\ coll_data' = coll_data
        /\ pc'[Root] = "grouped" => pc[Root] = "grouped"
    BY <1>3 DEF IInv, LoopInv, Parse, Agree, CheckInput, BarrierMeasured, ReadConfig,
       StartVersion, EndCase, Finish, Finalized
  <2>2. LoopInv'
    <3>1. CASE Parse(r) \/ Agree(r) \/ CheckInput(r) \/ BarrierMeasured(r)
               \/ ReadConfig(r) \/ Finish(r) \/ Finalized(r)
      <4>1. /\ UNCHANGED <<case_id, version>>
            /\ \E l : pc' = [pc EXCEPT ![r] = l] /\ l # "running"
        BY <3>1 DEF Parse, Agree, CheckInput, BarrierMeasured, ReadConfig, Finish, Finalized
      <4> QED BY <2>1, <4>1 DEF IInv, LoopInv
    <3>2. CASE StartVersion(r)
      BY <2>1, <3>2 DEF IInv, LoopInv, StartVersion
    <3>3. CASE EndCase(r)
      <4>1. pc[r] = "cases" /\ pc'[r] # "running"
        BY <3>3 DEF IInv, LoopInv, EndCase
      <4>2. \A q \in Rank \ {r} : /\ pc'[q] = pc[q] /\ version'[q] = version[q]
                                  /\ case_id'[q] = case_id[q]
        BY <3>3 DEF IInv, LoopInv, EndCase
      <4>3. version' \in [Rank -> Nat \ {0}] /\ DOMAIN pc' = Rank /\ DOMAIN case_id' = Rank
        BY <3>3 DEF IInv, LoopInv, EndCase
      <4> QED BY <2>1, <4>1, <4>2, <4>3 DEF IInv, LoopInv
    <3> QED BY <1>3, <3>1, <3>2, <3>3
  <2> QED BY <1>2, <2>1, <2>2 DEF IInv, DataInv
<1>4. ASSUME NEW r \in Rank, EndVersion(r) PROVE IInv'
  <2> DEFINE alg == Versions(env, case_id[r])[version[r]]
  <2>1. alg \in DOMAIN Results
    BY <1>4, VersionsTyped DEF IInv, LoopInv, EndVersion
  <2>2. DataInv'
    BY <1>4, <2>1, ResultsAssumption DEF IInv, DataInv, IsDataOf, EndVersion
  <2>3. LoopInv'
    BY <1>4 DEF IInv, LoopInv, EndVersion
  <2>4. pc'[Root] = "grouped" => pc[Root] = "grouped"
    BY <1>4 DEF IInv, LoopInv, EndVersion
  <2> QED BY <1>2, <1>4, <2>2, <2>3, <2>4 DEF IInv, EndVersion
<1>5. CASE CompareOther \/ NextCase
  <2>1. /\ UNCHANGED comparer_vars /\ env' = env /\ DataInv'
        /\ pc'[Root] # "grouped"
    BY <1>5 DEF IInv, LoopInv, DataInv, CompareOther, NextCase
  <2>2. LoopInv'
    BY <1>5 DEF IInv, LoopInv, CompareOther, NextCase
  <2> QED BY <1>2, <2>1, <2>2 DEF IInv
<1>6. CASE StartCompare
  <2>1. LoopInv' /\ DataInv'
    BY <1>6 DEF IInv, LoopInv, DataInv, StartCompare
  <2>2. CASE StartGrouped(coll_data)
    BY <1>6, <2>1, <2>2, StartKeeps DEF IInv, StartCompare
  <2>3. CASE UNCHANGED comparer_vars /\ Goto(Root, "aborted")
    BY <1>2, <1>6, <2>1, <2>3 DEF IInv, LoopInv, StartCompare
  <2> QED BY <1>6, <2>2, <2>3 DEF StartCompare
<1>7. CASE Compare
  <2>1. LoopInv' /\ DataInv' /\ ResInv
    BY <1>7 DEF IInv, LoopInv, DataInv, Compare
  <2>2. PICK mockup \in todo :
            \/ CompareMockup(env.test, mockup)
            \/ UNCHANGED comparer_vars
    BY <1>7 DEF Compare
  <2>3. ResInv'
    BY <1>2, <1>7, <2>1, <2>2, CompareKeeps DEF Compare
  <2> QED BY <2>1, <2>3 DEF IInv
<1>8. CASE EndCompare
  <2>1. LoopInv' /\ DataInv' /\ pc'[Root] # "grouped"
    BY <1>8 DEF IInv, LoopInv, DataInv, EndCompare
  <2> QED BY <1>8, <2>1 DEF IInv, EndCompare, EndGrouped
<1> QED BY <1>1, <1>3, <1>4, <1>5, <1>6, <1>7, <1>8 DEF Next, Step, RootStep

LEMMA InvariantHolds == Spec => []IInv
BY InitEstablishes, StepKeeps, PTL DEF Spec

-----------------------------------------------------------------------------
\* In every state of the comparer each count names the fastest mockup visited
\* so far, whatever the order of the unordered_map (set_fastest_mockup).
THEOREM NamesTheFastest == Spec => []FastestIsMinimum
<1>1. IInv => FastestIsMinimum
  BY DEF IInv, ResInv, EntryInv, FastestIsMinimum
<1> QED BY <1>1, InvariantHolds, PTL

\* With the t-test the verdict of a count is the one on the mockup it names
\* (TTest::get_violation computes its statistic anew).
THEOREM TTestJudgesTheFastest == Spec => []TTestVerdict
<1>1. IInv => TTestVerdict
  BY DEF IInv, ResInv, EntryInv, TTestVerdict, VerdictOfFastest
<1> QED BY <1>1, InvariantHolds, PTL
-----------------------------------------------------------------------------
(* The collective operations.  A process is determined by how many it has  *)
(* entered and by the test cases and implementations it has still to       *)
(* measure: processes that have entered the same number have the same      *)
(* ones before them (Pair), because a measurement synchronises them all    *)
(* and an empty test case adds nothing.  Before the first measurement of   *)
(* a test case the operations are the same three for everyone (Own).       *)

IsSequence(s) == s \in Seq({s[k] : k \in 1 .. Len(s)})

\* The process is in a collective operation that synchronises.
Entering == {"running", "finalize"}
\* The process has stopped outside a collective operation.
Stranded == {"left", "aborted"}
Looping == {"cases", "running", "compare", "grouped"}

\* The measurements of implementations, as positions <<case_id, version>>, and
\* those from a position on.
Measured(e) ==
    {p \in (1 .. Len(e.input)) \X (Nat \ {0}) : p[2] <= Len(Versions(e, p[1]))}
From(e, c, v) == {p \in Measured(e) : p[1] > c \/ (p[1] = c /\ p[2] >= v)}

\* What process r has still to measure.
Ahead(r) ==
    IF pc[r] = "running" THEN From(env, case_id[r], version[r] + 1)
    ELSE IF pc[r] \in {"compare", "grouped"} THEN From(env, case_id[r] + 1, 1)
    ELSE From(env, case_id[r], version[r])

\* The number of operations entered; the first three count as one stage.
Stage(r) == IF Len(calls[r]) < 3 THEN 3 ELSE Len(calls[r])

First == <<"run", "MPI_Barrier", Default>>

OwnTypes(r) ==
    /\ IsSequence(calls[r])
    /\ case_id[r] \in Nat \ {0} /\ version[r] \in Nat \ {0}
    /\ pc[r] \in {"parse", "agree", "input", "barrier", "config", "cases", "running",
                  "compare", "grouped", "finalize"} \cup Ended

OwnStart(r) ==
    LET k == Len(calls[r])
    IN  /\ k >= 1 => calls[r][1] = <<"allreduce">>
        /\ k >= 2 => calls[r][2] = IF Summed(env) = FAILURE THEN <<"finalize">> ELSE First
        /\ k >= 3 => calls[r][3] = <<"bcast">> /\ env.input # Missing
        /\ k >= 2 /\ r = Root /\ Summed(env) # FAILURE => env.input # Missing
        /\ k >= 4 => env.config
        /\ Summed(env) = FAILURE => pc[r] \in {"parse", "agree", "finalize", "done"}
        /\ k < 4 /\ pc[r] \notin Looping \cup Stranded => case_id[r] = 1 /\ version[r] = 1

OwnPlace(r) ==
    LET k == Len(calls[r])
    IN  /\ pc[r] = "parse" => k = 0
        /\ pc[r] \in {"agree", "input"} => k = 1
        /\ pc[r] = "barrier" => k = 2
        /\ pc[r] = "config" => k = 3
        /\ pc[r] \in Looping => k >= 3 /\ env.config
        /\ pc[r] = "running" =>
               /\ k >= 4
               /\ <<case_id[r], version[r]>> \in Measured(env)
               /\ calls[r][k] = <<"run", env.input[case_id[r]],
                                  Versions(env, case_id[r])[version[r]]>>
        /\ pc[r] \in {"compare", "grouped", "aborted"} => r = Root
        /\ pc[r] \in {"compare", "grouped"} => version[r] = 1
        /\ pc[r] \in {"finalize", "done"} =>
               /\ calls[r][k] = <<"finalize">>
               /\ IF Summed(env) = FAILURE THEN k = 2
                  ELSE k >= 4 /\ case_id[r] > Len(env.input)
        /\ pc[r] \in Stranded => k >= 1
        /\ pc[r] \in Looping => case_id[r] <= Len(env.input) + 1
        /\ pc[r] \in {"running", "compare", "grouped"} => case_id[r] <= Len(env.input)

Own(r) == OwnTypes(r) /\ OwnStart(r) /\ OwnPlace(r)

Pair(q, r) ==
    /\ Stage(r) <= Stage(q) + (IF pc[r] \in Entering THEN 1 ELSE 0)
    /\ pc[q] \notin Stranded /\ pc[r] \notin Stranded =>
           /\ Stage(q) = Stage(r) => Ahead(q) = Ahead(r)
           /\ Stage(r) = Stage(q) + 1 => Ahead(q) = From(env, case_id[r], version[r])

CallsInv ==
    /\ env \in Envs
    /\ DOMAIN pc = Rank /\ DOMAIN calls = Rank
    /\ DOMAIN case_id = Rank /\ DOMAIN version = Rank
    /\ \A r \in Rank : Own(r)
    /\ \A q, r \in Rank : Pair(q, r)
    /\ CollectivesMatch

-----------------------------------------------------------------------------
LEMMA Appended ==
    ASSUME NEW s, IsSequence(s), NEW e
    PROVE  /\ IsSequence(Append(s, e))
           /\ Len(s) \in Nat /\ Len(Append(s, e)) = Len(s) + 1
           /\ Append(s, e)[Len(s) + 1] = e
           /\ \A k \in 1 .. Len(s) : Append(s, e)[k] = s[k]
<1> DEFINE t == Append(s, e)
           S == {s[k] : k \in 1 .. Len(s)} \cup {e}
<1>1. s \in Seq(S) /\ e \in S
  BY DEF IsSequence
<1> HIDE DEF S
<1>2. t \in Seq(S) /\ Len(s) \in Nat /\ Len(t) = Len(s) + 1
  BY <1>1
<1>3. t[Len(s) + 1] = e /\ \A k \in 1 .. Len(s) : t[k] = s[k]
  BY <1>1
<1>4. t \in Seq({t[k] : k \in 1 .. Len(t)})
  <2>1. \A k \in 1 .. Len(t) : t[k] \in {t[i] : i \in 1 .. Len(t)}
    OBVIOUS
  <2> QED
    BY <1>2, <2>1
<1> QED
  BY <1>2, <1>3, <1>4 DEF IsSequence

LEMMA InputTyped ==
    ASSUME env \in Envs, env.input # Missing
    PROVE  Len(env.input) \in Nat
BY EnvsAssumption

\* An empty rest of a test case adds nothing.
LEMMA SkipRest ==
    ASSUME env \in Envs, NEW c \in Nat, NEW v \in Nat, Len(Versions(env, c)) < v
    PROVE  From(env, c, v) = From(env, c + 1, 1)
<1>1. ASSUME NEW p \in Measured(env) PROVE p[1] \in Nat /\ p[2] \in Nat \ {0} /\ p[2] <= Len(Versions(env, p[1])) /\ Len(Versions(env, p[1])) \in Nat
  BY <1>1, VersionsTyped DEF Measured
<1>2. ASSUME NEW p \in Measured(env)
      PROVE  (p[1] > c \/ (p[1] = c /\ p[2] >= v)) <=> (p[1] > c + 1 \/ (p[1] = c + 1 /\ p[2] >= 1))
  <2>1. Len(Versions(env, c)) \in Nat
    BY VersionsTyped
  <2> QED BY <1>1, <2>1
<1> QED BY <1>2 DEF From

\* The next measurement is the first of those ahead.
LEMMA TakeFirst ==
    ASSUME NEW c \in Nat, NEW v \in Nat, <<c, v>> \in Measured(env)
    PROVE  From(env, c, v) = From(env, c, v + 1) \cup {<<c, v>>} /\ <<c, v>> \notin From(env, c, v + 1)
<1>1. ASSUME NEW p \in Measured(env) PROVE p[1] \in Nat /\ p[2] \in Nat /\ p = <<p[1], p[2]>>
  BY <1>1 DEF Measured
<1>2. ASSUME NEW p \in Measured(env)
      PROVE  (p[1] > c \/ (p[1] = c /\ p[2] >= v))
                <=> ((p[1] > c \/ (p[1] = c /\ p[2] >= v + 1)) \/ p = <<c, v>>)
  BY <1>1
<1> QED BY <1>2 DEF From

\* The first measurement ahead is determined by what is ahead.
LEMMA FirstUnique ==
    ASSUME NEW c \in Nat, NEW v \in Nat, <<c, v>> \in Measured(env),
           NEW d \in Nat, NEW w \in Nat, <<d, w>> \in Measured(env),
           From(env, c, v) = From(env, d, w)
    PROVE  c = d /\ v = w
<1>1. <<c, v>> \in From(env, d, w) /\ <<d, w>> \in From(env, c, v)
  <2>1. <<c, v>> \in From(env, c, v) /\ <<d, w>> \in From(env, d, w)
    BY DEF From
  <2> QED BY <2>1
<1>2. (c > d \/ (c = d /\ v >= w)) /\ (d > c \/ (d = c /\ w >= v))
  BY <1>1 DEF From
<1> QED BY <1>2

\* Nothing is ahead after the last test case.
LEMMA NothingAhead ==
    ASSUME Len(env.input) \in Nat, NEW c \in Nat, NEW v \in Nat, c > Len(env.input)
    PROVE  From(env, c, v) = {}
<1>1. ASSUME NEW p \in Measured(env) PROVE p[1] \in Nat /\ p[1] <= Len(env.input)
  BY <1>1 DEF Measured
<1> QED BY <1>1 DEF From

-----------------------------------------------------------------------------
\* Only process x takes part in the step.
Only(x) ==
    /\ env' = env
    /\ DOMAIN pc' = Rank /\ DOMAIN calls' = Rank
    /\ DOMAIN case_id' = Rank /\ DOMAIN version' = Rank
    /\ \A q \in Rank \ {x} : /\ pc'[q] = pc[q] /\ calls'[q] = calls[q]
                             /\ case_id'[q] = case_id[q] /\ version'[q] = version[q]

LEMMA OthersKept ==
    ASSUME CallsInv, NEW x \in Rank, Only(x), NEW q \in Rank \ {x}
    PROVE  Own(q)' /\ Stage(q)' = Stage(q) /\ Ahead(q)' = Ahead(q)
<1>1. /\ pc'[q] = pc[q] /\ calls'[q] = calls[q] /\ env' = env
      /\ case_id'[q] = case_id[q] /\ version'[q] = version[q]
  BY DEF Only
<1>2. Own(q)
  BY DEF CallsInv
<1>3. OwnTypes(q)'
  BY <1>1, <1>2 DEF Own, OwnTypes, IsSequence
<1>4. OwnStart(q)'
  BY <1>1, <1>2 DEF Own, OwnStart
<1>5. OwnPlace(q)'
  BY <1>1, <1>2 DEF Own, OwnPlace
<1>6. Stage(q)' = Stage(q)
  BY <1>1 DEF Stage
<1>7. Ahead(q)' = Ahead(q)
  BY <1>1 DEF Ahead
<1> QED BY <1>3, <1>4, <1>5, <1>6, <1>7 DEF Own

LEMMA StageTyped ==
    ASSUME NEW r \in Rank, Own(r)
    PROVE  Stage(r) \in Nat /\ Stage(r) >= 3 /\ Len(calls[r]) \in Nat
<1>1. IsSequence(calls[r])
  BY DEF Own, OwnTypes
<1>2. Len(calls[r]) \in Nat
  BY <1>1, Appended
<1> QED BY <1>2 DEF Stage

\* A step that enters no measurement, taken by a process the others are level
\* with.
LEMMA SameStage ==
    ASSUME CallsInv, NEW x \in Rank, Only(x), Own(x)', CollectivesMatch',
           Stage(x)' = Stage(x), \A q \in Rank : Stage(x) <= Stage(q),
           pc[x] \notin Stranded, pc'[x] \notin Stranded => Ahead(x)' = Ahead(x)
    PROVE  CallsInv'
<1>1. ASSUME NEW q \in Rank PROVE Own(q)' /\ Stage(q)' = Stage(q) /\ Stage(q) \in Nat
  BY <1>1, OthersKept, StageTyped DEF CallsInv
<1>2. ASSUME NEW q \in Rank, NEW r \in Rank PROVE Pair(q, r)'
  <2> DEFINE Level == pc'[q] \notin Stranded /\ pc'[r] \notin Stranded
  <2>1. Pair(q, r) /\ env' = env
    BY DEF CallsInv, Only
  <2>2. Stage(r)' <= Stage(q)' + (IF pc'[r] \in Entering THEN 1 ELSE 0)
    <3>1. CASE r = x
      BY <1>1, <3>1
    <3>2. CASE r # x
      BY <1>1, <2>1, <3>2 DEF Pair, Only
    <3> QED BY <3>1, <3>2
  <2>3. Level => pc[q] \notin Stranded /\ pc[r] \notin Stranded
    BY DEF Only
  <2>4. Level => Ahead(q)' = Ahead(q) /\ Ahead(r)' = Ahead(r)
    BY OthersKept
  <2>5. Level /\ Stage(q)' = Stage(r)' => Ahead(q)' = Ahead(r)'
    BY <1>1, <2>1, <2>3, <2>4 DEF Pair
  <2>6. Level /\ Stage(r)' = Stage(q)' + 1 => Ahead(q)' = From(env, case_id[r], version[r])'
    <3>1. CASE r = x
      BY <1>1, <3>1
    <3>2. CASE r # x
      BY <1>1, <2>1, <2>3, <2>4, <3>2 DEF Pair, Only
    <3> QED BY <3>1, <3>2
  <2> QED BY <2>2, <2>5, <2>6 DEF Pair
<1> QED BY <1>1, <1>2 DEF CallsInv, Only

\* A process enters its next measurement or, if nothing is left, MPI_Finalize.
EntersNext(x) ==
    /\ pc[x] = "cases" /\ pc'[x] \in Entering
    /\ case_id'[x] = case_id[x] /\ version'[x] = version[x]
    /\ \/ /\ pc'[x] = "running"
          /\ <<case_id[x], version[x]>> \in Measured(env)
          /\ calls'[x] = Append(calls[x], <<"run", env.input[case_id[x]],
                                Versions(env, case_id[x])[version[x]]>>)
       \/ /\ pc'[x] = "finalize"
          /\ case_id[x] > Len(env.input)
          /\ calls'[x] = Append(calls[x], <<"finalize">>)

LEMMA NextMatches ==
    ASSUME CallsInv, NEW x \in Rank, Only(x), Own(x)', EntersNext(x)
    PROVE  CallsInv'
<1> DEFINE n == Len(calls[x])
           c == case_id[x]
           v == version[x]
<1>1. /\ Own(x) /\ n \in Nat /\ n >= 3 /\ Stage(x) = n
      /\ c \in Nat \ {0} /\ v \in Nat \ {0} /\ env.input # Missing /\ Len(env.input) \in Nat
      /\ Summed(env) # FAILURE /\ Ahead(x) = From(env, c, v)
  <2>1. Own(x) /\ n \in Nat
    BY Appended DEF CallsInv, Own, OwnTypes
  <2>2. n >= 3 /\ Summed(env) # FAILURE
    BY <2>1 DEF Own, OwnPlace, OwnStart, EntersNext, Looping
  <2>3. env.input # Missing
    BY <2>1, <2>2 DEF Own, OwnStart
  <2> QED BY <2>1, <2>2, <2>3, InputTyped DEF CallsInv, Own, OwnTypes, Stage, Ahead, EntersNext
<1>2. /\ Len(calls'[x]) = n + 1 /\ \A k \in 1 .. n : calls'[x][k] = calls[x][k]
      /\ calls'[x][n + 1] = IF pc'[x] = "finalize" THEN <<"finalize">>
                            ELSE <<"run", env.input[c], Versions(env, c)[v]>>
  <2> DEFINE op == IF pc'[x] = "finalize" THEN <<"finalize">>
                   ELSE <<"run", env.input[c], Versions(env, c)[v]>>
  <2>1. calls'[x] = Append(calls[x], op)
    BY DEF EntersNext
  <2>2. IsSequence(calls[x])
    BY <1>1 DEF Own, OwnTypes
  <2> HIDE DEF op
  <2>3. /\ Len(calls'[x]) = n + 1 /\ \A k \in 1 .. n : calls'[x][k] = calls[x][k]
        /\ calls'[x][n + 1] = op
    BY <2>1, <2>2, Appended
  <2> QED BY <2>3 DEF op
<1>3. Stage(x)' = n + 1
  BY <1>1, <1>2 DEF Stage
<1>4. ASSUME NEW q \in Rank
      PROVE  /\ Own(q) /\ Own(q)' /\ Stage(q) \in Nat /\ Len(calls[q]) \in Nat
             /\ n <= Stage(q) /\ Stage(q) <= n + 1
             /\ Stage(q) = n + 1 => q # x /\ pc[q] \in Entering /\ Len(calls[q]) = n + 1
    <2>1. Own(q) /\ Own(q)' /\ Stage(q) \in Nat /\ Len(calls[q]) \in Nat
      BY OthersKept, StageTyped DEF CallsInv
    <2>2. Pair(q, x) /\ Pair(x, q)
      BY DEF CallsInv
    <2>3. n <= Stage(q)
      BY <1>1, <2>1, <2>2 DEF Pair, EntersNext, Entering
    <2>4. Stage(q) <= n + (IF pc[q] \in Entering THEN 1 ELSE 0)
      BY <1>1, <2>2 DEF Pair
    <2>5. Stage(q) <= n + 1 /\ (Stage(q) = n + 1 => pc[q] \in Entering)
      <3>1. CASE pc[q] \in Entering
        BY <2>4, <3>1
      <3>2. CASE pc[q] \notin Entering
        <4>1. Stage(q) <= n
          BY <1>1, <2>4, <3>2
        <4> HIDE DEF n
        <4> QED BY <1>1, <2>1, <3>2, <4>1
      <3> QED BY <3>1, <3>2
    <2> QED BY <1>1, <2>1, <2>3, <2>5 DEF Stage, EntersNext, Entering
\* What is left after the step.
<1>5. /\ pc'[x] = "running" => /\ Ahead(x) = Ahead(x)' \cup {<<c, v>>}
                               /\ <<c, v>> \notin Ahead(x)'
      /\ pc'[x] = "finalize" => Ahead(x) = {} /\ Ahead(x)' = {}
  <2>1. CASE pc'[x] = "running"
    <3>1. <<c, v>> \in Measured(env) /\ Ahead(x)' = From(env, c, v + 1)
      BY <2>1 DEF EntersNext, Ahead, Only
    <3> QED BY <1>1, <2>1, <3>1, TakeFirst
  <2>2. CASE pc'[x] = "finalize"
    <3>1. c > Len(env.input) /\ Ahead(x)' = From(env, c, v)
      BY <2>2 DEF EntersNext, Ahead, Only
    <3> QED BY <1>1, <2>2, <3>1, NothingAhead
  <2> QED BY <2>1, <2>2
\* A process that is already there entered the same operation.
<1>6. ASSUME NEW r \in Rank \ {x}, Stage(r) = n + 1
      PROVE  calls[r][n + 1] = calls'[x][n + 1] /\ Ahead(r) = Ahead(x)'
  <2> DEFINE d == case_id[r]
             w == version[r]
  <2>1. /\ pc[r] \in Entering /\ Len(calls[r]) = n + 1 /\ Own(r)
        /\ d \in Nat \ {0} /\ w \in Nat \ {0}
    BY <1>4, <1>6 DEF Own, OwnTypes
  <2>2. From(env, c, v) = From(env, d, w)
    <3>1. Pair(x, r)
      BY DEF CallsInv
    <3>2. pc[x] \notin Stranded /\ pc[r] \notin Stranded
      BY <2>1 DEF Entering, Stranded, EntersNext
    <3> QED BY <1>1, <1>6, <3>1, <3>2 DEF Pair
  <2>3. CASE pc[r] = "running"
    <3>1. /\ <<d, w>> \in Measured(env) /\ Ahead(r) = From(env, d, w + 1)
          /\ calls[r][n + 1] = <<"run", env.input[d], Versions(env, d)[w]>>
      BY <2>1, <2>3 DEF Own, OwnPlace, Ahead
    <3>2. <<d, w>> \in From(env, c, v)
      BY <2>1, <2>2, <3>1, TakeFirst
    <3>3. pc'[x] = "running" /\ <<c, v>> \in Measured(env)
      BY <1>1, <1>5, <3>2 DEF EntersNext, Entering
    <3>4. c = d /\ v = w
      BY <1>1, <2>1, <2>2, <3>1, <3>3, FirstUnique
    <3>5. Ahead(x)' = From(env, c, v + 1)
      BY <3>3 DEF EntersNext, Ahead, Only
    <3> QED BY <1>2, <3>1, <3>3, <3>4, <3>5
  <2>4. CASE pc[r] = "finalize"
    <3>1. d > Len(env.input) /\ calls[r][n + 1] = <<"finalize">> /\ Ahead(r) = From(env, d, w)
      BY <1>1, <2>1, <2>4 DEF Own, OwnPlace, Ahead
    <3>2. From(env, d, w) = {}
      BY <1>1, <2>1, <3>1, NothingAhead
    <3>3. pc'[x] = "finalize"
      BY <1>1, <1>5, <2>2, <3>2 DEF EntersNext
    <3> QED BY <1>2, <1>5, <3>1, <3>2, <3>3
  <2> QED BY <2>1, <2>3, <2>4 DEF Entering
<1>7. CollectivesMatch'
  <2>1. ASSUME NEW r \in Rank, NEW k \in 1 .. n + 1, k <= Len(calls'[r])
        PROVE  calls'[x][k] = calls'[r][k]
    <3>1. CASE r = x
      BY <3>1
    <3>2. CASE r # x
      <4>1. calls'[r] = calls[r] /\ k <= Len(calls[r])
        BY <2>1, <3>2 DEF Only
      <4>2. CASE k <= n
        <5>1. k \in 1 .. n
          BY <1>1, <4>2
        <5>2. calls[x][k] = calls[r][k]
          BY <4>1, <5>1 DEF CallsInv, CollectivesMatch
        <5> QED BY <1>2, <4>1, <5>1, <5>2
      <4>3. CASE k = n + 1
        <5>1. Len(calls[r]) \in Nat /\ Stage(r) \in Nat /\ Stage(r) <= n + 1
          BY <1>4
        <5>2. Stage(r) = n + 1
          BY <1>1, <4>1, <4>3, <5>1 DEF Stage
        <5> QED BY <1>6, <3>2, <4>1, <4>3, <5>2
      <4> QED BY <1>1, <4>2, <4>3
    <3> QED BY <3>1, <3>2
  <2>2. ASSUME NEW q \in Rank, NEW r \in Rank, NEW k \in 1 .. Len(calls'[q]),
               k <= Len(calls'[r])
        PROVE  calls'[q][k] = calls'[r][k]
    <3>1. CASE q = x
      BY <1>1, <1>2, <2>1, <2>2, <3>1
    <3>2. CASE q # x /\ r = x
      <4>1. Len(calls'[q]) \in Nat
        BY <1>4, <3>2 DEF Only
      <4>2. k \in 1 .. n + 1
        BY <1>1, <1>2, <2>2, <3>2, <4>1
      <4>3. k <= Len(calls'[q])
        BY <2>2, <4>1
      <4> QED BY <2>1, <3>2, <4>2, <4>3
    <3>3. CASE q # x /\ r # x
      BY <2>2, <3>3 DEF CallsInv, CollectivesMatch, Only
    <3> QED BY <3>1, <3>2, <3>3
  <2> QED BY <2>2 DEF CollectivesMatch
<1>8. ASSUME NEW q \in Rank, NEW r \in Rank PROVE Pair(q, r)'
  <2>1. CASE q = x /\ r = x
    BY <1>1, <1>3, <2>1 DEF Pair, Entering
  <2>2. CASE q = x /\ r # x
    <3>1. Stage(r)' = Stage(r) /\ Ahead(r)' = Ahead(r) /\ Stage(r) \in Nat
      BY <1>4, <2>2, OthersKept
    <3>2. Stage(r) <= n + 1
      BY <1>4
    <3>3. Stage(r) = n + 1 => Ahead(x)' = Ahead(r)
      BY <1>6, <2>2
    <3> QED BY <1>1, <1>3, <2>2, <3>1, <3>2, <3>3 DEF Pair
  <2>3. CASE q # x /\ r = x
    <3>1. Stage(q)' = Stage(q) /\ Ahead(q)' = Ahead(q) /\ Stage(q) \in Nat
      BY <1>4, <2>3, OthersKept
    <3>2. n <= Stage(q)
      BY <1>4
    <3>3. Stage(q) = n + 1 => Ahead(x)' = Ahead(q)
      BY <1>6, <2>3
    <3>4. pc'[q] \notin Stranded /\ Stage(q) = n => Ahead(q) = From(env, c, v)
      <4>1. Pair(q, x) /\ pc'[q] = pc[q] /\ pc[x] \notin Stranded
        BY <2>3 DEF CallsInv, Only, EntersNext, Stranded
      <4> QED BY <1>1, <4>1 DEF Pair
    <3>5. From(env, case_id[x], version[x])' = From(env, c, v)
      BY DEF Only, EntersNext
    <3>6. n + 1 <= Stage(q)' + (IF pc'[x] \in Entering THEN 1 ELSE 0)
      BY <1>1, <3>1, <3>2 DEF EntersNext
    <3> HIDE DEF n, c, v
    <3>7. Pair(q, x)'
      BY <1>1, <1>3, <3>1, <3>2, <3>3, <3>4, <3>5, <3>6 DEF Pair
    <3> QED BY <2>3, <3>7
  <2>4. CASE q # x /\ r # x
    <3>1. /\ Stage(q)' = Stage(q) /\ Ahead(q)' = Ahead(q)
          /\ Stage(r)' = Stage(r) /\ Ahead(r)' = Ahead(r)
      BY <2>4, OthersKept
    <3>2. /\ pc'[q] = pc[q] /\ pc'[r] = pc[r] /\ env' = env
          /\ case_id'[r] = case_id[r] /\ version'[r] = version[r]
      BY <2>4 DEF Only
    <3>3. Pair(q, r)
      BY DEF CallsInv
    <3> QED BY <3>1, <3>2, <3>3 DEF Pair
  <2> QED BY <2>1, <2>2, <2>3, <2>4
<1>9. \A q \in Rank : Own(q)'
  BY <1>4
<1> QED BY <1>7, <1>8, <1>9 DEF CallsInv, Only

-----------------------------------------------------------------------------
\* The first three operations are the same by their number.
LEMMA EarlyMatches ==
    ASSUME CallsInv, NEW x \in Rank, Only(x), Own(x)', Len(calls'[x]) <= 3
    PROVE  CollectivesMatch'
<1>1. ASSUME NEW q \in Rank PROVE Own(q)' /\ Len(calls'[q]) \in Nat
  BY <1>1, OthersKept, Appended DEF Own, OwnTypes
<1>2. ASSUME NEW q \in Rank, NEW r \in Rank, NEW k \in 1 .. 3,
             k <= Len(calls'[q]), k <= Len(calls'[r])
      PROVE  calls'[q][k] = calls'[r][k]
  <2>1. k = 1 \/ k = 2 \/ k = 3
    OBVIOUS
  <2>2. OwnStart(q)' /\ OwnStart(r)' /\ Len(calls'[q]) \in Nat /\ Len(calls'[r]) \in Nat
    BY <1>1, <1>2 DEF Own
  <2>3. CASE k = 1
    BY <1>2, <2>2, <2>3 DEF OwnStart
  <2>4. CASE k = 2
    BY <1>2, <2>2, <2>4 DEF OwnStart
  <2>5. CASE k = 3
    BY <1>2, <2>2, <2>5 DEF OwnStart
  <2> QED BY <2>1, <2>3, <2>4, <2>5
<1>3. ASSUME NEW q \in Rank, NEW r \in Rank, NEW k \in 1 .. Len(calls'[q]),
             k <= Len(calls'[r])
      PROVE  calls'[q][k] = calls'[r][k]
  <2>1. CASE q = x \/ r = x
    <3>1. k \in 1 .. 3 /\ k <= Len(calls'[q])
      BY <1>1, <1>3, <2>1
    <3> QED BY <1>2, <1>3, <3>1
  <2>2. CASE q # x /\ r # x
    BY <1>3, <2>2 DEF CallsInv, CollectivesMatch, Only
  <2> QED BY <2>1, <2>2
<1> QED BY <1>3 DEF CollectivesMatch

\* Who leaves a synchronising operation knows that all have entered it.
LEMMA AllEntered ==
    ASSUME CallsInv, NEW x \in Rank, Passed(x),
           Len(calls[x]) >= 1, calls[x][Len(calls[x])] # <<"bcast">>
    PROVE  \A q \in Rank : Len(calls[q]) >= Len(calls[x]) /\ Stage(x) <= Stage(q)
<1>1. ASSUME NEW q \in Rank PROVE Len(calls[q]) \in Nat
  BY <1>1, StageTyped DEF CallsInv
<1>2. ASSUME NEW q \in Rank PROVE Len(calls[q]) >= Len(calls[x])
  BY <1>2 DEF Passed
<1> QED BY <1>1, <1>2 DEF Stage

\* The actions of one process.
LEMMA OnlyOne ==
    ASSUME CallsInv, NEW x \in Rank,
           \/ Parse(x) \/ Agree(x) \/ CheckInput(x) \/ BarrierMeasured(x)
           \/ ReadConfig(x) \/ StartVersion(x) \/ EndVersion(x) \/ EndCase(x)
           \/ Finish(x) \/ Finalized(x) \/ (x = Root /\ RootStep)
    PROVE  Only(x)
<1> USE DEF CallsInv, Only, Goto, Enter
<1>1. CASE Parse(x) \/ Agree(x) \/ CheckInput(x) \/ BarrierMeasured(x) \/ ReadConfig(x)
  BY <1>1 DEF Parse, Agree, CheckInput, BarrierMeasured, ReadConfig
<1>2. CASE StartVersion(x) \/ EndVersion(x) \/ EndCase(x) \/ Finish(x) \/ Finalized(x)
  BY <1>2 DEF StartVersion, EndVersion, EndCase, Finish, Finalized
<1>3. CASE x = Root /\ RootStep
  <2>1. CASE CompareOther \/ StartCompare \/ Compare
    BY <1>3, <2>1 DEF CompareOther, StartCompare, Compare
  <2>2. CASE EndCompare \/ NextCase
    BY <1>3, <2>2 DEF EndCompare, NextCase
  <2> QED BY <1>3, <2>1, <2>2 DEF RootStep
<1> QED BY <1>1, <1>2, <1>3

\* A process that stays where it is in the sequence of operations and has the
\* same measurements before it.
LEMMA SilentKeeps ==
    ASSUME CallsInv, NEW x \in Rank, Only(x), Own(x)', calls' = calls,
           \A q \in Rank : Stage(x) <= Stage(q), pc[x] \notin Stranded,
           pc'[x] \notin Stranded => Ahead(x)' = Ahead(x)
    PROVE  CallsInv'
<1>1. Stage(x)' = Stage(x)
  BY DEF Stage
<1>2. CollectivesMatch'
  BY DEF CallsInv, CollectivesMatch
<1> QED BY <1>1, <1>2, SameStage

\* One of the first three operations.
LEMMA EarlyKeeps ==
    ASSUME CallsInv, NEW x \in Rank, Only(x), Own(x)',
           Stage(x) = 3, Stage(x)' = 3, Len(calls'[x]) <= 3,
           pc[x] \notin Stranded, Ahead(x)' = Ahead(x)
    PROVE  CallsInv'
<1>1. \A q \in Rank : Stage(x) <= Stage(q)
  BY StageTyped DEF CallsInv
<1> QED BY <1>1, EarlyMatches, SameStage

LEMMA ParseKeeps ==
    ASSUME CallsInv, NEW x \in Rank, Parse(x)
    PROVE  CallsInv'
<1>0. Own(x) /\ Only(x)
  BY OnlyOne DEF CallsInv
<1>1. /\ pc[x] = "parse" /\ IsSequence(calls[x]) /\ Len(calls[x]) = 0
      /\ calls'[x] = Append(calls[x], <<"allreduce">>) /\ pc'[x] = "agree"
      /\ case_id'[x] = case_id[x] /\ version'[x] = version[x] /\ env' = env
      /\ case_id[x] = 1 /\ version[x] = 1
  BY <1>0 DEF CallsInv, Parse, Enter, Goto, Own, OwnTypes, OwnPlace, OwnStart, Looping
<1>2. IsSequence(calls'[x]) /\ Len(calls'[x]) = 1 /\ calls'[x][1] = <<"allreduce">>
  BY <1>0, <1>1, Appended
<1>3. Own(x)'
  BY <1>0, <1>1, <1>2 DEF Own, OwnTypes, OwnStart, OwnPlace, IsSequence, Looping, Stranded
<1>4. Stage(x) = 3 /\ Stage(x)' = 3 /\ Ahead(x)' = Ahead(x)
        /\ Len(calls'[x]) <= 3
  BY <1>0, <1>1, <1>2 DEF Stage, Ahead
<1> QED BY <1>0, <1>1, <1>3, <1>4, EarlyKeeps DEF Stranded

LEMMA AgreeKeeps ==
    ASSUME CallsInv, NEW x \in Rank, Agree(x)
    PROVE  CallsInv'
<1>0. Own(x) /\ Only(x)
  BY OnlyOne DEF CallsInv
<1>1. /\ pc[x] = "agree" /\ case_id'[x] = case_id[x] /\ version'[x] = version[x] /\ env' = env
  BY <1>0 DEF CallsInv, Agree
<1>8. pc[x] \notin Stranded
  BY <1>1 DEF Stranded
<1>9. /\ IsSequence(calls[x]) /\ Len(calls[x]) = 1 /\ case_id[x] = 1 /\ version[x] = 1
  BY <1>0, <1>1 DEF Own, OwnTypes, OwnPlace, OwnStart, Looping, Stranded
<1>2. CASE Summed(env) = FAILURE
  <2>1. calls'[x] = Append(calls[x], <<"finalize">>) /\ pc'[x] = "finalize"
    BY <1>0, <1>1, <1>9, <1>2 DEF CallsInv, Agree, ParseFailed, Enter, Goto
  <2>2. /\ IsSequence(calls'[x]) /\ Len(calls'[x]) = 2 /\ calls'[x][2] = <<"finalize">>
        /\ calls'[x][1] = calls[x][1]
    <3> DEFINE op == <<"finalize">>
    <3>1. calls'[x] = Append(calls[x], op) /\ IsSequence(calls[x])
      BY <1>9, <2>1
    <3> HIDE DEF op
    <3>2. /\ IsSequence(calls'[x]) /\ Len(calls'[x]) = Len(calls[x]) + 1
          /\ calls'[x][Len(calls[x]) + 1] = op
          /\ \A k \in 1 .. Len(calls[x]) : calls'[x][k] = calls[x][k]
      BY <3>1, Appended
    <3>3. Len(calls[x]) + 1 = 2 /\ 1 \in 1 .. Len(calls[x])
      BY <1>9
    <3> QED BY <3>2, <3>3 DEF op
  <2>3. Own(x)'
    BY <1>0, <1>1, <1>9, <1>2, <2>1, <2>2 DEF Own, OwnTypes, OwnStart, OwnPlace, IsSequence, Looping, Stranded
  <2>4. Stage(x) = 3 /\ Stage(x)' = 3 /\ Ahead(x)' = Ahead(x)
        /\ Len(calls'[x]) <= 3
    BY <1>0, <1>1, <1>9, <2>1, <2>2 DEF Stage, Ahead
  <2> QED BY <1>0, <1>8, <2>3, <2>4, EarlyKeeps
<1>3. CASE Summed(env) # FAILURE
  <2>1. calls' = calls /\ pc'[x] = "input"
    BY <1>0, <1>1, <1>9, <1>3 DEF CallsInv, Agree, ParseFailed, Goto
  <2>2. Own(x)'
    BY <1>0, <1>1, <1>9, <1>3, <2>1 DEF Own, OwnTypes, OwnStart, OwnPlace, IsSequence, Looping, Stranded
  <2>3. Stage(x) = 3 /\ Stage(x)' = 3 /\ Ahead(x)' = Ahead(x) /\ Len(calls'[x]) <= 3
    BY <1>0, <1>1, <1>9, <2>1 DEF Stage, Ahead
  <2> QED BY <1>0, <1>1, <1>9, <2>2, <2>3, EarlyKeeps DEF Stranded
<1> QED BY <1>2, <1>3

LEMMA CheckInputKeeps ==
    ASSUME CallsInv, NEW x \in Rank, CheckInput(x)
    PROVE  CallsInv'
<1>0. Own(x) /\ Only(x)
  BY OnlyOne DEF CallsInv
<1>1. /\ pc[x] = "input" /\ case_id'[x] = case_id[x] /\ version'[x] = version[x] /\ env' = env
  BY <1>0 DEF CallsInv, CheckInput
<1>8. pc[x] \notin Stranded
  BY <1>1 DEF Stranded
<1>9. /\ IsSequence(calls[x]) /\ Len(calls[x]) = 1 /\ case_id[x] = 1 /\ version[x] = 1
      /\ Summed(env) # FAILURE
  BY <1>0, <1>1 DEF Own, OwnTypes, OwnPlace, OwnStart, Looping, Stranded
<1>2. CASE x = Root /\ env.input = Missing
  <2>1. calls' = calls /\ pc'[x] = "left"
    BY <1>0, <1>1, <1>9, <1>2 DEF CallsInv, CheckInput, Goto
  <2>2. Own(x)'
    <3>1. OwnTypes(x)'
      BY <1>0, <1>1, <1>9, <2>1 DEF Own, OwnTypes, IsSequence, Ended
    <3>2. OwnStart(x)'
      BY <1>0, <1>1, <1>9, <1>2, <2>1 DEF Own, OwnStart, Looping, Stranded
    <3>3. OwnPlace(x)'
      <4>1. Len(calls'[x]) = 1 /\ pc'[x] = "left"
        BY <1>9, <2>1
      <4>2. /\ pc'[x] \notin {"compare", "grouped", "aborted", "finalize", "done", "running",
                               "parse", "agree", "input", "barrier", "config"}
            /\ pc'[x] \notin Looping
        BY <4>1 DEF Looping
      <4> QED BY <4>1, <4>2 DEF OwnPlace, Looping
    <3> QED BY <3>1, <3>2, <3>3 DEF Own
  <2>3. Stage(x) = 3 /\ \A q \in Rank : Stage(x) <= Stage(q)
    BY <1>0, <1>1, <1>9, StageTyped DEF CallsInv, Stage
  <2> QED BY <1>0, <1>1, <1>9, <2>1, <2>2, <2>3, SilentKeeps DEF Stranded
<1>3. CASE ~ (x = Root /\ env.input = Missing)
  <2>1. calls'[x] = Append(calls[x], First) /\ pc'[x] = "barrier"
    BY <1>0, <1>1, <1>9, <1>3 DEF CallsInv, CheckInput, Goto, Enter, First
  <2>2. /\ IsSequence(calls'[x]) /\ Len(calls'[x]) = 2 /\ calls'[x][2] = First
        /\ calls'[x][1] = calls[x][1]
    <3> DEFINE op == First
    <3>1. calls'[x] = Append(calls[x], op) /\ IsSequence(calls[x])
      BY <1>9, <2>1
    <3> HIDE DEF op
    <3>2. /\ IsSequence(calls'[x]) /\ Len(calls'[x]) = Len(calls[x]) + 1
          /\ calls'[x][Len(calls[x]) + 1] = op
          /\ \A k \in 1 .. Len(calls[x]) : calls'[x][k] = calls[x][k]
      BY <3>1, Appended
    <3>3. Len(calls[x]) + 1 = 2 /\ 1 \in 1 .. Len(calls[x])
      BY <1>9
    <3> QED BY <3>2, <3>3 DEF op
  <2>3. Own(x)'
    BY <1>0, <1>1, <1>9, <1>3, <2>1, <2>2
    DEF Own, OwnTypes, OwnStart, OwnPlace, IsSequence, Looping, Stranded, First
  <2>4. Stage(x) = 3 /\ Stage(x)' = 3 /\ Ahead(x)' = Ahead(x)
        /\ Len(calls'[x]) <= 3
    BY <1>0, <1>1, <1>9, <2>1, <2>2 DEF Stage, Ahead
  <2> QED BY <1>0, <1>8, <2>3, <2>4, EarlyKeeps
<1> QED BY <1>2, <1>3

LEMMA BarrierKeeps ==
    ASSUME CallsInv, NEW x \in Rank, BarrierMeasured(x)
    PROVE  CallsInv'
<1>0. Own(x) /\ Only(x)
  BY OnlyOne DEF CallsInv
<1>1. /\ pc[x] = "barrier" /\ case_id'[x] = case_id[x] /\ version'[x] = version[x] /\ env' = env
  BY <1>0 DEF CallsInv, BarrierMeasured
<1>8. pc[x] \notin Stranded
  BY <1>1 DEF Stranded
<1>9. /\ IsSequence(calls[x]) /\ Len(calls[x]) = 2 /\ case_id[x] = 1 /\ version[x] = 1
      /\ Summed(env) # FAILURE /\ calls[x][2] = First
  BY <1>0, <1>1 DEF Own, OwnTypes, OwnPlace, OwnStart, Looping, Stranded
<1>2. CASE x = Root /\ Goto(x, "aborted") /\ UNCHANGED calls
  <2>1. calls' = calls /\ pc'[x] = "aborted"
    BY <1>0, <1>1, <1>9, <1>2 DEF CallsInv, Goto
  <2>2. Own(x)'
    <3>1. OwnTypes(x)'
      BY <1>0, <1>1, <1>9, <2>1 DEF Own, OwnTypes, IsSequence, Ended
    <3>2. OwnStart(x)'
      BY <1>0, <1>1, <1>9, <1>2, <2>1 DEF Own, OwnStart, Looping, Stranded
    <3>3. OwnPlace(x)'
      BY <1>0, <1>1, <1>9, <1>2, <2>1 DEF Own, OwnPlace, Looping, Stranded
    <3> QED BY <3>1, <3>2, <3>3 DEF Own
  <2>3. Stage(x) = 3 /\ \A q \in Rank : Stage(x) <= Stage(q)
    BY <1>0, <1>1, <1>9, StageTyped DEF CallsInv, Stage
  <2> QED BY <1>0, <1>1, <1>9, <2>1, <2>2, <2>3, SilentKeeps DEF Stranded
<1>3. CASE Enter(x, <<"bcast">>, "config")
  <2>1. calls'[x] = Append(calls[x], <<"bcast">>) /\ pc'[x] = "config"
    BY <1>0, <1>1, <1>9, <1>3 DEF CallsInv, Goto, Enter
  <2>2. /\ IsSequence(calls'[x]) /\ Len(calls'[x]) = 3 /\ calls'[x][3] = <<"bcast">>
        /\ calls'[x][1] = calls[x][1] /\ calls'[x][2] = calls[x][2]
    BY <1>9, <2>1, Appended
  <2>3. env.input # Missing
    <3>0. First # <<"bcast">>
      BY DEF First
    <3>1. Passed(x) /\ Root \in Rank
      BY NPAssumption DEF BarrierMeasured, Rank, Root
    <3>2. Len(calls[x]) >= 1 /\ calls[x][Len(calls[x])] # <<"bcast">>
      <4>1. calls[x][Len(calls[x])] = First
        BY <1>9
      <4> QED BY <1>9, <3>0, <4>1
    <3>3. Len(calls[Root]) >= Len(calls[x])
      BY <3>1, <3>2, AllEntered
    <3>4. Len(calls[Root]) >= 2 /\ Own(Root)
      BY <1>9, <3>1, <3>3 DEF CallsInv
    <3> QED BY <1>9, <3>4 DEF Own, OwnStart
  <2>4. Own(x)'
    <3>1. OwnTypes(x)'
      BY <1>0, <1>1, <2>1, <2>2 DEF Own, OwnTypes, IsSequence
    <3>2. OwnStart(x)'
      BY <1>0, <1>1, <1>9, <2>1, <2>2, <2>3 DEF Own, OwnStart
    <3>3. OwnPlace(x)'
      BY <2>1, <2>2 DEF OwnPlace, Looping, Stranded
    <3> QED BY <3>1, <3>2, <3>3 DEF Own
  <2>5. Stage(x) = 3 /\ Stage(x)' = 3 /\ Ahead(x)' = Ahead(x)
        /\ Len(calls'[x]) <= 3
    BY <1>0, <1>1, <1>9, <2>1, <2>2 DEF Stage, Ahead
  <2> QED BY <1>0, <1>8, <2>4, <2>5, EarlyKeeps
<1> QED BY <1>2, <1>3 DEF BarrierMeasured

LEMMA ReadConfigKeeps ==
    ASSUME CallsInv, NEW x \in Rank, ReadConfig(x)
    PROVE  CallsInv'
<1>0. Own(x) /\ Only(x)
  BY OnlyOne DEF CallsInv
<1>1. /\ pc[x] = "config" /\ case_id'[x] = case_id[x] /\ version'[x] = version[x] /\ env' = env
      /\ calls' = calls /\ pc'[x] = IF ~ env.config THEN "left" ELSE "cases"
  BY <1>0 DEF CallsInv, ReadConfig, Goto, ConfigMissing
<1>8. pc[x] \notin Stranded
  BY <1>1 DEF Stranded
<1>7. IsSequence(calls[x]) /\ Len(calls[x]) = 3
  BY <1>0, <1>1 DEF Own, OwnTypes, OwnPlace
<1>9. /\ IsSequence(calls[x]) /\ Len(calls[x]) = 3 /\ case_id[x] = 1 /\ version[x] = 1
      /\ Summed(env) # FAILURE /\ env.input # Missing
  BY <1>0, <1>1, <1>7 DEF Own, OwnStart, Looping, Stranded
<1>2. Len(env.input) \in Nat
  BY <1>0, <1>1, <1>9, InputTyped DEF CallsInv
<1>3. Own(x)'
  BY <1>0, <1>1, <1>9, <1>2
  DEF Own, OwnTypes, OwnStart, OwnPlace, IsSequence, Looping, Stranded, Ended
<1>4. Stage(x) = 3 /\ \A q \in Rank : Stage(x) <= Stage(q)
  BY <1>0, <1>1, <1>9, StageTyped DEF CallsInv, Stage
<1>5. Ahead(x)' = Ahead(x)
  BY <1>0, <1>1, <1>9 DEF Ahead
<1> QED BY <1>0, <1>1, <1>9, <1>3, <1>4, <1>5, SilentKeeps DEF Stranded

-----------------------------------------------------------------------------
\* What is known of a process in the loops over test cases and versions.
LEMMA InLoop ==
    ASSUME CallsInv, NEW x \in Rank, pc[x] \in Looping
    PROVE  /\ Own(x) /\ IsSequence(calls[x]) /\ env.config
           /\ Len(calls[x]) \in Nat /\ Len(calls[x]) >= 3 /\ Stage(x) = Len(calls[x])
           /\ Summed(env) # FAILURE /\ env.input # Missing /\ Len(env.input) \in Nat
           /\ case_id[x] \in Nat \ {0} /\ version[x] \in Nat \ {0}
           /\ case_id[x] <= Len(env.input) + 1 /\ pc[x] \notin Stranded
           /\ Len(Versions(env, case_id[x])) \in Nat
<1>1. Own(x) /\ IsSequence(calls[x]) /\ Len(calls[x]) \in Nat /\ env \in Envs
      /\ case_id[x] \in Nat \ {0} /\ version[x] \in Nat \ {0}
  BY Appended DEF CallsInv, Own, OwnTypes
<1>2. Len(calls[x]) >= 3 /\ env.config /\ case_id[x] <= Len(env.input) + 1
  BY <1>1 DEF Own, OwnPlace
<1>3. env.input # Missing /\ Summed(env) # FAILURE
  BY <1>1, <1>2 DEF Own, OwnStart, Looping
<1>4. Len(env.input) \in Nat /\ Len(Versions(env, case_id[x])) \in Nat
  BY <1>1, <1>3, InputTyped, VersionsTyped
<1>5. pc[x] \notin Stranded /\ Stage(x) = Len(calls[x])
  BY <1>1, <1>2 DEF Looping, Stranded, Stage
<1> QED BY <1>1, <1>2, <1>3, <1>4, <1>5

\* The others are level with a process between two operations.
LEMMA Level ==
    ASSUME CallsInv, NEW x \in Rank, pc[x] \notin Entering
    PROVE  \A q \in Rank : Stage(x) <= Stage(q)
<1>1. ASSUME NEW q \in Rank PROVE Stage(x) <= Stage(q)
  <2>1. Stage(x) <= Stage(q) + 0 /\ Stage(q) \in Nat /\ Stage(x) \in Nat
    BY StageTyped DEF CallsInv, Pair
  <2> QED BY <2>1
<1> QED BY <1>1

\* In the loops only the place of a process changes, and the first operations
\* are behind it.
LEMMA StartKept ==
    ASSUME CallsInv, NEW x \in Rank, pc[x] \in Looping, env' = env,
           \/ calls'[x] = calls[x] /\ pc'[x] \in Looping \cup Stranded
           \/ Len(calls'[x]) >= 4 /\ \A k \in 1 .. 3 : calls'[x][k] = calls[x][k]
    PROVE  OwnStart(x)'
<1>1. /\ Own(x) /\ Len(calls[x]) \in Nat /\ Len(calls[x]) >= 3 /\ env.config
      /\ Summed(env) # FAILURE /\ env.input # Missing
  BY InLoop
<1>2. /\ calls[x][1] = <<"allreduce">> /\ calls[x][3] = <<"bcast">>
      /\ calls[x][2] = First
  BY <1>1 DEF Own, OwnStart
<1>3. CASE calls'[x] = calls[x] /\ pc'[x] \in Looping \cup Stranded
  BY <1>1, <1>2, <1>3 DEF OwnStart
<1>4. CASE Len(calls'[x]) >= 4 /\ \A k \in 1 .. 3 : calls'[x][k] = calls[x][k]
  <2>1. /\ calls'[x][1] = calls[x][1] /\ calls'[x][2] = calls[x][2]
        /\ calls'[x][3] = calls[x][3]
    BY <1>4
  <2>2. ~ (Len(calls'[x]) < 4)
    <3>1. IsSequence(calls[x])
      BY InLoop
    <3> QED BY <1>4, SMT
  <2> QED BY <1>1, <1>2, <2>1, <2>2 DEF OwnStart
<1> QED BY <1>3, <1>4

LEMMA StartVersionKeeps ==
    ASSUME CallsInv, NEW x \in Rank, StartVersion(x)
    PROVE  CallsInv'
<1> DEFINE c == case_id[x]
           v == version[x]
           op == <<"run", env.input[c], Versions(env, c)[v]>>
           n == Len(calls[x])
<1>1. Only(x)
  BY OnlyOne
<1>2. /\ pc[x] = "cases" /\ c <= Len(env.input) /\ v <= Len(Versions(env, c))
      /\ pc'[x] = "running" /\ calls'[x] = Append(calls[x], op)
      /\ case_id' = case_id /\ version' = version /\ env' = env
  BY DEF StartVersion, Enter, Goto, CallsInv
<1>3. pc[x] \in Looping
  BY <1>2 DEF Looping
<1>4. /\ IsSequence(calls[x]) /\ env.config /\ n \in Nat /\ n >= 3
      /\ c \in Nat \ {0} /\ v \in Nat \ {0} /\ Len(env.input) \in Nat
  BY <1>3, InLoop
<1>5. <<c, v>> \in Measured(env)
  BY <1>2, <1>4 DEF Measured
<1> HIDE DEF op
<1>6. /\ IsSequence(calls'[x]) /\ Len(calls'[x]) = n + 1 /\ calls'[x][n + 1] = op
      /\ \A k \in 1 .. n : calls'[x][k] = calls[x][k]
  BY <1>2, <1>4, Appended
<1>7. Own(x)'
  <2>1. OwnTypes(x)'
    BY <1>2, <1>4, <1>6 DEF OwnTypes, IsSequence
  <2>2. OwnStart(x)'
    <3>1. Len(calls'[x]) >= 4 /\ \A k \in 1 .. 3 : calls'[x][k] = calls[x][k]
      BY <1>4, <1>6
    <3> QED BY <1>2, <1>3, <3>1, StartKept
  <2>3. OwnPlace(x)'
    <3>1. calls'[x][Len(calls'[x])] = op /\ Len(calls'[x]) >= 4
      BY <1>4, <1>6
    <3>2. c <= Len(env.input) + 1
      BY <1>2, <1>4
    <3> QED BY <1>2, <1>4, <1>5, <3>1, <3>2 DEF OwnPlace, op, Stranded
  <2> QED BY <2>1, <2>2, <2>3 DEF Own
<1>8. EntersNext(x)
  BY <1>2, <1>5 DEF EntersNext, Entering, op
<1> QED BY <1>1, <1>7, <1>8, NextMatches

LEMMA FinishKeeps ==
    ASSUME CallsInv, NEW x \in Rank, Finish(x)
    PROVE  CallsInv'
<1> DEFINE c == case_id[x]
           v == version[x]
           op == <<"finalize">>
           n == Len(calls[x])
<1>1. Only(x)
  BY OnlyOne
<1>2. /\ pc[x] = "cases" /\ c > Len(env.input)
      /\ pc'[x] = "finalize" /\ calls'[x] = Append(calls[x], op)
      /\ case_id' = case_id /\ version' = version /\ env' = env
  BY DEF Finish, Enter, Goto, CallsInv
<1>3. pc[x] \in Looping
  BY <1>2 DEF Looping
<1>4. /\ IsSequence(calls[x]) /\ env.config /\ n \in Nat /\ n >= 3
      /\ c \in Nat \ {0} /\ v \in Nat \ {0} /\ Summed(env) # FAILURE
  BY <1>3, InLoop
<1> HIDE DEF op
<1>6. /\ IsSequence(calls'[x]) /\ Len(calls'[x]) = n + 1 /\ calls'[x][n + 1] = op
      /\ \A k \in 1 .. n : calls'[x][k] = calls[x][k]
  BY <1>2, <1>4, Appended
<1>7. Own(x)'
  <2>1. OwnTypes(x)'
    BY <1>2, <1>4, <1>6 DEF OwnTypes, IsSequence
  <2>2. OwnStart(x)'
    <3>1. Len(calls'[x]) >= 4 /\ \A k \in 1 .. 3 : calls'[x][k] = calls[x][k]
      BY <1>4, <1>6
    <3> QED BY <1>2, <1>3, <3>1, StartKept
  <2>3. OwnPlace(x)'
    <3>1. calls'[x][Len(calls'[x])] = op /\ Len(calls'[x]) >= 4
      BY <1>4, <1>6
    <3> QED BY <1>2, <1>4, <3>1 DEF OwnPlace, op, Stranded, Looping
  <2> QED BY <2>1, <2>2, <2>3 DEF Own
<1>8. EntersNext(x)
  BY <1>2 DEF EntersNext, Entering, op
<1> QED BY <1>1, <1>7, <1>8, NextMatches

LEMMA EndVersionKeeps ==
    ASSUME CallsInv, NEW x \in Rank, EndVersion(x)
    PROVE  CallsInv'
<1>1. Only(x)
  BY OnlyOne
<1>2. /\ pc[x] = "running" /\ Passed(x) /\ pc'[x] = "cases" /\ calls' = calls
      /\ case_id' = case_id /\ version'[x] = version[x] + 1 /\ env' = env
  BY DEF EndVersion, Goto, CallsInv
<1>3. pc[x] \in Looping
  BY <1>2 DEF Looping
<1>4. /\ Own(x) /\ IsSequence(calls[x]) /\ env.config
      /\ Len(calls[x]) \in Nat /\ Len(calls[x]) >= 3
      /\ case_id[x] \in Nat \ {0} /\ version[x] \in Nat \ {0} /\ pc[x] \notin Stranded
      /\ case_id[x] <= Len(env.input) + 1
  BY <1>3, InLoop
<1>5. Own(x)'
  <2>1. OwnTypes(x)'
    BY <1>2, <1>4 DEF OwnTypes, IsSequence
  <2>2. OwnStart(x)'
    BY <1>2, <1>3, StartKept DEF Looping
  <2>3. OwnPlace(x)'
    BY <1>2, <1>4 DEF OwnPlace, Stranded
  <2> QED BY <2>1, <2>2, <2>3 DEF Own
<1>6. calls[x][Len(calls[x])] # <<"bcast">>
  <2>1. PICK a, b : calls[x][Len(calls[x])] = <<"run", a, b>>
    BY <1>2, <1>4 DEF Own, OwnPlace
  <2> QED BY <2>1
<1>7. \A q \in Rank : Stage(x) <= Stage(q)
  BY <1>2, <1>4, <1>6, AllEntered
<1>8. Ahead(x)' = Ahead(x)
  BY <1>2 DEF Ahead
<1> QED BY <1>1, <1>2, <1>4, <1>5, <1>7, <1>8, SilentKeeps

LEMMA EndCaseKeeps ==
    ASSUME CallsInv, NEW x \in Rank, EndCase(x)
    PROVE  CallsInv'
<1>1. Only(x)
  BY OnlyOne
<1>2. /\ pc[x] = "cases" /\ calls' = calls /\ version'[x] = 1 /\ env' = env
      /\ case_id[x] <= Len(env.input) /\ version[x] > Len(Versions(env, case_id[x]))
      /\ IF x = Root THEN pc'[x] = "compare" /\ case_id'[x] = case_id[x]
                     ELSE pc'[x] = "cases" /\ case_id'[x] = case_id[x] + 1
  BY DEF EndCase, Goto, CallsInv
<1>3. pc[x] \in Looping /\ pc[x] \notin Entering /\ pc'[x] \in Looping
  BY <1>2 DEF Looping, Entering
<1>4. /\ Own(x) /\ IsSequence(calls[x]) /\ env.config
      /\ Len(calls[x]) \in Nat /\ Len(calls[x]) >= 3 /\ Len(env.input) \in Nat
      /\ case_id[x] \in Nat \ {0} /\ version[x] \in Nat \ {0} /\ pc[x] \notin Stranded
      /\ Len(Versions(env, case_id[x])) \in Nat /\ env \in Envs
  BY <1>3, InLoop DEF CallsInv
<1>5. Own(x)'
  <2>1. OwnTypes(x)'
    BY <1>2, <1>4 DEF OwnTypes, IsSequence
  <2>2. OwnStart(x)'
    BY <1>2, <1>3, StartKept
  <2>3. OwnPlace(x)'
    BY <1>2, <1>4 DEF OwnPlace, Stranded, Looping
  <2> QED BY <2>1, <2>2, <2>3 DEF Own
<1>6. \A q \in Rank : Stage(x) <= Stage(q)
  BY <1>3, Level
<1>7. Ahead(x)' = Ahead(x)
  <2>1. From(env, case_id[x], version[x]) = From(env, case_id[x] + 1, 1)
    BY <1>2, <1>4, SkipRest
  <2> QED BY <1>2, <2>1 DEF Ahead
<1> QED BY <1>1, <1>2, <1>4, <1>5, <1>6, <1>7, SilentKeeps

LEMMA FinalizedKeeps ==
    ASSUME CallsInv, NEW x \in Rank, Finalized(x)
    PROVE  CallsInv'
<1>1. Only(x)
  BY OnlyOne
<1>2. /\ pc[x] = "finalize" /\ Passed(x) /\ pc'[x] = "done" /\ calls' = calls
      /\ case_id' = case_id /\ version' = version /\ env' = env
  BY DEF Finalized, Goto, CallsInv
<1>3. Own(x) /\ IsSequence(calls[x]) /\ Len(calls[x]) \in Nat
  BY Appended DEF CallsInv, Own, OwnTypes
<1>4. Own(x)'
  <2>1. OwnTypes(x)'
    BY <1>2, <1>3 DEF Own, OwnTypes, IsSequence, Ended
  <2>2. OwnStart(x)'
    BY <1>2, <1>3 DEF Own, OwnStart, Looping, Stranded
  <2>3. OwnPlace(x)'
    BY <1>2, <1>3 DEF Own, OwnPlace, Stranded, Looping
  <2> QED BY <2>1, <2>2, <2>3 DEF Own
<1>5. calls[x][Len(calls[x])] = <<"finalize">> /\ Len(calls[x]) >= 1
  BY <1>2, <1>3 DEF Own, OwnPlace
<1>6. \A q \in Rank : Stage(x) <= Stage(q)
  BY <1>2, <1>5, AllEntered
<1>7. Ahead(x)' = Ahead(x) /\ pc[x] \notin Stranded
  BY <1>2 DEF Ahead, Stranded
<1> QED BY <1>1, <1>2, <1>4, <1>6, <1>7, SilentKeeps

\* What the root does alone: the others see nothing of it.
LEMMA RootKeeps ==
    ASSUME CallsInv, RootStep
    PROVE  CallsInv'
<1>1. Root \in Rank
  BY NPAssumption DEF Rank, Root
<1>2. Only(Root)
  BY <1>1, OnlyOne
<1>3. /\ pc[Root] \in {"compare", "grouped"} /\ calls' = calls /\ version' = version
      /\ env' = env
      /\ \/ pc'[Root] \in {"compare", "grouped", "aborted"} /\ case_id' = case_id
         \/ /\ pc[Root] = "compare" /\ pc'[Root] = "cases"
            /\ case_id'[Root] = case_id[Root] + 1
  <2>1. CASE CompareOther \/ StartCompare \/ Compare
    BY <1>1, <2>1 DEF CompareOther, StartCompare, Compare, Goto, CallsInv
  <2>2. CASE EndCompare \/ NextCase
    BY <1>1, <2>2 DEF EndCompare, NextCase, Goto, CallsInv
  <2> QED BY <2>1, <2>2 DEF RootStep
<1>4. pc[Root] \in Looping /\ pc[Root] \notin Entering /\ pc'[Root] \in Looping \cup Stranded
  BY <1>3 DEF Looping, Entering, Stranded
<1>5. /\ Own(Root) /\ IsSequence(calls[Root]) /\ env.config
      /\ Len(calls[Root]) \in Nat /\ Len(calls[Root]) >= 3 /\ Len(env.input) \in Nat
      /\ case_id[Root] \in Nat \ {0} /\ version[Root] \in Nat \ {0} /\ pc[Root] \notin Stranded
      /\ case_id[Root] <= Len(env.input) + 1
  BY <1>1, <1>4, InLoop
<1>6. version[Root] = 1 /\ case_id[Root] <= Len(env.input)
  BY <1>3, <1>5 DEF Own, OwnPlace
<1>7. Own(Root)'
  <2>1. OwnTypes(Root)'
    BY <1>3, <1>5 DEF OwnTypes, IsSequence, Ended
  <2>2. OwnStart(Root)'
    BY <1>1, <1>3, <1>4, StartKept
  <2>3. OwnPlace(Root)'
    BY <1>3, <1>5, <1>6 DEF OwnPlace, Stranded, Looping
  <2> QED BY <2>1, <2>2, <2>3 DEF Own
<1>8. \A q \in Rank : Stage(Root) <= Stage(q)
  BY <1>1, <1>4, Level
<1>9. pc'[Root] \notin Stranded => Ahead(Root)' = Ahead(Root)
  BY <1>3, <1>6 DEF Ahead, Stranded
<1> QED BY <1>1, <1>2, <1>3, <1>5, <1>7, <1>8, <1>9, SilentKeeps

-----------------------------------------------------------------------------
LEMMA CallsInit == Init => CallsInv
<1> SUFFICES ASSUME Init PROVE CallsInv
  OBVIOUS
<1>1. ASSUME NEW r \in Rank
      PROVE  pc[r] = "parse" /\ calls[r] = << >> /\ case_id[r] = 1 /\ version[r] = 1
             /\ Len(calls[r]) = 0
  BY <1>1 DEF Init
<1>2. ASSUME NEW r \in Rank PROVE Own(r) /\ Stage(r) = 3
  <2>1. IsSequence(<< >>)
    BY DEF IsSequence
  <2>2. OwnTypes(r)
    BY <1>1, <1>2, <2>1 DEF OwnTypes
  <2>3. OwnStart(r)
    BY <1>1, <1>2 DEF OwnStart
  <2>4. OwnPlace(r)
    BY <1>1, <1>2 DEF OwnPlace, Looping, Stranded
  <2> QED BY <1>1, <1>2, <2>2, <2>3, <2>4 DEF Own, Stage
<1>3. ASSUME NEW q \in Rank, NEW r \in Rank PROVE Pair(q, r)
  <2>1. Ahead(q) = Ahead(r)
    BY <1>1, <1>3 DEF Ahead
  <2> QED BY <1>1, <1>2, <1>3, <2>1 DEF Pair, Entering
<1>4. CollectivesMatch
  BY <1>1 DEF CollectivesMatch
<1> QED BY <1>2, <1>3, <1>4 DEF CallsInv, Init

LEMMA CallsStep == CallsInv /\ [Next]_vars => CallsInv'
<1> SUFFICES ASSUME CallsInv, [Next]_vars PROVE CallsInv'
  OBVIOUS
<1>1. CASE UNCHANGED vars
  <2>1. /\ env' = env /\ pc' = pc /\ calls' = calls /\ case_id' = case_id
        /\ version' = version
    BY <1>1 DEF vars, main_vars
  <2>2. ASSUME NEW r \in Rank
        PROVE  Own(r)' /\ Stage(r)' = Stage(r) /\ Ahead(r)' = Ahead(r)
    <3>1. Own(r)
      BY DEF CallsInv
    <3>2. OwnTypes(r)'
      BY <2>1, <3>1 DEF Own, OwnTypes, IsSequence
    <3>3. OwnStart(r)'
      BY <2>1, <3>1 DEF Own, OwnStart
    <3>4. OwnPlace(r)'
      BY <2>1, <3>1 DEF Own, OwnPlace
    <3>5. Stage(r)' = Stage(r) /\ Ahead(r)' = Ahead(r)
      BY <2>1 DEF Stage, Ahead
    <3> QED BY <3>2, <3>3, <3>4, <3>5 DEF Own
  <2>3. ASSUME NEW q \in Rank, NEW r \in Rank PROVE Pair(q, r)'
    BY <2>1, <2>2 DEF CallsInv, Pair
  <2>4. CollectivesMatch'
    BY <2>1 DEF CallsInv, CollectivesMatch
  <2> QED BY <2>1, <2>2, <2>3, <2>4 DEF CallsInv
<1>2. CASE \E r \in Rank : Step(r)
  BY <1>2, ParseKeeps, AgreeKeeps, CheckInputKeeps, BarrierKeeps, ReadConfigKeeps,
     StartVersionKeeps, EndVersionKeeps, EndCaseKeeps, FinishKeeps, FinalizedKeeps, RootKeeps
  DEF Step
<1> QED BY <1>1, <1>2 DEF Next

LEMMA CallsHold == Spec => []CallsInv
BY CallsInit, CallsStep, PTL DEF Spec

\* Whatever the options, the files and the failures, the n-th collective
\* operation is the same for all the processes that come to it: a process that
\* returns from main, or that throws, never makes another one join an
\* operation with a different one (pgchecker.cpp, main).
THEOREM OperationsMatch == Spec => []CollectivesMatch
<1>1. CallsInv => CollectivesMatch
  BY DEF CallsInv
<1> QED BY <1>1, CallsHold, PTL

-----------------------------------------------------------------------------
(* The types of the variables.  The comparer's are those of a comparer     *)
(* that has gone out of scope (Idle), or of one at work or at which the    *)
(* root threw (Filled).                                                    *)

Idle == mockup2data = << >> /\ def_res = NoResults /\ todo = {}

Filled ==
    /\ Default \in DOMAIN mockup2data
    /\ Default \in DOMAIN Results /\ mockup2data[Default] \in Results[Default]
    /\ def_res \in [DOMAIN mockup2data[Default] -> Entry]
    /\ todo \subseteq DOMAIN mockup2data

CollData == \A a \in DOMAIN coll_data : a \in DOMAIN Results /\ coll_data[a] \in Results[a]

TypeInv ==
    /\ CollData
    /\ comparer \in 1 .. Len(env.comparers) + 1
    /\ pc[Root] = "grouped" =>
           comparer <= Len(env.comparers) /\ mockup2data = coll_data /\ Filled
    /\ Idle \/ Filled

LEMMA TypeStep ==
    ASSUME IInv, IInv', CallsInv, TypeInv, [Next]_vars
    PROVE  TypeInv'
<1>1. /\ Root \in Rank /\ DOMAIN pc = Rank /\ env \in Envs
      /\ Len(env.comparers) \in Nat
  BY EnvsAssumption DEF IInv, LoopInv
<1>2. ASSUME env' = env, comparer' = comparer, UNCHANGED comparer_vars, CollData',
             pc'[Root] = "grouped" => pc[Root] = "grouped" /\ coll_data' = coll_data
      PROVE  TypeInv'
  BY <1>2 DEF TypeInv, Idle, Filled, comparer_vars
<1>3. coll_data' = coll_data => CollData'
  BY DEF TypeInv, CollData
<1>4. CASE UNCHANGED vars
  BY <1>2, <1>3, <1>4 DEF vars, main_vars
<1>5. ASSUME NEW r \in Rank,
             \/ Parse(r) \/ Agree(r) \/ CheckInput(r) \/ BarrierMeasured(r)
             \/ ReadConfig(r) \/ StartVersion(r) \/ EndCase(r) \/ Finish(r) \/ Finalized(r)
      PROVE  TypeInv'
  <2>1. /\ UNCHANGED comparer_vars /\ env' = env /\ coll_data' = coll_data
        /\ comparer' = comparer
        /\ pc'[Root] = "grouped" => pc[Root] = "grouped"
    BY <1>1, <1>5 DEF Parse, Agree, CheckInput, BarrierMeasured, ReadConfig,
       StartVersion, EndCase, Finish, Finalized, Goto, Enter
  <2> QED BY <1>2, <1>3, <2>1
<1>6. ASSUME NEW r \in Rank, EndVersion(r) PROVE TypeInv'
  <2> DEFINE alg == Versions(env, case_id[r])[version[r]]
  <2>1. alg \in DOMAIN Results
    BY <1>6, VersionsTyped DEF IInv, LoopInv, EndVersion
  <2>2. CollData'
    <3>1. CASE coll_data' = coll_data
      BY <1>3, <3>1
    <3>2. CASE \E data \in Results[alg] :
                  coll_data' = [a \in DOMAIN coll_data \cup {alg} |->
                                  IF a = alg THEN data ELSE coll_data[a]]
      BY <2>1, <3>2 DEF TypeInv, CollData
    <3> QED BY <1>6, <3>1, <3>2 DEF EndVersion
  <2>3. /\ env' = env /\ comparer' = comparer /\ UNCHANGED comparer_vars
        /\ pc[r] = "running" /\ pc' = [pc EXCEPT ![r] = "cases"]
        /\ r # Root => coll_data' = coll_data
    BY <1>6 DEF EndVersion, Goto
  <2>4. pc'[Root] = "grouped" => pc[Root] = "grouped" /\ coll_data' = coll_data
    BY <1>1, <2>3
  <2> QED BY <1>2, <2>2, <2>3, <2>4
<1>7. CASE CompareOther
  <2>1. /\ UNCHANGED <<env, coll_data>> /\ UNCHANGED comparer_vars /\ pc'[Root] # "grouped"
        /\ comparer' \in {comparer, comparer + 1} /\ comparer <= Len(env.comparers)
    BY <1>1, <1>7 DEF CompareOther, Goto
  <2>2. comparer' \in 1 .. Len(env.comparers) + 1
    BY <1>1, <2>1 DEF TypeInv
  <2> QED BY <1>3, <2>1, <2>2 DEF TypeInv, Idle, Filled, comparer_vars
<1>8. CASE StartCompare
  <2>1. UNCHANGED <<env, coll_data, comparer>> /\ comparer <= Len(env.comparers)
    BY <1>8 DEF StartCompare
  <2>2. CASE StartGrouped(coll_data)
    <3> DEFINE D == DOMAIN coll_data[Default]
    <3>1. Default \in DOMAIN Results /\ coll_data[Default] \in Results[Default]
      BY <2>2 DEF StartGrouped, TypeInv, CollData
    <3>2. /\ mockup2data' = coll_data /\ todo' \subseteq DOMAIN coll_data
          /\ def_res' = [c \in D |-> ComparerData(coll_data[Default][c].median)]
          /\ Default \in DOMAIN coll_data
      BY <2>2 DEF StartGrouped
    <3>3. coll_data[Default] \in [D -> Runtimes]
      BY <3>1, ResultsAssumption
    <3>4. \A c \in D : ComparerData(coll_data[Default][c].median) \in Entry
      BY <3>3 DEF Runtimes, ComparerData, Entry, Statistic
    <3>5. Filled'
      BY <3>1, <3>2, <3>4 DEF Filled
    <3> QED BY <1>3, <2>1, <3>2, <3>5 DEF TypeInv
  <2>3. CASE UNCHANGED comparer_vars /\ Goto(Root, "aborted")
    BY <1>1, <1>2, <1>3, <2>1, <2>3 DEF Goto
  <2> QED BY <1>8, <2>2, <2>3 DEF StartCompare
<1>9. CASE Compare
  <2>1. UNCHANGED <<env, coll_data, comparer>> /\ pc[Root] = "grouped"
    BY <1>9 DEF Compare
  <2>2. PICK mockup \in todo :
            \/ CompareMockup(env.test, mockup)
            \/ UNCHANGED comparer_vars
    BY <1>9 DEF Compare
  <2>3. CASE UNCHANGED comparer_vars
    BY <1>2, <1>3, <2>1, <2>3
  <2>4. CASE CompareMockup(env.test, mockup)
    <3> DEFINE value(c) == IF c \in DOMAIN mockup2data[mockup]
                           THEN Judge(env.test, def_res[c], mockup, mockup2data[mockup][c])
                           ELSE def_res[c]
    <3>1. /\ mockup2data' = mockup2data /\ todo' \subseteq todo
          /\ def_res' = [c \in DOMAIN def_res |-> value(c)]
      BY <2>4 DEF CompareMockup
    <3>2. ResInv
      BY <2>1 DEF IInv
    <3>3. \A c \in DOMAIN def_res : value(c) \in Entry
      <4>1. ASSUME NEW c \in DOMAIN def_res, c \in DOMAIN mockup2data[mockup]
            PROVE  Judge(env.test, def_res[c], mockup, mockup2data[mockup][c]) \in Entry
        <5>1. /\ mockup \in DOMAIN Results /\ mockup2data[mockup][c] \in Runtimes
              /\ def_res[c] \in Entry
          BY <3>2, <4>1 DEF ResInv, IsDataOf, EntryInv
        <5> QED BY <5>1, JudgeEntry
      <4>2. \A c \in DOMAIN def_res : def_res[c] \in Entry
        BY <3>2 DEF ResInv, EntryInv
      <4> QED BY <4>1, <4>2
    <3> HIDE DEF value
    <3>4. Filled'
      BY <2>1, <3>1, <3>3 DEF TypeInv, Filled
    <3> QED BY <1>3, <2>1, <3>1, <3>4 DEF TypeInv
  <2> QED BY <2>2, <2>3, <2>4
<1>10. CASE EndCompare
  <2>1. /\ UNCHANGED <<env, coll_data>> /\ pc'[Root] = "compare" /\ pc[Root] = "grouped"
        /\ comparer' = comparer + 1
    BY <1>1, <1>10 DEF EndCompare, Goto
  <2>2. Idle'
    BY <1>10 DEF EndCompare, EndGrouped, Idle
  <2>3. comparer' \in 1 .. Len(env.comparers) + 1
    BY <1>1, <2>1 DEF TypeInv
  <2> QED BY <1>3, <2>1, <2>2, <2>3 DEF TypeInv
<1>11. CASE NextCase
  <2>1. /\ env' = env /\ coll_data' = << >> /\ pc'[Root] = "cases"
        /\ comparer' = 1 /\ UNCHANGED comparer_vars
    BY <1>1, <1>11 DEF NextCase, Goto
  <2>2. CollData' /\ comparer' \in 1 .. Len(env.comparers) + 1
    BY <1>1, <2>1 DEF CollData
  <2> QED BY <2>1, <2>2 DEF TypeInv, Idle, Filled, comparer_vars
<1> QED BY <1>4, <1>5, <1>6, <1>7, <1>8, <1>9, <1>10, <1>11 DEF Next, Step, RootStep

\* pc stays an array indexed by the ranks.
LEMMA ArrayStep ==
    ASSUME pc = [r \in Rank |-> pc[r]], [Next]_vars
    PROVE  pc' = [r \in Rank |-> pc'[r]]
<1>1. ASSUME NEW r, NEW l, pc' = [pc EXCEPT ![r] = l] PROVE pc' = [q \in Rank |-> pc'[q]]
  BY <1>1
<1>2. ASSUME pc' = pc PROVE pc' = [q \in Rank |-> pc'[q]]
  BY <1>2
<1>3. pc' = pc \/ \E r, l : pc' = [pc EXCEPT ![r] = l]
  <2>1. CASE UNCHANGED vars
    BY <2>1 DEF vars, main_vars
  <2>2. ASSUME NEW r \in Rank,
               \/ Parse(r) \/ Agree(r) \/ CheckInput(r) \/ BarrierMeasured(r)
               \/ ReadConfig(r)
        PROVE  \E l : pc' = [pc EXCEPT ![r] = l]
    BY <2>2 DEF Parse, Agree, CheckInput, BarrierMeasured, ReadConfig, Goto, Enter
  <2>3. ASSUME NEW r \in Rank,
               \/ StartVersion(r) \/ EndVersion(r) \/ EndCase(r) \/ Finish(r)
               \/ Finalized(r)
        PROVE  pc' = pc \/ \E l : pc' = [pc EXCEPT ![r] = l]
    BY <2>3 DEF StartVersion, EndVersion, EndCase, Finish, Finalized, Goto, Enter
  <2>4. CASE RootStep
    BY <2>4 DEF RootStep, CompareOther, StartCompare, Compare, EndCompare, NextCase, Goto
  <2> QED BY <2>1, <2>2, <2>3, <2>4 DEF Next, Step
<1> QED BY <1>1, <1>2, <1>3

\* The variables keep their types: the loops stay within the test cases, the
\* implementations and the comparers, only the root compares, and a table is
\* filled exactly while there are data to compare (pgchecker.cpp, main).
THEOREM TypesHold == Spec => []TypeOK
<1>1. Init => TypeInv
  <2>1. ASSUME Init PROVE Len(env.comparers) \in Nat
    BY <2>1, EnvsAssumption DEF Init
  <2> QED BY <2>1, NPAssumption DEF Init, ComparerInit, TypeInv, CollData, Idle, Rank, Root
<1>2. IInv /\ IInv' /\ CallsInv /\ TypeInv /\ [Next]_vars => TypeInv'
  BY TypeStep
<1>3. Spec => []TypeInv
  BY <1>1, <1>2, InvariantHolds, CallsHold, PTL DEF Spec
<1> DEFINE Array == pc = [r \in Rank |-> pc[r]]
<1>5. Init => Array
  BY DEF Init
<1>6. Array /\ [Next]_vars => Array'
  BY ArrayStep
<1>7. Spec => []Array
  <2> HIDE DEF Array
  <2> QED BY <1>5, <1>6, PTL DEF Spec
<1>4. ASSUME CallsInv, TypeInv, Array PROVE TypeOK
  <2>1. Root \in Rank /\ env \in Envs
    BY <1>4, NPAssumption DEF Rank, Root, CallsInv
  <2>2. pc \in [Rank -> {"parse", "agree", "input", "barrier", "config", "cases",
                        "running", "compare", "grouped", "finalize"} \cup Ended]
    <3>1. \A r \in Rank : pc[r] \in {"parse", "agree", "input", "barrier", "config", "cases",
                        "running", "compare", "grouped", "finalize"} \cup Ended
      BY <1>4 DEF CallsInv, Own, OwnTypes
    <3> QED BY <1>4, <3>1 DEF CallsInv
  <2>3. ASSUME NEW r \in Rank
        PROVE  /\ pc[r] \in {"compare", "grouped", "aborted"} => r = Root
               /\ pc[r] \in {"cases", "running", "compare", "grouped"} =>
                      /\ case_id[r] \in 1 .. Len(env.input) + 1
                      /\ version[r] \in Nat \ {0}
    <3>1. Own(r)
      BY <1>4 DEF CallsInv
    <3>2. pc[r] \in {"compare", "grouped", "aborted"} => r = Root
      BY <3>1 DEF Own, OwnPlace
    <3>3. ASSUME pc[r] \in {"cases", "running", "compare", "grouped"}
          PROVE  case_id[r] \in 1 .. Len(env.input) + 1 /\ version[r] \in Nat \ {0}
      <4>1. /\ case_id[r] \in Nat \ {0} /\ version[r] \in Nat \ {0}
            /\ case_id[r] <= Len(env.input) + 1 /\ Len(env.input) \in Nat
        BY <1>4, <3>3, InLoop DEF Looping
      <4> QED BY <4>1
    <3> QED BY <3>2, <3>3
  <2>4. ASSUME Filled PROVE def_res # NoResults /\ mockup2data # << >>
    BY <2>4, NoResultsAssumption DEF Filled
  <2>5. (def_res # NoResults) <=> (mockup2data # << >>)
    BY <1>4, <2>4 DEF TypeInv, Idle
  <2>6. todo \subseteq DOMAIN mockup2data
    BY <1>4 DEF TypeInv, Idle, Filled
  <2> QED BY <1>4, <2>1, <2>2, <2>3, <2>5, <2>6 DEF TypeOK, TypeInv, CollData
<1> HIDE DEF Array
<1> QED BY <1>3, <1>4, <1>7, CallsHold, PTL
=============================================================================
