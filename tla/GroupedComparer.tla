-------------------------- MODULE GroupedComparer --------------------------
(***************************************************************************)
(* The comparer pgchecker uses unless told otherwise:                      *)
(* GroupedViolationComparer::get_results with ComparerData and the         *)
(* statistical test it owns (pgcheck/comparer).                            *)
(*                                                                         *)
(* For each count (message size) the default implementation has been       *)
(* measured with, the comparer keeps the fastest mockup found so far and   *)
(* whether the default is significantly slower than it.  The mockups come  *)
(* from an unordered_map, hence in any order.                              *)
(*                                                                         *)
(* The runtimes of an implementation and a count are abstracted to         *)
(* their median and the class of the test statistic that they give against *)
(* the default's runtimes: below minus the critical value (a violation),   *)
(* above it, or exactly zero.                                              *)
(***************************************************************************)
EXTENDS Integers

CONSTANTS
    Default,    \* "default", the library's own implementation
    NoMockup,   \* the empty name: no mockup seen yet
    NoResults   \* def_res outside of get_results

Tests == {"ttest", "wilcoxon"}
Statistic == {"below", "above", "zero"}
Runtimes == [median : Nat \ {0}, z : Statistic]

VARIABLES
    mockup2data,    \* implementation -> count -> Runtimes
    def_res,        \* count -> ComparerData of the default
    todo            \* the mockups the loop has still to visit

comparer_vars == <<mockup2data, def_res, todo>>

ComparerData(median) ==
    [median |-> median, z_value |-> "zero",
     violation |-> FALSE, fastest_mockup |-> NoMockup, fastest_mockup_median |-> 0]

-----------------------------------------------------------------------------
\* The statistic get_violation compares with the critical value.  The two
\* Wilcoxon tests use the z_value they hold unless it is 0; set_samples does
\* not touch it.  The t-test always computes its own.
StatisticUsed(test, z_value, rts) ==
    IF test = "wilcoxon" /\ z_value # "zero" THEN z_value ELSE rts.z

\* Mutant: the first mockup visited stays the fastest.
IsFasterFirst(data, rts) == data.fastest_mockup_median = 0

\* The condition of set_fastest_mockup.
IsFaster(data, rts) ==
    \/ data.fastest_mockup_median = 0
    \/ rts.median < data.fastest_mockup_median

\* Mutant: the violation of the mockup visited last is kept.
JudgeLast(test, data, mockup, rts) ==
    LET used == StatisticUsed(test, data.z_value, rts)
        seen == [data EXCEPT !.z_value = IF test = "wilcoxon" THEN used ELSE @,
                             !.violation = (used = "below")]
    IN  IF IsFaster(data, rts)
        THEN [seen EXCEPT !.fastest_mockup = mockup,
                          !.fastest_mockup_median = rts.median]
        ELSE seen

\* get_violation, then set_fastest_mockup.
Judge(test, data, mockup, rts) ==
    LET used == StatisticUsed(test, data.z_value, rts)
        seen == [data EXCEPT !.z_value = IF test = "wilcoxon" THEN used ELSE @]
    IN  IF IsFaster(data, rts)
        THEN [seen EXCEPT !.violation = (used = "below"),
                          !.fastest_mockup = mockup,
                          !.fastest_mockup_median = rts.median]
        ELSE seen

-----------------------------------------------------------------------------
ComparerInit ==
    /\ mockup2data = << >>
    /\ def_res = NoResults
    /\ todo = {}

\* add_data and the first loop of get_results; mockup2data.at(Default) throws
\* if there is no default, get_unique_counts if it has no rows.
StartGrouped(data) ==
    /\ Default \in DOMAIN data
    /\ DOMAIN data[Default] # {}
    /\ mockup2data' = data
    /\ def_res' = [c \in DOMAIN data[Default] |-> ComparerData(data[Default][c].median)]
    /\ todo' = DOMAIN data \ {Default}

\* One round of the second loop: every count of one mockup.
CompareMockup(test, mockup) ==
    LET rts == mockup2data[mockup]
    IN  /\ mockup \in todo
        /\ DOMAIN rts # {} /\ DOMAIN rts \subseteq DOMAIN def_res
        /\ def_res' = [c \in DOMAIN def_res |->
                         IF c \in DOMAIN rts
                         THEN Judge(test, def_res[c], mockup, rts[c]) ELSE def_res[c]]
        /\ todo' = todo \ {mockup}
        /\ UNCHANGED mockup2data

\* The visited mockup has no rows, or a count the default lacks: at() throws.
MockupThrows(mockup) ==
    /\ mockup \in todo
    /\ \/ DOMAIN mockup2data[mockup] = {}
       \/ ~ DOMAIN mockup2data[mockup] \subseteq DOMAIN def_res

\* The comparer goes out of scope at the end of its round in main.
EndGrouped ==
    /\ def_res' = NoResults
    /\ mockup2data' = << >>
    /\ todo' = {}

-----------------------------------------------------------------------------
\* The mockups measured for a count and visited so far.
Visited(c) ==
    {m \in DOMAIN mockup2data \ ({Default} \cup todo) : c \in DOMAIN mockup2data[m]}

\* The entry of a count names one of its mockups with the smallest median, and
\* names none only if there is none.
NamesFastest(c) ==
    LET d == def_res[c]
    IN  IF d.fastest_mockup = NoMockup THEN Visited(c) = {}
        ELSE /\ d.fastest_mockup \in Visited(c)
             /\ mockup2data[d.fastest_mockup][c].median = d.fastest_mockup_median
             /\ \A m \in Visited(c) :
                    d.fastest_mockup_median <= mockup2data[m][c].median

\* The violation of a count is the verdict on the mockup the entry names.
VerdictMatches(c) ==
    def_res[c].fastest_mockup # NoMockup =>
        (def_res[c].violation <=> mockup2data[def_res[c].fastest_mockup][c].z = "below")

\* Whatever the order of the mockups, the row of a count names the fastest of
\* those measured for it (set_fastest_mockup).
FastestIsMinimum ==
    def_res # NoResults => \A c \in DOMAIN def_res : NamesFastest(c)

\* The violation in the row of a count is the verdict of the test on the
\* runtimes of the mockup the row names (comparer_data.h: "@return true if
\* samples violate test hypothesis").
VerdictOfFastest ==
    def_res # NoResults => \A c \in DOMAIN def_res : VerdictMatches(c)
=============================================================================
