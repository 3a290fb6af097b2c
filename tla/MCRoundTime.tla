---------------------------- MODULE MCRoundTime ----------------------------
(***************************************************************************)
(* Instances of RoundTime for TLC.                                         *)
(***************************************************************************)
EXTENDS RoundTime

\* One call with two jobs; the larger count switches to the barrier.
JobsTwo == << [first |-> TRUE, bench_time |-> 6, barrier_count |-> 8,
               count |-> 1, nrep |-> 3],
              [first |-> FALSE, bench_time |-> NoOption,
               barrier_count |-> NoOption, count |-> 8, nrep |-> 2] >>

\* What pgchecker does: the barrier measurement of get_barrier_runtime, with
\* --rt-barrier-count=0, then a test case without that option.
JobsPGCheck == << [first |-> TRUE, bench_time |-> 2, barrier_count |-> 0,
                   count |-> 1, nrep |-> 1],
                  [first |-> TRUE, bench_time |-> 2, barrier_count |-> NoOption,
                   count |-> 8, nrep |-> 1] >>

ErrsSmall == {0, 1}
=============================================================================
