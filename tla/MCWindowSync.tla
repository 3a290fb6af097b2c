---------------------------- MODULE MCWindowSync ----------------------------
(***************************************************************************)
(* Instances of WindowSync for TLC: two jobs, the second one shorter.      *)
(***************************************************************************)
EXTENDS WindowSync

NRepsTwoJobs == <<2, 1>>
\* A summary of global times and all results in a verbose file; a summary of
\* local runtimes, and the runtime of each repetition in a file.
ReportsAll ==
    {[summary |-> TRUE, file |-> TRUE, verbose |-> TRUE, timing |-> "global"],
     [summary |-> TRUE, file |-> TRUE, verbose |-> FALSE, timing |-> "local"]}
ReportsVerbose ==
    {[summary |-> FALSE, file |-> TRUE, verbose |-> TRUE, timing |-> "global"]}
ErrsSmall == {0, 1}
=============================================================================
