----------------------------- MODULE MCPGCheck -----------------------------
(***************************************************************************)
(* Instances of PGCheck for TLC: one or two test cases, up to two mockups  *)
(* of an implementation, up to two counts.                                 *)
(***************************************************************************)
EXTENDS PGCheck

\* A mockup may be slower, as fast or faster than the default, whose median
\* is 2; only a faster one can be significantly so.
MockupRuntimes ==
    {[median |-> 1, z |-> "below"], [median |-> 1, z |-> "above"],
     [median |-> 2, z |-> "zero"], [median |-> 3, z |-> "above"]}

DefaultRuntimes == [median |-> 2, z |-> "zero"]

\* A data file may lack a count whose job found no time to run.  The counts
\* do not affect each other but by their presence: the second one is simple.
ResultsSmall ==
    [a \in {"default", "m1", "m2"} |->
        LET R == IF a = "default" THEN {DefaultRuntimes} ELSE MockupRuntimes
        IN  {<< >>} \cup {<<x>> : x \in R} \cup {<<x, DefaultRuntimes>> : x \in R}]

Config == [bcast |-> <<"default", "m1", "m2">>, reduce |-> <<"m1", "default", "m1">>,
           scan |-> <<"default">>]

Env(status, input, config, comparers, test) ==
    [status |-> status, input |-> input, config |-> config, csv |-> Config,
     comparers |-> comparers, test |-> test]

EnvsSmall ==
    {Env("ok", <<"bcast">>, TRUE, <<"grouped">>, t) : t \in Tests}
    \cup {Env("ok", <<"reduce", "scan">>, TRUE, <<"grouped">>, "wilcoxon")}
    \cup {Env("ok", <<"scan", "reduce">>, TRUE, <<k>>, "ttest") :
        k \in {"simple", "relative", "detailed"}}
    \cup {Env("ok", <<"reduce", "barrier">>, TRUE, <<"simple", "grouped">>, "ttest")}
    \cup {Env(s, <<"scan">>, b, <<"simple">>, "ttest") : s \in {"ok", "root"}, b \in BOOLEAN}
    \cup {Env(s, Missing, TRUE, <<"simple">>, "ttest") : s \in {"ok", "root"}}
    \cup {Env("all", i, TRUE, << >>, "ttest") : i \in {Missing, <<"scan">>}}
=============================================================================
