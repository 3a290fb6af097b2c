--------------------------- MODULE MCSanityTests ---------------------------
(***************************************************************************)
(* Instances of SanityTests for TLC.  Flat algorithms: one to seven        *)
(* processes, all on nodes of their own, so that every mixed-up frame is   *)
(* seen; seven make HCA merge twice in its second step.  Hierarchical      *)
(* ones: placements with equal, interleaved and unequal nodes.  Each test  *)
(* with both kinds of clocks, picked and fixed process lists.              *)
(***************************************************************************)
EXTENDS SanityTests

Own(np) == [r \in 0 .. np - 1 |-> ToString(r)]

Job(test, np, node, module, alg) ==
    [test |-> test, np |-> np, node |-> node, module |-> module, alg |-> alg, offset |-> "skampi_offset",
     ratio |-> 0, reps |-> 2, steps |-> 1, root |-> 0]

FlatChoices ==
    {<<"HCA", "absent">>, <<"HCA", "hca2r">>, <<"HCA", "jk">>, <<"HCA2", "unknown">>, <<"HCA2", "hca">>,
     <<"HCA3", "absent">>, <<"HCA3", "hca3r">>, <<"HCA3O", "hca3offset">>, <<"HCA3O", "absent">>,
     <<"JK", "jk">>, <<"SKaMPI", "skampi">>, <<"SKaMPI", "prop2">>}
FlatJobs == {Job("stress", np, Own(np), c[1], <<c[2]>>) : np \in 1 .. 4, c \in FlatChoices}
            \cup {[Job("stress", np, Own(np), c[1], <<c[2]>>) EXCEPT !.reps = 1] :
                     np \in {5, 7}, c \in FlatChoices}
            \cup {[Job("stress", 3, Own(3), c[1], <<c[2]>>) EXCEPT !.offset = "wrong"] : c \in FlatChoices}

Placements == {<<"a", "a", "b", "b", "c", "c">>, <<"a", "b", "a", "b", "a", "b">>,
               <<"a", "a", "a", "b", "b", "c">>, <<"a", "a", "a", "a">>, <<"a", "b", "c">>}
NodeOf(pl) == [r \in 0 .. Len(pl) - 1 |-> pl[r + 1]]
TwoChoices == {<<"absent", "absent">>, <<"hca2r", "jk">>, <<"skampi", "prop0">>,
               <<"hca", "hca3offset">>, <<"hca3offset", "hca">>, <<"jk", "prop1">>, <<"prop2", "jk">>}
ThreeChoices == {<<"absent", "jk", "jk">>, <<"hca3", "hca3", "skampi">>, <<"hca2", "jk", "prop1">>,
                 <<"jk", "prop2", "jk">>, <<"hca3offset", "skampi", "prop0">>}
TopoJobs == {Job("stress", Len(pl), NodeOf(pl), "Topo2", c) : pl \in Placements, c \in TwoChoices}
            \cup {Job("stress", Len(pl), NodeOf(pl), "Topo1", c) : pl \in Placements, c \in ThreeChoices}

SyncTests == {"drift", "driftnew", "driftrep", "duration"}
PlainTests == {"real", "local", "compare", "calibrate", "verify"}
TestJobs ==
    {Job(t, np, Own(np), "HCA3", <<"absent">>) : t \in SyncTests, np \in 1 .. 4}
    \cup {Job(t, np, Own(np), "None", <<"absent">>) : t \in PlainTests \cup {"driftrep"}, np \in 1 .. 3}
    \cup {[Job(t, np, Own(np), "HCA3", <<"absent">>) EXCEPT !.ratio = n] :
              t \in {"drift", "driftrep"}, np \in 4 .. 6, n \in 2 .. 4}
    \cup {[Job("rtt", 3, Own(3), "None", <<"absent">>) EXCEPT !.root = q] : q \in 0 .. 2}
    \cup {[Job("drift", 3, Own(3), "HCA3", <<"absent">>) EXCEPT !.reps = 0]}

Jobs == FlatJobs \cup TopoJobs \cup TestJobs
=============================================================================
