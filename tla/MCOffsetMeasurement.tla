------------------------- MODULE MCOffsetMeasurement -------------------------
(***************************************************************************)
(* Instances of OffsetMeasurement for TLC: both algorithms and the drift   *)
(* program, with a client's clock that is behind and one that is ahead.    *)
(***************************************************************************)
EXTENDS OffsetMeasurement

SetupsSmall ==
    {[alg |-> a, diff |-> d, nexchanges |-> 1, eager |-> e] :
         a \in {"skampi", "drift"}, d \in {-1, 2}, e \in BOOLEAN}
    \cup
    {[alg |-> "global", diff |-> -1, nexchanges |-> 1, eager |-> TRUE]}
    \cup
    {[alg |-> "pingpong", diff |-> 2, nexchanges |-> n, eager |-> e] :
         n \in {2, 3}, e \in BOOLEAN}
=============================================================================
