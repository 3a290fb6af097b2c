----------------------------- MODULE Dictionary -----------------------------
(***************************************************************************)
(* What the key-value store promises its callers: a map of keys to values. *)
(* A lookup finds the value last added for the key; the list of keys names *)
(* every key of the map once.  Removing a key takes away that key, and no  *)
(* other.                                                                  *)
(***************************************************************************)
EXTENDS Naturals, Sequences, FiniteSets, Functions

CONSTANTS Keys, Values, None

VARIABLES
    map,     \* the values of the keys that are there
    answer,  \* what the last call returned
    ended    \* the program stopped at an invalid --params
vars == <<map, answer, ended>>

Found(v) == [ret |-> 0, value |-> v]
Failed == [ret |-> 1, value |-> None]

Init == map = <<>> /\ answer = Failed /\ ended = FALSE

Add(k, v) ==
    /\ map' = [x \in DOMAIN map \cup {k} |-> IF x = k THEN v ELSE map[x]]
    /\ answer' = Found(None)
    /\ UNCHANGED ended

\* A pair of --params; v is None if it has no value.
ParsePair(k, v) ==
    \/ v # None /\ k \notin DOMAIN map /\ Add(k, v)
    \/ /\ v = None \/ k \in DOMAIN map
       /\ ended' = TRUE
       /\ UNCHANGED <<map, answer>>

Get(k) ==
    /\ answer' = IF k \in DOMAIN map THEN Found(map[k]) ELSE Failed
    /\ UNCHANGED <<map, ended>>

Remove(k) ==
    /\ map' = Restrict(map, DOMAIN map \ {k})
    /\ answer' = IF k \in DOMAIN map THEN Found(None) ELSE Failed
    /\ UNCHANGED ended

GetKeys ==
    /\ \E keys \in [1 .. Cardinality(DOMAIN map) -> DOMAIN map] :
          /\ {keys[n] : n \in DOMAIN keys} = DOMAIN map
          /\ answer' = Found(keys)
    /\ UNCHANGED <<map, ended>>

Calls ==
    \/ \E k \in Keys : \/ Get(k) \/ Remove(k)
                       \/ \E v \in Values : Add(k, v)
                       \/ \E v \in Values \cup {None} : ParsePair(k, v)
    \/ GetKeys

Next == ~ended /\ Calls

Spec == Init /\ [][Next]_vars
=============================================================================
