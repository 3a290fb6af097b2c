--------------------------- MODULE KeyValueStore ---------------------------
(***************************************************************************)
(* The key-value store (utils/keyvalue_store.c): a hash table whose        *)
(* buckets are linked lists, with the calls its users make on it, and the  *)
(* parser of --params, which fills it.                                     *)
(*                                                                         *)
(* A bucket is the sequence of its entries, head first; every walk along a *)
(* list stops at the first entry of the key it looks for.  Memory          *)
(* management (strdup, free) is left out.  The hash of a key is chosen     *)
(* once, at the start, so that all ways to collide are covered.            *)
(***************************************************************************)
EXTENDS Naturals, Sequences, FiniteSets

SX == INSTANCE SequencesExt

CONSTANTS Keys, Values,
          Size,   \* HASHTABLE_SIZE: the number of buckets
          None    \* NULL

ASSUME SizeAssumption == Size \in Nat \ {0}
ASSUME NoneAssumption == None \notin Keys \cup Values

VARIABLES hash,    \* ht_hash: the bucket of every key
          table,   \* the buckets
          answer,  \* the return value of the last call and its out argument
          ended    \* exit_after_keyvalue_error ended the program
vars == <<hash, table, answer, ended>>

Bin == 0 .. Size - 1

Found(v) == [ret |-> 0, value |-> v]
Failed == [ret |-> 1, value |-> None]

\* reprompib_init_dictionary
Init ==
    /\ hash \in [Keys -> Bin]
    /\ table = [bin \in Bin |-> <<>>]
    /\ answer = Failed
    /\ ended = FALSE

\* Mutant: the walk begins at the second entry of the bucket.
PositionsButHead(k) ==
    {p \in DOMAIN table[hash[k]] : p > 1 /\ table[hash[k]][p].key = k}

\* Where the walk for k may stop, and where it does.
Positions(k) == {p \in DOMAIN table[hash[k]] : table[hash[k]][p].key = k}
First(k) == CHOOSE p \in Positions(k) : \A q \in Positions(k) : p <= q

\* reprompib_add_element_to_dict: replace the value, or chain a new entry
\* to the end of the bucket.
Add(k, v) ==
    /\ table' = [table EXCEPT ![hash[k]] =
           IF Positions(k) # {} THEN [@ EXCEPT ![First(k)].value = v]
           ELSE Append(@, [key |-> k, value |-> v])]
    /\ answer' = Found(None)
    /\ UNCHANGED <<hash, ended>>

\* parse_keyvalue_list, one pair of the list: v is None if the value is
\* missing.  A key may be given once.
ParsePair(k, v) ==
    \/ v # None /\ Positions(k) = {} /\ Add(k, v)
    \/ /\ v = None \/ Positions(k) # {}
       /\ ended' = TRUE
       /\ UNCHANGED <<hash, table, answer>>

\* reprompib_get_value_from_dict (and reprompib_dict_has_key)
Get(k) ==
    /\ answer' = IF Positions(k) # {}
                 THEN Found(table[hash[k]][First(k)].value) ELSE Failed
    /\ UNCHANGED <<hash, table, ended>>

\* reprompib_remove_element_from_dict: the head of a bucket is taken for its
\* only entry.
Remove(k) ==
    /\ table' = [table EXCEPT ![hash[k]] =
           IF Positions(k) = {} THEN @
           ELSE IF First(k) = 1 THEN <<>>
           ELSE SX!RemoveAt(@, First(k))]
    /\ answer' = IF Positions(k) # {} THEN Found(None) ELSE Failed
    /\ UNCHANGED <<hash, ended>>

\* reprompib_get_keys_from_dict: all keys, bucket by bucket.
GetKeys ==
    LET keysOf(bin) == [p \in DOMAIN table[bin] |-> table[bin][p].key]
    IN  /\ answer' = Found(SX!FlattenSeq([n \in 1 .. Size |-> keysOf(n - 1)]))
        /\ UNCHANGED <<hash, table, ended>>

Calls ==
    \/ \E k \in Keys : \/ Get(k) \/ Remove(k)
                       \/ \E v \in Values : Add(k, v)
                       \/ \E v \in Values \cup {None} : ParsePair(k, v)
    \/ GetKeys

Next == \/ ~ended /\ Calls
        \/ ended /\ UNCHANGED vars

Spec == Init /\ [][Next]_vars

-----------------------------------------------------------------------------
\* The map the table stands for.
Stored == {k \in Keys : Positions(k) # {}}
Lookup(k) == IF k \in Stored THEN table[hash[k]][First(k)].value ELSE None

D == INSTANCE Dictionary WITH map <- [k \in Stored |-> Lookup(k)]

\* A removal that takes other keys with it: that of the first of several keys
\* in a bucket.  The benchmark makes none, only src/test/test_global_dict.c
\* removes at all.
HeadOfOthers(k) ==
    Positions(k) # {} /\ First(k) = 1 /\ Len(table[hash[k]]) > 1
LossyRemoval == \E k \in Keys : HeadOfOthers(k) /\ Remove(k)

\* Every call but a lossy removal, also after one, is that of a map: a lookup
\* finds the last value added, a removal takes its own key and no other, the
\* list of keys has each key once, whatever keys collide; and --params is
\* rejected exactly if a pair is incomplete or repeats a key.
\* RemoveKeepsOthers says what a lossy removal does.
ImplementsDictionary ==
    D!Init /\ [][~LossyRemoval => [D!Next]_(D!vars)]_vars

\* "only one key in the bucket" (reprompib_remove_element_from_dict): taking
\* a key away leaves the values of all other keys alone.
RemoveKeepsOthers ==
    [][\A k \in Keys : Remove(k) =>
          \A x \in Keys \ {k} : Lookup(x)' = Lookup(x)]_vars
=============================================================================
