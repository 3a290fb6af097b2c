------------------------- MODULE KeyValueStoreProofs -------------------------
(***************************************************************************)
(* Proof, for any keys, any number of buckets and any way in which the     *)
(* keys collide: that every call of the key-value store is that of a       *)
(* dictionary, but for the removal of the first of several keys in a       *)
(* bucket.                                                                 *)
(***************************************************************************)
EXTENDS KeyValueStore, FiniteSetTheorems, WellFoundedInduction, TLAPS

-----------------------------------------------------------------------------
(* The invariant.                                                          *)

Entry == [key : Keys, value : Values]

TableInv == /\ hash \in [Keys -> Bin]
            /\ table \in [Bin -> Seq(Entry)]
            /\ ended \in BOOLEAN

\* A key is in no bucket but its own, and there once.
KeyInv == \A b \in Bin : \A p \in 1 .. Len(table[b]) :
              /\ hash[table[b][p].key] = b
              /\ \A q \in 1 .. Len(table[b]) : table[b][q].key = table[b][p].key => q = p

Inv == TableInv /\ KeyInv

LEMMA InvInit == Init => Inv
<1> SUFFICES ASSUME Init PROVE Inv
  OBVIOUS
<1>1. TableInv
  <2>1. <<>> \in Seq(Entry)
    OBVIOUS
  <2>2. table \in [Bin -> Seq(Entry)]
    BY <2>1 DEF Init
  <2> QED
    BY <2>2 DEF Init, TableInv
<1>2. \A b \in Bin : Len(table[b]) = 0
  BY DEF Init
<1>3. KeyInv
  BY <1>2 DEF KeyInv
<1> QED
  BY <1>1, <1>3 DEF Inv

-----------------------------------------------------------------------------
(* Where a key is found.                                                   *)

\* The walk for a key that is there once stops at its entry.
LEMMA OnlyPlace ==
    ASSUME NEW P, NEW p \in P, p \in Int, \A q \in P : q = p
    PROVE  (CHOOSE x \in P : \A y \in P : x <= y) = p
<1>1. \E x \in P : \A y \in P : x <= y
  OBVIOUS
<1> QED
  BY <1>1

PlaceFact ==
    \A k \in Keys, p \in Nat :
        Inv /\ p \in 1 .. Len(table[hash[k]]) /\ table[hash[k]][p].key = k
            => /\ Positions(k) = {p} /\ First(k) = p
               /\ k \in Stored /\ Lookup(k) = table[hash[k]][p].value
LEMMA PlaceOf == PlaceFact
<1> SUFFICES ASSUME NEW k \in Keys, NEW p \in Nat, Inv,
                    p \in 1 .. Len(table[hash[k]]), table[hash[k]][p].key = k
             PROVE  /\ Positions(k) = {p} /\ First(k) = p
                    /\ k \in Stored /\ Lookup(k) = table[hash[k]][p].value
  BY DEF PlaceFact
<1>1. hash[k] \in Bin /\ table[hash[k]] \in Seq(Entry)
  BY DEF Inv, TableInv
<1>2. DOMAIN table[hash[k]] = 1 .. Len(table[hash[k]])
  BY <1>1
<1>3. \A q \in Positions(k) : q = p
  BY <1>1, <1>2 DEF Positions, Inv, KeyInv
<1>4. p \in Positions(k)
  BY <1>2 DEF Positions
<1>5. First(k) = p
  BY <1>3, <1>4, OnlyPlace DEF First
<1>6. k \in Stored
  BY <1>4 DEF Stored
<1> QED
  BY <1>3, <1>4, <1>5, <1>6 DEF Lookup

PlacesFact ==
    \A k \in Keys : Inv =>
        /\ Positions(k) \subseteq Nat /\ hash[k] \in Bin /\ table[hash[k]] \in Seq(Entry)
        /\ k \in Stored <=> \E p \in 1 .. Len(table[hash[k]]) : table[hash[k]][p].key = k
        /\ k \in Stored <=> Positions(k) # {}
LEMMA Places == PlacesFact
<1> SUFFICES ASSUME NEW k \in Keys, Inv
             PROVE  /\ Positions(k) \subseteq Nat /\ hash[k] \in Bin /\ table[hash[k]] \in Seq(Entry)
                    /\ k \in Stored <=> \E p \in 1 .. Len(table[hash[k]]) : table[hash[k]][p].key = k
                    /\ k \in Stored <=> Positions(k) # {}
  BY DEF PlacesFact
<1>1. hash[k] \in Bin /\ table[hash[k]] \in Seq(Entry)
  BY DEF Inv, TableInv
<1>2. DOMAIN table[hash[k]] = 1 .. Len(table[hash[k]])
  BY <1>1
<1> QED
  BY <1>1, <1>2 DEF Positions, Stored

\* One bucket is written: what it holds is found, and the rest as before.
LEMMA WriteBucket ==
    ASSUME Inv, NEW b \in Bin, NEW u \in Seq(Entry),
           table' = [table EXCEPT ![b] = u], UNCHANGED <<hash, ended>>,
           \A p \in 1 .. Len(u) :
               /\ hash[u[p].key] = b
               /\ \A q \in 1 .. Len(u) : u[q].key = u[p].key => q = p
    PROVE  /\ Inv'
           /\ \A x \in Keys : hash[x] = b =>
                  /\ x \in Stored' <=> \E p \in 1 .. Len(u) : u[p].key = x
                  /\ \A p \in 1 .. Len(u) : u[p].key = x => Lookup(x)' = u[p].value
           /\ \A x \in Keys : hash[x] # b =>
                  /\ x \in Stored' <=> x \in Stored
                  /\ x \in Stored => Lookup(x)' = Lookup(x)
<1>1. /\ table'[b] = u /\ \A c \in Bin \ {b} : table'[c] = table[c]
      /\ table' \in [Bin -> Seq(Entry)] /\ hash' = hash /\ ended' = ended
  BY DEF Inv, TableInv
<1>2. TableInv'
  BY <1>1 DEF Inv, TableInv
<1>3. ASSUME NEW c \in Bin, NEW p \in 1 .. Len(table'[c])
      PROVE  /\ hash'[table'[c][p].key] = c
             /\ \A q \in 1 .. Len(table'[c]) : table'[c][q].key = table'[c][p].key => q = p
  <2>1. CASE c = b
    BY <1>1, <1>3, <2>1
  <2>2. CASE c # b
    BY <1>1, <1>3, <2>2 DEF Inv, KeyInv
  <2> QED
    BY <2>1, <2>2
<1>4. KeyInv'
  BY <1>3 DEF KeyInv
<1>5. Inv'
  BY <1>2, <1>4 DEF Inv
<1>6. PlaceFact' /\ PlacesFact'
  BY PlaceOf, Places, PTL
<1>7. ASSUME NEW x \in Keys
      PROVE  /\ x \in Stored' <=> \E p \in 1 .. Len(table'[hash[x]]) : table'[hash[x]][p].key = x
             /\ \A p \in 1 .. Len(table'[hash[x]]) :
                    table'[hash[x]][p].key = x => Lookup(x)' = table'[hash[x]][p].value
  <2>1. x \in Stored' <=> \E p \in 1 .. Len(table'[hash[x]]) : table'[hash[x]][p].key = x
    BY <1>1, <1>5, <1>6 DEF PlacesFact
  <2>2. ASSUME NEW p \in 1 .. Len(table'[hash[x]]), table'[hash[x]][p].key = x
        PROVE  Lookup(x)' = table'[hash[x]][p].value
    BY <1>1, <1>5, <1>6, <2>2 DEF PlaceFact
  <2> QED
    BY <2>1, <2>2
<1>8. ASSUME NEW x \in Keys, hash[x] # b
      PROVE  /\ x \in Stored' <=> x \in Stored
             /\ x \in Stored => Lookup(x)' = Lookup(x)
  <2>1. hash[x] \in Bin /\ table'[hash[x]] = table[hash[x]]
    BY <1>1, <1>8 DEF Inv, TableInv
  <2>2. x \in Stored <=> \E p \in 1 .. Len(table[hash[x]]) : table[hash[x]][p].key = x
    BY Places DEF PlacesFact
  <2>3. ASSUME x \in Stored
        PROVE  Lookup(x)' = Lookup(x)
    <3>1. PICK p \in 1 .. Len(table[hash[x]]) : table[hash[x]][p].key = x
      BY <2>2, <2>3
    <3>2. Lookup(x) = table[hash[x]][p].value
      BY <3>1, PlaceOf DEF PlaceFact
    <3> QED
      BY <1>7, <2>1, <3>1, <3>2
  <2> QED
    BY <1>7, <2>1, <2>2, <2>3
<1> QED
  BY <1>1, <1>5, <1>7, <1>8

-----------------------------------------------------------------------------
(* Every call is that of a map.                                            *)

Map == [k \in Stored |-> Lookup(k)]

LEMMA Unwritten ==
    ASSUME Inv, UNCHANGED <<hash, table>>, ended' \in BOOLEAN
    PROVE  Inv' /\ Map' = Map
<1>1. Inv'
  BY DEF Inv, TableInv, KeyInv
<1>2. Stored' = Stored /\ \A k \in Keys : Lookup(k)' = Lookup(k)
  BY DEF Stored, Lookup, Positions, First
<1>3. Stored \subseteq Keys
  BY DEF Stored
<1> QED
  BY <1>1, <1>2, <1>3 DEF Map

LEMMA AddStep ==
    ASSUME Inv, NEW k \in Keys, NEW v \in Values, Add(k, v)
    PROVE  Inv' /\ D!Add(k, v)
<1> DEFINE b == hash[k]
           t == table[b]
           u == IF Positions(k) # {} THEN [t EXCEPT ![First(k)].value = v]
                ELSE Append(t, [key |-> k, value |-> v])
<1>1. b \in Bin /\ t \in Seq(Entry) /\ Len(t) \in Nat
  BY Places DEF PlacesFact
<1>2. table' = [table EXCEPT ![b] = u] /\ UNCHANGED <<hash, ended>>
  BY DEF Add
<1>3. \A p \in 1 .. Len(t) :
          /\ t[p] \in Entry /\ hash[t[p].key] = b
          /\ \A q \in 1 .. Len(t) : t[q].key = t[p].key => q = p
  BY <1>1 DEF Inv, KeyInv
<1>4. k \in Stored <=> \E p \in 1 .. Len(t) : t[p].key = k
  BY Places DEF PlacesFact
\* The entries of the bucket after the call.
<1>5. /\ u \in Seq(Entry)
      /\ \A p \in 1 .. Len(u) : /\ hash[u[p].key] = b
                                /\ \A q \in 1 .. Len(u) : u[q].key = u[p].key => q = p
      /\ \E p \in 1 .. Len(u) : u[p].key = k /\ u[p].value = v
      /\ \A p \in 1 .. Len(t) : t[p].key # k =>
             p \in 1 .. Len(u) /\ u[p].key = t[p].key /\ u[p].value = t[p].value
      /\ \A p \in 1 .. Len(u) : u[p].key # k => p \in 1 .. Len(t) /\ t[p].key = u[p].key
  <2>1. CASE Positions(k) # {}
    <3>1. k \in Stored
      BY <2>1 DEF Stored
    <3>2. PICK p \in 1 .. Len(t) : t[p].key = k
      BY <1>4, <3>1
    <3>3. First(k) = p
      BY <3>2, PlaceOf DEF PlaceFact
    <3>4. u = [t EXCEPT ![p].value = v]
      BY <2>1, <3>3
    <3> DEFINE e == [t[p] EXCEPT !.value = v]
    <3>5. e \in Entry /\ e.key = k /\ e.value = v
      BY <1>3, <3>2 DEF Entry
    <3>6. u = [t EXCEPT ![p] = e]
      BY <3>4
    <3> HIDE DEF e, u, t, b
    <3>7. /\ u \in Seq(Entry) /\ Len(u) = Len(t) /\ u[p] = e
          /\ \A q \in 1 .. Len(t) : q # p => u[q] = t[q]
      BY <1>1, <3>5, <3>6
    <3> QED
      BY <1>3, <3>2, <3>5, <3>7
  <2>2. CASE Positions(k) = {}
    <3>1. \A p \in 1 .. Len(t) : t[p].key # k
      BY <1>4, <2>2 DEF Stored
    <3> DEFINE e == [key |-> k, value |-> v]
    <3>2. e \in Entry /\ e.key = k /\ e.value = v
      BY DEF Entry
    <3>3. u = Append(t, e)
      BY <2>2
    <3>4. hash[k] = b
      OBVIOUS
    <3> HIDE DEF e, u, t, b
    <3>5. /\ u \in Seq(Entry) /\ Len(u) = Len(t) + 1 /\ u[Len(t) + 1] = e
          /\ \A q \in 1 .. Len(t) : u[q] = t[q]
      BY <1>1, <3>2, <3>3
    <3>6. \A p \in 1 .. Len(u) : p \in 1 .. Len(t) \/ p = Len(t) + 1
      BY <1>1, <3>5
    <3>7. \A p \in 1 .. Len(t) : p \in 1 .. Len(u) /\ p # Len(t) + 1
      BY <1>1, <3>5
    <3>8. Len(t) + 1 \in 1 .. Len(u)
      BY <1>1, <3>5
    <3> QED
      BY <1>3, <3>1, <3>2, <3>4, <3>5, <3>6, <3>7, <3>8
  <2> QED
    BY <2>1, <2>2
<1> HIDE DEF u
<1>6. /\ Inv'
      /\ \A x \in Keys : hash[x] = b =>
             /\ x \in Stored' <=> \E p \in 1 .. Len(u) : u[p].key = x
             /\ \A p \in 1 .. Len(u) : u[p].key = x => Lookup(x)' = u[p].value
      /\ \A x \in Keys : hash[x] # b =>
             /\ x \in Stored' <=> x \in Stored
             /\ x \in Stored => Lookup(x)' = Lookup(x)
  <2> HIDE DEF b
  <2> QED
    BY <1>1, <1>2, <1>5, WriteBucket
<1>7. k \in Stored' /\ Lookup(k)' = v
  BY <1>5, <1>6
<1>8. ASSUME NEW x \in Keys, x # k
      PROVE  /\ x \in Stored' <=> x \in Stored
             /\ x \in Stored => Lookup(x)' = Lookup(x)
  <2>1. CASE hash[x] = b
    <3>1. /\ x \in Stored <=> \E p \in 1 .. Len(t) : t[p].key = x
          /\ \A p \in 1 .. Len(t) : t[p].key = x => Lookup(x) = t[p].value
      <4>1. table[hash[x]] = t
        BY <2>1
      <4> HIDE DEF t
      <4>2. x \in Stored <=> \E p \in 1 .. Len(t) : t[p].key = x
        BY <4>1, Places DEF PlacesFact
      <4>3. ASSUME NEW p \in 1 .. Len(t), t[p].key = x
            PROVE  Lookup(x) = t[p].value
        BY <1>1, <4>1, <4>3, PlaceOf DEF PlaceFact
      <4> QED
        BY <4>2, <4>3
    <3>2. x \in Stored' <=> x \in Stored
      <4>1. (\E p \in 1 .. Len(t) : t[p].key = x) <=> \E p \in 1 .. Len(u) : u[p].key = x
        BY <1>5, <1>8
      <4> QED
        BY <1>6, <2>1, <3>1, <4>1
    <3>3. ASSUME x \in Stored PROVE Lookup(x)' = Lookup(x)
      <4>1. PICK p \in 1 .. Len(t) : t[p].key = x
        BY <3>1, <3>3
      <4>2. p \in 1 .. Len(u) /\ u[p].key = x /\ u[p].value = t[p].value
        BY <1>5, <1>8, <4>1
      <4> QED
        BY <1>6, <2>1, <3>1, <4>1, <4>2
    <3> QED
      BY <3>2, <3>3
  <2>2. CASE hash[x] # b
    BY <1>6, <2>2
  <2> QED
    BY <2>1, <2>2
<1>9. Stored \subseteq Keys /\ Stored' \subseteq Keys
  BY DEF Stored
<1>10. Stored' = Stored \cup {k}
  BY <1>7, <1>8, <1>9
<1>11. Map' = [x \in DOMAIN Map \cup {k} |-> IF x = k THEN v ELSE Map[x]]
  BY <1>7, <1>8, <1>9, <1>10 DEF Map
<1>12. answer' = Found(None)
  BY DEF Add
<1> QED
  BY <1>2, <1>6, <1>11, <1>12 DEF D!Add, D!Found, Found, Map

LEMMA RemoveStep ==
    ASSUME Inv, NEW k \in Keys, Remove(k)
    PROVE  Inv' /\ (~HeadOfOthers(k) => D!Remove(k))
<1> DEFINE b == hash[k]
           t == table[b]
           u == IF First(k) = 1 THEN <<>> ELSE SX!RemoveAt(t, First(k))
<1>1. /\ b \in Bin /\ t \in Seq(Entry) /\ Len(t) \in Nat
      /\ k \in Stored <=> \E p \in 1 .. Len(t) : t[p].key = k
      /\ k \in Stored <=> Positions(k) # {}
  BY Places DEF PlacesFact
<1>2. answer' = (IF k \in Stored THEN Found(None) ELSE Failed) /\ UNCHANGED <<hash, ended>>
  BY <1>1 DEF Remove
<1>3. CASE k \notin Stored
  <2>1. table' = table
    <3>1. table' = [table EXCEPT ![b] = @]
      BY <1>1, <1>3 DEF Remove
    <3> QED
      BY <1>1, <3>1 DEF Inv, TableInv
  <2>2. Inv' /\ Map' = Map
    BY <1>2, <2>1, Unwritten DEF Inv, TableInv
  <2>3. Map = [x \in DOMAIN Map \ {k} |-> Map[x]]
    BY <1>3 DEF Map
  <2> QED
    BY <1>2, <1>3, <2>2, <2>3 DEF D!Remove, D!Restrict, D!Found, D!Failed, Found, Failed, Map
<1>4. CASE k \in Stored
  <2>1. PICK p \in 1 .. Len(t) : t[p].key = k
    BY <1>1, <1>4
  <2>2. First(k) = p /\ p \in Nat
    BY <2>1, PlaceOf DEF PlaceFact
  <2>3. table' = [table EXCEPT ![b] = u]
    BY <1>1, <1>4 DEF Remove
  <2>4. \A q \in 1 .. Len(t) :
            /\ t[q] \in Entry /\ hash[t[q].key] = b
            /\ \A r \in 1 .. Len(t) : t[r].key = t[q].key => r = q
    BY <1>1 DEF Inv, KeyInv
  \* Where the entries that are left come from.
  <2> DEFINE From(q) == IF q < p THEN q ELSE q + 1
  <2>5. /\ u \in Seq(Entry)
        /\ \A q \in 1 .. Len(u) : /\ From(q) \in 1 .. Len(t) /\ From(q) # p
                                  /\ u[q] = t[From(q)]
        /\ \A q, r \in 1 .. Len(u) : From(q) = From(r) => q = r
        /\ p # 1 => Len(u) = Len(t) - 1
    <3>1. CASE p = 1
      <4>1. u = <<>>
        BY <2>2, <3>1
      <4> HIDE DEF u
      <4>2. u \in Seq(Entry) /\ \A q \in 1 .. Len(u) : FALSE
        BY <4>1
      <4> QED
        BY <3>1, <4>2
    <3>2. CASE p # 1
      <4>1. u = SubSeq(t, 1, p - 1) \o SubSeq(t, p + 1, Len(t))
        BY <2>2, <3>2 DEF SX!RemoveAt
      <4> DEFINE v == SubSeq(t, 1, p - 1)
                 w == SubSeq(t, p + 1, Len(t))
      <4> HIDE DEF t, u
      <4>2. /\ v \in Seq(Entry) /\ Len(v) = p - 1
            /\ \A q \in 1 .. p - 1 : v[q] = t[q]
        BY <1>1, <2>1, <2>2
      <4>3. /\ w \in Seq(Entry) /\ Len(w) = Len(t) - p
            /\ \A q \in 1 .. Len(t) - p : w[q] = t[p + q]
        BY <1>1, <2>1, <2>2
      <4>4. u = v \o w
        BY <4>1
      <4> HIDE DEF v, w
      <4>5. /\ u \in Seq(Entry) /\ Len(u) = Len(v) + Len(w)
            /\ \A q \in 1 .. Len(v) + Len(w) : u[q] = IF q <= Len(v) THEN v[q] ELSE w[q - Len(v)]
        <5>1. v \in Seq(Entry) /\ w \in Seq(Entry)
          BY <4>2, <4>3
        <5> QED
          BY <4>4, <5>1
      <4>6. Len(u) = Len(t) - 1
        BY <1>1, <2>2, <4>2, <4>3, <4>5
      <4>7. ASSUME NEW q \in 1 .. Len(u)
            PROVE  From(q) \in 1 .. Len(t) /\ From(q) # p /\ u[q] = t[From(q)]
        <5>1. q \in 1 .. Len(t) - 1 /\ q \in 1 .. Len(v) + Len(w)
          BY <4>5, <4>6
        <5>2. CASE q < p
          <6>1. q \in 1 .. p - 1 /\ q <= Len(v) /\ From(q) = q /\ q \in 1 .. Len(t)
            BY <1>1, <2>2, <4>2, <5>1, <5>2
          <6> QED
            BY <4>2, <4>5, <5>1, <5>2, <6>1
        <5>3. CASE ~(q < p)
          <6>1. /\ q - (p - 1) \in 1 .. Len(t) - p /\ ~(q <= Len(v)) /\ From(q) = q + 1
                /\ q + 1 \in 1 .. Len(t) /\ q + 1 # p /\ q - Len(v) = q - (p - 1)
                /\ p + (q - (p - 1)) = q + 1
            BY <1>1, <2>2, <4>2, <5>1, <5>3
          <6>2. u[q] = w[q - (p - 1)]
            BY <4>5, <5>1, <6>1
          <6> QED
            BY <4>3, <6>1, <6>2
        <5> QED
          BY <5>2, <5>3
      <4>8. ASSUME NEW q \in 1 .. Len(u), NEW r \in 1 .. Len(u), From(q) = From(r)
            PROVE  q = r
        BY <1>1, <2>2, <4>6, <4>8
      <4> QED
        BY <4>5, <4>6, <4>7, <4>8
    <3> QED
      BY <3>1, <3>2
  <2>a. ASSUME p # 1, NEW r \in 1 .. Len(t), r # p
        PROVE  \E q \in 1 .. Len(u) : u[q] = t[r]
    <3> HIDE DEF t, u
    <3>1. Len(u) = Len(t) - 1
      BY <2>5, <2>a
    <3>2. PICK q \in 1 .. Len(u) : From(q) = r
      <4>1. CASE r < p
        <5>1. r \in 1 .. Len(u) /\ From(r) = r
          BY <1>1, <2>1, <3>1, <4>1
        <5> QED
          BY <5>1
      <4>2. CASE ~(r < p)
        <5>1. r - 1 \in 1 .. Len(u) /\ From(r - 1) = r
          BY <1>1, <2>2, <2>a, <3>1, <4>2
        <5> QED
          BY <5>1
      <4> QED
        BY <4>1, <4>2
    <3> QED
      BY <2>5, <3>2
  <2> HIDE DEF From, u
  <2>6. \A q \in 1 .. Len(u) :
            /\ hash[u[q].key] = b /\ u[q].key # k
            /\ \A r \in 1 .. Len(u) : u[r].key = u[q].key => r = q
    <3> SUFFICES ASSUME NEW q \in 1 .. Len(u)
                 PROVE  /\ hash[u[q].key] = b /\ u[q].key # k
                        /\ \A r \in 1 .. Len(u) : u[r].key = u[q].key => r = q
      OBVIOUS
    <3> HIDE DEF t, b
    <3>1. From(q) \in 1 .. Len(t) /\ From(q) # p /\ u[q] = t[From(q)]
      BY <2>5
    <3>2. hash[u[q].key] = b /\ u[q].key # k
      BY <2>1, <2>4, <3>1
    <3>3. ASSUME NEW r \in 1 .. Len(u), u[r].key = u[q].key
          PROVE  r = q
      <4>1. From(r) \in 1 .. Len(t) /\ u[r] = t[From(r)]
        BY <2>5
      <4>2. From(r) = From(q)
        BY <2>4, <3>1, <3>3, <4>1
      <4> QED
        BY <2>5, <4>2
    <3> QED
      BY <3>2, <3>3
  <2>7. /\ Inv'
        /\ \A x \in Keys : hash[x] = b =>
               /\ x \in Stored' <=> \E q \in 1 .. Len(u) : u[q].key = x
               /\ \A q \in 1 .. Len(u) : u[q].key = x => Lookup(x)' = u[q].value
        /\ \A x \in Keys : hash[x] # b =>
               /\ x \in Stored' <=> x \in Stored
               /\ x \in Stored => Lookup(x)' = Lookup(x)
    <3>1. u \in Seq(Entry)
      BY <2>5
    <3> HIDE DEF b
    <3> QED
      BY <1>1, <1>2, <2>3, <2>6, <3>1, WriteBucket
  <2>8. ASSUME NEW x \in Stored'
        PROVE  x \in Stored \ {k} /\ Lookup(x)' = Lookup(x)
    <3>1. x \in Keys
      BY <2>8 DEF Stored
    <3>2. CASE hash[x] = b
      <4>1. PICK q \in 1 .. Len(u) : u[q].key = x
        BY <2>7, <2>8, <3>1, <3>2
      <4>2. From(q) \in 1 .. Len(t) /\ t[From(q)] = u[q] /\ x # k
        BY <2>5, <2>6, <4>1
      <4>3. table[hash[x]] = t
        BY <3>2
      <4> HIDE DEF t
      <4>4. x \in Stored /\ Lookup(x) = u[q].value
        BY <1>1, <3>1, <4>1, <4>2, <4>3, PlaceOf DEF PlaceFact
      <4> QED
        BY <2>7, <3>1, <3>2, <4>1, <4>2, <4>4
    <3>3. CASE hash[x] # b
      BY <2>7, <2>8, <3>1, <3>3
    <3> QED
      BY <3>2, <3>3
  <2>9. ASSUME ~HeadOfOthers(k), NEW x \in Stored \ {k}
        PROVE  x \in Stored'
    <3>1. x \in Keys
      BY <2>9 DEF Stored
    <3>2. CASE hash[x] = b
      <4>1. table[hash[x]] = t
        BY <3>2
      <4>2. First(k) = 1 => Len(t) <= 1
        BY <1>1, <1>4, <2>9 DEF HeadOfOthers
      <4> HIDE DEF t
      <4>3. PICK r \in 1 .. Len(t) : t[r].key = x
        BY <2>9, <3>1, <4>1, Places DEF PlacesFact
      <4>4. r # p
        BY <2>1, <2>9, <4>3
      <4>5. p # 1
        BY <1>1, <2>2, <4>2, <4>3, <4>4
      <4>6. PICK q \in 1 .. Len(u) : u[q] = t[r]
        BY <2>a, <4>3, <4>4, <4>5
      <4> QED
        BY <2>7, <3>1, <3>2, <4>3, <4>6
    <3>3. CASE hash[x] # b
      BY <2>7, <2>9, <3>1, <3>3
    <3> QED
      BY <3>2, <3>3
  <2>10. ASSUME ~HeadOfOthers(k)
         PROVE  D!Remove(k)
    <3>1. Stored' = Stored \ {k}
      BY <2>8, <2>9, <2>10
    <3>2. DOMAIN Map = Stored
      BY DEF Map
    <3>3. Map' = [x \in DOMAIN Map \ {k} |-> Map[x]]
      BY <2>8, <3>1, <3>2 DEF Map
    <3> QED
      BY <1>2, <1>4, <3>2, <3>3 DEF D!Remove, D!Restrict, D!Found, Found, Map
  <2> QED
    BY <2>7, <2>10
<1> QED
  BY <1>3, <1>4

LEMMA GetStep ==
    ASSUME Inv, NEW k \in Keys, Get(k)
    PROVE  Inv' /\ D!Get(k)
<1>1. UNCHANGED <<hash, table, ended>>
  BY DEF Get
<1>2. Inv' /\ Map' = Map
  BY <1>1, Unwritten DEF Inv, TableInv
<1>3. k \in Stored <=> Positions(k) # {}
  BY DEF Stored
<1>4. answer' = IF k \in DOMAIN Map THEN Found(Map[k]) ELSE Failed
  BY <1>3 DEF Get, Map, Lookup
<1> QED
  BY <1>1, <1>2, <1>4 DEF D!Get, D!Found, D!Failed, Found, Failed, Map

LEMMA ParsePairStep ==
    ASSUME Inv, NEW k \in Keys, NEW v \in Values \cup {None}, ParsePair(k, v)
    PROVE  Inv' /\ D!ParsePair(k, v)
<1>1. DOMAIN Map = Stored /\ (k \in Stored <=> Positions(k) # {})
  BY DEF Map, Stored
<1>2. CASE v # None /\ Positions(k) = {} /\ Add(k, v)
  <2>1. Inv' /\ D!Add(k, v)
    BY <1>2, AddStep
  <2> QED
    BY <1>1, <1>2, <2>1 DEF D!ParsePair, Map
<1>3. CASE /\ v = None \/ Positions(k) # {}
           /\ ended' = TRUE
           /\ UNCHANGED <<hash, table, answer>>
  <2>1. Inv' /\ Map' = Map
    BY <1>3, Unwritten
  <2> QED
    BY <1>1, <1>3, <2>1 DEF D!ParsePair, Map
<1> QED
  BY <1>2, <1>3 DEF ParsePair

-----------------------------------------------------------------------------
(* The list of all keys, one bucket after the other.                       *)

\* Every set of natural numbers has a least element: what the prover has for
\* induction over a set.
Less == {ss \in Nat \X Nat : ss[1] < ss[2]}

LEMMA Least ==
    ASSUME NEW T \in SUBSET Nat, T # {}
    PROVE  \E x \in T : \A y \in T : x <= y
<1>1. IsWellFoundedOn(Less, Nat)
  BY NatLessThanWellFounded DEF OpToRel, Less
<1>2. PICK x \in T : \A y \in T : ~(<<y, x>> \in Less)
  BY <1>1, WFMin
<1>3. ASSUME NEW y \in T
      PROVE  x <= y
  <2>1. x \in Nat /\ y \in Nat
    OBVIOUS
  <2>2. ~(y < x)
    BY <1>2, <2>1 DEF Less
  <2> QED
    BY <2>1, <2>2
<1> QED
  BY <1>3

\* f joins the first, the first two, ... sequences of s.
Joins(f, s, n) == f = [i \in 1 .. n |-> IF i = 1 THEN s[i] ELSE f[i - 1] \o s[i]]

LEMMA JoinsExist ==
    ASSUME NEW s, NEW n \in Nat
    PROVE  \E f : Joins(f, s, n)
<1> DEFINE T == {m \in Nat : ~ \E f : Joins(f, s, m)}
<1>1. SUFFICES T = {}
  OBVIOUS
<1>2. SUFFICES ASSUME T # {} PROVE FALSE
  OBVIOUS
<1>3. PICK m \in T : \A y \in T : m <= y
  BY <1>2, Least
<1>4. m \in Nat /\ ~ \E f : Joins(f, s, m)
  OBVIOUS
<1>5. m # 0
  <2>1. SUFFICES ASSUME m = 0 PROVE FALSE
    OBVIOUS
  <2> DEFINE f == [i \in 1 .. 0 |-> s[1]]
  <2>2. f = [i \in 1 .. 0 |-> IF i = 1 THEN s[i] ELSE f[i - 1] \o s[i]]
    OBVIOUS
  <2>3. Joins(f, s, 0)
    BY <2>2 DEF Joins
  <2> QED
    BY <1>4, <2>1, <2>3
<1>6. PICK f : Joins(f, s, m - 1)
  <2>1. m - 1 \in Nat /\ ~(m <= m - 1)
    BY <1>4, <1>5
  <2> QED
    BY <1>3, <2>1
<1> DEFINE last == IF m = 1 THEN s[m] ELSE f[m - 1] \o s[m]
           g == [i \in 1 .. m |-> IF i = m THEN last ELSE f[i]]
<1>7. ASSUME NEW i \in 1 .. m
      PROVE  g[i] = IF i = 1 THEN s[i] ELSE g[i - 1] \o s[i]
  <2>1. CASE i = m
    <3>1. i # 1 => i - 1 \in 1 .. m /\ i - 1 # m
      BY <1>4, <2>1
    <3>2. i # 1 => g[i - 1] = f[m - 1]
      BY <2>1, <3>1
    <3> QED
      BY <2>1, <3>2
  <2>2. CASE i # m
    <3>1. i \in 1 .. m - 1 /\ g[i] = f[i]
      BY <1>4, <2>2
    <3>2. f[i] = IF i = 1 THEN s[i] ELSE f[i - 1] \o s[i]
      BY <1>6, <3>1 DEF Joins
    <3>3. i # 1 => i - 1 \in 1 .. m /\ i - 1 # m
      BY <1>4, <3>1
    <3>4. i # 1 => g[i - 1] = f[i - 1]
      BY <3>3
    <3> HIDE DEF g
    <3> QED
      BY <3>1, <3>2, <3>4
  <2> QED
    BY <2>1, <2>2
<1>8. g = [i \in 1 .. m |-> g[i]]
  OBVIOUS
<1> HIDE DEF g
<1>9. Joins(g, s, m)
  BY <1>7, <1>8 DEF Joins
<1> QED
  BY <1>4, <1>9

LEMMA FlattenJoins ==
    ASSUME NEW s, Len(s) \in Nat, Len(s) # 0
    PROVE  \E f : Joins(f, s, Len(s)) /\ SX!FlattenSeq(s) = f[Len(s)]
<1> DEFINE f == CHOOSE h : h = [i \in 1 .. Len(s) |-> IF i = 1 THEN s[i] ELSE h[i - 1] \o s[i]]
<1>1. SX!FlattenSeq(s) = f[Len(s)]
  BY DEF SX!FlattenSeq
<1>2. \E h : h = [i \in 1 .. Len(s) |-> IF i = 1 THEN s[i] ELSE h[i - 1] \o s[i]]
  BY JoinsExist DEF Joins
<1>3. f = [i \in 1 .. Len(s) |-> IF i = 1 THEN s[i] ELSE f[i - 1] \o s[i]]
  BY <1>2
<1> HIDE DEF f
<1>4. Joins(f, s, Len(s))
  BY <1>3 DEF Joins
<1> QED
  BY <1>1, <1>4

\* t names each member of S once.
Lists(t, S) == /\ t \in Seq(Keys)
               /\ \A k \in Keys : k \in S <=> \E p \in 1 .. Len(t) : t[p] = k
               /\ \A p, q \in 1 .. Len(t) : t[p] = t[q] => p = q

LEMMA ListsBoth ==
    ASSUME NEW S, NEW R, S \cap R = {}, NEW t, NEW u, Lists(t, S), Lists(u, R)
    PROVE  Lists(t \o u, S \cup R)
<1> DEFINE w == t \o u
<1>1. t \in Seq(Keys) /\ u \in Seq(Keys) /\ Len(t) \in Nat /\ Len(u) \in Nat
  BY DEF Lists
<1>2. /\ w \in Seq(Keys) /\ Len(w) = Len(t) + Len(u)
      /\ \A p \in 1 .. Len(t) + Len(u) : w[p] = IF p <= Len(t) THEN t[p] ELSE u[p - Len(t)]
  BY <1>1
<1> HIDE DEF w
<1>3. /\ \A p \in 1 .. Len(t) : p \in 1 .. Len(w) /\ w[p] = t[p]
      /\ \A p \in 1 .. Len(u) : Len(t) + p \in 1 .. Len(w) /\ w[Len(t) + p] = u[p]
  <2>1. ASSUME NEW p \in 1 .. Len(t)
        PROVE  p \in 1 .. Len(w) /\ w[p] = t[p]
    BY <1>1, <1>2
  <2>2. ASSUME NEW p \in 1 .. Len(u)
        PROVE  Len(t) + p \in 1 .. Len(w) /\ w[Len(t) + p] = u[p]
    <3>1. /\ Len(t) + p \in 1 .. Len(t) + Len(u) /\ ~(Len(t) + p <= Len(t))
          /\ (Len(t) + p) - Len(t) = p
      BY <1>1
    <3> QED
      BY <1>2, <3>1
  <2> QED
    BY <2>1, <2>2
<1>4. ASSUME NEW p \in 1 .. Len(w)
      PROVE  \/ p \in 1 .. Len(t) /\ w[p] = t[p] /\ t[p] \in S \ R
             \/ p - Len(t) \in 1 .. Len(u) /\ w[p] = u[p - Len(t)] /\ u[p - Len(t)] \in R \ S
  <2>1. CASE p <= Len(t)
    <3>1. p \in 1 .. Len(t) /\ t[p] \in Keys
      BY <1>1, <1>2, <2>1
    <3>2. t[p] \in S
      BY <3>1 DEF Lists
    <3> QED
      BY <1>3, <3>1, <3>2
  <2>2. CASE ~(p <= Len(t))
    <3>1. p - Len(t) \in 1 .. Len(u) /\ Len(t) + (p - Len(t)) = p
      BY <1>1, <1>2, <2>2
    <3>2. u[p - Len(t)] \in Keys /\ w[p] = u[p - Len(t)]
      BY <1>1, <1>3, <3>1
    <3>3. u[p - Len(t)] \in R
      BY <3>1, <3>2 DEF Lists
    <3> QED
      BY <3>1, <3>2, <3>3
  <2> QED
    BY <2>1, <2>2
<1>5. ASSUME NEW k \in Keys
      PROVE  k \in S \cup R <=> \E p \in 1 .. Len(w) : w[p] = k
  <2>1. k \in S => \E p \in 1 .. Len(w) : w[p] = k
    BY <1>3 DEF Lists
  <2>2. k \in R => \E p \in 1 .. Len(w) : w[p] = k
    BY <1>3 DEF Lists
  <2>3. ASSUME NEW p \in 1 .. Len(w), w[p] = k
        PROVE  k \in S \cup R
    BY <1>4, <2>3
  <2> QED
    BY <2>1, <2>2, <2>3
<1>6. ASSUME NEW p \in 1 .. Len(w), NEW q \in 1 .. Len(w), w[p] = w[q]
      PROVE  p = q
  <2>1. CASE w[p] \in S
    <3>1. p \in 1 .. Len(t) /\ q \in 1 .. Len(t) /\ t[p] = t[q]
      BY <1>4, <1>6, <2>1
    <3> QED
      BY <3>1 DEF Lists
  <2>2. CASE w[p] \notin S
    <3>1. p - Len(t) \in 1 .. Len(u) /\ q - Len(t) \in 1 .. Len(u) /\ u[p - Len(t)] = u[q - Len(t)]
      BY <1>4, <1>6, <2>2
    <3>2. p - Len(t) = q - Len(t)
      BY <3>1 DEF Lists
    <3> QED
      BY <1>1, <1>2, <3>2
  <2> QED
    BY <2>1, <2>2
<1> QED
  BY <1>2, <1>5, <1>6 DEF Lists, w

\* Such a list is as long as the set is large.
LEMMA ListsAll ==
    ASSUME NEW S \in SUBSET Keys, NEW t, Lists(t, S)
    PROVE  t \in [1 .. Cardinality(S) -> S] /\ {t[n] : n \in DOMAIN t} = S
<1>1. t \in Seq(Keys) /\ Len(t) \in Nat /\ DOMAIN t = 1 .. Len(t)
  BY DEF Lists
<1>2. \A p \in 1 .. Len(t) : t[p] \in S
  BY <1>1 DEF Lists
<1>3. t \in [1 .. Len(t) -> S]
  BY <1>1, <1>2
<1>4. \A k \in S : \E p \in 1 .. Len(t) : t[p] = k
  BY DEF Lists
<1>5. t \in Bijection(1 .. Len(t), S)
  <2>1. \A p, q \in 1 .. Len(t) : t[p] = t[q] => p = q
    BY DEF Lists
  <2> QED
    BY <1>3, <1>4, <2>1 DEF Bijection, Injection, Surjection, IsInjective
<1>6. Cardinality(S) = Len(t)
  <2>1. IsFiniteSet(1 .. Len(t)) /\ Cardinality(1 .. Len(t)) = Len(t)
    <3>1. 1 \in Int /\ Len(t) \in Int
      BY <1>1
    <3>2. /\ IsFiniteSet(1 .. Len(t))
          /\ Cardinality(1 .. Len(t)) = IF 1 > Len(t) THEN 0 ELSE Len(t) - 1 + 1
      BY <3>1, FS_Interval
    <3>3. (IF 1 > Len(t) THEN 0 ELSE Len(t) - 1 + 1) = Len(t)
      BY <1>1
    <3> QED
      BY <3>2, <3>3
  <2> QED
    BY <1>5, <2>1, FS_Bijection DEF ExistsBijection
<1> QED
  BY <1>1, <1>3, <1>4, <1>6

KeysOf(b) == [p \in DOMAIN table[b] |-> table[b][p].key]
Upto(n) == {k \in Stored : hash[k] < n}

LEMMA BucketLists ==
    ASSUME Inv, NEW b \in Bin
    PROVE  Lists(KeysOf(b), {k \in Stored : hash[k] = b})
<1> DEFINE t == table[b]
           ks == KeysOf(b)
<1>1. t \in Seq(Entry) /\ Len(t) \in Nat /\ DOMAIN t = 1 .. Len(t)
  BY DEF Inv, TableInv
<1>2. ks = [p \in 1 .. Len(t) |-> t[p].key]
  BY <1>1 DEF KeysOf
<1>3. \A p \in 1 .. Len(t) : t[p] \in Entry /\ t[p].key \in Keys
  <2> SUFFICES ASSUME NEW p \in 1 .. Len(t) PROVE t[p] \in Entry /\ t[p].key \in Keys
    OBVIOUS
  <2>1. t[p] \in Entry
    BY <1>1
  <2> QED
    BY <2>1 DEF Entry
<1> HIDE DEF ks
<1>4. ks \in Seq(Keys) /\ Len(ks) = Len(t) /\ \A p \in 1 .. Len(t) : ks[p] = t[p].key
  BY <1>1, <1>2, <1>3
<1>5. \A p, q \in 1 .. Len(ks) : ks[p] = ks[q] => p = q
  BY <1>4 DEF Inv, KeyInv
<1>6. ASSUME NEW k \in Keys
      PROVE  (k \in Stored /\ hash[k] = b) <=> \E p \in 1 .. Len(ks) : ks[p] = k
  <2>1. k \in Stored <=> \E p \in 1 .. Len(table[hash[k]]) : table[hash[k]][p].key = k
    BY Places DEF PlacesFact
  <2>2. \A p \in 1 .. Len(t) : hash[t[p].key] = b
    BY DEF Inv, KeyInv
  <2>3. ASSUME NEW p \in 1 .. Len(ks), ks[p] = k
        PROVE  k \in Stored /\ hash[k] = b
    <3>1. hash[k] = b /\ t[p].key = k /\ p \in 1 .. Len(t)
      BY <1>4, <2>2, <2>3
    <3> QED
      BY <2>1, <3>1
  <2>4. ASSUME k \in Stored, hash[k] = b
        PROVE  \E p \in 1 .. Len(ks) : ks[p] = k
    BY <1>4, <2>1, <2>4
  <2> QED
    BY <2>3, <2>4
<1> QED
  BY <1>4, <1>5, <1>6 DEF Lists, ks

LEMMA KeysListed ==
    ASSUME Inv
    PROVE  Lists(SX!FlattenSeq([n \in 1 .. Size |-> KeysOf(n - 1)]), Stored)
<1> DEFINE s == [n \in 1 .. Size |-> KeysOf(n - 1)]
<1>1. Size \in Nat /\ Size # 0 /\ Len(s) = Size
  BY SizeAssumption
<1>2. hash \in [Keys -> Bin]
  BY DEF Inv, TableInv
<1>3. PICK f : Joins(f, s, Size) /\ SX!FlattenSeq(s) = f[Size]
  <2> HIDE DEF s
  <2>1. \E f : Joins(f, s, Len(s)) /\ SX!FlattenSeq(s) = f[Len(s)]
    BY <1>1, FlattenJoins
  <2> QED
    BY <1>1, <2>1
<1>4. ASSUME NEW n \in 1 .. Size
      PROVE  /\ f[n] = IF n = 1 THEN s[n] ELSE f[n - 1] \o s[n]
             /\ Lists(s[n], {k \in Stored : hash[k] = n - 1})
  <2>1. f[n] = IF n = 1 THEN s[n] ELSE f[n - 1] \o s[n]
    <3> HIDE DEF s
    <3> QED
      BY <1>3 DEF Joins
  <2>2. n - 1 \in Bin /\ s[n] = KeysOf(n - 1)
    BY <1>1 DEF Bin
  <2>3. Lists(KeysOf(n - 1), {k \in Stored : hash[k] = n - 1})
    BY <2>2, BucketLists
  <2> QED
    BY <2>1, <2>2, <2>3
<1> HIDE DEF s
<1> DEFINE T == {n \in Nat : n \in 1 .. Size /\ ~Lists(f[n], Upto(n))}
<1>5. T = {}
  <2> SUFFICES ASSUME T # {} PROVE FALSE
    OBVIOUS
  <2>1. PICK n \in T : \A y \in T : n <= y
    BY Least
  <2>2. n \in Nat /\ n \in 1 .. Size /\ ~Lists(f[n], Upto(n))
    OBVIOUS
  <2>3. \A k \in Stored : k \in Keys /\ hash[k] \in Nat
    BY <1>1, <1>2 DEF Stored, Bin
  <2>4. n # 1
    <3> SUFFICES ASSUME n = 1 PROVE FALSE
      OBVIOUS
    <3>1. {k \in Stored : hash[k] = n - 1} = Upto(n)
      BY <2>3 DEF Upto
    <3> QED
      BY <1>4, <2>2, <3>1
  <2>5. Lists(f[n - 1], Upto(n - 1))
    <3>1. n - 1 \in Nat /\ n - 1 \in 1 .. Size /\ ~(n <= n - 1)
      BY <1>1, <2>2, <2>4
    <3> QED
      BY <2>1, <3>1
  <2> DEFINE B == {k \in Stored : hash[k] = n - 1}
  <2>6. Upto(n - 1) \cup B = Upto(n) /\ Upto(n - 1) \cap B = {}
    BY <2>2, <2>3 DEF Upto
  <2>7. Lists(f[n - 1] \o s[n], Upto(n))
    <3>1. Lists(s[n], B)
      BY <1>4, <2>2
    <3> HIDE DEF B
    <3>2. Lists(f[n - 1] \o s[n], Upto(n - 1) \cup B)
      BY <2>5, <2>6, <3>1, ListsBoth
    <3> QED
      BY <2>6, <3>2
  <2> QED
    BY <1>4, <2>2, <2>4, <2>7
<1>6. Lists(f[Size], Upto(Size))
  <2>1. Size \in 1 .. Size
    BY <1>1
  <2> QED
    BY <1>1, <1>5, <2>1
<1>7. Upto(Size) = Stored
  <2>1. \A k \in Stored : hash[k] < Size
    BY <1>1, <1>2 DEF Stored, Bin
  <2> QED
    BY <2>1 DEF Upto
<1> QED
  BY <1>3, <1>6, <1>7 DEF s

\* The abstract specification has its own name for the size of a set.
LEMMA SameSize == ASSUME NEW S PROVE D!Cardinality(S) = Cardinality(S)
  BY DEF D!Cardinality, Cardinality

LEMMA GetKeysStep ==
    ASSUME Inv, GetKeys
    PROVE  Inv' /\ D!GetKeys
<1> DEFINE keys == SX!FlattenSeq([n \in 1 .. Size |-> KeysOf(n - 1)])
<1>1. answer' = Found(keys) /\ UNCHANGED <<hash, table, ended>>
  BY DEF GetKeys, KeysOf
<1>2. Inv' /\ Map' = Map
  BY <1>1, Unwritten DEF Inv, TableInv
<1>3. DOMAIN Map = Stored /\ Stored \in SUBSET Keys
  BY DEF Map, Stored
<1>4. Lists(keys, Stored)
  BY KeysListed
<1> HIDE DEF keys
<1>5. keys \in [1 .. Cardinality(Stored) -> Stored] /\ {keys[n] : n \in DOMAIN keys} = Stored
  BY <1>3, <1>4, ListsAll
<1>6. D!Found(keys) = Found(keys)
  BY DEF D!Found, Found
<1>7. \E ks \in [1 .. Cardinality(DOMAIN Map) -> DOMAIN Map] :
          {ks[n] : n \in DOMAIN ks} = DOMAIN Map /\ answer' = D!Found(ks)
  BY <1>1, <1>3, <1>5, <1>6
<1> QED
  <2>1. UNCHANGED <<Map, ended>>
    BY <1>1, <1>2
  <2> QED
    BY <1>2, <1>7, <2>1, SameSize DEF D!GetKeys, Map

-----------------------------------------------------------------------------
(* The refinement.                                                         *)

LEMMA InitIsMap == Init => D!Init
<1> SUFFICES ASSUME Init PROVE D!Init
  OBVIOUS
<1>1. Inv
  BY InvInit
<1>2. \A b \in Bin : Len(table[b]) = 0
  BY DEF Init
<1>3. Stored = {}
  BY <1>1, <1>2, Places DEF PlacesFact, Stored
<1>4. Map = <<>>
  BY <1>3 DEF Map
<1> QED
  BY <1>4 DEF Init, D!Init, D!Failed, Failed, Map

LEMMA CallsAreThose ==
    ASSUME Inv, Calls
    PROVE  Inv' /\ (LossyRemoval \/ D!Calls)
<1>1. ASSUME NEW k \in Keys, Get(k)
      PROVE  Inv' /\ D!Calls
  BY <1>1, GetStep DEF D!Calls
<1>2. ASSUME NEW k \in Keys, Remove(k)
      PROVE  Inv' /\ (LossyRemoval \/ D!Calls)
  <2>1. CASE HeadOfOthers(k)
    BY <1>2, <2>1, RemoveStep DEF LossyRemoval
  <2>2. CASE ~HeadOfOthers(k)
    BY <1>2, <2>2, RemoveStep DEF D!Calls
  <2> QED
    BY <2>1, <2>2
<1>3. ASSUME NEW k \in Keys, NEW v \in Values, Add(k, v)
      PROVE  Inv' /\ D!Calls
  BY <1>3, AddStep DEF D!Calls
<1>4. ASSUME NEW k \in Keys, NEW v \in Values \cup {None}, ParsePair(k, v)
      PROVE  Inv' /\ D!Calls
  BY <1>4, ParsePairStep DEF D!Calls
<1>5. ASSUME GetKeys
      PROVE  Inv' /\ D!Calls
  BY <1>5, GetKeysStep DEF D!Calls
<1> QED
  BY <1>1, <1>2, <1>3, <1>4, <1>5 DEF Calls

LEMMA StutterIsStutter ==
    ASSUME Inv, UNCHANGED vars
    PROVE  Inv' /\ UNCHANGED D!vars
<1>1. UNCHANGED <<hash, table, answer, ended>> /\ ended' \in BOOLEAN
  BY DEF vars, Inv, TableInv
<1>2. Inv' /\ Map' = Map
  BY <1>1, Unwritten
<1> QED
  BY <1>1, <1>2 DEF D!vars, Map

LEMMA NextIsMap ==
    Inv /\ [Next]_vars => Inv' /\ (LossyRemoval \/ [D!Next]_(D!vars))
<1> SUFFICES ASSUME Inv, [Next]_vars
             PROVE  Inv' /\ (LossyRemoval \/ [D!Next]_(D!vars))
  OBVIOUS
<1>1. CASE UNCHANGED vars
  BY <1>1, StutterIsStutter
<1>2. CASE ~ended /\ Calls
  BY <1>2, CallsAreThose DEF D!Next
<1> QED
  BY <1>1, <1>2 DEF Next

\* Whatever keys collide, in any history of calls, every call but the removal
\* of the first of several keys in a bucket is that of a map: a lookup returns
\* the value last added, a removal takes away its key and no other, the list
\* of keys names each key of the map once, and --params is rejected exactly if
\* a pair is incomplete or repeats a key (keyvalue_store.c).
THEOREM IsDictionary == Spec => ImplementsDictionary
<1>1. Init => Inv /\ D!Init
  BY InvInit, InitIsMap
<1>2. Inv /\ [Next]_vars => Inv' /\ [~LossyRemoval => [D!Next]_(D!vars)]_vars
  BY NextIsMap
<1> QED
  BY <1>1, <1>2, PTL DEF Spec, ImplementsDictionary
=============================================================================
