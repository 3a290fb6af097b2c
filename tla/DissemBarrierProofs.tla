------------------------- MODULE DissemBarrierProofs -------------------------
(***************************************************************************)
(* Proofs about the dissemination barrier for any number of processes:     *)
(* messages reach the round of the call they were sent for, and nobody     *)
(* returns before everybody has called.  The lemmas are about the          *)
(* algorithm alone; ProcessSyncProofs applies them to the calls of the     *)
(* measurement loop.                                                       *)
(***************************************************************************)
EXTENDS DissemBarrier, TLAPS

-----------------------------------------------------------------------------
(* The values of `1 << i'. *)

\* The numbers that every set has which contains 1 and with a number its
\* double: the powers of two.
Doubling(S) == 1 \in S /\ \A x \in S : 2 * x \in S
IsHop(h) == h \in Nat /\ \A S \in SUBSET Nat : Doubling(S) => h \in S

LEMMA OneIsHop == IsHop(1)
  BY DEF IsHop, Doubling

LEMMA DoubleIsHop ==
    ASSUME NEW h, IsHop(h)
    PROVE  IsHop(2 * h)
  BY DEF IsHop, Doubling

LEMMA HopPositive ==
    ASSUME NEW h, IsHop(h)
    PROVE  h \in Nat \ {0}
<1>1. Doubling(Nat \ {0})
  BY DEF Doubling
<1> QED
  BY <1>1 DEF IsHop

LEMMA HopIsDouble ==
    ASSUME NEW h, IsHop(h)
    PROVE  h = 1 \/ \E g \in Nat : IsHop(g) /\ h = 2 * g
<1> DEFINE S == {x \in Nat : IsHop(x) /\ (x = 1 \/ \E g \in Nat : IsHop(g) /\ x = 2 * g)}
<1>1. 1 \in S
  BY OneIsHop
<1>2. \A x \in S : 2 * x \in S
  BY DoubleIsHop
<1>3. Doubling(S) /\ S \in SUBSET Nat
  BY <1>1, <1>2 DEF Doubling
<1>4. h \in S
  BY <1>3 DEF IsHop
<1> QED
  BY <1>4

\* Between a power of two and its double there is none.
LEMMA HopGap ==
    ASSUME NEW g, NEW h, IsHop(g), IsHop(h)
    PROVE  h <= g \/ h >= 2 * g
<1> DEFINE S == {x \in Nat : IsHop(x) /\ \A y \in Nat : IsHop(y) => (y <= x \/ y >= 2 * x)}
<1>1. 1 \in S
  BY OneIsHop
<1>2. ASSUME NEW x \in S PROVE 2 * x \in S
  <2>1. IsHop(2 * x) /\ 2 * x \in Nat /\ x \in Nat \ {0}
    BY DoubleIsHop, HopPositive
  <2>2. ASSUME NEW y \in Nat, IsHop(y)
        PROVE  y <= 2 * x \/ y >= 2 * (2 * x)
    <3>1. CASE y = 1
      BY <2>1, <3>1
    <3>2. ASSUME NEW z \in Nat, IsHop(z), y = 2 * z
          PROVE  y <= 2 * x \/ y >= 2 * (2 * x)
      <4>1. z <= x \/ z >= 2 * x
        BY <3>2
      <4> QED
        BY <2>1, <3>2, <4>1
    <3> QED
      BY <2>2, <3>1, <3>2, HopIsDouble
  <2> QED
    BY <2>1, <2>2
<1>3. Doubling(S) /\ S \in SUBSET Nat
  BY <1>1, <1>2 DEF Doubling
<1>4. g \in S /\ h \in Nat
  BY <1>3 DEF IsHop
<1> QED
  BY <1>4

-----------------------------------------------------------------------------
(* Ranks modulo the number of processes. *)

\* The rank h above r, and the rank h below.
Above(r, h) == IF r + h < np THEN r + h ELSE r + h - np
Below(r, h) == IF h <= r THEN r - h ELSE r - h + np

LEMMA Partners ==
    ASSUME np \in Nat \ {0}, NEW r \in Rank, hop[r] \in 0 .. np - 1
    PROVE  SendRank(r) = Above(r, hop[r]) /\ RecvRank(r) = Below(r, hop[r])
<1>0. r \in 0 .. np - 1
  BY DEF Rank
<1>1. \A x \in 0 .. np - 1 : x % np = x
  OBVIOUS
<1>2. \A x \in np .. 2 * np - 1 : x % np = x - np
  OBVIOUS
<1> QED
  BY <1>0, <1>1, <1>2 DEF SendRank, RecvRank, Above, Below

-----------------------------------------------------------------------------
(* The invariant. *)

Message == [call : Nat, hop : Nat]
Place == {"outside", "loop", "receiving", "sending"}

TypeInv ==
    /\ np \in Nat \ {0}
    /\ entered \in [Rank -> Nat] /\ left \in [Rank -> Nat]
    /\ pc \in [Rank -> Place] /\ hop \in [Rank -> Nat]
    /\ chan \in [Rank -> [Rank -> Seq(Message)]]

\* A process has returned from all its calls but the one it is in, and talks
\* to partners whose distance is a power of two.
ControlInv ==
    \A r \in Rank :
        /\ left[r] = IF pc[r] = "outside" THEN entered[r] ELSE entered[r] - 1
        /\ IsHop(hop[r])
        /\ pc[r] \in {"receiving", "sending"} => hop[r] < np

\* In how many calls r has sent the message to the rank h above it, and has
\* received the one from the rank h below it.
Sent(r, h) ==
    IF \/ pc[r] = "outside" \/ hop[r] > h
       \/ hop[r] = h /\ pc[r] \in {"receiving", "sending"}
    THEN entered[r] ELSE entered[r] - 1
Got(r, h) ==
    IF pc[r] = "outside" \/ hop[r] > h \/ (hop[r] = h /\ pc[r] = "sending")
    THEN entered[r] ELSE entered[r] - 1

Hops == {h \in 1 .. np - 1 : IsHop(h)}

\* On the way are the messages of the calls between the two, in order.
ChanInv ==
    \A s \in Rank, h \in Hops :
        LET d == Above(s, h)
            c == chan[s][d]
        IN  /\ Len(c) = Sent(s, h) - Got(d, h)
            /\ \A k \in 1 .. Len(c) : c[k] = [call |-> Got(d, h) + k, hop |-> h]

\* A process that has sent to the rank h above it knows that the h ranks from
\* its own downwards are in the call.
Known(r) == IF pc[r] = "sending" THEN 2 * hop[r] ELSE hop[r]
KnowInv ==
    \A r \in Rank : pc[r] # "outside" =>
        \A j \in 0 .. np - 1 : j < Known(r) => entered[Below(r, j)] >= entered[r]

\* Nobody has returned from a call that somebody has not made.
LeftInv == \A r, q \in Rank : entered[q] >= left[r]

Inv == TypeInv /\ ControlInv /\ ChanInv /\ KnowInv /\ LeftInv

LEMMA RankShifts ==
    ASSUME np \in Nat \ {0}, NEW r \in Rank, NEW h \in 0 .. np - 1
    PROVE  /\ Above(r, h) \in Rank /\ Below(r, h) \in Rank
           /\ Above(Below(r, h), h) = r /\ Below(Above(r, h), h) = r
  BY DEF Rank, Above, Below

\* Different distances from one rank lead to different ranks.
LEMMA ShiftsDiffer ==
    ASSUME np \in Nat \ {0}, NEW r \in Rank, NEW g \in 0 .. np - 1,
           NEW h \in 0 .. np - 1, Above(r, g) = Above(r, h) \/ Below(r, g) = Below(r, h)
    PROVE  g = h
  BY DEF Rank, Above, Below

LEMMA InvInit ==
    ASSUME Init, Sizes \subseteq Nat \ {0}
    PROVE  Inv
<1>1. TypeInv
  BY DEF Init, TypeInv, Place
<1>2. ControlInv
  BY OneIsHop DEF Init, ControlInv
<1>3. ChanInv
  <2> SUFFICES ASSUME NEW s \in Rank, NEW h \in Hops
               PROVE  /\ Len(chan[s][Above(s, h)]) = Sent(s, h) - Got(Above(s, h), h)
                      /\ \A k \in 1 .. Len(chan[s][Above(s, h)]) :
                             chan[s][Above(s, h)][k]
                                 = [call |-> Got(Above(s, h), h) + k, hop |-> h]
    BY DEF ChanInv
  <2>1. Above(s, h) \in Rank
    BY <1>1, RankShifts DEF TypeInv, Hops
  <2> QED
    BY <2>1 DEF Init, Sent, Got
<1>4. KnowInv /\ LeftInv
  BY DEF Init, KnowInv, LeftInv
<1> QED
  BY <1>1, <1>2, <1>3, <1>4 DEF Inv

-----------------------------------------------------------------------------
(* The steps of a process. *)

LEMMA Types ==
    ASSUME TypeInv
    PROVE  /\ np \in Nat \ {0}
           /\ \A q \in Rank : /\ entered[q] \in Nat /\ left[q] \in Nat
                              /\ pc[q] \in Place /\ hop[q] \in Nat
           /\ \A s, d \in Rank : chan[s][d] \in Seq(Message)
  BY DEF TypeInv

\* What an action of r does to everything but the channels.
Moves(r) ==
    /\ np' = np
    /\ \A q \in Rank \ {r} : /\ entered'[q] = entered[q] /\ left'[q] = left[q]
                             /\ pc'[q] = pc[q] /\ hop'[q] = hop[q]
    /\ \/ /\ Enter(r) /\ entered'[r] = entered[r] + 1 /\ left' = left
          /\ pc'[r] = "loop" /\ hop'[r] = 1
       \/ /\ Send(r) /\ entered' = entered /\ left' = left
          /\ pc'[r] = "receiving" /\ hop' = hop
       \/ /\ Recv(r) /\ entered' = entered /\ left' = left
          /\ pc'[r] = "sending" /\ hop' = hop
       \/ /\ NextRound(r) /\ entered' = entered /\ left' = left
          /\ pc'[r] = "loop" /\ hop'[r] = 2 * hop[r]
       \/ /\ Return(r) /\ entered' = entered /\ left'[r] = left[r] + 1
          /\ pc'[r] = "outside" /\ hop' = hop

LEMMA StepMoves ==
    ASSUME TypeInv, NEW r \in Rank, Step(r)
    PROVE  Moves(r)
<1>0. /\ entered \in [Rank -> Nat] /\ left \in [Rank -> Nat]
      /\ pc \in [Rank -> Place] /\ hop \in [Rank -> Nat]
  BY DEF TypeInv
<1>1. CASE Enter(r)
  BY <1>0, <1>1 DEF Enter, Moves
<1>2. CASE Send(r)
  <2>1. /\ np' = np /\ entered' = entered /\ left' = left /\ hop' = hop
        /\ pc' = [pc EXCEPT ![r] = "receiving"]
    BY <1>2 DEF Send
  <2> QED
    BY <1>0, <1>2, <2>1 DEF Moves
<1>3. CASE Recv(r)
  <2>1. /\ np' = np /\ entered' = entered /\ left' = left /\ hop' = hop
        /\ pc' = [pc EXCEPT ![r] = "sending"]
    BY <1>3 DEF Recv
  <2> QED
    BY <1>0, <1>3, <2>1 DEF Moves
<1>4. CASE NextRound(r)
  BY <1>0, <1>4 DEF NextRound, Moves
<1>5. CASE Return(r)
  BY <1>0, <1>5 DEF Return, Moves
<1> QED
  BY <1>1, <1>2, <1>3, <1>4, <1>5 DEF Step

LEMMA SameRanks ==
    ASSUME TypeInv, NEW r \in Rank, Step(r)
    PROVE  /\ np' = np /\ Rank' = Rank /\ Hops' = Hops
           /\ \A s, h : Above(s, h)' = Above(s, h) /\ Below(s, h)' = Below(s, h)
<1>1. np' = np
  BY StepMoves DEF Moves
<1> QED
  BY <1>1 DEF Rank, Hops, Above, Below

LEMMA TypeStep ==
    ASSUME TypeInv, ControlInv, NEW r \in Rank, Step(r)
    PROVE  TypeInv'
<1>0. /\ np \in Nat \ {0} /\ np' = np /\ Rank' = Rank
      /\ entered \in [Rank -> Nat] /\ left \in [Rank -> Nat]
      /\ pc \in [Rank -> Place] /\ hop \in [Rank -> Nat]
      /\ chan \in [Rank -> [Rank -> Seq(Message)]]
  BY SameRanks DEF TypeInv
<1>1. CASE Send(r)
  <2>1. hop[r] \in 0 .. np - 1
    BY <1>0, <1>1 DEF Send
  <2>2. SendRank(r) \in Rank
    BY <1>0, <2>1, Partners, RankShifts
  <2>3. [call |-> entered[r], hop |-> hop[r]] \in Message
    BY <1>0 DEF Message
  <2>4. chan[r][SendRank(r)] \in Seq(Message)
    BY <1>0, <2>2
  <2>5. Append(chan[r][SendRank(r)], [call |-> entered[r], hop |-> hop[r]]) \in Seq(Message)
    BY <2>3, <2>4
  <2>6. chan' \in [Rank -> [Rank -> Seq(Message)]]
    BY <1>0, <1>1, <2>5 DEF Send
  <2>7. /\ entered' = entered /\ left' = left /\ hop' = hop
        /\ pc' \in [Rank -> Place]
    BY <1>0, <1>1 DEF Send, Place
  <2> QED
    BY <1>0, <2>6, <2>7 DEF TypeInv
<1>2. CASE Recv(r)
  <2>1. hop[r] \in 0 .. np - 1
    BY <1>0, <1>2 DEF Recv, ControlInv
  <2>2. RecvRank(r) \in Rank
    BY <1>0, <2>1, Partners, RankShifts
  <2>3. chan[RecvRank(r)][r] \in Seq(Message) /\ chan[RecvRank(r)][r] # <<>>
    BY <1>0, <1>2, <2>2 DEF Recv
  <2>4. Tail(chan[RecvRank(r)][r]) \in Seq(Message)
    BY <2>3
  <2>5. chan' \in [Rank -> [Rank -> Seq(Message)]]
    BY <1>0, <1>2, <2>4 DEF Recv
  <2>6. /\ entered' = entered /\ left' = left /\ hop' = hop
        /\ pc' \in [Rank -> Place]
    BY <1>0, <1>2 DEF Recv, Place
  <2> QED
    BY <1>0, <2>5, <2>6 DEF TypeInv
<1>3. CASE Enter(r)
  BY <1>0, <1>3 DEF Enter, TypeInv, Place
<1>4. CASE NextRound(r)
  BY <1>0, <1>4 DEF NextRound, TypeInv, Place
<1>5. CASE Return(r)
  BY <1>0, <1>5 DEF Return, TypeInv, Place
<1> QED
  BY <1>1, <1>2, <1>3, <1>4, <1>5 DEF Step

LEMMA ControlStep ==
    ASSUME TypeInv, ControlInv, NEW r \in Rank, Step(r)
    PROVE  ControlInv'
<1>0. /\ Rank' = Rank /\ np' = np /\ Moves(r)
      /\ \A q \in Rank : entered[q] \in Nat /\ left[q] \in Nat /\ hop[q] \in Nat
  BY SameRanks, StepMoves, Types
<1> SUFFICES ASSUME NEW q \in Rank
             PROVE  /\ left'[q] = IF pc'[q] = "outside" THEN entered'[q]
                                                        ELSE entered'[q] - 1
                    /\ IsHop(hop'[q])
                    /\ pc'[q] \in {"receiving", "sending"} => hop'[q] < np
  BY <1>0 DEF ControlInv
<1>1. CASE q # r
  BY <1>0, <1>1 DEF Moves, ControlInv
<1>2. CASE q = r
  <2>1. IsHop(1) /\ IsHop(2 * hop[r])
    BY OneIsHop, DoubleIsHop DEF ControlInv
  <2> QED
    BY <1>0, <1>2, <2>1 DEF Moves, ControlInv, Enter, Send, Recv, NextRound, Return
<1> QED
  BY <1>1, <1>2

\* What is on the way from s to the rank h above it.
Carries(s, h, c) ==
    LET d == Above(s, h)
    IN  /\ Len(c) = Sent(s, h) - Got(d, h)
        /\ \A k \in 1 .. Len(c) : c[k] = [call |-> Got(d, h) + k, hop |-> h]

LEMMA ChanStep ==
    ASSUME TypeInv, ControlInv, ChanInv, NEW r \in Rank, Step(r)
    PROVE  ChanInv'
<1>0. /\ Rank' = Rank /\ np' = np /\ np \in Nat \ {0} /\ Hops' = Hops
      /\ \A s, h : Above(s, h)' = Above(s, h)
      /\ \A h \in Hops : h \in 0 .. np - 1 /\ h \in Nat \ {0} /\ IsHop(h)
      /\ \A q \in Rank : /\ entered[q] \in Nat /\ hop[q] \in Nat
                         /\ pc[q] \in Place /\ IsHop(hop[q])
      /\ Moves(r)
  BY SameRanks, StepMoves, Types, HopPositive DEF Hops, ControlInv
<1> SUFFICES ASSUME NEW s \in Rank, NEW h \in Hops
             PROVE  Carries(s, h, chan[s][Above(s, h)])'
  BY <1>0 DEF ChanInv, Carries
<1> DEFINE d == Above(s, h)
<1>a. d \in Rank /\ Below(d, h) = s
  BY <1>0, RankShifts
<1>b. Carries(s, h, chan[s][d])
  BY DEF ChanInv, Carries
<1>c. chan[s][d] \in Seq(Message)
  BY <1>a DEF TypeInv
<1>1. ASSUME Sent(s, h)' = Sent(s, h), Got(d, h)' = Got(d, h),
             chan'[s][d] = chan[s][d]
      PROVE  Carries(s, h, chan[s][Above(s, h)])'
  BY <1>0, <1>1, <1>b DEF Carries
<1>2. CASE Enter(r)
  <2>1. \A q \in Rank : Sent(q, h)' = Sent(q, h) /\ Got(q, h)' = Got(q, h)
    <3> SUFFICES ASSUME NEW q \in Rank
                 PROVE  Sent(q, h)' = Sent(q, h) /\ Got(q, h)' = Got(q, h)
      OBVIOUS
    <3>1. CASE q = r
      <4>1. entered'[r] = entered[r] + 1 /\ pc'[r] = "loop" /\ hop'[r] = 1
        BY <1>0, <1>2 DEF Moves, Enter, Send, Recv, NextRound, Return
      <4>2. pc[r] = "outside" /\ ~(1 > h)
        BY <1>0, <1>2 DEF Enter
      <4> QED
        BY <1>0, <3>1, <4>1, <4>2 DEF Sent, Got
    <3>2. CASE q # r
      BY <1>0, <3>2 DEF Moves, Sent, Got
    <3> QED
      BY <3>1, <3>2
  <2>3. chan'[s][d] = chan[s][d]
    BY <1>2 DEF Enter
  <2>4. Sent(s, h)' = Sent(s, h) /\ Got(d, h)' = Got(d, h)
    BY <1>0, <1>a, <2>1
  <2> QED
    BY <1>1, <2>3, <2>4
<1>3. CASE Send(r)
  <2>1. SendRank(r) = Above(r, hop[r]) /\ hop[r] \in 1 .. np - 1
    BY <1>0, <1>3, Partners, HopPositive DEF Send
  <2>2. Got(d, h)' = Got(d, h)
    BY <1>0, <1>3, <1>a DEF Moves, Enter, Send, Recv, NextRound, Return, Got
  <2>3. CASE s = r /\ h = hop[r]
    <3>1. chan'[s][d] = Append(chan[s][d], [call |-> entered[r], hop |-> h])
      BY <1>3, <1>a, <2>1, <2>3 DEF Send, TypeInv
    <3>2. Sent(s, h) = entered[r] - 1 /\ Sent(s, h)' = entered[r]
      BY <1>0, <1>3, <2>3 DEF Send, Sent, TypeInv
    <3>3. Got(d, h) \in Int
      BY <1>0, <1>a DEF Got
    <3>4. /\ Len(chan'[s][d]) = Len(chan[s][d]) + 1
          /\ \A k \in 1 .. Len(chan[s][d]) : chan'[s][d][k] = chan[s][d][k]
          /\ chan'[s][d][Len(chan[s][d]) + 1] = [call |-> entered[r], hop |-> h]
      BY <1>c, <3>1
    <3>5. entered[r] = Got(d, h) + (Len(chan[s][d]) + 1)
      BY <1>0, <1>b, <1>c, <3>2, <3>3 DEF Carries
    <3>6. Len(chan'[s][d]) = Sent(s, h)' - Got(d, h)
      BY <1>0, <1>c, <3>2, <3>3, <3>4, <3>5
    <3>7. ASSUME NEW k \in 1 .. Len(chan'[s][d])
          PROVE  chan'[s][d][k] = [call |-> Got(d, h) + k, hop |-> h]
      <4>1. k \in 1 .. Len(chan[s][d]) \/ k = Len(chan[s][d]) + 1
        BY <1>c, <3>4
      <4> QED
        BY <1>b, <3>4, <3>5, <4>1 DEF Carries
    <3> QED
      BY <1>0, <2>2, <3>6, <3>7 DEF Carries
  <2>4. CASE ~(s = r /\ h = hop[r])
    <3>1. Sent(s, h)' = Sent(s, h)
      BY <1>0, <1>3, <2>4 DEF Send, Sent, TypeInv
    <3>2. s = r => d # SendRank(r)
      BY <1>0, <2>1, <2>4, ShiftsDiffer
    <3>3. chan'[s][d] = chan[s][d]
      BY <1>3, <1>a, <3>2 DEF Send, TypeInv
    <3> QED
      BY <1>1, <2>2, <3>1, <3>3
  <2> QED
    BY <2>3, <2>4
<1>4. CASE Recv(r)
  <2>1. RecvRank(r) = Below(r, hop[r]) /\ hop[r] \in 1 .. np - 1
    BY <1>0, <1>4, Partners, HopPositive DEF Recv, ControlInv
  <2>2. Sent(s, h)' = Sent(s, h)
    BY <1>0, <1>4 DEF Recv, Sent, TypeInv
  <2>3. CASE d = r /\ h = hop[r]
    <3>1. s = RecvRank(r)
      BY <1>a, <2>1, <2>3
    <3>2. chan'[s][d] = Tail(chan[s][d]) /\ chan[s][d] # <<>>
      BY <1>4, <1>a, <2>3, <3>1 DEF Recv, TypeInv
    <3>3. Got(d, h) = entered[r] - 1 /\ Got(d, h)' = entered[r]
      BY <1>0, <1>4, <2>3 DEF Recv, Got, TypeInv
    <3>4. /\ Len(chan'[s][d]) = Len(chan[s][d]) - 1
          /\ \A k \in 1 .. Len(chan'[s][d]) : chan'[s][d][k] = chan[s][d][k + 1]
      BY <1>c, <3>2
    <3>5. Sent(s, h) \in Int
      BY <1>0 DEF Sent
    <3>6. Len(chan'[s][d]) = Sent(s, h) - entered[r]
      BY <1>0, <1>b, <1>c, <3>3, <3>4, <3>5 DEF Carries
    <3>7. ASSUME NEW k \in 1 .. Len(chan'[s][d])
          PROVE  chan'[s][d][k] = [call |-> entered[r] + k, hop |-> h]
      <4>1. k + 1 \in 1 .. Len(chan[s][d])
        BY <1>c, <3>4
      <4>2. chan'[s][d][k] = [call |-> Got(d, h) + (k + 1), hop |-> h]
        BY <1>b, <3>4, <4>1 DEF Carries
      <4>3. entered[r] - 1 + (k + 1) = entered[r] + k
        BY <1>0, <1>c, <3>4
      <4> QED
        BY <3>3, <4>2, <4>3
    <3> QED
      BY <1>0, <2>2, <3>3, <3>6, <3>7 DEF Carries
  <2>4. CASE ~(d = r /\ h = hop[r])
    <3>1. Got(d, h)' = Got(d, h)
      BY <1>0, <1>4, <1>a, <2>4 DEF Recv, Got, TypeInv
    <3>2. ~(s = RecvRank(r) /\ d = r)
      <4> SUFFICES ASSUME s = RecvRank(r), d = r PROVE FALSE
        OBVIOUS
      <4>1. Below(r, hop[r]) = Below(r, h)
        BY <1>a, <2>1
      <4> QED
        BY <1>0, <2>1, <2>4, <4>1, ShiftsDiffer
    <3>3. chan'[s][d] = chan[s][d]
      BY <1>4, <1>a, <3>2 DEF Recv, TypeInv
    <3> QED
      BY <1>1, <2>2, <3>1, <3>3
  <2> QED
    BY <2>3, <2>4
<1>5. CASE NextRound(r)
  <2>1. h <= hop[r] \/ h >= 2 * hop[r]
    BY <1>0, HopGap
  <2>2. \A q \in Rank : Sent(q, h)' = Sent(q, h) /\ Got(q, h)' = Got(q, h)
    <3> SUFFICES ASSUME NEW q \in Rank
                 PROVE  Sent(q, h)' = Sent(q, h) /\ Got(q, h)' = Got(q, h)
      OBVIOUS
    <3>1. CASE q = r
      <4>1. entered'[r] = entered[r] /\ pc'[r] = "loop" /\ hop'[r] = 2 * hop[r]
        BY <1>0, <1>5 DEF Moves, Enter, Send, Recv, NextRound, Return
      <4>2. pc[r] = "sending" /\ hop[r] \in Nat \ {0}
        BY <1>0, <1>5, HopPositive DEF NextRound
      <4> QED
        BY <1>0, <2>1, <3>1, <4>1, <4>2 DEF Sent, Got
    <3>2. CASE q # r
      BY <1>0, <3>2 DEF Moves, Sent, Got
    <3> QED
      BY <3>1, <3>2
  <2>3. chan'[s][d] = chan[s][d]
    BY <1>5 DEF NextRound
  <2>4. Sent(s, h)' = Sent(s, h) /\ Got(d, h)' = Got(d, h)
    BY <1>0, <1>a, <2>2
  <2> QED
    BY <1>1, <2>3, <2>4
<1>6. CASE Return(r)
  <2>1. \A q \in Rank : Sent(q, h)' = Sent(q, h) /\ Got(q, h)' = Got(q, h)
    <3> SUFFICES ASSUME NEW q \in Rank
                 PROVE  Sent(q, h)' = Sent(q, h) /\ Got(q, h)' = Got(q, h)
      OBVIOUS
    <3>1. CASE q = r
      <4>1. entered'[r] = entered[r] /\ pc'[r] = "outside"
        BY <1>0, <1>6 DEF Moves, Enter, Send, Recv, NextRound, Return
      <4>2. pc[r] = "loop" /\ hop[r] > h
        BY <1>0, <1>6 DEF Return
      <4> QED
        BY <1>0, <3>1, <4>1, <4>2 DEF Sent, Got
    <3>2. CASE q # r
      BY <1>0, <3>2 DEF Moves, Sent, Got
    <3> QED
      BY <3>1, <3>2
  <2>3. chan'[s][d] = chan[s][d]
    BY <1>6 DEF Return
  <2>4. Sent(s, h)' = Sent(s, h) /\ Got(d, h)' = Got(d, h)
    BY <1>0, <1>a, <2>1
  <2> QED
    BY <1>1, <2>3, <2>4
<1> QED
  BY <1>2, <1>3, <1>4, <1>5, <1>6 DEF Step

\* A message says that its sender, and whoever it has heard of, is in the call.
LEMMA SenderKnows ==
    ASSUME Inv, NEW r \in Rank, Recv(r), NEW j \in 0 .. np - 1, j < hop[r]
    PROVE  entered[Below(RecvRank(r), j)] >= entered[r]
<1> DEFINE s == RecvRank(r)
           h == hop[r]
<1>0. /\ np \in Nat \ {0} /\ h \in Nat \ {0} /\ h \in 0 .. np - 1
      /\ IsHop(h) /\ h \in Hops
  BY HopPositive DEF Inv, TypeInv, ControlInv, Recv, Hops
<1>1. s \in Rank /\ Above(s, h) = r
  BY <1>0, Partners, RankShifts
<1>2. /\ \A q \in Rank : entered[q] \in Nat /\ left[q] \in Nat
                            /\ hop[q] \in Nat /\ pc[q] \in Place
      /\ chan[s][r] \in Seq(Message) /\ Below(s, j) \in Rank
  BY <1>0, <1>1, RankShifts, Types DEF Inv
<1>3. Len(chan[s][r]) = Sent(s, h) - Got(r, h) /\ Len(chan[s][r]) > 0
  BY <1>0, <1>1, <1>2 DEF Inv, ChanInv, Recv
<1>4. Got(r, h) = entered[r] - 1
  BY <1>0 DEF Got, Recv
<1>5. Sent(s, h) >= entered[r]
  BY <1>1, <1>2, <1>3, <1>4 DEF Sent
<1>6. CASE entered[s] > entered[r] \/ pc[s] = "outside"
  <2>1. left[s] >= entered[r]
    <3>1. left[s] = IF pc[s] = "outside" THEN entered[s] ELSE entered[s] - 1
      BY <1>1 DEF Inv, ControlInv
    <3>2. pc[s] = "outside" => entered[s] >= entered[r]
      BY <1>5 DEF Sent
    <3> QED
      BY <1>1, <1>2, <1>6, <3>1, <3>2
  <2>2. entered[Below(s, j)] >= left[s]
    BY <1>1, <1>2 DEF Inv, LeftInv
  <2> QED
    BY <1>1, <1>2, <2>1, <2>2
<1>7. CASE entered[s] <= entered[r] /\ pc[s] # "outside"
  <2>1. entered[s] = entered[r] /\ hop[s] >= h
    <3>1. hop[s] \in Nat /\ h \in Nat /\ entered[s] \in Nat /\ entered[r] \in Nat
      BY <1>0, <1>1, <1>2
    <3>2. hop[s] >= h
      <4> SUFFICES ASSUME ~(hop[s] >= h) PROVE FALSE
        OBVIOUS
      <4>1. ~(hop[s] > h) /\ hop[s] # h
        BY <3>1
      <4>2. Sent(s, h) = entered[s] - 1
        BY <1>7, <4>1 DEF Sent
      <4> QED
        BY <1>5, <1>7, <3>1, <4>2
    <3>3. Sent(s, h) \in {entered[s], entered[s] - 1}
      BY DEF Sent
    <3> QED
      BY <1>5, <1>7, <3>1, <3>2, <3>3
  <2>2. j < Known(s)
    <3>1. Known(s) \in {hop[s], 2 * hop[s]}
      BY DEF Known
    <3>2. hop[s] \in Nat
      BY <1>1, <1>2
    <3> QED
      BY <1>0, <2>1, <3>1, <3>2
  <2> QED
    BY <1>1, <1>7, <2>1, <2>2 DEF Inv, KnowInv
<1> QED
  BY <1>1, <1>2, <1>6, <1>7

LEMMA KnowStep ==
    ASSUME Inv, NEW r \in Rank, Step(r)
    PROVE  KnowInv'
<1>0. /\ Rank' = Rank /\ np' = np /\ np \in Nat \ {0} /\ Moves(r)
      /\ \A s, h : Below(s, h)' = Below(s, h)
      /\ \A q \in Rank : entered[q] \in Nat /\ hop[q] \in Nat /\ pc[q] \in Place
  BY SameRanks, StepMoves, Types DEF Inv
<1> SUFFICES ASSUME NEW q \in Rank, pc'[q] # "outside",
                    NEW j \in 0 .. np - 1, j < Known(q)'
             PROVE  entered'[Below(q, j)] >= entered'[q]
  BY <1>0 DEF KnowInv
<1>a. Below(q, j) \in Rank
  BY <1>0, RankShifts
<1>b. \A x \in Rank : entered'[x] \in Nat /\ entered'[x] >= entered[x]
  BY <1>0 DEF Moves
<1>1. ASSUME entered'[q] = entered[q], pc[q] # "outside", j < Known(q)
      PROVE  entered'[Below(q, j)] >= entered'[q]
  <2>1. entered[Below(q, j)] >= entered[q]
    BY <1>1 DEF Inv, KnowInv
  <2> QED
    BY <1>0, <1>1, <1>a, <1>b, <2>1
<1>2. CASE q # r
  BY <1>0, <1>1, <1>2 DEF Moves, Known
<1>3. CASE q = r /\ Enter(r)
  <2>1. j = 0
    <3>1. pc'[r] = "loop" /\ hop'[r] = 1
      BY <1>0, <1>3 DEF Moves, Enter, Send, Recv, NextRound, Return
    <3> QED
      BY <1>3, <3>1 DEF Known
  <2>2. Below(q, j) = q
    BY <1>0, <2>1 DEF Below, Rank
  <2> QED
    BY <1>b, <2>2
<1>4. CASE q = r /\ (Send(r) \/ NextRound(r) \/ Return(r))
  <2>1. pc[r] # "outside" /\ entered'[r] = entered[r] /\ Known(r)' = Known(r)
    BY <1>0, <1>4 DEF Moves, Enter, Send, Recv, NextRound, Return, Known
  <2> QED
    BY <1>1, <1>4, <2>1
<1>5. CASE q = r /\ Recv(r)
  <2>1. entered' = entered /\ pc[r] = "receiving" /\ Known(r)' = 2 * hop[r]
    BY <1>0, <1>5 DEF Moves, Enter, Send, Recv, NextRound, Return, Known
  <2>2. CASE j < hop[r]
    BY <1>1, <1>5, <2>1, <2>2 DEF Known
  <2>3. CASE j >= hop[r]
    <3>1. hop[r] \in 0 .. np - 1 /\ RecvRank(r) = Below(r, hop[r])
      BY <1>0, <1>5, Partners DEF Recv, Inv, ControlInv
    <3>2. j - hop[r] \in 0 .. np - 1 /\ j - hop[r] < hop[r]
      BY <1>0, <1>5, <2>1, <2>3, <3>1
    <3>3. Below(RecvRank(r), j - hop[r]) = Below(r, j)
      BY <1>0, <2>3, <3>1 DEF Below, Rank
    <3>4. entered[Below(RecvRank(r), j - hop[r])] >= entered[r]
      BY <1>5, <3>2, SenderKnows
    <3> QED
      BY <1>5, <2>1, <3>3, <3>4
  <2> QED
    BY <1>0, <2>2, <2>3
<1> QED
  BY <1>2, <1>3, <1>4, <1>5 DEF Step

\* Nobody returns before all have entered the call.
LEMMA ReturnsLast ==
    ASSUME Inv, NEW r \in Rank, Return(r), NEW q \in Rank
    PROVE  entered[q] >= entered[r]
<1>0. np \in Nat \ {0} /\ hop[r] \in Nat
  BY DEF Inv, TypeInv
<1> DEFINE j == IF q <= r THEN r - q ELSE r - q + np
<1>1. j \in 0 .. np - 1 /\ Below(r, j) = q
  BY <1>0 DEF Rank, Below
<1>2. j < Known(r)
  BY <1>0, <1>1 DEF Return, Known
<1> HIDE DEF j
<1> QED
  BY <1>1, <1>2 DEF Return, Inv, KnowInv

LEMMA LeftStep ==
    ASSUME Inv, NEW r \in Rank, Step(r)
    PROVE  LeftInv'
<1>0. /\ Rank' = Rank /\ Moves(r)
      /\ \A q \in Rank : entered[q] \in Nat /\ left[q] \in Nat
  BY SameRanks, StepMoves, Types DEF Inv
<1>1. \A q \in Rank : entered'[q] \in Nat /\ entered'[q] >= entered[q]
  BY <1>0 DEF Moves
<1>2. ASSUME NEW s \in Rank, NEW q \in Rank, left'[s] = left[s]
      PROVE  entered'[q] >= left'[s]
  <2>1. entered[q] >= left[s]
    BY DEF Inv, LeftInv
  <2> QED
    BY <1>0, <1>1, <1>2, <2>1
<1>3. ASSUME NEW q \in Rank, Return(r)
      PROVE  entered'[q] >= left'[r]
  <2>1. left'[r] = left[r] + 1 /\ pc[r] = "loop"
    BY <1>0, <1>3 DEF Moves, Enter, Send, Recv, NextRound, Return
  <2>2. left[r] = entered[r] - 1
    BY <2>1 DEF Inv, ControlInv
  <2>3. entered[q] >= entered[r]
    BY <1>3, ReturnsLast
  <2> QED
    BY <1>0, <1>1, <2>1, <2>2, <2>3
<1> QED
  BY <1>0, <1>2, <1>3 DEF LeftInv, Moves

LEMMA InvStep ==
    ASSUME Inv, NEW r \in Rank, Step(r)
    PROVE  Inv'
  BY TypeStep, ControlStep, ChanStep, KnowStep, LeftStep DEF Inv

LEMMA InvStutter ==
    ASSUME Inv, UNCHANGED vars
    PROVE  Inv'
<1>0. Rank' = Rank /\ np' = np /\ Hops' = Hops
  BY DEF vars, Rank, Hops
<1>1. /\ \A s, h : Above(s, h)' = Above(s, h) /\ Below(s, h)' = Below(s, h)
      /\ \A q, h : Sent(q, h)' = Sent(q, h) /\ Got(q, h)' = Got(q, h)
      /\ \A q : Known(q)' = Known(q)
  BY DEF vars, Above, Below, Sent, Got, Known
<1>2. TypeInv' /\ ControlInv'
  BY <1>0 DEF vars, Inv, TypeInv, ControlInv
<1>3. ChanInv'
  BY <1>0, <1>1 DEF vars, Inv, ChanInv
<1>4. KnowInv' /\ LeftInv'
  BY <1>0, <1>1 DEF vars, Inv, KnowInv, LeftInv
<1> QED
  BY <1>2, <1>3, <1>4 DEF Inv

-----------------------------------------------------------------------------
(* What follows. *)

LEMMA InvMatch ==
    ASSUME Inv
    PROVE  MessagesMatch
<1> SUFFICES ASSUME NEW r \in Rank, pc[r] = "receiving", chan[RecvRank(r)][r] # <<>>
             PROVE  Head(chan[RecvRank(r)][r]) = [call |-> entered[r], hop |-> hop[r]]
  BY DEF MessagesMatch
<1> DEFINE s == RecvRank(r)
           h == hop[r]
<1>0. /\ np \in Nat \ {0} /\ h \in Nat \ {0} /\ h \in 0 .. np - 1
      /\ IsHop(h) /\ h \in Hops
  BY HopPositive DEF Inv, TypeInv, ControlInv, Hops
<1>1. s \in Rank /\ Above(s, h) = r
  BY <1>0, Partners, RankShifts
<1>2. chan[s][r] \in Seq(Message) /\ entered[r] \in Nat
  BY <1>0, <1>1 DEF Inv, TypeInv
<1>3. 1 \in 1 .. Len(chan[s][r])
  BY <1>2
<1>4. chan[s][r][1] = [call |-> Got(r, h) + 1, hop |-> h]
  BY <1>0, <1>1, <1>3 DEF Inv, ChanInv
<1>5. Got(r, h) + 1 = entered[r]
  BY <1>0, <1>2 DEF Got
<1> QED
  BY <1>2, <1>4, <1>5

\* The dissemination barrier takes the steps of a barrier.
LEMMA BarrierStep ==
    ASSUME Inv, NEW r \in Rank, Step(r)
    PROVE  B!Next \/ UNCHANGED <<np, entered, left>>
<1>1. CASE Enter(r)
  <2>1. B!Enter(r)
    BY <1>1 DEF Enter, B!Enter, Inv, ControlInv
  <2> QED
    BY <2>1 DEF B!Next, B!Rank, Rank
<1>2. CASE Return(r)
  <2>1. entered[r] # left[r]
    <3>1. left[r] = entered[r] - 1 /\ entered[r] \in Nat
      BY <1>2, Types DEF Return, Inv, ControlInv
    <3> QED
      BY <3>1
  <2>2. B!Leave(r)
    BY <1>2, <2>1, ReturnsLast DEF Return, B!Leave, B!Rank, Rank
  <2> QED
    BY <2>2 DEF B!Next, B!Rank, Rank
<1>3. CASE Send(r) \/ Recv(r) \/ NextRound(r)
  BY <1>3 DEF Send, Recv, NextRound
<1> QED
  BY <1>1, <1>2, <1>3 DEF Step
=============================================================================
