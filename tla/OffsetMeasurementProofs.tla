----------------------- MODULE OffsetMeasurementProofs -----------------------
(***************************************************************************)
(* Proofs about OffsetMeasurement, for any number of measurements, rounds  *)
(* and exchanges, any clocks and any travelling times of the messages: no  *)
(* message is left over, the bounds hold, and the offset is an estimate.   *)
(*                                                                         *)
(* The two processes pass one message to and fro.  The invariant IInv says *)
(* where they are together, by the message on its way; there are two       *)
(* messages only while the client has not got the end of one measurement   *)
(* and the reference has begun the next (EndAndFirst).                     *)
(***************************************************************************)
EXTENDS OffsetMeasurement, FiniteSetTheorems, WellFoundedInduction, TLAPS

-----------------------------------------------------------------------------
(* The invariant. *)

PC == {"main", "start", "rtt", "exchange", "first", "loop", "done"}
zero == [sum |-> 0, n |-> 1]

Types ==
    /\ setup \in Setups
    /\ now \in Nat \ {0}
    /\ pc \in [Proc -> PC] /\ i \in [Proc -> Nat]
    /\ count \in [Proc -> Nat \ {0}]
    /\ s_last \in [Proc -> Int] /\ s_now \in [Proc -> Int]
    /\ t_last \in [Proc -> Int] /\ t_now \in [Proc -> Int]
    /\ td_min \in [Proc -> Int] /\ td_max \in [Proc -> Int]
    /\ ping_pong_min_time \in [Proc -> Int]
    /\ samples \in [Proc -> Seq(Int)]
    /\ DOMAIN chan = Proc /\ DOMAIN hash = Proc
    /\ DOMAIN rtt = Proc /\ DOMAIN offset = Proc

At(p, l, k) == pc[p] = l /\ i[p] = k

\* A message as it is sent in measurement c; the only one on its way.
M(tag, value, sync, c, round) ==
    [tag |-> tag, value |-> value, sync |-> sync, at |-> <<c, round>>]
synchronous == TRUE    \* sent by MPI_Ssend
ValueTo(p) == chan[p][1].value
InFlight(p, tag, sync, c, round) ==
    /\ chan[p] = <<M(tag, ValueTo(p), sync, c, round)>>
    /\ chan[Other(p)] = <<>>
Quiet == \A p \in Proc : chan[p] = <<>>

SameCount == count[Ref] = count[Client]

\* What is true of a process by itself.
Own(p) ==
    /\ pc[p] = "done" <=> count[p] > Measurements
    /\ pc[p] \in {"start", "done"} => i[p] = 0
    /\ pc[p] = "main" => count[p] = 1 /\ setup.alg = "drift"
    /\ pc[p] \in {"rtt", "exchange"} => setup.alg = "pingpong"
    /\ pc[p] \in {"first", "loop"} => setup.alg # "pingpong"
    /\ pc[p] = "exchange" => hash[p] = {rtt[p]}

\* The round trips of phase l.
TripTo(l) ==
    /\ pc[Ref] = l /\ i[Ref] = i[Client] + 1 /\ i[Ref] <= Trips(Ref)
    /\ pc[Client] = l \/ (l = "rtt" /\ At(Client, "start", 0) /\ hash[Client] # {})
    /\ InFlight(Client, Tag, ~setup.eager, count[Client], <<l, i[Ref]>>)
TripBack(l) ==
    /\ pc[Ref] = l /\ i[Ref] \in 1 .. Trips(Ref)
    /\ \/ At(Client, l, i[Ref])
       \/ /\ l = "main" /\ i[Ref] = Trips(Ref)
          /\ pc[Client] \in {"start", "first"} /\ i[Client] = 0
    /\ InFlight(Ref, Tag, ~setup.eager, count[Ref], <<l, i[Ref]>>)
    /\ ValueTo(Ref) \in Int

MainInv ==
    /\ SameCount
    /\ \/ Quiet /\ At(Ref, "main", 0) /\ At(Client, "main", 0)
       \/ TripTo("main") \/ TripBack("main")

\* The ping-pong algorithm.
BranchesAgree ==
    /\ pc[Ref] = "start" /\ pc[Client] = "start" => hash[Ref] = hash[Client]
    /\ \A p \in Proc : pc[p] = "start" =>
           /\ pc[Other(p)] = "rtt" => hash[p] # {}
           /\ pc[Other(p)] = "exchange" => hash[p] = {} /\ rtt[Other(p)] = zero
    /\ pc[Ref] = "exchange" => pc[Client] # "rtt"
    /\ pc[Client] = "exchange" => pc[Ref] # "rtt"
    /\ pc[Ref] = "exchange" /\ pc[Client] = "exchange" => rtt[Ref] = rtt[Client]
Begins ==
    /\ SameCount /\ Quiet /\ BranchesAgree
    /\ \A p \in Proc : pc[p] \in {"start", "rtt", "exchange", "done"} /\ i[p] = 0
MeanSent ==
    /\ SameCount /\ At(Ref, "exchange", 0) /\ At(Client, "rtt", Trips(Client))
    /\ InFlight(Client, Tag, ~setup.eager, count[Client], <<"mean", 1>>)
    /\ ValueTo(Client) = rtt[Ref]
ExchangeTo ==
    /\ SameCount /\ pc[Client] = "exchange" /\ i[Client] \in 1 .. setup.nexchanges
    /\ \/ At(Ref, "exchange", i[Client] - 1) /\ rtt[Ref] = rtt[Client]
       \/ At(Ref, "start", 0) /\ i[Client] = 1 /\ hash[Ref] = {} /\ rtt[Client] = zero
    /\ InFlight(Ref, Tag, synchronous, count[Ref], <<"exchange", i[Client]>>)
    /\ ValueTo(Ref) \in Int
ExchangeBack ==
    /\ pc[Client] = "exchange" /\ i[Client] \in 1 .. setup.nexchanges
    /\ InFlight(Client, Tag, synchronous, count[Client], <<"exchange", i[Client]>>)
    /\ ValueTo(Client) \in Int
    /\ \/ SameCount /\ i[Client] < setup.nexchanges /\ At(Ref, "exchange", i[Client])
          /\ rtt[Ref] = rtt[Client]
       \/ /\ count[Ref] = count[Client] + 1 /\ i[Client] = setup.nexchanges
          /\ pc[Ref] \in {"start", "rtt", "done"} /\ i[Ref] = 0
          /\ pc[Ref] = "start" => hash[Ref] = hash[Client]
PingpongInv ==
    Begins \/ (SameCount /\ (TripTo("rtt") \/ TripBack("rtt"))) \/ MeanSent
           \/ ExchangeTo \/ ExchangeBack

\* SKaMPI.  The times of the two clocks are compared on the reference's.
BoundsOf(p) == td_min[p] <= Truth(p) /\ Truth(p) <= td_max[p]
Upon(p) == pc[p] \in {"start", "first", "done"} /\ i[p] = 0
ClientWaits == Upon(Client) \/ At(Client, "main", Trips(Client))
Rests == SameCount /\ Quiet /\ Upon(Ref) /\ ClientWaits
FirstTo ==
    /\ SameCount /\ At(Ref, "first", 1) /\ ClientWaits
    /\ InFlight(Client, PpTag, ~setup.eager, count[Client], <<"first", 0>>)
    /\ ValueTo(Client) = s_last[Ref] /\ s_last[Ref] <= now
FirstBack ==
    /\ SameCount /\ At(Ref, "first", 1) /\ At(Client, "first", 1)
    /\ InFlight(Ref, PpTag, ~setup.eager, count[Ref], <<"first", 1>>)
    /\ ValueTo(Ref) = t_last[Client] /\ s_last[Ref] = s_last[Client]
    /\ s_last[Ref] <= t_last[Client] - setup.diff /\ t_last[Client] - setup.diff <= now
FirstEnd ==
    /\ SameCount /\ At(Ref, "loop", 1) /\ At(Client, "first", 1)
    /\ InFlight(Client, PpTag, ~setup.eager, count[Client], <<"first", 2>>)
    /\ ValueTo(Client) = s_now[Ref]
    /\ s_last[Client] <= t_last[Client] - setup.diff
    /\ t_last[Client] - setup.diff <= s_now[Ref] /\ s_now[Ref] <= now
LoopBack ==
    /\ SameCount /\ pc[Ref] = "loop" /\ At(Client, "loop", i[Ref])
    /\ InFlight(Ref, PpTag, ~setup.eager, count[Ref], <<"loop", i[Ref]>>)
    /\ ValueTo(Ref) = t_now[Client] /\ t_now[Client] >= 0
    /\ s_now[Ref] <= t_now[Client] - setup.diff /\ t_now[Client] - setup.diff <= now
LoopTo ==
    /\ SameCount /\ pc[Client] = "loop" /\ At(Ref, "loop", i[Client] + 1)
    /\ InFlight(Client, PpTag, ~setup.eager, count[Client], <<"loop", i[Client] + 1>>)
    /\ ValueTo(Client) = s_now[Ref] /\ s_now[Ref] >= 0
    /\ t_now[Client] - setup.diff <= s_now[Ref] /\ s_now[Ref] <= now
RefEnded ==
    /\ count[Ref] = count[Client] + 1 /\ Upon(Ref) /\ pc[Client] = "loop"
    /\ InFlight(Client, PpTag, ~setup.eager, count[Client], <<"loop", i[Client] + 1>>)
    /\ ValueTo(Client) = invalid_time
EndAndFirst ==
    /\ count[Ref] = count[Client] + 1 /\ At(Ref, "first", 1) /\ pc[Client] = "loop"
    /\ chan[Client] =
           <<M(PpTag, invalid_time, ~setup.eager, count[Client], <<"loop", i[Client] + 1>>),
             M(PpTag, s_last[Ref], ~setup.eager, count[Ref], <<"first", 0>>)>>
    /\ chan[Ref] = <<>> /\ s_last[Ref] <= now
ClientEnded ==
    /\ count[Client] = count[Ref] + 1 /\ Upon(Client) /\ pc[Ref] = "loop"
    /\ InFlight(Ref, PpTag, ~setup.eager, count[Ref], <<"loop", i[Ref]>>)
    /\ ValueTo(Ref) = invalid_time
SKaMPIInv ==
    Rests \/ FirstTo \/ FirstBack \/ FirstEnd \/ LoopBack \/ LoopTo
          \/ RefEnded \/ EndAndFirst \/ ClientEnded

Together ==
    IF setup.alg = "pingpong" THEN PingpongInv
    ELSE IF pc[Ref] = "main" THEN MainInv ELSE SKaMPIInv

\* The offset a process has returned.
Estimate(p) ==
    offset[p] # None =>
        IF setup.alg = "pingpong" THEN offset[p].sample # None
        ELSE /\ 2 * setup.diff - offset[p].width <= offset[p].twice
             /\ offset[p].twice <= 2 * setup.diff + offset[p].width

IInv == /\ Types
        /\ \A p \in Proc : Own(p) /\ Estimate(p) /\ (pc[p] = "loop" => BoundsOf(p))
        /\ Together

-----------------------------------------------------------------------------
(* Messages. *)

LEMMA SeqEqual ==
    ASSUME NEW S, NEW s \in Seq(S), NEW t \in Seq(S), Len(s) = Len(t),
           \A k \in 1 .. Len(s) : s[k] = t[k]
    PROVE  s = t
<1>1. DOMAIN s = 1 .. Len(s) /\ DOMAIN t = 1 .. Len(t)
  OBVIOUS
<1>2. s = [k \in 1 .. Len(s) |-> s[k]] /\ t = [k \in 1 .. Len(t) |-> t[k]]
  OBVIOUS
<1> QED BY <1>1, <1>2

LEMMA LeastOfOne == ASSUME NEW x \in Int PROVE FX!Min({x}) = x
<1>1. \E y \in {x} : \A z \in {x} : y <= z
  OBVIOUS
<1> QED BY <1>1 DEF FX!Min

LEMMA LeastIsOne ==
    ASSUME NEW S \in SUBSET {1, 2}, 1 \in S
    PROVE  FX!Min(S) = 1
<1>1. \A z \in S : 1 <= z
  OBVIOUS
<1>2. \A y \in S : (\A z \in S : y <= z) => y = 1
  OBVIOUS
<1> QED BY <1>1, <1>2 DEF FX!Min

LEMMA ReceiveOnly ==
    ASSUME NEW p, NEW tag, NEW m, chan[p] = <<m>>, CanRecv(p, tag)
    PROVE  m.tag = tag /\ Received(p, tag) = m.value /\ Rest(p, tag) = <<>>
<1>1. DOMAIN chan[p] = {1} /\ chan[p][1] = m /\ Len(chan[p]) = 1
  OBVIOUS
<1>2. m.tag = tag
  BY <1>1 DEF CanRecv
<1>3. Index(p, tag) = 1
  <2>1. {k \in DOMAIN chan[p] : chan[p][k].tag = tag} = {1}
    BY <1>1, <1>2
  <2> QED BY <2>1, LeastOfOne DEF Index
<1>4. SubSeq(chan[p], 1, 0) = <<>> /\ SubSeq(chan[p], 2, 1) = <<>>
  <2>1. chan[p] \in Seq({m})
    OBVIOUS
  <2> QED BY <2>1
<1>5. SX!RemoveAt(chan[p], 1) = <<>>
  <2>1. SubSeq(chan[p], 1, 1 - 1) = <<>> /\ SubSeq(chan[p], 1 + 1, Len(chan[p])) = <<>>
    BY <1>1, <1>4
  <2>2. <<>> \o <<>> = <<>>
    OBVIOUS
  <2> QED BY <2>1, <2>2 DEF SX!RemoveAt
<1> QED BY <1>1, <1>2, <1>3, <1>5 DEF Received, Rest

LEMMA ReceiveFirst ==
    ASSUME NEW p, NEW tag, NEW m, NEW n, chan[p] = <<m, n>>, m.tag = tag
    PROVE  Received(p, tag) = m.value /\ Rest(p, tag) = <<n>>
<1>1. DOMAIN chan[p] = {1, 2} /\ chan[p][1] = m /\ Len(chan[p]) = 2
  OBVIOUS
<1>2. Index(p, tag) = 1
  <2> DEFINE S == {k \in DOMAIN chan[p] : chan[p][k].tag = tag}
  <2>1. S \in SUBSET {1, 2} /\ 1 \in S
    BY <1>1
  <2> HIDE DEF S
  <2>2. FX!Min(S) = 1
    BY <2>1, LeastIsOne
  <2> QED BY <2>2 DEF Index, S
<1>3. SubSeq(chan[p], 1, 0) = <<>> /\ SubSeq(chan[p], 2, 2) = <<n>>
  <2>1. chan[p] \in Seq({m, n})
    OBVIOUS
  <2>2. SubSeq(chan[p], 1, 0) = <<>>
    BY <2>1
  <2>3. Len(SubSeq(chan[p], 2, 2)) = 1 /\ SubSeq(chan[p], 2, 2)[1] = n
        /\ SubSeq(chan[p], 2, 2) \in Seq({m, n})
    BY <1>1, <2>1
  <2>4. SubSeq(chan[p], 2, 2) = <<n>>
    <3> DEFINE s == SubSeq(chan[p], 2, 2)
               t == <<n>>
    <3>1. s \in Seq({m, n}) /\ Len(s) = 1 /\ s[1] = n
      BY <2>3
    <3> HIDE DEF s
    <3>2. t \in Seq({m, n}) /\ Len(t) = 1 /\ t[1] = n
      OBVIOUS
    <3> HIDE DEF t
    <3>3. \A k \in 1 .. Len(s) : s[k] = t[k]
      BY <3>1, <3>2
    <3>4. s = t
      BY <3>1, <3>2, <3>3, SeqEqual
    <3> QED BY <3>4 DEF s, t
  <2> QED BY <2>2, <2>4
<1>4. SX!RemoveAt(chan[p], 1) = <<n>>
  <2>1. SubSeq(chan[p], 1, 1 - 1) = <<>> /\ SubSeq(chan[p], 1 + 1, Len(chan[p])) = <<n>>
    BY <1>1, <1>3
  <2>2. <<>> \o <<n>> = <<n>>
    <3>1. <<n>> \in Seq({n})
      OBVIOUS
    <3> QED BY <3>1
  <2> QED BY <2>1, <2>2 DEF SX!RemoveAt
<1> QED BY <1>1, <1>2, <1>4 DEF Received, Rest

LEMMA NothingToReceive ==
    ASSUME NEW p, NEW tag, chan[p] = <<>>
    PROVE  ~CanRecv(p, tag)
  BY DEF CanRecv

\* A message appended to the only one, or to none.
LEMMA Appending ==
    ASSUME NEW m, NEW n
    PROVE  Append(<<>>, m) = <<m>> /\ Append(<<m>>, n) = <<m, n>>
<1> DEFINE S == {m, n}
<1>1. /\ <<>> \in Seq(S) /\ <<m>> \in Seq(S) /\ <<m, n>> \in Seq(S) /\ m \in S /\ n \in S
      /\ Len(<<>>) = 0 /\ Len(<<m>>) = 1 /\ Len(<<m, n>>) = 2
  OBVIOUS
<1>2. /\ Append(<<>>, m) \in Seq(S) /\ Len(Append(<<>>, m)) = 1 /\ Append(<<>>, m)[1] = m
      /\ Append(<<m>>, n) \in Seq(S) /\ Len(Append(<<m>>, n)) = 2
      /\ Append(<<m>>, n)[1] = m /\ Append(<<m>>, n)[2] = n
  BY <1>1
<1>3. \A k \in 1 .. 1 : Append(<<>>, m)[k] = <<m>>[k]
  BY <1>2
<1>4. \A k \in 1 .. 2 : Append(<<m>>, n)[k] = <<m, n>>[k]
  BY <1>2
<1> HIDE DEF S
<1>5. Append(<<>>, m) = <<m>>
  BY <1>1, <1>2, <1>3, SeqEqual
<1>6. Append(<<m>>, n) = <<m, n>>
  BY <1>1, <1>2, <1>4, SeqEqual
<1> QED BY <1>5, <1>6

-----------------------------------------------------------------------------
(* What a step of one process leaves alone. *)

LEMMA Two == Proc = {Ref, Client} /\ Ref # Client /\ Other(Ref) = Client /\ Other(Client) = Ref
             /\ PpTag # Tag
  BY DEF Proc, Ref, Client, Other, PpTag, Tag

Same(q) ==
    /\ pc'[q] = pc[q] /\ i'[q] = i[q] /\ count'[q] = count[q] /\ hash'[q] = hash[q]
    /\ rtt'[q] = rtt[q] /\ offset'[q] = offset[q]
    /\ td_min'[q] = td_min[q] /\ td_max'[q] = td_max[q]
    /\ s_last'[q] = s_last[q] /\ s_now'[q] = s_now[q]
    /\ t_last'[q] = t_last[q] /\ t_now'[q] = t_now[q]

Alone(q) == Own(q) /\ Estimate(q) /\ (pc[q] = "loop" => BoundsOf(q))

LEMMA AloneKept ==
    ASSUME NEW q \in Proc, Alone(q), Same(q), setup' = setup
    PROVE  Alone(q)'
  BY DEF Alone, Same, Own, Estimate, BoundsOf, Truth

\* What the invariant needs after a step of p.
LEMMA StepOf ==
    ASSUME IInv, NEW p \in Proc, setup' = setup, Same(Other(p)),
           Types', Alone(p)', Together'
    PROVE  IInv'
<1>1. Alone(Other(p))'
  BY AloneKept, Two DEF IInv, Alone
<1>2. \A q \in Proc : Alone(q)'
  BY <1>1, Two
<1> QED BY <1>2 DEF IInv, Alone

-----------------------------------------------------------------------------
(* Receiving, sending, and ending a measurement. *)

LEMMA Passing ==
    ASSUME NEW p \in Proc, DOMAIN chan = Proc, NEW tag, NEW m, NEW n,
           chan[p] = <<m>>, chan[Other(p)] = <<>>, CanRecv(p, tag), RecvSend(p, tag, n)
    PROVE  /\ m.tag = tag /\ Received(p, tag) = m.value
           /\ DOMAIN chan' = Proc /\ chan'[p] = <<>> /\ chan'[Other(p)] = <<n>>
<1>1. m.tag = tag /\ Received(p, tag) = m.value /\ Rest(p, tag) = <<>>
  BY ReceiveOnly
<1>2. Other(p) \in Proc /\ Other(p) # p
  BY Two
<1>3. /\ DOMAIN chan' = Proc /\ chan'[p] = <<>>
      /\ chan'[Other(p)] = Append(chan[Other(p)], n)
  BY <1>1, <1>2 DEF RecvSend
<1> QED BY <1>1, <1>3, Appending

LEMMA Taking ==
    ASSUME NEW p \in Proc, DOMAIN chan = Proc, NEW tag, NEW m,
           chan[p] = <<m>>, CanRecv(p, tag), Recv(p, tag)
    PROVE  /\ m.tag = tag /\ Received(p, tag) = m.value
           /\ DOMAIN chan' = Proc /\ chan'[p] = <<>> /\ chan'[Other(p)] = chan[Other(p)]
<1>1. m.tag = tag /\ Received(p, tag) = m.value /\ Rest(p, tag) = <<>>
  BY ReceiveOnly
<1> QED BY <1>1, Two DEF Recv

LEMMA Sending ==
    ASSUME NEW p \in Proc, DOMAIN chan = Proc, NEW n, chan[Other(p)] = <<>>, Send(p, n)
    PROVE  DOMAIN chan' = Proc /\ chan'[Other(p)] = <<n>> /\ chan'[p] = chan[p]
  BY Two, Appending DEF Send

LEMMA LargerSmaller ==
    ASSUME NEW a \in Int, NEW b \in Int
    PROVE  /\ Larger(a, b) = IF a >= b THEN a ELSE b
           /\ Smaller(a, b) = IF a <= b THEN a ELSE b
<1>1. Larger(a, b) = IF a >= b THEN a ELSE b
  <2> DEFINE x == IF a >= b THEN a ELSE b
  <2>1. x \in {a, b} /\ \A y \in {a, b} : x >= y
    OBVIOUS
  <2>2. \A z \in {a, b} : (\A y \in {a, b} : z >= y) => z = x
    OBVIOUS
  <2> HIDE DEF x
  <2>3. FX!Max({a, b}) = x
    BY <2>1, <2>2 DEF FX!Max
  <2> QED BY <2>3 DEF Larger, x
<1>2. Smaller(a, b) = IF a <= b THEN a ELSE b
  <2> DEFINE x == IF a <= b THEN a ELSE b
  <2>1. x \in {a, b} /\ \A y \in {a, b} : x <= y
    OBVIOUS
  <2>2. \A z \in {a, b} : (\A y \in {a, b} : z <= y) => z = x
    OBVIOUS
  <2> HIDE DEF x
  <2>3. FX!Min({a, b}) = x
    BY <2>1, <2>2 DEF FX!Min
  <2> QED BY <2>3 DEF Smaller, x
<1> QED BY <1>1, <1>2

LEMMA SetupFacts ==
    ASSUME Types
    PROVE  /\ setup.diff \in Int /\ setup.diff >= -1 /\ setup.nexchanges \in Nat \ {0}
           /\ setup.eager \in BOOLEAN
           /\ setup.alg \in {"skampi", "pingpong", "drift", "global"}
           /\ now \in Nat \ {0} /\ Time(Ref) = now /\ Time(Client) = now + setup.diff
           /\ Time(Ref) >= 0 /\ Time(Client) >= 0
           /\ Truth(Ref) = setup.diff /\ Truth(Client) = -setup.diff
           /\ {Measurements, Warmups, nexchanges_rtt} \subseteq Nat \ {0}
<1>1. setup \in Setups /\ now \in Nat \ {0}
  BY DEF Types
<1>2. setup \in [alg : {"skampi", "pingpong", "drift", "global"}, diff : Int,
                 nexchanges : Nat \ {0}, eager : BOOLEAN]
  BY <1>1, SetupsAssumption
<1>3. setup.diff >= -1
  BY <1>1, ClocksAssumption
<1>4. /\ Time(Ref) = now /\ Time(Client) = now + setup.diff
      /\ Truth(Ref) = setup.diff /\ Truth(Client) = -setup.diff
  BY Two DEF Time, Truth
<1> QED BY <1>1, <1>2, <1>3, <1>4, CountsAssumption

LEMMA Returning ==
    ASSUME Types, NEW p \in Proc, NEW result, Return(p, result), Own(p),
           pc[p] \notin {"done", "main"}
    PROVE  /\ offset' = [offset EXCEPT ![p] = result] /\ offset'[p] = result
           /\ DOMAIN offset' = Proc
           /\ count' = [count EXCEPT ![p] = @ + 1] /\ count'[p] = count[p] + 1
           /\ count' \in [Proc -> Nat \ {0}]
           /\ i' = [i EXCEPT ![p] = 0] /\ i'[p] = 0 /\ i' \in [Proc -> Nat]
           /\ pc'[p] \in {"start", "done"} /\ pc' \in [Proc -> PC]
           /\ pc'[p] = "done" <=> count'[p] > Measurements
           /\ \A q \in Proc \ {p} : /\ pc'[q] = pc[q] /\ i'[q] = i[q]
                                    /\ count'[q] = count[q] /\ offset'[q] = offset[q]
<1>1. /\ count[p] \in Nat \ {0} /\ Measurements \in Nat \ {0} /\ count[p] <= Measurements
  BY CountsAssumption DEF Types, Own
<1>2. /\ offset' = [offset EXCEPT ![p] = result] /\ offset'[p] = result
      /\ DOMAIN offset' = Proc
  BY DEF Types, Return
<1>3. /\ count' = [count EXCEPT ![p] = @ + 1] /\ count'[p] = count[p] + 1
      /\ count' \in [Proc -> Nat \ {0}]
  BY <1>1 DEF Types, Return
<1>4. i' = [i EXCEPT ![p] = 0] /\ i'[p] = 0 /\ i' \in [Proc -> Nat]
  BY DEF Types, Return
<1>5. /\ pc'[p] = (IF count[p] = Measurements THEN "done" ELSE "start")
      /\ pc' \in [Proc -> PC]
  BY DEF Types, Return, PC
<1>6. \A q \in Proc \ {p} : /\ pc'[q] = pc[q] /\ i'[q] = i[q]
                            /\ count'[q] = count[q] /\ offset'[q] = offset[q]
  BY DEF Types, Return
<1>7. pc'[p] = "done" <=> count'[p] > Measurements
  BY <1>1, <1>3, <1>5
<1> QED BY <1>2, <1>3, <1>4, <1>5, <1>6, <1>7

LEMMA Typed ==
    ASSUME Types, NEW p \in Proc
    PROVE  /\ i[p] \in Nat /\ count[p] \in Nat /\ s_last[p] \in Int /\ s_now[p] \in Int
           /\ t_last[p] \in Int /\ t_now[p] \in Int /\ td_min[p] \in Int /\ td_max[p] \in Int
           /\ ping_pong_min_time[p] \in Int /\ samples[p] \in Seq(Int) /\ DOMAIN chan = Proc
  BY DEF Types

\* An assignment to the variable of one process.
LEMMA Updated ==
    ASSUME NEW S, NEW f \in [Proc -> S], NEW p \in Proc, NEW v \in S, NEW g,
           g = [f EXCEPT ![p] = v]
    PROVE  g \in [Proc -> S] /\ g[p] = v /\ g[Other(p)] = f[Other(p)]
  BY Two

LEMMA FinishFrame ==
    ASSUME Types, NEW p \in Proc, NEW lo, NEW hi, Finish(p, lo, hi)
    PROVE  \A q \in Proc \ {p} : /\ pc'[q] = pc[q] /\ i'[q] = i[q] /\ hash'[q] = hash[q]
                                 /\ count'[q] = count[q] /\ offset'[q] = offset[q]
<1>1. \A q \in Proc \ {p} : hash'[q] = hash[q]
  BY DEF Finish, Types
<1>2. \A q \in Proc \ {p} : pc'[q] = pc[q] /\ i'[q] = i[q]
                            /\ count'[q] = count[q] /\ offset'[q] = offset[q]
  BY DEF Finish, Return, Types
<1> QED BY <1>1, <1>2

\* The end of a SKaMPI measurement with bounds that hold.
LEMMA Finishing ==
    ASSUME Types, NEW p \in Proc, NEW lo \in Int, NEW hi \in Int, Own(p),
           pc[p] = "loop", Finish(p, lo, hi), lo <= Truth(p), Truth(p) <= hi, setup' = setup,
           rtt' = rtt
    PROVE  /\ DOMAIN offset' = Proc /\ DOMAIN hash' = Proc
           /\ count' \in [Proc -> Nat \ {0}] /\ count'[p] = count[p] + 1
           /\ i' \in [Proc -> Nat] /\ pc' \in [Proc -> PC]
           /\ Upon(p)' /\ Alone(p)'
           /\ \A q \in Proc \ {p} : /\ pc'[q] = pc[q] /\ i'[q] = i[q] /\ hash'[q] = hash[q]
                                    /\ count'[q] = count[q] /\ offset'[q] = offset[q]
<1> DEFINE sign == IF p = Ref THEN 1 ELSE -1
           width == hi - lo
           result == [twice |-> sign * (lo + hi), width |-> width]
<1>1. Return(p, result)
  BY DEF Finish
<1>2. /\ DOMAIN hash' = Proc /\ \A q \in Proc \ {p} : hash'[q] = hash[q]
  BY DEF Finish, Types
<1>3. setup.alg # "pingpong"
  BY DEF Own
<1>4. Estimate(p)'
  <2>1. /\ 2 * setup.diff - width <= sign * (lo + hi)
        /\ sign * (lo + hi) <= 2 * setup.diff + width
    <3>1. CASE p = Ref
      BY <3>1, SetupFacts
    <3>2. CASE p = Client
      BY <3>2, SetupFacts, Two
    <3> QED BY <3>1, <3>2, Two
  <2>2. result.twice = sign * (lo + hi) /\ result.width = width
    OBVIOUS
  <2>3. offset'[p] = result
    BY <1>1, Returning
  <2> HIDE DEF result, width, sign
  <2> QED BY <1>3, <2>1, <2>2, <2>3 DEF Estimate
<1> HIDE DEF result
<1>5. /\ DOMAIN offset' = Proc
      /\ count' \in [Proc -> Nat \ {0}] /\ count'[p] = count[p] + 1
      /\ i' \in [Proc -> Nat] /\ pc' \in [Proc -> PC] /\ i'[p] = 0
      /\ pc'[p] \in {"start", "done"} /\ (pc'[p] = "done" <=> count'[p] > Measurements)
      /\ \A q \in Proc \ {p} : /\ pc'[q] = pc[q] /\ i'[q] = i[q]
                               /\ count'[q] = count[q] /\ offset'[q] = offset[q]
  BY <1>1, Returning
<1>6. Own(p)'
  BY <1>5 DEF Own
<1>7. Alone(p)' /\ Upon(p)'
  BY <1>4, <1>5, <1>6 DEF Alone, Upon
<1> QED BY <1>2, <1>5, <1>7

-----------------------------------------------------------------------------
(* SKaMPI: the steps keep the invariant. *)

\* Where a process of a SKaMPI measurement can be when it receives.
LEMMA SKaMPICase ==
    ASSUME IInv, setup.alg # "pingpong", pc[Ref] # "main"
    PROVE  SKaMPIInv
  BY DEF IInv, Together

LEMMA RefLoopKeeps ==
    ASSUME IInv, NEW p \in Proc, RefLoop(p)
    PROVE  IInv'
<1>0. /\ p = Ref /\ pc[Ref] = "loop" /\ CanRecv(Ref, PpTag) /\ setup' = setup /\ now' = now
      /\ Types /\ Alone(Ref) /\ Own(Ref) /\ Own(Client) /\ setup.alg # "pingpong"
  BY Two DEF RefLoop, IInv, Own, Alone
<1>1. LoopBack \/ ClientEnded
  <2>1. chan[Ref] # <<>>
    BY <1>0, NothingToReceive
  <2>2. SKaMPIInv
    BY <1>0, SKaMPICase
  <2> QED BY <1>0, <2>1, <2>2, Two
          DEF SKaMPIInv, Rests, FirstTo, FirstBack, FirstEnd, LoopTo, RefEnded, EndAndFirst,
              Upon, Quiet, InFlight, At
<1> DEFINE t == Received(Ref, PpTag)
           lo == Larger(td_min[Ref], t - Time(Ref))
           hi == Smaller(td_max[Ref], t - s_now[Ref])
           stop == Stops(Ref, Time(Ref) - s_now[Ref]) \/ i[Ref] + 1 >= Number_ping_pongs
           n == Message(Ref, PpTag, IF stop THEN invalid_time ELSE Time(Ref),
                        <<"loop", i[Ref] + 1>>)
<1>2. Same(Client)
  <2>1. \A q \in Proc \ {Ref} : /\ pc'[q] = pc[q] /\ i'[q] = i[q] /\ hash'[q] = hash[q]
                                /\ count'[q] = count[q] /\ offset'[q] = offset[q]
    <3>1. \/ Finish(Ref, td_min[Ref], td_max[Ref]) \/ Finish(Ref, lo, hi)
          \/ i' = [i EXCEPT ![Ref] = @ + 1] /\ UNCHANGED <<pc, count, hash, offset>>
      BY <1>0 DEF RefLoop
    <3>2. CASE i' = [i EXCEPT ![Ref] = @ + 1] /\ UNCHANGED <<pc, count, hash, offset>>
      BY <1>0, <3>2 DEF Types
    <3> QED BY <1>0, <3>1, <3>2, FinishFrame
  <2>2. /\ \A q \in Proc \ {Ref} : /\ td_min'[q] = td_min[q] /\ td_max'[q] = td_max[q]
                                   /\ s_last'[q] = s_last[q] /\ s_now'[q] = s_now[q]
                                   /\ t_last'[q] = t_last[q]
        /\ t_now' = t_now /\ rtt' = rtt
    <3>1. t_last' = [t_last EXCEPT ![Ref] = t] /\ t_now' = t_now /\ rtt' = rtt
      BY <1>0 DEF RefLoop, trips
    <3>2. \/ UNCHANGED <<s_last, s_now, td_min, td_max>>
          \/ /\ s_last' = [s_last EXCEPT ![Ref] = s_now[Ref]]
             /\ s_now' = [s_now EXCEPT ![Ref] = Time(Ref)]
             /\ td_min' = [td_min EXCEPT ![Ref] = lo]
             /\ td_max' = [td_max EXCEPT ![Ref] = hi]
      BY <1>0 DEF RefLoop
    <3> HIDE DEF t, lo, hi
    <3> QED BY <1>0, <3>1, <3>2 DEF Types
  <2> QED BY <2>1, <2>2, Two DEF Same
<1>3. /\ t_last' = [t_last EXCEPT ![Ref] = t]
      /\ t_now' = t_now /\ ping_pong_min_time' = ping_pong_min_time
      /\ rtt' = rtt /\ samples' = samples
  BY <1>0 DEF RefLoop, trips
<1>4. CASE LoopBack
  <2>1. /\ SameCount /\ i[Client] = i[Ref] /\ pc[Client] = "loop" /\ i[Ref] \in Nat
        /\ chan[Ref] = <<M(PpTag, ValueTo(Ref), ~setup.eager, count[Ref], <<"loop", i[Ref]>>)>>
        /\ chan[Client] = <<>> /\ DOMAIN chan = Proc
        /\ ValueTo(Ref) = t_now[Client] /\ t_now[Client] >= 0 /\ t_now[Client] \in Int
        /\ s_now[Ref] <= t_now[Client] - setup.diff /\ t_now[Client] - setup.diff <= now
        /\ s_now[Ref] \in Int /\ td_min[Ref] \in Int /\ td_max[Ref] \in Int
        /\ count[Ref] \in Nat
    BY <1>0, <1>4, Two DEF LoopBack, At, InFlight, Types
  <2>2. t = t_now[Client]
    <3>1. M(PpTag, ValueTo(Ref), ~setup.eager, count[Ref], <<"loop", i[Ref]>>).value = ValueTo(Ref)
      BY DEF M
    <3> QED BY <1>0, <2>1, <3>1, ReceiveOnly
  <2>3. /\ s_last' = [s_last EXCEPT ![Ref] = s_now[Ref]]
        /\ s_now' = [s_now EXCEPT ![Ref] = Time(Ref)]
        /\ td_min' = [td_min EXCEPT ![Ref] = lo]
        /\ td_max' = [td_max EXCEPT ![Ref] = hi]
        /\ RecvSend(Ref, PpTag, n)
        /\ IF stop THEN Finish(Ref, lo, hi)
           ELSE i' = [i EXCEPT ![Ref] = @ + 1] /\ UNCHANGED <<pc, count, hash, offset>>
    BY <1>0, <2>1, <2>2 DEF RefLoop
  <2> HIDE DEF stop, t, n
  <2>4. /\ lo \in Int /\ hi \in Int /\ lo <= Truth(Ref) /\ Truth(Ref) <= hi
    <3>1. td_min[Ref] <= setup.diff /\ setup.diff <= td_max[Ref]
      BY <1>0, SetupFacts DEF Alone, BoundsOf
    <3>2. /\ t - Time(Ref) \in Int /\ t - Time(Ref) <= setup.diff
          /\ t - s_now[Ref] \in Int /\ setup.diff <= t - s_now[Ref]
      <4>1. now \in Int /\ setup.diff \in Int /\ Time(Ref) = now
        BY <1>0, SetupFacts
      <4>2. /\ t \in Int /\ s_now[Ref] \in Int /\ s_now[Ref] <= t - setup.diff
            /\ t - setup.diff <= now
        BY <2>1, <2>2
      <4> QED BY <4>1, <4>2
    <3>3. lo = (IF td_min[Ref] >= t - Time(Ref) THEN td_min[Ref] ELSE t - Time(Ref))
      BY <2>1, <3>2, LargerSmaller
    <3>4. hi = (IF td_max[Ref] <= t - s_now[Ref] THEN td_max[Ref] ELSE t - s_now[Ref])
      BY <2>1, <3>2, LargerSmaller
    <3> HIDE DEF lo, hi
    <3> QED BY <1>0, <2>1, <3>1, <3>2, <3>3, <3>4, SetupFacts
  <2> HIDE DEF lo, hi
  <2>5. /\ DOMAIN chan' = Proc /\ chan'[Ref] = <<>> /\ chan'[Client] = <<n>>
    <3>1. /\ Ref \in Proc /\ chan[Other(Ref)] = <<>> /\ CanRecv(Ref, PpTag)
          /\ RecvSend(Ref, PpTag, n) /\ DOMAIN chan = Proc
      BY <1>0, <2>1, <2>3, Two
    <3>2. PICK m : chan[Ref] = <<m>>
      BY <2>1
    <3>3. DOMAIN chan' = Proc /\ chan'[Ref] = <<>> /\ chan'[Other(Ref)] = <<n>>
      BY <3>1, <3>2, Passing
    <3> QED BY <3>3, Two
  <2>6. /\ s_last' \in [Proc -> Int] /\ s_now' \in [Proc -> Int] /\ s_now'[Ref] = now
        /\ td_min' \in [Proc -> Int] /\ td_max' \in [Proc -> Int]
        /\ td_min'[Ref] = lo /\ td_max'[Ref] = hi
        /\ t_last' \in [Proc -> Int] /\ t_now' \in [Proc -> Int]
        /\ ping_pong_min_time' \in [Proc -> Int] /\ samples' \in [Proc -> Seq(Int)]
        /\ DOMAIN rtt' = Proc /\ setup' \in Setups /\ now' \in Nat \ {0}
    <3>1. Time(Ref) = now /\ now \in Int /\ t \in Int /\ s_now[Ref] \in Int
      BY <1>0, <2>1, <2>2, SetupFacts
    <3>2. /\ s_last' \in [Proc -> Int] /\ s_now' \in [Proc -> Int] /\ s_now'[Ref] = now
      BY <1>0, <2>3, <3>1 DEF Types
    <3>3. /\ td_min' \in [Proc -> Int] /\ td_max' \in [Proc -> Int]
          /\ td_min'[Ref] = lo /\ td_max'[Ref] = hi
      BY <1>0, <2>3, <2>4 DEF Types
    <3>4. t_last' \in [Proc -> Int]
      BY <1>0, <1>3, <3>1 DEF Types
    <3> QED BY <1>0, <1>3, <3>2, <3>3, <3>4 DEF Types
  <2>7. n = M(PpTag, IF stop THEN invalid_time ELSE now, ~setup.eager, count[Client],
              <<"loop", i[Client] + 1>>)
    BY <1>0, <2>1, SetupFacts DEF n, Message, M, SameCount
  <2>8. CASE stop
    <3>1. Finish(Ref, lo, hi)
      BY <2>3, <2>8
    <3>2. /\ DOMAIN offset' = Proc /\ DOMAIN hash' = Proc
          /\ count' \in [Proc -> Nat \ {0}] /\ count'[Ref] = count[Ref] + 1
          /\ i' \in [Proc -> Nat] /\ pc' \in [Proc -> PC]
          /\ Upon(Ref)' /\ Alone(Ref)'
      BY <1>0, <1>3, <2>4, <3>1, Finishing
    <3>3. Types'
      BY <2>5, <2>6, <3>2 DEF Types
    <3>4. RefEnded'
      <4>1. InFlight(Client, PpTag, ~setup.eager, count[Client], <<"loop", i[Client] + 1>>)'
            /\ ValueTo(Client)' = invalid_time
        <5>1. n.value = invalid_time
          BY <2>7, <2>8 DEF M
        <5> QED BY <1>0, <1>2, <2>5, <2>7, <2>8, <5>1, Two DEF InFlight, ValueTo, Same
      <4> QED BY <1>2, <2>1, <3>2, <4>1 DEF RefEnded, Same, SameCount, invalid_time
    <3>5. Together'
      <4>1. pc'[Ref] # "main" /\ setup'.alg # "pingpong"
        BY <1>0, <3>2 DEF Upon
      <4> QED BY <3>4, <4>1 DEF Together, SKaMPIInv
    <3> QED BY <1>0, <1>2, <3>2, <3>3, <3>5, StepOf, Two
  <2>9. CASE ~stop
    <3>1. /\ i' = [i EXCEPT ![Ref] = @ + 1] /\ UNCHANGED <<pc, count, hash, offset>>
      BY <2>3, <2>9
    <3>2. /\ i' \in [Proc -> Nat] /\ i'[Ref] = i[Ref] + 1
      BY <1>0, <3>1 DEF Types
    <3>3. Types'
      <4>1. /\ pc' \in [Proc -> PC] /\ count' \in [Proc -> Nat \ {0}]
            /\ DOMAIN hash' = Proc /\ DOMAIN offset' = Proc
        BY <1>0, <3>1 DEF Types
      <4> QED BY <2>5, <2>6, <3>2, <4>1 DEF Types
    <3>4. Alone(Ref)'
      BY <1>0, <1>3, <2>4, <2>6, <3>1 DEF Alone, Own, Estimate, BoundsOf, Truth
    <3>5. LoopTo'
      <4>1. InFlight(Client, PpTag, ~setup.eager, count[Client], <<"loop", i[Client] + 1>>)'
            /\ ValueTo(Client)' = now
        <5>1. n.value = now
          BY <2>7, <2>9 DEF M
        <5> QED BY <1>0, <1>2, <2>5, <2>7, <2>9, <5>1, Two DEF InFlight, ValueTo, Same
      <4> QED BY <1>0, <1>2, <2>1, <2>6, <3>1, <3>2, <4>1, SetupFacts
              DEF LoopTo, Same, SameCount, At
    <3>6. Together'
      BY <1>0, <3>1, <3>5 DEF Together, SKaMPIInv
    <3> QED BY <1>0, <1>2, <3>3, <3>4, <3>6, StepOf, Two
  <2> QED BY <2>8, <2>9
<1>5. CASE ClientEnded
  <2>1. /\ count[Client] = count[Ref] + 1 /\ Upon(Client)
        /\ chan[Ref] = <<M(PpTag, ValueTo(Ref), ~setup.eager, count[Ref], <<"loop", i[Ref]>>)>>
        /\ chan[Client] = <<>> /\ DOMAIN chan = Proc
        /\ ValueTo(Ref) = -1
    BY <1>0, <1>5, Two DEF ClientEnded, InFlight, Types, invalid_time
  <2>2. t = -1
    <3>1. M(PpTag, ValueTo(Ref), ~setup.eager, count[Ref], <<"loop", i[Ref]>>).value = ValueTo(Ref)
      BY DEF M
    <3> QED BY <1>0, <2>1, <3>1, ReceiveOnly
  <2>3. /\ Recv(Ref, PpTag) /\ Finish(Ref, td_min[Ref], td_max[Ref])
        /\ UNCHANGED <<s_last, s_now, td_min, td_max>>
    BY <1>0, <2>2 DEF RefLoop
  <2> HIDE DEF t
  <2>4. DOMAIN chan' = Proc /\ chan'[Ref] = <<>> /\ chan'[Client] = <<>>
    BY <1>0, <2>1, <2>3, Taking, Two
  <2>5. /\ DOMAIN offset' = Proc /\ DOMAIN hash' = Proc
        /\ count' \in [Proc -> Nat \ {0}] /\ count'[Ref] = count[Ref] + 1
        /\ i' \in [Proc -> Nat] /\ pc' \in [Proc -> PC]
        /\ Upon(Ref)' /\ Alone(Ref)'
    <3>1. /\ td_min[Ref] \in Int /\ td_max[Ref] \in Int
          /\ td_min[Ref] <= Truth(Ref) /\ Truth(Ref) <= td_max[Ref]
      BY <1>0, Two DEF Alone, BoundsOf, Types
    <3> QED BY <1>0, <1>3, <2>3, <3>1, Finishing
  <2>6. Types'
    <3>1. t_last' \in [Proc -> Int]
      BY <1>0, <1>3, <2>2 DEF Types
    <3> QED BY <1>0, <1>3, <2>3, <2>4, <2>5, <3>1 DEF Types
  <2>7. Rests'
    <3>1. Upon(Client)'
      BY <1>2, <2>1 DEF Upon, Same
    <3>2. Quiet'
      BY <2>4, Two DEF Quiet
    <3> QED BY <1>2, <2>1, <2>5, <3>1, <3>2 DEF Rests, SameCount, ClientWaits, Same
  <2>8. Together'
    <3>1. pc'[Ref] # "main"
      BY <2>5 DEF Upon
    <3> QED BY <1>0, <2>7, <3>1 DEF Together, SKaMPIInv
  <2> QED BY <1>0, <1>2, <2>5, <2>6, <2>8, StepOf, Two
<1> QED BY <1>1, <1>4, <1>5

LEMMA ClientLoopKeeps ==
    ASSUME IInv, NEW p \in Proc, ClientLoop(p)
    PROVE  IInv'
<1>0. /\ p = Client /\ pc[Client] = "loop" /\ CanRecv(Client, PpTag)
      /\ setup' = setup /\ now' = now
      /\ Types /\ Alone(Client) /\ Own(Ref) /\ Own(Client) /\ setup.alg # "pingpong"
  BY Two DEF ClientLoop, IInv, Own, Alone
<1>1. LoopTo \/ RefEnded \/ EndAndFirst
  <2>1. chan[Client] # <<>>
    BY <1>0, NothingToReceive
  <2>2. pc[Ref] # "main"
    <3>1. pc[Ref] = "main" => MainInv
      BY <1>0 DEF IInv, Together
    <3>2. ~MainInv
      BY <1>0, <2>1, Two DEF MainInv, TripTo, TripBack, Quiet, At, InFlight
    <3> QED BY <3>1, <3>2
  <2>3. SKaMPIInv
    BY <1>0, <2>2, SKaMPICase
  <2> QED BY <1>0, <2>1, <2>3, Two
          DEF SKaMPIInv, Rests, FirstTo, FirstBack, FirstEnd, LoopBack, ClientEnded,
              ClientWaits, Upon, Quiet, InFlight, At
<1> DEFINE s == Received(Client, PpTag)
           lo == Larger(td_min[Client], s - Time(Client))
           hi == Smaller(td_max[Client], s - t_now[Client])
           stop == Stops(Client, Time(Client) - t_now[Client])
           n == Message(Client, PpTag, IF stop THEN invalid_time ELSE Time(Client),
                        <<"loop", i[Client] + 1>>)
<1>2. Same(Ref)
  <2>1. \A q \in Proc \ {Client} : /\ pc'[q] = pc[q] /\ i'[q] = i[q] /\ hash'[q] = hash[q]
                                   /\ count'[q] = count[q] /\ offset'[q] = offset[q]
    <3>1. \/ Finish(Client, td_min[Client], td_max[Client]) \/ Finish(Client, lo, hi)
          \/ i' = [i EXCEPT ![Client] = @ + 1] /\ UNCHANGED <<pc, count, hash, offset>>
      BY <1>0 DEF ClientLoop
    <3>2. CASE i' = [i EXCEPT ![Client] = @ + 1] /\ UNCHANGED <<pc, count, hash, offset>>
      BY <1>0, <3>2 DEF Types
    <3> QED BY <1>0, <3>1, <3>2, FinishFrame
  <2>2. /\ \A q \in Proc \ {Client} : /\ td_min'[q] = td_min[q] /\ td_max'[q] = td_max[q]
                                      /\ s_last'[q] = s_last[q] /\ t_last'[q] = t_last[q]
                                      /\ t_now'[q] = t_now[q]
        /\ s_now' = s_now /\ rtt' = rtt
    BY <1>0 DEF ClientLoop, Types, trips
  <2> QED BY <2>1, <2>2, Two DEF Same
<1>3. /\ s_last' = [s_last EXCEPT ![Client] = s]
      /\ t_last' = [t_last EXCEPT ![Client] = t_now[Client]]
      /\ t_now' = [t_now EXCEPT ![Client] = Time(Client)]
      /\ s_now' = s_now /\ ping_pong_min_time' = ping_pong_min_time
      /\ rtt' = rtt /\ samples' = samples
  BY <1>0 DEF ClientLoop, trips
<1>4. ASSUME s \in Int
      PROVE  /\ s_last' \in [Proc -> Int] /\ t_last' \in [Proc -> Int]
             /\ t_now' \in [Proc -> Int] /\ t_now'[Client] = now + setup.diff
             /\ s_now' \in [Proc -> Int] /\ ping_pong_min_time' \in [Proc -> Int]
             /\ samples' \in [Proc -> Seq(Int)] /\ DOMAIN rtt' = Proc
             /\ setup' \in Setups /\ now' \in Nat \ {0}
  <2>1. Time(Client) = now + setup.diff /\ now \in Int /\ setup.diff \in Int
    BY <1>0, SetupFacts
  <2>2. t_now[Client] \in Int
    BY <1>0, Typed
  <2> HIDE DEF s
  <2>3. /\ s_last \in [Proc -> Int] /\ t_last \in [Proc -> Int] /\ t_now \in [Proc -> Int]
        /\ Client \in Proc
    BY <1>0, Two DEF Types
  <2>4. s_last' \in [Proc -> Int]
    BY <1>3, <1>4, <2>3
  <2>5. t_last' \in [Proc -> Int]
    BY <1>3, <2>2, <2>3
  <2>6. t_now' \in [Proc -> Int] /\ t_now'[Client] = now + setup.diff
    BY <1>3, <2>1, <2>3
  <2>7. /\ s_now' \in [Proc -> Int] /\ ping_pong_min_time' \in [Proc -> Int]
        /\ samples' \in [Proc -> Seq(Int)] /\ DOMAIN rtt' = Proc
        /\ setup' \in Setups /\ now' \in Nat \ {0}
    BY <1>0, <1>3 DEF Types
  <2> QED BY <2>4, <2>5, <2>6, <2>7
<1>5. CASE LoopTo
  <2>1. /\ SameCount /\ i[Ref] = i[Client] + 1 /\ pc[Ref] = "loop" /\ i[Client] \in Nat
        /\ chan[Client] = <<M(PpTag, ValueTo(Client), ~setup.eager, count[Client],
                              <<"loop", i[Client] + 1>>)>>
        /\ chan[Ref] = <<>> /\ DOMAIN chan = Proc
        /\ ValueTo(Client) = s_now[Ref] /\ s_now[Ref] >= 0 /\ s_now[Ref] \in Int
        /\ t_now[Client] - setup.diff <= s_now[Ref] /\ s_now[Ref] <= now
        /\ t_now[Client] \in Int /\ td_min[Client] \in Int /\ td_max[Client] \in Int
        /\ count[Client] \in Nat
    BY <1>0, <1>5, Two DEF LoopTo, At, InFlight, Types
  <2>2. s = s_now[Ref]
    <3>1. M(PpTag, ValueTo(Client), ~setup.eager, count[Client],
            <<"loop", i[Client] + 1>>).value = ValueTo(Client)
      BY DEF M
    <3> QED BY <1>0, <2>1, <3>1, ReceiveOnly
  <2>3. /\ td_min' = [td_min EXCEPT ![Client] = lo]
        /\ td_max' = [td_max EXCEPT ![Client] = hi]
        /\ RecvSend(Client, PpTag, n)
        /\ IF stop THEN Finish(Client, lo, hi)
           ELSE i' = [i EXCEPT ![Client] = @ + 1] /\ UNCHANGED <<pc, count, hash, offset>>
    <3>1. ~(s < 0)
      BY <2>1, <2>2
    <3>2. ClientLoop(Client)
      BY <1>0
    <3> QED BY <3>1, <3>2 DEF ClientLoop
  <2> HIDE DEF stop, s, n
  <2>4. /\ lo \in Int /\ hi \in Int /\ lo <= Truth(Client) /\ Truth(Client) <= hi
    <3>1. /\ now \in Int /\ setup.diff \in Int /\ Time(Client) = now + setup.diff
          /\ Truth(Client) = -setup.diff
      BY <1>0, SetupFacts
    <3>2. td_min[Client] <= -setup.diff /\ -setup.diff <= td_max[Client]
      BY <1>0, <3>1 DEF Alone, BoundsOf
    <3>3. /\ s - Time(Client) \in Int /\ s - Time(Client) <= -setup.diff
          /\ s - t_now[Client] \in Int /\ -setup.diff <= s - t_now[Client]
      <4>1. /\ s \in Int /\ t_now[Client] \in Int /\ t_now[Client] - setup.diff <= s
            /\ s <= now
        BY <2>1, <2>2
      <4>2. now \in Int /\ setup.diff \in Int /\ Time(Client) = now + setup.diff
        BY <1>0, SetupFacts
      <4> QED BY <4>1, <4>2
    <3>4. lo = (IF td_min[Client] >= s - Time(Client) THEN td_min[Client] ELSE s - Time(Client))
      BY <2>1, <3>3, LargerSmaller
    <3>5. hi = (IF td_max[Client] <= s - t_now[Client] THEN td_max[Client]
                ELSE s - t_now[Client])
      BY <2>1, <3>3, LargerSmaller
    <3> HIDE DEF lo, hi
    <3> QED BY <2>1, <3>1, <3>2, <3>3, <3>4, <3>5
  <2> HIDE DEF lo, hi
  <2>5. /\ DOMAIN chan' = Proc /\ chan'[Client] = <<>> /\ chan'[Ref] = <<n>>
    <3>1. /\ Client \in Proc /\ chan[Other(Client)] = <<>> /\ CanRecv(Client, PpTag)
          /\ RecvSend(Client, PpTag, n)
      BY <1>0, <2>1, <2>3, Two
    <3>2. PICK m : chan[Client] = <<m>>
      BY <2>1
    <3>3. DOMAIN chan = Proc
      BY <2>1
    <3>4. /\ DOMAIN chan' = Proc /\ chan'[Client] = <<>> /\ chan'[Other(Client)] = <<n>>
      BY <3>1, <3>2, <3>3, Passing
    <3> QED BY <3>4, Two
  <2>6. /\ td_min' \in [Proc -> Int] /\ td_max' \in [Proc -> Int]
        /\ td_min'[Client] = lo /\ td_max'[Client] = hi
    BY <1>0, <2>3, <2>4 DEF Types
  <2>7. n = M(PpTag, IF stop THEN invalid_time ELSE now + setup.diff, ~setup.eager,
              count[Ref], <<"loop", i[Ref]>>)
    BY <1>0, <2>1, SetupFacts DEF n, Message, M, SameCount
  <2>8. CASE stop
    <3>1. Finish(Client, lo, hi)
      BY <2>3, <2>8
    <3>2. /\ DOMAIN offset' = Proc /\ DOMAIN hash' = Proc
          /\ count' \in [Proc -> Nat \ {0}] /\ count'[Client] = count[Client] + 1
          /\ i' \in [Proc -> Nat] /\ pc' \in [Proc -> PC]
          /\ Upon(Client)' /\ Alone(Client)'
      BY <1>0, <1>3, <2>4, <3>1, Finishing
    <3>3. Types'
      BY <1>4, <2>1, <2>2, <2>5, <2>6, <3>2 DEF Types
    <3>4. ClientEnded'
      <4>1. InFlight(Ref, PpTag, ~setup.eager, count[Ref], <<"loop", i[Ref]>>)'
            /\ ValueTo(Ref)' = invalid_time
        <5>1. n.value = invalid_time
          BY <2>7, <2>8 DEF M
        <5> QED BY <1>0, <1>2, <2>5, <2>7, <2>8, <5>1, Two DEF InFlight, ValueTo, Same
      <4> QED BY <1>2, <2>1, <3>2, <4>1 DEF ClientEnded, Same, SameCount, invalid_time
    <3>5. Together'
      BY <1>0, <1>2, <2>1, <3>4 DEF Together, SKaMPIInv, Same
    <3> QED BY <1>0, <1>2, <3>2, <3>3, <3>5, StepOf, Two
  <2>9. CASE ~stop
    <3>1. /\ i' = [i EXCEPT ![Client] = @ + 1] /\ UNCHANGED <<pc, count, hash, offset>>
      BY <2>3, <2>9
    <3>2. /\ i' \in [Proc -> Nat] /\ i'[Client] = i[Client] + 1
      BY <1>0, <3>1 DEF Types
    <3>3. Types'
      <4>1. /\ pc' \in [Proc -> PC] /\ count' \in [Proc -> Nat \ {0}]
            /\ DOMAIN hash' = Proc /\ DOMAIN offset' = Proc
        BY <1>0, <3>1 DEF Types
      <4> QED BY <1>4, <2>1, <2>2, <2>5, <2>6, <3>2, <4>1 DEF Types
    <3>4. Alone(Client)'
      BY <1>0, <1>3, <2>4, <2>6, <3>1 DEF Alone, Own, Estimate, BoundsOf, Truth
    <3>5. LoopBack'
      <4>1. InFlight(Ref, PpTag, ~setup.eager, count[Ref], <<"loop", i[Ref]>>)'
            /\ ValueTo(Ref)' = now + setup.diff
        <5>1. n.value = now + setup.diff
          BY <2>7, <2>9 DEF M
        <5> QED BY <1>0, <1>2, <2>5, <2>7, <2>9, <5>1, Two DEF InFlight, ValueTo, Same
      <4>2. /\ now \in Int /\ setup.diff \in Int /\ now + setup.diff >= 0
            /\ t_now'[Client] = now + setup.diff
        BY <1>0, <1>4, <2>1, <2>2, SetupFacts
      <4> QED BY <1>0, <1>2, <2>1, <3>1, <3>2, <4>1, <4>2
              DEF LoopBack, Same, SameCount, At
    <3>6. Together'
      BY <1>0, <2>1, <3>1, <3>5 DEF Together, SKaMPIInv
    <3> QED BY <1>0, <1>2, <3>3, <3>4, <3>6, StepOf, Two
  <2> QED BY <2>8, <2>9
<1>6. CASE RefEnded \/ EndAndFirst
  <2>1. /\ count[Ref] = count[Client] + 1 /\ DOMAIN chan = Proc /\ chan[Ref] = <<>>
        /\ pc[Ref] # "main" /\ pc[Ref] \in {"start", "first", "done"}
    BY <1>0, <1>6, Two DEF RefEnded, EndAndFirst, InFlight, Types, Upon, At
  <2>2. /\ s = -1
        /\ RefEnded => Rest(Client, PpTag) = <<>>
        /\ EndAndFirst => Rest(Client, PpTag) =
               <<M(PpTag, s_last[Ref], ~setup.eager, count[Ref], <<"first", 0>>)>>
    <3> DEFINE m == M(PpTag, invalid_time, ~setup.eager, count[Client],
                      <<"loop", i[Client] + 1>>)
               m2 == M(PpTag, s_last[Ref], ~setup.eager, count[Ref], <<"first", 0>>)
    <3>1. m.tag = PpTag /\ m.value = -1
      BY DEF M, invalid_time
    <3>2. CASE RefEnded
      <4>1. chan[Client] = <<m>>
        BY <3>2, Two DEF RefEnded, InFlight
      <4>2. ~EndAndFirst
        <5>1. Len(<<m>>) = 1 /\ Len(<<m, m2>>) = 2
          OBVIOUS
        <5> HIDE DEF m, m2
        <5>2. <<m>> # <<m, m2>>
          BY <5>1
        <5> QED BY <4>1, <5>2 DEF EndAndFirst, m, m2
      <4> HIDE DEF m
      <4> QED BY <1>0, <3>1, <4>1, <4>2, ReceiveOnly
    <3>3. CASE EndAndFirst
      <4>1. chan[Client] = <<m, m2>>
        BY <3>3 DEF EndAndFirst
      <4>2. ~RefEnded
        BY <3>3 DEF RefEnded, EndAndFirst, Upon, At
      <4> HIDE DEF m
      <4> QED BY <1>0, <3>1, <4>1, <4>2, ReceiveFirst
    <3> QED BY <1>6, <3>2, <3>3
  <2>3. /\ Recv(Client, PpTag) /\ Finish(Client, td_min[Client], td_max[Client])
        /\ UNCHANGED <<td_min, td_max>>
    BY <1>0, <2>2 DEF ClientLoop
  <2>4. /\ DOMAIN chan' = Proc /\ chan'[Ref] = <<>> /\ chan'[Client] = Rest(Client, PpTag)
    BY <2>1, <2>3, Two DEF Recv
  <2>5. /\ DOMAIN offset' = Proc /\ DOMAIN hash' = Proc
        /\ count' \in [Proc -> Nat \ {0}] /\ count'[Client] = count[Client] + 1
        /\ i' \in [Proc -> Nat] /\ pc' \in [Proc -> PC]
        /\ Upon(Client)' /\ Alone(Client)'
    <3>1. /\ td_min[Client] \in Int /\ td_max[Client] \in Int
          /\ td_min[Client] <= Truth(Client) /\ Truth(Client) <= td_max[Client]
      BY <1>0, Two DEF Alone, BoundsOf, Types
    <3> QED BY <1>0, <1>3, <2>3, <3>1, Finishing
  <2>6. Types'
    <3>1. td_min' \in [Proc -> Int] /\ td_max' \in [Proc -> Int]
      BY <1>0, <2>3 DEF Types
    <3>2. s \in Int
      BY <2>2
    <3> HIDE DEF s
    <3> QED BY <1>4, <2>4, <2>5, <3>1, <3>2 DEF Types
  <2>7. Rests' \/ FirstTo'
    <3>1. SameCount' /\ ClientWaits'
      BY <1>2, <2>1, <2>5 DEF SameCount, ClientWaits, Same
    <3>2. CASE RefEnded
      <4>1. Quiet'
        BY <2>2, <2>4, <3>2, Two DEF Quiet
      <4> QED BY <1>2, <3>1, <3>2, <4>1 DEF RefEnded, Rests, Upon, Same
    <3>3. CASE EndAndFirst
      <4>1. InFlight(Client, PpTag, ~setup.eager, count[Client], <<"first", 0>>)'
            /\ ValueTo(Client)' = s_last[Ref]
        <5> DEFINE m2 == M(PpTag, s_last[Ref], ~setup.eager, count[Ref], <<"first", 0>>)
        <5>1. m2.value = s_last[Ref] /\ chan'[Client] = <<m2>>
          BY <2>2, <2>4, <3>3 DEF M
        <5>2. ValueTo(Client)' = s_last[Ref]
          BY <5>1 DEF ValueTo
        <5> QED BY <1>0, <1>2, <2>1, <2>4, <2>5, <5>1, <5>2, Two DEF InFlight, Same
      <4> QED BY <1>0, <1>2, <3>1, <3>3, <4>1 DEF EndAndFirst, FirstTo, At, Same
    <3> QED BY <1>6, <3>2, <3>3
  <2>8. Together'
    BY <1>0, <1>2, <2>1, <2>7 DEF Together, SKaMPIInv, Same
  <2> QED BY <1>0, <1>2, <2>5, <2>6, <2>8, StepOf, Two
<1> QED BY <1>1, <1>5, <1>6

LEMMA SKaMPIStartKeeps ==
    ASSUME IInv, NEW p \in Proc, SKaMPIStart(p), setup.alg # "pingpong"
    PROVE  IInv'
<1>0. /\ pc[p] = "start" /\ i[p] = 0 /\ Types /\ Alone(p) /\ Together
      /\ pc' = [pc EXCEPT ![p] = "first"] /\ pc'[p] = "first" /\ pc'[Other(p)] = pc[Other(p)]
      /\ UNCHANGED <<setup, now, count, i, times, td_min, td_max, trips, chan, offset>>
  <2>1. pc[p] = "start" /\ Types /\ Alone(p) /\ Together /\ Own(p)
    BY DEF SKaMPIStart, IInv, Alone
  <2>2. /\ pc' = [pc EXCEPT ![p] = "first"]
        /\ UNCHANGED <<setup, now, count, i, times, td_min, td_max, trips, chan, offset>>
    BY DEF SKaMPIStart
  <2>3. pc \in [Proc -> PC] /\ Other(p) \in Proc /\ Other(p) # p
    BY <2>1, Two DEF Types
  <2>4. i[p] = 0
    BY <2>1 DEF Own
  <2>5. pc'[p] = "first" /\ pc'[Other(p)] = pc[Other(p)]
    BY <2>2, <2>3
  <2> QED BY <2>1, <2>2, <2>4, <2>5
<1>1. /\ DOMAIN hash' = Proc /\ hash'[Other(p)] = hash[Other(p)]
      /\ ping_pong_min_time' \in [Proc -> Int]
  <2>1. CASE setup.alg = "skampi" /\ hash[p] = {}
    <3>1. /\ ping_pong_min_time' = [ping_pong_min_time EXCEPT ![p] = 0]
          /\ hash' = [hash EXCEPT ![p] = {0}]
      BY <2>1 DEF SKaMPIStart
    <3>2. /\ p \in Proc /\ Other(p) \in Proc /\ Other(p) # p /\ DOMAIN hash = Proc
          /\ ping_pong_min_time \in [Proc -> Int]
      BY <1>0, Two DEF Types
    <3>3. DOMAIN hash' = Proc /\ hash'[Other(p)] = hash[Other(p)]
      BY <3>1, <3>2
    <3>4. ping_pong_min_time' \in [Proc -> Int]
      BY <3>1, <3>2
    <3> QED BY <3>3, <3>4
  <2>2. CASE ~(setup.alg = "skampi" /\ hash[p] = {})
    <3>1. /\ ping_pong_min_time' = [ping_pong_min_time EXCEPT ![p] = -1]
          /\ hash' = hash
      BY <2>2 DEF SKaMPIStart, invalid_time
    <3>2. /\ p \in Proc /\ Other(p) \in Proc /\ Other(p) # p /\ DOMAIN hash = Proc
          /\ ping_pong_min_time \in [Proc -> Int]
      BY <1>0, Two DEF Types
    <3>3. DOMAIN hash' = Proc /\ hash'[Other(p)] = hash[Other(p)]
      BY <3>1, <3>2
    <3>4. ping_pong_min_time' \in [Proc -> Int]
      BY <3>1, <3>2
    <3> QED BY <3>3, <3>4
  <2> QED BY <2>1, <2>2
<1>2. Types'
  <2>1. pc' \in [Proc -> PC]
    BY <1>0 DEF Types, PC
  <2> QED BY <1>0, <1>1, <2>1 DEF Types, times, trips
<1>3. Same(Other(p))
  BY <1>0, <1>1 DEF Same, times, trips
<1>4. Alone(p)'
  BY <1>0 DEF Alone, Own, Estimate, times, trips
<1>5. Together'
  <2>1. CASE p = Ref
    <3>1. Rests \/ RefEnded
      BY <1>0, <2>1, Two DEF Together, SKaMPIInv, FirstTo, FirstBack, FirstEnd, LoopBack,
                             LoopTo, EndAndFirst, ClientEnded, At
    <3>2. Rests => Rests'
      BY <1>0, <2>1, Two DEF Rests, SameCount, Quiet, Upon, ClientWaits, At, Trips
    <3>3. RefEnded => RefEnded'
      BY <1>0, <2>1, Two DEF RefEnded, Upon, InFlight, ValueTo, At
    <3> QED BY <1>0, <2>1, <3>1, <3>2, <3>3 DEF Together, SKaMPIInv
  <2>2. CASE p = Client
    <3>1. CASE pc[Ref] = "main"
      <4>1. SameCount /\ TripBack("main")
        BY <1>0, <2>2, <3>1, Two DEF Together, MainInv, TripTo, At
      <4>2. TripBack("main")'
        BY <1>0, <2>2, <3>1, <4>1, Two DEF TripBack, InFlight, ValueTo, At, Trips
      <4> QED BY <1>0, <2>2, <3>1, <4>1, <4>2, Two DEF Together, MainInv, SameCount
    <3>2. CASE pc[Ref] # "main"
      <4>1. Rests \/ FirstTo \/ ClientEnded
        BY <1>0, <2>2, <3>2, Two DEF Together, SKaMPIInv, FirstBack, FirstEnd, LoopBack,
                                     LoopTo, RefEnded, EndAndFirst, At
      <4>2. ClientWaits => ClientWaits'
        BY <1>0, <2>2 DEF ClientWaits, Upon, At
      <4>3. Rests => Rests'
        BY <1>0, <2>2, <4>2, Two DEF Rests, SameCount, Quiet, Upon
      <4>4. FirstTo => FirstTo'
        BY <1>0, <2>2, <4>2, Two DEF FirstTo, SameCount, InFlight, ValueTo, At, times
      <4>5. ClientEnded => ClientEnded'
        BY <1>0, <2>2, Two DEF ClientEnded, Upon, InFlight, ValueTo
      <4> QED BY <1>0, <2>2, <3>2, <4>1, <4>3, <4>4, <4>5, Two DEF Together, SKaMPIInv
    <3> QED BY <3>1, <3>2
  <2> QED BY <2>1, <2>2, Two
<1> QED BY <1>0, <1>2, <1>3, <1>4, <1>5, StepOf

LEMMA RefSendKeeps ==
    ASSUME IInv, NEW p \in Proc, RefSend(p)
    PROVE  IInv'
<1> DEFINE n == Message(Ref, PpTag, Time(Ref), <<"first", 0>>)
<1>0. /\ p = Ref /\ pc[Ref] = "first" /\ i[Ref] = 0 /\ Types /\ Alone(Ref) /\ Together
      /\ Own(Ref) /\ setup.alg # "pingpong" /\ Send(Ref, n)
      /\ s_last' = [s_last EXCEPT ![Ref] = Time(Ref)] /\ i' = [i EXCEPT ![Ref] = 1]
      /\ UNCHANGED <<setup, now, pc, count, s_now, t_last, t_now, bounds, hash, trips, offset>>
  BY Two DEF RefSend, IInv, Alone, Own
<1>1. n = M(PpTag, now, ~setup.eager, count[Ref], <<"first", 0>>) /\ now \in Nat
  BY <1>0, SetupFacts DEF Message, M
<1> HIDE DEF n
<1>2. /\ i'[Ref] = 1 /\ s_last'[Ref] = now /\ i' \in [Proc -> Nat] /\ s_last' \in [Proc -> Int]
      /\ i'[Client] = i[Client] /\ s_last'[Client] = s_last[Client]
  <2>1. Time(Ref) = now /\ Time(Ref) \in Int
    BY <1>0, <1>1, SetupFacts
  <2>2. i \in [Proc -> Nat] /\ s_last \in [Proc -> Int] /\ Ref \in Proc
    BY <1>0, Two DEF Types
  <2>3. /\ s_last'[Ref] = Time(Ref) /\ s_last' \in [Proc -> Int]
        /\ s_last'[Client] = s_last[Client]
    BY <1>0, <2>1, <2>2, Two
  <2>4. i'[Ref] = 1 /\ i' \in [Proc -> Nat] /\ i'[Client] = i[Client]
    BY <1>0, <2>2, Two
  <2> QED BY <2>1, <2>3, <2>4
<1>3. Same(Client)
  BY <1>0, <1>2 DEF Same, bounds, trips
<1>4. Alone(Ref)'
  BY <1>0, <1>2 DEF Alone, Own, Estimate, trips
<1>5. Rests \/ RefEnded
  BY <1>0, Two DEF Together, SKaMPIInv, FirstTo, FirstBack, FirstEnd, LoopBack, LoopTo,
                   EndAndFirst, ClientEnded, At
<1>6. CASE Rests
  <2>1. /\ chan[Ref] = <<>> /\ chan[Client] = <<>> /\ DOMAIN chan = Proc
    BY <1>0, <1>6, Two DEF Rests, Quiet, Types
  <2>2. DOMAIN chan' = Proc /\ chan'[Client] = <<n>> /\ chan'[Ref] = <<>>
    <3>1. DOMAIN chan' = Proc /\ chan'[Other(Ref)] = <<n>> /\ chan'[Ref] = chan[Ref]
      BY <1>0, <2>1, Sending, Two
    <3> QED BY <2>1, <3>1, Two
  <2>3. Types'
    BY <1>0, <1>2, <2>2 DEF Types, bounds, trips
  <2>4. FirstTo'
    <3>1. n.value = now
      BY <1>1 DEF M
    <3>2. InFlight(Client, PpTag, ~setup.eager, count[Client], <<"first", 0>>)'
          /\ ValueTo(Client)' = now
      BY <1>0, <1>1, <1>6, <2>2, <3>1, Two DEF InFlight, ValueTo, Rests, SameCount
    <3>3. ClientWaits'
      BY <1>0, <1>2, <1>6 DEF Rests, ClientWaits, Upon, At, Trips
    <3> QED BY <1>0, <1>1, <1>2, <1>6, <3>2, <3>3 DEF FirstTo, Rests, SameCount, At
  <2>5. Together'
    BY <1>0, <2>4 DEF Together, SKaMPIInv
  <2> QED BY <1>0, <1>3, <1>4, <2>3, <2>5, StepOf, Two
<1>7. CASE RefEnded
  <2> DEFINE m == M(PpTag, invalid_time, ~setup.eager, count[Client], <<"loop", i[Client] + 1>>)
  <2>1. /\ chan[Ref] = <<>> /\ chan[Client] = <<m>> /\ DOMAIN chan = Proc
    BY <1>0, <1>7, Two DEF RefEnded, InFlight, Types
  <2>2. DOMAIN chan' = Proc /\ chan'[Client] = <<m, n>> /\ chan'[Ref] = <<>>
    <3> HIDE DEF m
    <3>1. Append(<<m>>, n) = <<m, n>>
      BY Appending
    <3> QED BY <1>0, <2>1, <3>1, Two DEF Send
  <2>3. Types'
    BY <1>0, <1>2, <2>2 DEF Types, bounds, trips
  <2>4. EndAndFirst'
    <3>1. m' = m /\ n = M(PpTag, s_last'[Ref], ~setup'.eager, count'[Ref], <<"first", 0>>)
      BY <1>0, <1>1, <1>2
    <3>2. chan'[Client] = <<m', M(PpTag, s_last'[Ref], ~setup'.eager, count'[Ref], <<"first", 0>>)>>
      BY <2>2, <3>1
    <3>3. /\ count'[Ref] = count'[Client] + 1 /\ pc'[Ref] = "first" /\ i'[Ref] = 1
          /\ pc'[Client] = "loop" /\ s_last'[Ref] <= now'
      BY <1>0, <1>1, <1>2, <1>7 DEF RefEnded
    <3> QED BY <2>2, <3>2, <3>3 DEF EndAndFirst, At
  <2>5. Together'
    BY <1>0, <2>4 DEF Together, SKaMPIInv
  <2> QED BY <1>0, <1>3, <1>4, <2>3, <2>5, StepOf, Two
<1> QED BY <1>5, <1>6, <1>7

LEMMA ClientReplyKeeps ==
    ASSUME IInv, NEW p \in Proc, ClientReply(p)
    PROVE  IInv'
<1> DEFINE n == Message(Client, PpTag, Time(Client), <<"first", 1>>)
           v == Received(Client, PpTag)
<1>0. /\ p = Client /\ pc[Client] = "first" /\ i[Client] = 0 /\ Types /\ Alone(Client)
      /\ Together /\ Own(Ref) /\ Own(Client) /\ setup.alg # "pingpong"
      /\ CanRecv(Client, PpTag) /\ RecvSend(Client, PpTag, n)
      /\ s_last' = [s_last EXCEPT ![Client] = v]
      /\ t_last' = [t_last EXCEPT ![Client] = Time(Client)]
      /\ i' = [i EXCEPT ![Client] = 1]
      /\ UNCHANGED <<setup, now, pc, count, s_now, t_now, bounds, hash, trips, offset>>
  BY Two DEF ClientReply, IInv, Alone, Own
<1>1. FirstTo /\ pc[Ref] # "main"
  <2>1. chan[Client] # <<>>
    BY <1>0, NothingToReceive
  <2>2. pc[Ref] # "main"
    BY <1>0, <2>1, Two DEF Together, MainInv, TripTo, TripBack, Quiet, At, InFlight
  <2> QED BY <1>0, <2>1, <2>2, Two
          DEF Together, SKaMPIInv, Rests, FirstBack, FirstEnd, LoopBack, LoopTo, RefEnded,
              EndAndFirst, ClientEnded, Upon, Quiet, InFlight, At
<1>2. /\ SameCount /\ pc[Ref] = "first" /\ i[Ref] = 1
      /\ chan[Client] = <<M(PpTag, ValueTo(Client), ~setup.eager, count[Client], <<"first", 0>>)>>
      /\ chan[Ref] = <<>> /\ DOMAIN chan = Proc
      /\ ValueTo(Client) = s_last[Ref] /\ s_last[Ref] <= now /\ s_last[Ref] \in Int
  BY <1>0, <1>1, Two DEF FirstTo, At, InFlight, Types
<1>3. v = s_last[Ref]
  <2>1. M(PpTag, ValueTo(Client), ~setup.eager, count[Client], <<"first", 0>>).value
            = ValueTo(Client)
    BY DEF M
  <2> QED BY <1>0, <1>2, <2>1, ReceiveOnly
<1>4. /\ n = M(PpTag, now + setup.diff, ~setup.eager, count[Ref], <<"first", 1>>)
      /\ now \in Nat /\ setup.diff \in Int /\ Time(Client) = now + setup.diff
  BY <1>0, <1>2, SetupFacts DEF Message, M, SameCount
<1> HIDE DEF n, v
<1>5. DOMAIN chan' = Proc /\ chan'[Client] = <<>> /\ chan'[Ref] = <<n>>
  <2>1. PICK m : chan[Client] = <<m>>
    BY <1>2
  <2>2. /\ Client \in Proc /\ chan[Other(Client)] = <<>> /\ CanRecv(Client, PpTag)
        /\ RecvSend(Client, PpTag, n) /\ DOMAIN chan = Proc
    BY <1>0, <1>2, Two DEF Types
  <2>3. DOMAIN chan' = Proc /\ chan'[Client] = <<>> /\ chan'[Other(Client)] = <<n>>
    BY <2>1, <2>2, Passing
  <2> QED BY <2>3, Two
<1>6. /\ i' \in [Proc -> Nat] /\ i'[Client] = 1 /\ i'[Ref] = i[Ref]
      /\ s_last' \in [Proc -> Int] /\ s_last'[Client] = s_last[Ref] /\ s_last'[Ref] = s_last[Ref]
      /\ t_last' \in [Proc -> Int] /\ t_last'[Client] = now + setup.diff
      /\ t_last'[Ref] = t_last[Ref]
  <2>1. /\ Client \in Proc /\ i \in [Proc -> Nat]
        /\ s_last \in [Proc -> Int] /\ t_last \in [Proc -> Int]
        /\ v \in Int /\ Time(Client) \in Int
    <3>1. v \in Int /\ Time(Client) \in Int
      BY <1>2, <1>3, <1>4
    <3> QED BY <1>0, <3>1, Two DEF Types
  <2>2. i' \in [Proc -> Nat] /\ i'[Client] = 1 /\ i'[Ref] = i[Ref]
    BY <1>0, <2>1, Two
  <2>3. s_last' \in [Proc -> Int] /\ s_last'[Client] = v /\ s_last'[Ref] = s_last[Ref]
    BY <1>0, <2>1, Two
  <2>4. /\ t_last' \in [Proc -> Int] /\ t_last'[Client] = Time(Client)
        /\ t_last'[Ref] = t_last[Ref]
    BY <1>0, <2>1, Two
  <2> QED BY <1>3, <1>4, <2>2, <2>3, <2>4
<1>7. Types'
  BY <1>0, <1>5, <1>6 DEF Types, bounds, trips
<1>8. Same(Ref)
  BY <1>0, <1>6 DEF Same, bounds, trips
<1>9. Alone(Client)'
  BY <1>0, <1>6 DEF Alone, Own, Estimate, trips
<1>10. FirstBack'
  <2>1. n.value = now + setup.diff
    BY <1>4 DEF M
  <2>2. InFlight(Ref, PpTag, ~setup.eager, count[Ref], <<"first", 1>>)'
        /\ ValueTo(Ref)' = now + setup.diff
    BY <1>0, <1>4, <1>5, <2>1, Two DEF InFlight, ValueTo
  <2> QED BY <1>0, <1>2, <1>4, <1>6, <2>2 DEF FirstBack, SameCount, At
<1>11. Together'
  BY <1>0, <1>1, <1>10 DEF Together, SKaMPIInv
<1> QED BY <1>0, <1>7, <1>8, <1>9, <1>11, StepOf, Two

LEMMA RefFirstKeeps ==
    ASSUME IInv, NEW p \in Proc, RefFirst(p)
    PROVE  IInv'
<1> DEFINE n == Message(Ref, PpTag, Time(Ref), <<"first", 2>>)
           v == Received(Ref, PpTag)
<1>0. /\ p = Ref /\ pc[Ref] = "first" /\ i[Ref] = 1 /\ Types /\ Alone(Ref)
      /\ Together /\ Own(Ref) /\ setup.alg # "pingpong"
      /\ CanRecv(Ref, PpTag) /\ RecvSend(Ref, PpTag, n)
      /\ t_last' = [t_last EXCEPT ![Ref] = v]
      /\ s_now' = [s_now EXCEPT ![Ref] = Time(Ref)]
      /\ td_min' = [td_min EXCEPT ![Ref] = v - Time(Ref)]
      /\ td_max' = [td_max EXCEPT ![Ref] = v - s_last[Ref]]
      /\ pc' = [pc EXCEPT ![Ref] = "loop"] /\ i' = [i EXCEPT ![Ref] = 1]
      /\ UNCHANGED <<setup, now, count, s_last, t_now, ping_pong_min_time, hash, trips, offset>>
  BY Two DEF RefFirst, IInv, Alone, Own
<1>1. FirstBack
  <2>1. chan[Ref] # <<>>
    BY <1>0, NothingToReceive
  <2> QED BY <1>0, <2>1, Two
          DEF Together, SKaMPIInv, Rests, FirstTo, FirstEnd, LoopBack, LoopTo, RefEnded,
              EndAndFirst, ClientEnded, Upon, Quiet, InFlight, At
<1>2. /\ SameCount /\ pc[Client] = "first" /\ i[Client] = 1
      /\ chan[Ref] = <<M(PpTag, ValueTo(Ref), ~setup.eager, count[Ref], <<"first", 1>>)>>
      /\ chan[Client] = <<>> /\ DOMAIN chan = Proc
      /\ ValueTo(Ref) = t_last[Client] /\ s_last[Ref] = s_last[Client]
      /\ s_last[Ref] <= t_last[Client] - setup.diff /\ t_last[Client] - setup.diff <= now
      /\ s_last[Ref] \in Int /\ t_last[Client] \in Int
  BY <1>0, <1>1, Two DEF FirstBack, At, InFlight, Types
<1>3. v = t_last[Client]
  <2>1. M(PpTag, ValueTo(Ref), ~setup.eager, count[Ref], <<"first", 1>>).value = ValueTo(Ref)
    BY DEF M
  <2> QED BY <1>0, <1>2, <2>1, ReceiveOnly
<1>4. /\ n = M(PpTag, now, ~setup.eager, count[Client], <<"first", 2>>)
      /\ now \in Nat /\ setup.diff \in Int /\ Time(Ref) = now /\ Truth(Ref) = setup.diff
  BY <1>0, <1>2, SetupFacts DEF Message, M, SameCount
<1> HIDE DEF n, v
<1>5. DOMAIN chan' = Proc /\ chan'[Ref] = <<>> /\ chan'[Client] = <<n>>
  <2>1. PICK m : chan[Ref] = <<m>>
    BY <1>2
  <2>2. /\ Ref \in Proc /\ chan[Other(Ref)] = <<>> /\ CanRecv(Ref, PpTag)
        /\ RecvSend(Ref, PpTag, n) /\ DOMAIN chan = Proc
    BY <1>0, <1>2, Two DEF Types
  <2>3. DOMAIN chan' = Proc /\ chan'[Ref] = <<>> /\ chan'[Other(Ref)] = <<n>>
    BY <2>1, <2>2, Passing
  <2> QED BY <2>3, Two
<1>6. /\ i' \in [Proc -> Nat] /\ i'[Ref] = 1 /\ i'[Client] = i[Client]
      /\ pc' \in [Proc -> PC] /\ pc'[Ref] = "loop" /\ pc'[Client] = pc[Client]
      /\ t_last' \in [Proc -> Int] /\ t_last'[Client] = t_last[Client]
      /\ s_now' \in [Proc -> Int] /\ s_now'[Ref] = now /\ s_now'[Client] = s_now[Client]
  <2>1. /\ Ref \in Proc /\ i \in [Proc -> Nat] /\ pc \in [Proc -> PC] /\ "loop" \in PC
        /\ t_last \in [Proc -> Int] /\ s_now \in [Proc -> Int]
        /\ v \in Int /\ Time(Ref) \in Int
    BY <1>0, <1>2, <1>3, <1>4, Two DEF Types, PC
  <2>2. i' \in [Proc -> Nat] /\ i'[Ref] = 1 /\ i'[Client] = i[Client]
    BY <1>0, <2>1, Two
  <2>3. pc' \in [Proc -> PC] /\ pc'[Ref] = "loop" /\ pc'[Client] = pc[Client]
    BY <1>0, <2>1, Two
  <2>4. t_last' \in [Proc -> Int] /\ t_last'[Client] = t_last[Client]
    BY <1>0, <2>1, Two
  <2>5. s_now' \in [Proc -> Int] /\ s_now'[Ref] = Time(Ref) /\ s_now'[Client] = s_now[Client]
    BY <1>0, <2>1, Two
  <2> QED BY <1>4, <2>2, <2>3, <2>4, <2>5
<1>7. /\ td_min' \in [Proc -> Int] /\ td_min'[Ref] = v - now /\ td_min'[Client] = td_min[Client]
      /\ td_max' \in [Proc -> Int] /\ td_max'[Ref] = v - s_last[Ref]
      /\ td_max'[Client] = td_max[Client]
  <2>1. /\ Ref \in Proc /\ td_min \in [Proc -> Int] /\ td_max \in [Proc -> Int]
        /\ Time(Ref) = now /\ v - now \in Int /\ v - s_last[Ref] \in Int
    <3>1. Time(Ref) = now /\ v - now \in Int /\ v - s_last[Ref] \in Int
      BY <1>2, <1>3, <1>4
    <3> QED BY <1>0, <3>1, Two DEF Types
  <2>2. /\ td_min' \in [Proc -> Int] /\ td_min'[Ref] = v - now
        /\ td_min'[Client] = td_min[Client]
    BY <1>0, <2>1, Two
  <2>3. /\ td_max' \in [Proc -> Int] /\ td_max'[Ref] = v - s_last[Ref]
        /\ td_max'[Client] = td_max[Client]
    BY <1>0, <2>1, Two
  <2> QED BY <2>2, <2>3
<1>8. Types'
  BY <1>0, <1>5, <1>6, <1>7 DEF Types, trips
<1>9. Same(Client)
  BY <1>0, <1>6, <1>7 DEF Same, trips
<1>10. Alone(Ref)'
  <2>1. td_min'[Ref] <= setup.diff /\ setup.diff <= td_max'[Ref]
    BY <1>2, <1>3, <1>4, <1>7
  <2>2. BoundsOf(Ref)'
    BY <1>0, <1>4, <2>1 DEF BoundsOf, Truth
  <2> QED BY <1>0, <1>6, <2>2 DEF Alone, Own, Estimate, trips
<1>11. FirstEnd'
  <2>1. n.value = now
    BY <1>4 DEF M
  <2>2. InFlight(Client, PpTag, ~setup.eager, count[Client], <<"first", 2>>)'
        /\ ValueTo(Client)' = now
    BY <1>0, <1>4, <1>5, <2>1, Two DEF InFlight, ValueTo
  <2> QED BY <1>0, <1>2, <1>4, <1>6, <2>2 DEF FirstEnd, SameCount, At
<1>12. Together'
  BY <1>0, <1>6, <1>11 DEF Together, SKaMPIInv
<1> QED BY <1>0, <1>8, <1>9, <1>10, <1>12, StepOf, Two

LEMMA ClientFirstKeeps ==
    ASSUME IInv, NEW p \in Proc, ClientFirst(p)
    PROVE  IInv'
<1> DEFINE n == Message(Client, PpTag, Time(Client), <<"loop", 1>>)
           v == Received(Client, PpTag)
           lo == Larger(s_last[Client] - t_last[Client], v - Time(Client))
<1>0. /\ p = Client /\ pc[Client] = "first" /\ i[Client] = 1 /\ Types /\ Alone(Client)
      /\ Together /\ Own(Ref) /\ Own(Client) /\ setup.alg # "pingpong"
      /\ CanRecv(Client, PpTag) /\ RecvSend(Client, PpTag, n)
      /\ s_now' = [s_now EXCEPT ![Client] = v]
      /\ t_now' = [t_now EXCEPT ![Client] = Time(Client)]
      /\ td_min' = [td_min EXCEPT ![Client] = lo]
      /\ td_max' = [td_max EXCEPT ![Client] = v - t_last[Client]]
      /\ pc' = [pc EXCEPT ![Client] = "loop"]
      /\ UNCHANGED <<setup, now, count, i, s_last, t_last, ping_pong_min_time, hash, trips,
                     offset>>
  BY Two DEF ClientFirst, IInv, Alone, Own
<1>1. FirstEnd /\ pc[Ref] # "main"
  <2>1. chan[Client] # <<>>
    BY <1>0, NothingToReceive
  <2>2. pc[Ref] # "main"
    BY <1>0, <2>1, Two DEF Together, MainInv, TripTo, TripBack, Quiet, At, InFlight
  <2> QED BY <1>0, <2>1, <2>2, Two
          DEF Together, SKaMPIInv, Rests, FirstTo, FirstBack, LoopBack, LoopTo, RefEnded,
              EndAndFirst, ClientEnded, ClientWaits, Upon, Quiet, InFlight, At
<1>2. /\ SameCount /\ pc[Ref] = "loop" /\ i[Ref] = 1
      /\ chan[Client] = <<M(PpTag, ValueTo(Client), ~setup.eager, count[Client], <<"first", 2>>)>>
      /\ chan[Ref] = <<>> /\ DOMAIN chan = Proc
      /\ ValueTo(Client) = s_now[Ref]
      /\ s_last[Client] <= t_last[Client] - setup.diff
      /\ t_last[Client] - setup.diff <= s_now[Ref] /\ s_now[Ref] <= now
      /\ s_last[Client] \in Int /\ t_last[Client] \in Int /\ s_now[Ref] \in Int
  BY <1>0, <1>1, Two DEF FirstEnd, At, InFlight, Types
<1>3. v = s_now[Ref]
  <2>1. M(PpTag, ValueTo(Client), ~setup.eager, count[Client], <<"first", 2>>).value
            = ValueTo(Client)
    BY DEF M
  <2> QED BY <1>0, <1>2, <2>1, ReceiveOnly
<1>4. /\ n = M(PpTag, now + setup.diff, ~setup.eager, count[Ref], <<"loop", 1>>)
      /\ now \in Nat /\ setup.diff \in Int /\ Time(Client) = now + setup.diff
      /\ now + setup.diff >= 0 /\ Truth(Client) = -setup.diff
  BY <1>0, <1>2, SetupFacts DEF Message, M, SameCount
<1> HIDE DEF n, v
<1>5. DOMAIN chan' = Proc /\ chan'[Client] = <<>> /\ chan'[Ref] = <<n>>
  <2>1. PICK m : chan[Client] = <<m>>
    BY <1>2
  <2>2. /\ Client \in Proc /\ chan[Other(Client)] = <<>> /\ CanRecv(Client, PpTag)
        /\ RecvSend(Client, PpTag, n) /\ DOMAIN chan = Proc
    BY <1>0, <1>2, Two DEF Types
  <2>3. DOMAIN chan' = Proc /\ chan'[Client] = <<>> /\ chan'[Other(Client)] = <<n>>
    BY <2>1, <2>2, Passing
  <2> QED BY <2>3, Two
<1>6. lo \in Int /\ lo <= -setup.diff
  <2>1. /\ s_last[Client] - t_last[Client] \in Int /\ v - Time(Client) \in Int
        /\ s_last[Client] - t_last[Client] <= -setup.diff /\ v - Time(Client) <= -setup.diff
    <3>1. /\ s_last[Client] \in Int /\ t_last[Client] \in Int /\ v \in Int
          /\ s_last[Client] <= t_last[Client] - setup.diff /\ v <= now
      BY <1>2, <1>3
    <3>2. now \in Int /\ setup.diff \in Int /\ Time(Client) = now + setup.diff
      BY <1>4
    <3> QED BY <3>1, <3>2
  <2>2. lo = (IF s_last[Client] - t_last[Client] >= v - Time(Client)
              THEN s_last[Client] - t_last[Client] ELSE v - Time(Client))
    BY <2>1, LargerSmaller
  <2> HIDE DEF lo
  <2> QED BY <2>1, <2>2
<1> HIDE DEF lo
<1>7. /\ pc' \in [Proc -> PC] /\ pc'[Client] = "loop" /\ pc'[Ref] = pc[Ref]
      /\ s_now' \in [Proc -> Int] /\ s_now'[Ref] = s_now[Ref]
      /\ t_now' \in [Proc -> Int] /\ t_now'[Client] = now + setup.diff
      /\ t_now'[Ref] = t_now[Ref]
  <2>1. /\ Client \in Proc /\ pc \in [Proc -> PC] /\ "loop" \in PC
        /\ s_now \in [Proc -> Int] /\ t_now \in [Proc -> Int]
        /\ v \in Int /\ Time(Client) \in Int
    <3>1. v \in Int /\ Time(Client) \in Int
      BY <1>2, <1>3, <1>4
    <3> QED BY <1>0, <3>1, Two DEF Types, PC
  <2>2. pc' \in [Proc -> PC] /\ pc'[Client] = "loop" /\ pc'[Ref] = pc[Ref]
    BY <1>0, <2>1, Two
  <2>3. s_now' \in [Proc -> Int] /\ s_now'[Ref] = s_now[Ref]
    BY <1>0, <2>1, Two
  <2>4. /\ t_now' \in [Proc -> Int] /\ t_now'[Client] = Time(Client)
        /\ t_now'[Ref] = t_now[Ref]
    BY <1>0, <2>1, Two
  <2> QED BY <1>4, <2>2, <2>3, <2>4
<1>8. /\ td_min' \in [Proc -> Int] /\ td_min'[Client] = lo /\ td_min'[Ref] = td_min[Ref]
      /\ td_max' \in [Proc -> Int] /\ td_max'[Client] = v - t_last[Client]
      /\ td_max'[Ref] = td_max[Ref]
  <2>1. /\ Client \in Proc /\ td_min \in [Proc -> Int] /\ td_max \in [Proc -> Int]
        /\ v - t_last[Client] \in Int
    <3>1. v - t_last[Client] \in Int
      BY <1>2, <1>3
    <3> QED BY <1>0, <3>1, Two DEF Types
  <2>2. /\ td_min' \in [Proc -> Int] /\ td_min'[Client] = lo /\ td_min'[Ref] = td_min[Ref]
    BY <1>0, <1>6, <2>1, Two
  <2>3. /\ td_max' \in [Proc -> Int] /\ td_max'[Client] = v - t_last[Client]
        /\ td_max'[Ref] = td_max[Ref]
    BY <1>0, <2>1, Two
  <2> QED BY <2>2, <2>3
<1>9. Types'
  BY <1>0, <1>5, <1>7, <1>8 DEF Types, trips
<1>10. Same(Ref)
  BY <1>0, <1>7, <1>8 DEF Same, trips
<1>11. Alone(Client)'
  <2>1. td_min'[Client] <= -setup.diff /\ -setup.diff <= td_max'[Client]
    <3>1. /\ v \in Int /\ t_last[Client] \in Int /\ setup.diff \in Int
          /\ t_last[Client] - setup.diff <= v
      BY <1>2, <1>3, <1>4
    <3>2. td_max'[Client] = v - t_last[Client] /\ td_min'[Client] <= -setup.diff
      BY <1>6, <1>8
    <3> QED BY <3>1, <3>2
  <2>2. BoundsOf(Client)'
    BY <1>0, <1>4, <2>1 DEF BoundsOf, Truth
  <2> QED BY <1>0, <1>7, <2>2 DEF Alone, Own, Estimate, trips
<1>12. LoopBack'
  <2>1. n.value = now + setup.diff
    BY <1>4 DEF M
  <2>2. InFlight(Ref, PpTag, ~setup.eager, count[Ref], <<"loop", i[Ref]>>)'
        /\ ValueTo(Ref)' = now + setup.diff
    BY <1>0, <1>2, <1>4, <1>5, <2>1, Two DEF InFlight, ValueTo
  <2> QED BY <1>0, <1>2, <1>4, <1>7, <2>2 DEF LoopBack, SameCount, At
<1>13. Together'
  BY <1>0, <1>1, <1>7, <1>12 DEF Together, SKaMPIInv
<1> QED BY <1>0, <1>9, <1>10, <1>11, <1>13, StepOf, Two

-----------------------------------------------------------------------------
(* The median of the samples is one of them. *)

Before == {ss \in Nat \X Nat : ss[1] < ss[2]}

\* Every set of natural numbers has a least element.
LEMMA Least ==
    ASSUME NEW T \in SUBSET Nat, T # {}
    PROVE  \E x \in T : \A y \in T : x <= y
<1>1. IsWellFoundedOn(Before, Nat)
  BY NatLessThanWellFounded DEF OpToRel, Before
<1>2. PICK x \in T : \A y \in T : ~(<<y, x>> \in Before)
  BY <1>1, WFMin
<1>3. ASSUME NEW y \in T PROVE x <= y
  <2>1. x \in Nat /\ y \in Nat
    OBVIOUS
  <2>2. ~(y < x)
    BY <1>2, <2>1 DEF Before
  <2> QED BY <2>1, <2>2
<1> QED BY <1>3

\* The elements of a sequence are bounded.
LEMMA Bounded ==
    ASSUME NEW a \in Seq(Int)
    PROVE  \E b \in Nat : \A k \in 1 .. Len(a) : -b <= a[k] /\ a[k] <= b
<1> DEFINE Good(n) == \E b \in Nat : \A k \in 1 .. n : -b <= a[k] /\ a[k] <= b
           T == {n \in Nat : n <= Len(a) /\ ~Good(n)}
<1>1. SUFFICES ASSUME T # {} PROVE FALSE
  <2>1. Len(a) \in Nat /\ Len(a) <= Len(a)
    OBVIOUS
  <2>2. T = {}
    BY <1>1
  <2>3. Good(Len(a))
    BY <2>1, <2>2
  <2> QED BY <2>3
<1>2. PICK n \in T : \A m \in T : n <= m
  BY <1>1, Least
<1>3. n \in Nat /\ n <= Len(a) /\ ~Good(n) /\ Len(a) \in Nat
  OBVIOUS
<1>4. n # 0
  <2>1. Good(0)
    <3>1. \A k \in 1 .. 0 : -0 <= a[k] /\ a[k] <= 0
      OBVIOUS
    <3> QED BY <3>1
  <2> QED BY <1>3, <2>1
<1>5. Good(n - 1)
  <2>1. n - 1 \in Nat /\ n - 1 <= Len(a) /\ ~(n <= n - 1)
    BY <1>3, <1>4
  <2> QED BY <1>2, <2>1
<1>6. PICK b \in Nat : \A k \in 1 .. n - 1 : -b <= a[k] /\ a[k] <= b
  BY <1>5
<1>7. \A k \in 1 .. n : a[k] \in Int /\ (k \in 1 .. n - 1 \/ k = n)
  BY <1>3
<1>8. PICK c \in Nat : b <= c /\ -c <= a[n] /\ a[n] <= c
  <2>1. a[n] \in Int
    BY <1>3, <1>4
  <2> DEFINE d == IF a[n] >= 0 THEN a[n] ELSE -a[n]
  <2>2. d \in Nat /\ -d <= a[n] /\ a[n] <= d
    BY <2>1
  <2> HIDE DEF d
  <2>3. b + d \in Nat /\ b <= b + d /\ -(b + d) <= a[n] /\ a[n] <= b + d
    BY <2>1, <2>2
  <2> QED BY <2>3
<1>9. \A k \in 1 .. n : -c <= a[k] /\ a[k] <= c
  BY <1>6, <1>7, <1>8
<1> QED BY <1>3, <1>9

LEMMA SmallestOf ==
    ASSUME NEW a \in Seq(Int), NEW T \in SUBSET DOMAIN a, T # {}
    PROVE  \E q \in T : \A r \in T : a[q] <= a[r]
<1>1. PICK b \in Nat : \A k \in 1 .. Len(a) : -b <= a[k] /\ a[k] <= b
  BY Bounded
<1>2. \A k \in T : k \in 1 .. Len(a) /\ a[k] \in Int /\ a[k] + b \in Nat
  <2>1. \A k \in T : k \in 1 .. Len(a) /\ a[k] \in Int
    OBVIOUS
  <2> QED BY <1>1, <2>1
<1> DEFINE N == {a[k] + b : k \in T}
<1>3. N \in SUBSET Nat /\ N # {}
  BY <1>2
<1>4. PICK x \in N : \A y \in N : x <= y
  BY <1>3, Least
<1>5. PICK q \in T : x = a[q] + b
  OBVIOUS
<1>6. \A r \in T : a[q] + b <= a[r] + b
  <2>1. \A r \in T : a[r] + b \in N
    OBVIOUS
  <2> HIDE DEF N
  <2> QED BY <1>4, <1>5, <2>1
<1>7. ASSUME NEW r \in T PROVE a[q] <= a[r]
  <2>1. a[q] \in Int /\ a[r] \in Int /\ a[q] + b <= a[r] + b
    BY <1>2, <1>6
  <2> QED BY <2>1
<1> QED BY <1>7

LEMMA LargestOf ==
    ASSUME NEW a \in Seq(Int), a # <<>>
    PROVE  \E q \in DOMAIN a : \A r \in DOMAIN a : a[r] <= a[q]
<1>1. PICK b \in Nat : \A k \in 1 .. Len(a) : -b <= a[k] /\ a[k] <= b
  BY Bounded
<1>2. \A k \in DOMAIN a : a[k] \in Int /\ b - a[k] \in Nat
  <2>1. \A k \in DOMAIN a : k \in 1 .. Len(a) /\ a[k] \in Int
    OBVIOUS
  <2> QED BY <1>1, <2>1
<1> DEFINE N == {b - a[k] : k \in DOMAIN a}
<1>3. N \in SUBSET Nat /\ N # {}
  BY <1>2
<1>4. PICK x \in N : \A y \in N : x <= y
  BY <1>3, Least
<1>5. PICK q \in DOMAIN a : x = b - a[q]
  OBVIOUS
<1>6. \A r \in DOMAIN a : b - a[q] <= b - a[r]
  <2>1. \A r \in DOMAIN a : b - a[r] \in N
    OBVIOUS
  <2> HIDE DEF N
  <2> QED BY <1>4, <1>5, <2>1
<1>7. ASSUME NEW r \in DOMAIN a PROVE a[r] <= a[q]
  <2>1. a[q] \in Int /\ a[r] \in Int /\ b - a[q] <= b - a[r]
    BY <1>2, <1>6
  <2> QED BY <2>1
<1> QED BY <1>7

LEMMA SortedIsElement ==
    ASSUME NEW a \in Seq(Int), NEW k \in 1 .. Len(a)
    PROVE  \E j \in DOMAIN a : Sorted(a, k) = a[j]
<1> DEFINE T == {x \in DOMAIN a : Cardinality({y \in DOMAIN a : a[y] <= a[x]}) >= k}
           S == {a[j] : j \in T}
<1>1. PICK q \in DOMAIN a : \A r \in DOMAIN a : a[r] <= a[q]
  BY LargestOf
<1>2. q \in T
  <2>1. {y \in DOMAIN a : a[y] <= a[q]} = 1 .. Len(a)
    BY <1>1
  <2>2. Cardinality(1 .. Len(a)) = Len(a)
    <3>1. Len(a) \in Int /\ 1 \in Int /\ Len(a) >= 1
      OBVIOUS
    <3>2. Cardinality(1 .. Len(a)) = IF 1 > Len(a) THEN 0 ELSE Len(a) - 1 + 1
      BY <3>1, FS_Interval
    <3> QED BY <3>1, <3>2
  <2>3. Cardinality({y \in DOMAIN a : a[y] <= a[q]}) >= k
    <3>1. k <= Len(a)
      OBVIOUS
    <3>2. Cardinality({y \in DOMAIN a : a[y] <= a[q]}) = Len(a)
      BY <2>1, <2>2
    <3> QED BY <3>1, <3>2
  <2> QED BY <2>3
<1>3. PICK m \in T : \A r \in T : a[m] <= a[r]
  BY <1>2, SmallestOf
<1>4. FX!Min(S) \in S
  <2>1. a[m] \in S /\ \A y \in S : a[m] <= y
    BY <1>3
  <2> QED BY <2>1 DEF FX!Min
<1>5. Sorted(a, k) = FX!Min(S)
  BY DEF Sorted
<1> HIDE DEF T
<1> QED BY <1>4, <1>5 DEF T

\* Some sample is the median: a time_var exists.
LEMMA ChosenIsSample ==
    ASSUME NEW a \in Seq(Int), a # <<>>
    PROVE  Chosen(a) # None
<1> DEFINE n == IF Len(a) % 2 = 0 THEN Len(a) - 1 ELSE Len(a)
           h == (n + 1) \div 2
           K == {k \in DOMAIN a : 2 * a[k] = Median2(a)}
<1>1. h \in 1 .. Len(a)
  <2>1. Len(a) \in Nat /\ Len(a) # 0
    OBVIOUS
  <2>2. \A x \in Nat \ {0} : x % 2 = 0 => x >= 2
    OBVIOUS
  <2>3. Len(a) % 2 = 0 => Len(a) >= 2
    BY <2>1, <2>2
  <2>4. n \in Nat /\ 1 <= n /\ n <= Len(a)
    <3>1. CASE Len(a) % 2 = 0
      <4>1. n = Len(a) - 1
        BY <3>1
      <4> HIDE DEF n
      <4> QED BY <2>1, <2>3, <3>1, <4>1
    <3>2. CASE Len(a) % 2 # 0
      BY <2>1, <3>2
    <3> QED BY <3>1, <3>2
  <2> HIDE DEF n
  <2>5. (n + 1) \div 2 \in 1 .. Len(a)
    BY <2>1, <2>4
  <2> QED BY <2>5
<1> HIDE DEF h
<1>2. PICK j \in DOMAIN a : Sorted(a, h) = a[j]
  BY <1>1, SortedIsElement
<1>3. j \in K
  BY <1>2 DEF Median2, h
<1>4. K \in SUBSET Nat /\ K # {}
  BY <1>3
<1>5. FX!Min(K) \in K
  <2>1. \E x \in K : \A y \in K : x <= y
    BY <1>4, Least
  <2> HIDE DEF K
  <2> QED BY <2>1 DEF FX!Min
<1>6. Chosen(a) = a[FX!Min(K)]
  BY <1>3 DEF Chosen
<1>7. a[FX!Min(K)] \in Int
  BY <1>5
<1> QED BY <1>6, <1>7, NoneAssumption

-----------------------------------------------------------------------------
(* The round trips: the steps keep the invariant. *)

LEMMA TripsFacts ==
    ASSUME NEW p
    PROVE  Trips(p) \in Nat \ {0}
  BY CountsAssumption DEF Trips

\* A message as it is received, and what is left of it.
LEMMA ValueOf ==
    ASSUME NEW p \in Proc, NEW tag, NEW t, NEW sync, NEW c, NEW round,
           InFlight(p, t, sync, c, round), CanRecv(p, tag)
    PROVE  Received(p, tag) = ValueTo(p) /\ chan[Other(p)] = <<>>
<1>1. chan[p] = <<M(t, ValueTo(p), sync, c, round)>> /\ chan[Other(p)] = <<>>
  BY DEF InFlight
<1>2. M(t, ValueTo(p), sync, c, round).value = ValueTo(p)
  BY DEF M
<1> QED BY <1>1, <1>2, ReceiveOnly

\* The message that arrives is answered by n.
LEMMA Answering ==
    ASSUME NEW p \in Proc, DOMAIN chan = Proc, NEW tag, NEW n, NEW t, NEW sync, NEW c,
           NEW round, InFlight(p, t, sync, c, round), CanRecv(p, tag), RecvSend(p, tag, n)
    PROVE  DOMAIN chan' = Proc /\ chan'[p] = <<>> /\ chan'[Other(p)] = <<n>>
<1>1. PICK m : chan[p] = <<m>> /\ chan[Other(p)] = <<>>
  BY DEF InFlight
<1> QED BY <1>1, Passing

\* The message that arrives is the last one.
LEMMA Ending ==
    ASSUME NEW p \in Proc, DOMAIN chan = Proc, NEW tag, NEW t, NEW sync, NEW c,
           NEW round, InFlight(p, t, sync, c, round), CanRecv(p, tag), Recv(p, tag)
    PROVE  DOMAIN chan' = Proc /\ chan'[p] = <<>> /\ chan'[Other(p)] = <<>>
<1>1. PICK m : chan[p] = <<m>> /\ chan[Other(p)] = <<>>
  BY DEF InFlight
<1> QED BY <1>1, Taking

\* n, alone on its way to p, is in flight.
LEMMA Flying ==
    ASSUME NEW p \in Proc, NEW n, chan'[p] = <<n>>, chan'[Other(p)] = <<>>,
           NEW t, NEW v, NEW sync, NEW c, NEW round, n = M(t, v, sync, c, round)
    PROVE  chan'[p] = <<M(t, ValueTo(p)', sync, c, round)>> /\ ValueTo(p)' = v
<1>1. n.value = v
  BY DEF M
<1>2. ValueTo(p)' = v
  BY <1>1 DEF ValueTo
<1> QED BY <1>2

LEMMA FirstTripKeeps ==
    ASSUME IInv, NEW p \in Proc, FirstTrip(p)
    PROVE  IInv'
<1> PICK l \in {"main", "rtt"} : pc[Ref] = l
  BY Two DEF FirstTrip
<1> DEFINE n == Message(Ref, Tag, Time(Ref), <<l, 1>>)
<1>0. /\ p = Ref /\ pc[Ref] = l /\ i[Ref] = 0 /\ Types /\ Alone(Ref) /\ Together
      /\ Own(Ref) /\ Own(Client) /\ Sent(Ref) /\ Send(Ref, n)
      /\ s_last' = [s_last EXCEPT ![Ref] = Time(Ref)] /\ i' = [i EXCEPT ![Ref] = 1]
      /\ UNCHANGED <<setup, now, pc, count, s_now, t_last, t_now, bounds, hash, trips, offset>>
  BY Two DEF FirstTrip, IInv, Alone
<1>1. /\ SameCount /\ chan[Ref] = <<>> /\ chan[Client] = <<>> /\ i[Client] = 0
      /\ pc[Client] = l \/ (l = "rtt" /\ pc[Client] = "start" /\ hash[Client] # {})
      /\ (l = "main" /\ setup.alg # "pingpong") \/ (l = "rtt" /\ setup.alg = "pingpong")
  <2>1. CASE l = "main"
    <3>1. MainInv /\ setup.alg # "pingpong"
      BY <1>0, <2>1 DEF Together, Own
    <3>2. ~TripTo("main")
      <4>1. i[Client] \in Nat
        BY <1>0, Typed, Two
      <4>2. i[Ref] # i[Client] + 1
        BY <1>0, <4>1
      <4> QED BY <4>2 DEF TripTo
    <3>3. ~TripBack("main")
      BY <1>0, Two DEF TripBack
    <3> QED BY <2>1, <3>1, <3>2, <3>3, Two DEF MainInv, Quiet, At
  <2>2. CASE l = "rtt"
    <3>1. PingpongInv /\ setup.alg = "pingpong"
      BY <1>0, <2>2 DEF Together, Own
    <3>2. ~TripTo("rtt")
      <4>1. i[Client] \in Nat
        BY <1>0, Typed, Two
      <4>2. i[Ref] # i[Client] + 1
        BY <1>0, <4>1
      <4> QED BY <4>2 DEF TripTo
    <3>3. ~TripBack("rtt") /\ ~MeanSent /\ ~ExchangeTo
      BY <1>0, <2>2, Two DEF TripBack, MeanSent, ExchangeTo, At
    <3>4. ~ExchangeBack
      <4>1. SUFFICES ASSUME ExchangeBack PROVE FALSE
        OBVIOUS
      <4>2. PICK m : chan[Client] = <<m>> /\ m.sync = TRUE
        BY <4>1, Two DEF ExchangeBack, InFlight, M, synchronous
      <4>3. 1 \in DOMAIN chan[Client] /\ chan[Client][1].sync = TRUE
        BY <4>2
      <4> QED BY <1>0, <4>3, Two DEF Sent
    <3>5. Begins
      BY <3>1, <3>2, <3>3, <3>4 DEF PingpongInv
    <3>6. pc[Client] # "done"
      BY <1>0, <2>2, <3>5 DEF Begins, Own, SameCount
    <3> QED BY <1>0, <2>2, <3>1, <3>5, <3>6, Two DEF Begins, BranchesAgree, Quiet
  <2> QED BY <2>1, <2>2
<1>2. /\ n = M(Tag, now, ~setup.eager, count[Client], <<l, 1>>)
      /\ Time(Ref) = now /\ now \in Int
  BY <1>0, <1>1, SetupFacts DEF Message, M, SameCount
<1> HIDE DEF n
<1>3. DOMAIN chan' = Proc /\ chan'[Client] = <<n>> /\ chan'[Ref] = <<>>
  <2>1. /\ Ref \in Proc /\ DOMAIN chan = Proc /\ chan[Other(Ref)] = <<>> /\ Send(Ref, n)
    BY <1>0, <1>1, Two DEF Types
  <2>2. DOMAIN chan' = Proc /\ chan'[Other(Ref)] = <<n>> /\ chan'[Ref] = chan[Ref]
    BY <2>1, Sending
  <2> QED BY <1>1, <2>2, Two
<1>4. /\ i' \in [Proc -> Nat] /\ i'[Ref] = 1 /\ i'[Client] = i[Client]
      /\ s_last' \in [Proc -> Int] /\ s_last'[Client] = s_last[Client]
  <2>1. /\ Ref \in Proc /\ i \in [Proc -> Nat] /\ s_last \in [Proc -> Int]
        /\ Time(Ref) \in Int
    BY <1>0, <1>2, Two DEF Types
  <2>2. i' \in [Proc -> Nat] /\ i'[Ref] = 1 /\ i'[Client] = i[Client]
    BY <1>0, <2>1, Two
  <2>3. s_last' \in [Proc -> Int] /\ s_last'[Client] = s_last[Client]
    BY <1>0, <2>1, Two
  <2> QED BY <2>2, <2>3
<1>5. Types'
  BY <1>0, <1>3, <1>4 DEF Types, bounds, trips
<1>6. Same(Client)
  BY <1>0, <1>4 DEF Same, bounds, trips
<1>7. Alone(Ref)'
  BY <1>0, <1>4 DEF Alone, Own, Estimate, BoundsOf, trips
<1>8. TripTo(l)'
  <2>1. chan'[Client] = <<M(Tag, ValueTo(Client)', ~setup.eager, count[Client], <<l, 1>>)>>
    BY <1>2, <1>3, Flying, Two
  <2>2. InFlight(Client, Tag, ~setup.eager, count[Client], <<l, i[Ref]>>)'
    BY <1>0, <1>3, <1>4, <2>1, Two DEF InFlight
  <2>3. 1 <= Trips(Ref) /\ Trips(Ref)' = Trips(Ref)
    BY <1>0, TripsFacts DEF Trips
  <2> QED BY <1>0, <1>1, <1>4, <2>2, <2>3 DEF TripTo, At
<1>9. Together'
  BY <1>0, <1>1, <1>8 DEF Together, MainInv, PingpongInv, SameCount
<1> QED BY <1>0, <1>5, <1>6, <1>7, <1>9, StepOf, Two

LEMMA RttReplyKeeps ==
    ASSUME IInv, NEW p \in Proc, RttReply(p)
    PROVE  IInv'
<1> PICK l \in {"main", "rtt"} : pc[Client] = l
  BY Two DEF RttReply
<1> DEFINE n == Message(Client, Tag, Time(Client), <<l, i[Client] + 1>>)
<1>0. /\ p = Client /\ pc[Client] = l /\ i[Client] < Trips(Client) /\ Types /\ Alone(Client)
      /\ Together /\ Own(Ref) /\ Own(Client) /\ CanRecv(Client, Tag)
      /\ RecvSend(Client, Tag, n) /\ i' = [i EXCEPT ![Client] = @ + 1]
      /\ UNCHANGED <<setup, now, pc, count, times, bounds, hash, trips, offset>>
      /\ i[Client] \in Nat /\ i[Ref] \in Nat
  BY Typed, Two DEF RttReply, IInv, Alone
<1>1. /\ SameCount /\ TripTo(l)
      /\ (l = "main" /\ setup.alg # "pingpong") \/ (l = "rtt" /\ setup.alg = "pingpong")
  <2>0. chan[Client] # <<>>
    BY <1>0, NothingToReceive
  <2>1. CASE l = "main"
    <3>1. setup.alg # "pingpong"
      BY <1>0, <2>1 DEF Own
    <3>2. Trips(Client) \in Nat /\ i[Client] # Trips(Client)
      BY <1>0, TripsFacts
    <3>3. ~SKaMPIInv
      BY <1>0, <2>0, <2>1, <3>2, Two
         DEF SKaMPIInv, Rests, FirstTo, FirstBack, FirstEnd, LoopBack, LoopTo, RefEnded,
             EndAndFirst, ClientEnded, ClientWaits, Upon, At
    <3>4. MainInv
      BY <1>0, <3>1, <3>3 DEF Together
    <3>5. ~TripBack("main")
      BY <2>0, Two DEF TripBack, InFlight
    <3> QED BY <2>0, <2>1, <3>1, <3>4, <3>5, Two DEF MainInv, Quiet
  <2>2. CASE l = "rtt"
    <3>1. setup.alg = "pingpong" /\ PingpongInv
      BY <1>0, <2>2 DEF Own, Together
    <3>2. Trips(Client) \in Nat /\ i[Client] # Trips(Client)
      BY <1>0, TripsFacts
    <3>3. ~Begins /\ ~TripBack("rtt") /\ ~MeanSent /\ ~ExchangeTo /\ ~ExchangeBack
      BY <1>0, <2>0, <2>2, <3>2, Two
         DEF Begins, Quiet, TripBack, MeanSent, ExchangeTo, ExchangeBack, InFlight, At
    <3> QED BY <2>2, <3>1, <3>3 DEF PingpongInv
  <2> QED BY <2>1, <2>2
<1>2. /\ pc[Ref] = l /\ i[Ref] = i[Client] + 1 /\ i[Ref] <= Trips(Ref) /\ i[Ref] >= 1
      /\ InFlight(Client, Tag, ~setup.eager, count[Client], <<l, i[Ref]>>)
      /\ DOMAIN chan = Proc
  BY <1>0, <1>1 DEF TripTo, Types
<1>3. /\ n = M(Tag, now + setup.diff, ~setup.eager, count[Ref], <<l, i[Ref]>>)
      /\ now + setup.diff \in Int
  BY <1>0, <1>1, <1>2, SetupFacts DEF Message, M, SameCount
<1> HIDE DEF n
<1>4. DOMAIN chan' = Proc /\ chan'[Client] = <<>> /\ chan'[Ref] = <<n>>
  <2>1. /\ Client \in Proc /\ CanRecv(Client, Tag) /\ RecvSend(Client, Tag, n)
    BY <1>0, Two
  <2>2. DOMAIN chan' = Proc /\ chan'[Client] = <<>> /\ chan'[Other(Client)] = <<n>>
    BY <1>2, <2>1, Answering
  <2> QED BY <2>2, Two
<1>5. i' \in [Proc -> Nat] /\ i'[Client] = i[Ref] /\ i'[Ref] = i[Ref]
  <2>1. Client \in Proc /\ i \in [Proc -> Nat]
    BY <1>0, Two DEF Types
  <2> QED BY <1>0, <1>2, <2>1, Two
<1>6. Types'
  BY <1>0, <1>4, <1>5 DEF Types, times, bounds, trips
<1>7. Same(Ref)
  BY <1>0, <1>5 DEF Same, times, bounds, trips
<1>8. Alone(Client)'
  BY <1>0, <1>5 DEF Alone, Own, Estimate, BoundsOf, bounds, trips
<1>9. TripBack(l)'
  <2>1. /\ chan'[Ref] = <<M(Tag, ValueTo(Ref)', ~setup.eager, count[Ref], <<l, i[Ref]>>)>>
        /\ ValueTo(Ref)' \in Int
    BY <1>3, <1>4, Flying, Two
  <2>2. InFlight(Ref, Tag, ~setup.eager, count[Ref], <<l, i[Ref]>>)'
    BY <1>0, <1>4, <1>5, <2>1, Two DEF InFlight
  <2>3. i[Ref] \in 1 .. Trips(Ref) /\ Trips(Ref)' = Trips(Ref)
    BY <1>0, <1>2, TripsFacts DEF Trips
  <2> QED BY <1>0, <1>2, <1>5, <2>1, <2>2, <2>3 DEF TripBack, At
<1>10. Together'
  BY <1>0, <1>1, <1>2, <1>9 DEF Together, MainInv, PingpongInv, SameCount
<1> QED BY <1>0, <1>6, <1>7, <1>8, <1>10, StepOf, Two

LEMMA RttMeanKeeps ==
    ASSUME IInv, NEW p \in Proc, RttMean(p)
    PROVE  IInv'
<1> DEFINE v == Received(Client, Tag)
<1>0. /\ p = Client /\ pc[Client] = "rtt" /\ i[Client] = Trips(Client) /\ Types
      /\ Alone(Client) /\ Together /\ Own(Ref) /\ Own(Client) /\ CanRecv(Client, Tag)
      /\ Recv(Client, Tag) /\ rtt' = [rtt EXCEPT ![Client] = v]
      /\ hash' = [hash EXCEPT ![Client] = {v}] /\ pc' = [pc EXCEPT ![Client] = "exchange"]
      /\ i' = [i EXCEPT ![Client] = 0] /\ setup.alg = "pingpong"
      /\ UNCHANGED <<setup, now, count, times, bounds, samples, offset>>
      /\ i[Client] \in Nat /\ i[Ref] \in Nat /\ Trips(Client) \in Nat \ {0}
  BY Typed, TripsFacts, Two DEF RttMean, IInv, Alone, Own
<1>1. MeanSent
  <2>0. chan[Client] # <<>>
    BY <1>0, NothingToReceive
  <2>1. PingpongInv
    BY <1>0 DEF Together
  <2>2. ~TripTo("rtt")
    BY <1>0 DEF TripTo, Trips, At
  <2>3. ~Begins /\ ~TripBack("rtt") /\ ~ExchangeTo /\ ~ExchangeBack
    BY <1>0, <2>0, Two
       DEF Begins, Quiet, TripBack, ExchangeTo, ExchangeBack, InFlight, At
  <2> QED BY <2>1, <2>2, <2>3 DEF PingpongInv
<1>2. /\ SameCount /\ pc[Ref] = "exchange" /\ i[Ref] = 0
      /\ InFlight(Client, Tag, ~setup.eager, count[Client], <<"mean", 1>>)
      /\ ValueTo(Client) = rtt[Ref] /\ DOMAIN chan = Proc
  BY <1>0, <1>1 DEF MeanSent, At, Types
<1>3. v = rtt[Ref]
  BY <1>0, <1>2, ValueOf, Two
<1> HIDE DEF v
<1>4. DOMAIN chan' = Proc /\ chan'[Client] = <<>> /\ chan'[Ref] = <<>>
  <2>1. /\ Client \in Proc /\ CanRecv(Client, Tag) /\ Recv(Client, Tag)
    BY <1>0, Two
  <2>2. DOMAIN chan' = Proc /\ chan'[Client] = <<>> /\ chan'[Other(Client)] = <<>>
    BY <1>2, <2>1, Ending
  <2> QED BY <2>2, Two
<1>5. /\ DOMAIN rtt' = Proc /\ rtt'[Client] = v /\ rtt'[Ref] = rtt[Ref]
      /\ DOMAIN hash' = Proc /\ hash'[Client] = {v} /\ hash'[Ref] = hash[Ref]
  <2>1. Client \in Proc /\ DOMAIN rtt = Proc /\ DOMAIN hash = Proc
    BY <1>0, Two DEF Types
  <2>2. DOMAIN rtt' = Proc /\ rtt'[Client] = v /\ rtt'[Ref] = rtt[Ref]
    BY <1>0, <2>1, Two
  <2>3. DOMAIN hash' = Proc /\ hash'[Client] = {v} /\ hash'[Ref] = hash[Ref]
    BY <1>0, <2>1, Two
  <2> QED BY <2>2, <2>3
<1>6. /\ pc' \in [Proc -> PC] /\ pc'[Client] = "exchange" /\ pc'[Ref] = pc[Ref]
      /\ i' \in [Proc -> Nat] /\ i'[Client] = 0 /\ i'[Ref] = i[Ref]
  <2>1. Client \in Proc /\ pc \in [Proc -> PC] /\ "exchange" \in PC /\ i \in [Proc -> Nat]
    BY <1>0, Two DEF Types, PC
  <2>2. pc' \in [Proc -> PC] /\ pc'[Client] = "exchange" /\ pc'[Ref] = pc[Ref]
    BY <1>0, <2>1, Two
  <2>3. i' \in [Proc -> Nat] /\ i'[Client] = 0 /\ i'[Ref] = i[Ref]
    BY <1>0, <2>1, Two
  <2> QED BY <2>2, <2>3
<1>7. Types'
  BY <1>0, <1>4, <1>5, <1>6 DEF Types, times, bounds
<1>8. Same(Ref)
  BY <1>0, <1>5, <1>6 DEF Same, times, bounds
<1>9. Alone(Client)'
  BY <1>0, <1>5, <1>6 DEF Alone, Own, Estimate
<1>10. Begins'
  <2>1. BranchesAgree'
    BY <1>2, <1>3, <1>5, <1>6, Two DEF BranchesAgree
  <2>2. SameCount' /\ Quiet'
    BY <1>0, <1>2, <1>4, Two DEF SameCount, Quiet
  <2> QED BY <1>2, <1>6, <2>1, <2>2, Two DEF Begins
<1>11. Together'
  BY <1>0, <1>10 DEF Together, PingpongInv
<1> QED BY <1>0, <1>7, <1>8, <1>9, <1>11, StepOf, Two

LEMMA WarmedUpKeeps ==
    ASSUME IInv, NEW p \in Proc, WarmedUp(p)
    PROVE  IInv'
<1>0. /\ p = Client /\ pc[Client] = "main" /\ i[Client] = Trips(Client) /\ Types
      /\ Alone(Client) /\ Together /\ Own(Ref) /\ Own(Client)
      /\ pc' = [pc EXCEPT ![Client] = "start"] /\ i' = [i EXCEPT ![Client] = 0]
      /\ setup.alg # "pingpong" /\ count[Client] = 1
      /\ UNCHANGED <<setup, now, count, times, bounds, hash, trips, chan, offset>>
      /\ i[Client] \in Nat /\ i[Ref] \in Nat /\ Trips(Client) \in Nat \ {0}
  BY Typed, TripsFacts, Two DEF WarmedUp, IInv, Alone, Own
<1>1. /\ pc' \in [Proc -> PC] /\ pc'[Client] = "start" /\ pc'[Ref] = pc[Ref]
      /\ i' \in [Proc -> Nat] /\ i'[Client] = 0 /\ i'[Ref] = i[Ref]
  <2>1. Client \in Proc /\ pc \in [Proc -> PC] /\ "start" \in PC /\ i \in [Proc -> Nat]
    BY <1>0, Two DEF Types, PC
  <2>2. pc' \in [Proc -> PC] /\ pc'[Client] = "start" /\ pc'[Ref] = pc[Ref]
    BY <1>0, <2>1, Two
  <2>3. i' \in [Proc -> Nat] /\ i'[Client] = 0 /\ i'[Ref] = i[Ref]
    BY <1>0, <2>1, Two
  <2> QED BY <2>2, <2>3
<1>2. Types'
  BY <1>0, <1>1 DEF Types, times, bounds, trips
<1>3. Same(Ref)
  BY <1>0, <1>1 DEF Same, times, bounds, trips
<1>4. Alone(Client)'
  <2>1. count[Client] <= Measurements /\ ~(count[Client] > Measurements)
    BY <1>0, CountsAssumption
  <2> QED BY <1>0, <1>1, <2>1 DEF Alone, Own, Estimate, trips
<1>5. Together'
  <2>1. CASE pc[Ref] = "main"
    <3>1. MainInv
      BY <1>0, <2>1 DEF Together
    <3>2. ~TripTo("main")
      BY <1>0 DEF TripTo, Trips, At
    <3>3. TripBack("main")
      BY <1>0, <3>1, <3>2 DEF MainInv, At
    <3>4. i[Ref] = Trips(Ref) /\ Trips(Ref)' = Trips(Ref)
      BY <1>0, <1>1, <2>1, <3>3 DEF TripBack, At, Trips
    <3>5. TripBack("main")'
      BY <1>0, <1>1, <3>3, <3>4, Two DEF TripBack, InFlight, ValueTo, At
    <3> QED BY <1>0, <1>1, <2>1, <3>1, <3>5 DEF Together, MainInv, SameCount
  <2>2. CASE pc[Ref] # "main"
    <3>1. Rests \/ FirstTo
      BY <1>0, <2>2, Two DEF Together, SKaMPIInv, FirstBack, FirstEnd, LoopBack, LoopTo,
                             RefEnded, EndAndFirst, ClientEnded, Upon, At
    <3>2. ClientWaits'
      BY <1>1 DEF ClientWaits, Upon
    <3>3. Rests => Rests'
      BY <1>0, <1>1, <3>2, Two DEF Rests, SameCount, Quiet, Upon
    <3>4. FirstTo => FirstTo'
      BY <1>0, <1>1, <3>2, Two DEF FirstTo, SameCount, InFlight, ValueTo, At, times
    <3> QED BY <1>0, <1>1, <2>2, <3>1, <3>3, <3>4 DEF Together, SKaMPIInv
  <2> QED BY <2>1, <2>2
<1> QED BY <1>0, <1>2, <1>3, <1>4, <1>5, StepOf, Two

LEMMA RttRoundKeeps ==
    ASSUME IInv, NEW p \in Proc, RttRound(p)
    PROVE  IInv'
<1> PICK l \in {"main", "rtt"} : pc[Ref] = l
  BY Two DEF RttRound
<1> DEFINE trip == Time(Ref) - s_last[Ref]
           all == IF i[Ref] > Warmups THEN Append(samples[Ref], trip) ELSE samples[Ref]
           last == i[Ref] = Trips(Ref)
           mean == Mean(Accepted(all))
           n == Message(Ref, Tag, Time(Ref), <<l, i[Ref] + 1>>)
           e == Message(Ref, Tag, mean, <<"mean", 1>>)
<1>0. /\ p = Ref /\ pc[Ref] = l /\ i[Ref] > 0 /\ Types /\ Alone(Ref) /\ Together
      /\ Own(Ref) /\ Own(Client) /\ CanRecv(Ref, Tag) /\ i[Client] \in Nat /\ i[Ref] \in Nat
      /\ UNCHANGED <<setup, now, count, s_now, t_last, t_now, bounds, offset>>
      /\ samples' = [samples EXCEPT ![Ref] = IF last THEN <<>> ELSE all]
      /\ IF last
         THEN /\ IF l = "rtt"
                 THEN /\ RecvSend(Ref, Tag, e)
                      /\ rtt' = [rtt EXCEPT ![Ref] = mean]
                      /\ hash' = [hash EXCEPT ![Ref] = {mean}]
                      /\ pc' = [pc EXCEPT ![Ref] = "exchange"]
                 ELSE /\ Recv(Ref, Tag)
                      /\ pc' = [pc EXCEPT ![Ref] = "start"]
                      /\ UNCHANGED <<rtt, hash>>
              /\ i' = [i EXCEPT ![Ref] = 0]
              /\ UNCHANGED s_last
         ELSE /\ RecvSend(Ref, Tag, n)
              /\ s_last' = [s_last EXCEPT ![Ref] = Time(Ref)]
              /\ i' = [i EXCEPT ![Ref] = @ + 1]
              /\ UNCHANGED <<pc, rtt, hash>>
  <2>1. i[Client] \in Nat /\ i[Ref] \in Nat
    BY Typed, Two DEF IInv
  <2> HIDE DEF mean, all
  <2> QED BY <2>1, Two DEF RttRound, IInv, Alone, all, mean
<1>1. /\ SameCount /\ TripBack(l)
      /\ (l = "main" /\ setup.alg # "pingpong") \/ (l = "rtt" /\ setup.alg = "pingpong")
  <2>0. chan[Ref] # <<>>
    BY <1>0, NothingToReceive
  <2>1. CASE l = "main"
    <3>1. setup.alg # "pingpong" /\ MainInv
      BY <1>0, <2>1 DEF Own, Together
    <3>2. ~TripTo("main")
      BY <2>0, Two DEF TripTo, InFlight
    <3> QED BY <2>0, <2>1, <3>1, <3>2, Two DEF MainInv, Quiet
  <2>2. CASE l = "rtt"
    <3>1. setup.alg = "pingpong" /\ PingpongInv
      BY <1>0, <2>2 DEF Own, Together
    <3>2. ~Begins /\ ~TripTo("rtt") /\ ~MeanSent /\ ~ExchangeTo /\ ~ExchangeBack
      BY <1>0, <2>0, <2>2, Two
         DEF Begins, Quiet, TripTo, MeanSent, ExchangeTo, ExchangeBack, InFlight, At
    <3> QED BY <2>2, <3>1, <3>2 DEF PingpongInv
  <2> QED BY <2>1, <2>2
<1>2. /\ i[Ref] \in 1 .. Trips(Ref) /\ ValueTo(Ref) \in Int /\ DOMAIN chan = Proc
      /\ InFlight(Ref, Tag, ~setup.eager, count[Ref], <<l, i[Ref]>>)
      /\ \/ pc[Client] = l /\ i[Client] = i[Ref]
         \/ /\ l = "main" /\ i[Ref] = Trips(Ref)
            /\ pc[Client] \in {"start", "first"} /\ i[Client] = 0
  BY <1>0, <1>1 DEF TripBack, Types, At
<1>3. samples' \in [Proc -> Seq(Int)] /\ now \in Int /\ Time(Ref) = now
  <2>1. samples \in [Proc -> Seq(Int)] /\ Ref \in Proc /\ s_last[Ref] \in Int
    BY <1>0, Two DEF Types
  <2>2. now \in Int /\ Time(Ref) = now
    BY <1>0, SetupFacts
  <2>3. trip \in Int
    BY <2>1, <2>2
  <2> HIDE DEF trip
  <2>4. Append(samples[Ref], trip) \in Seq(Int) /\ samples[Ref] \in Seq(Int)
    BY <2>1, <2>3
  <2>5. all \in Seq(Int)
    BY <2>4
  <2>6. <<>> \in Seq(Int)
    OBVIOUS
  <2> HIDE DEF all
  <2> QED BY <1>0, <2>1, <2>2, <2>5, <2>6
<1> HIDE DEF mean, all
<1>4. CASE last /\ l = "rtt"
  <2>1. /\ RecvSend(Ref, Tag, e) /\ rtt' = [rtt EXCEPT ![Ref] = mean]
        /\ hash' = [hash EXCEPT ![Ref] = {mean}] /\ pc' = [pc EXCEPT ![Ref] = "exchange"]
        /\ i' = [i EXCEPT ![Ref] = 0] /\ s_last' = s_last
        /\ pc[Client] = "rtt" /\ i[Client] = Trips(Client)
    BY <1>0, <1>2, <1>4 DEF Trips
  <2>2. e = M(Tag, mean, ~setup.eager, count[Client], <<"mean", 1>>)
    BY <1>1 DEF Message, M, SameCount
  <2> HIDE DEF e
  <2>3. DOMAIN chan' = Proc /\ chan'[Ref] = <<>> /\ chan'[Client] = <<e>>
    <3>1. Ref \in Proc /\ CanRecv(Ref, Tag) /\ RecvSend(Ref, Tag, e)
      BY <1>0, <2>1, Two
    <3>2. DOMAIN chan' = Proc /\ chan'[Ref] = <<>> /\ chan'[Other(Ref)] = <<e>>
      BY <1>2, <3>1, Answering
    <3> QED BY <3>2, Two
  <2>4. /\ DOMAIN rtt' = Proc /\ rtt'[Ref] = mean /\ rtt'[Client] = rtt[Client]
        /\ DOMAIN hash' = Proc /\ hash'[Ref] = {mean} /\ hash'[Client] = hash[Client]
    <3>1. Ref \in Proc /\ DOMAIN rtt = Proc /\ DOMAIN hash = Proc
      BY <1>0, Two DEF Types
    <3>2. DOMAIN rtt' = Proc /\ rtt'[Ref] = mean /\ rtt'[Client] = rtt[Client]
      BY <2>1, <3>1, Two
    <3>3. DOMAIN hash' = Proc /\ hash'[Ref] = {mean} /\ hash'[Client] = hash[Client]
      BY <2>1, <3>1, Two
    <3> QED BY <3>2, <3>3
  <2>5. /\ pc' \in [Proc -> PC] /\ pc'[Ref] = "exchange" /\ pc'[Client] = pc[Client]
        /\ i' \in [Proc -> Nat] /\ i'[Ref] = 0 /\ i'[Client] = i[Client]
    <3>1. Ref \in Proc /\ pc \in [Proc -> PC] /\ "exchange" \in PC /\ i \in [Proc -> Nat]
      BY <1>0, Two DEF Types, PC
    <3>2. pc' \in [Proc -> PC] /\ pc'[Ref] = "exchange" /\ pc'[Client] = pc[Client]
      BY <2>1, <3>1, Two
    <3>3. i' \in [Proc -> Nat] /\ i'[Ref] = 0 /\ i'[Client] = i[Client]
      BY <2>1, <3>1, Two
    <3> QED BY <3>2, <3>3
  <2>6. Types'
    BY <1>0, <1>3, <2>1, <2>3, <2>4, <2>5 DEF Types, bounds
  <2>7. Same(Client)
    BY <1>0, <2>1, <2>4, <2>5 DEF Same, bounds
  <2>8. Alone(Ref)'
    <3>1. setup.alg = "pingpong" /\ pc[Ref] # "done"
      BY <1>0, <1>1, <1>4
    <3> QED BY <1>0, <2>4, <2>5, <3>1 DEF Alone, Own, Estimate
  <2>9. MeanSent'
    <3>1. /\ chan'[Client] = <<M(Tag, ValueTo(Client)', ~setup.eager, count[Client], <<"mean", 1>>)>>
          /\ ValueTo(Client)' = mean
      BY <2>2, <2>3, Flying, Two
    <3>2. InFlight(Client, Tag, ~setup.eager, count[Client], <<"mean", 1>>)'
      BY <1>0, <2>3, <3>1, Two DEF InFlight
    <3>3. Trips(Client)' = Trips(Client)
      BY <2>5 DEF Trips
    <3> QED BY <1>0, <1>1, <2>1, <2>4, <2>5, <3>1, <3>2, <3>3 DEF MeanSent, SameCount, At
  <2>10. Together'
    BY <1>0, <1>1, <1>4, <2>9 DEF Together, PingpongInv
  <2> QED BY <1>0, <2>6, <2>7, <2>8, <2>10, StepOf, Two
<1>5. CASE last /\ l # "rtt"
  <2>1. /\ Recv(Ref, Tag) /\ pc' = [pc EXCEPT ![Ref] = "start"] /\ i' = [i EXCEPT ![Ref] = 0]
        /\ UNCHANGED <<rtt, hash, s_last>> /\ l = "main" /\ count[Ref] = 1
        /\ setup.alg # "pingpong"
        /\ \/ pc[Client] = "main" /\ i[Client] = Trips(Client)
           \/ pc[Client] \in {"start", "first"} /\ i[Client] = 0
    BY <1>0, <1>1, <1>2, <1>5 DEF Trips, Own
  <2>2. DOMAIN chan' = Proc /\ chan'[Ref] = <<>> /\ chan'[Client] = <<>>
    <3>1. Ref \in Proc /\ CanRecv(Ref, Tag) /\ Recv(Ref, Tag)
      BY <1>0, <2>1, Two
    <3>2. DOMAIN chan' = Proc /\ chan'[Ref] = <<>> /\ chan'[Other(Ref)] = <<>>
      BY <1>2, <3>1, Ending
    <3> QED BY <3>2, Two
  <2>3. /\ pc' \in [Proc -> PC] /\ pc'[Ref] = "start" /\ pc'[Client] = pc[Client]
        /\ i' \in [Proc -> Nat] /\ i'[Ref] = 0 /\ i'[Client] = i[Client]
    <3>1. Ref \in Proc /\ pc \in [Proc -> PC] /\ "start" \in PC /\ i \in [Proc -> Nat]
      BY <1>0, Two DEF Types, PC
    <3>2. pc' \in [Proc -> PC] /\ pc'[Ref] = "start" /\ pc'[Client] = pc[Client]
      BY <2>1, <3>1, Two
    <3>3. i' \in [Proc -> Nat] /\ i'[Ref] = 0 /\ i'[Client] = i[Client]
      BY <2>1, <3>1, Two
    <3> QED BY <3>2, <3>3
  <2>4. Types'
    BY <1>0, <1>3, <2>1, <2>2, <2>3 DEF Types, bounds
  <2>5. Same(Client)
    BY <1>0, <2>1, <2>3 DEF Same, bounds
  <2>6. Alone(Ref)'
    <3>1. ~(count[Ref] > Measurements)
      BY <2>1, CountsAssumption
    <3> QED BY <1>0, <2>1, <2>3, <3>1 DEF Alone, Own, Estimate
  <2>7. Rests'
    <3>1. Trips(Client)' = Trips(Client)
      BY <2>3 DEF Trips
    <3>2. ClientWaits'
      BY <2>1, <2>3, <3>1 DEF ClientWaits, Upon, At
    <3> QED BY <1>0, <1>1, <2>2, <2>3, <3>2, Two DEF Rests, SameCount, Quiet, Upon
  <2>8. Together'
    BY <1>0, <2>1, <2>3, <2>7 DEF Together, SKaMPIInv
  <2> QED BY <1>0, <2>4, <2>5, <2>6, <2>8, StepOf, Two
<1>6. CASE ~last
  <2>1. /\ RecvSend(Ref, Tag, n) /\ s_last' = [s_last EXCEPT ![Ref] = Time(Ref)]
        /\ i' = [i EXCEPT ![Ref] = @ + 1] /\ UNCHANGED <<pc, rtt, hash>>
        /\ pc[Client] = l /\ i[Client] = i[Ref]
    BY <1>0, <1>2, <1>6
  <2>2. n = M(Tag, now, ~setup.eager, count[Client], <<l, i[Ref] + 1>>)
    BY <1>1, <1>3 DEF Message, M, SameCount
  <2> HIDE DEF n
  <2>3. DOMAIN chan' = Proc /\ chan'[Ref] = <<>> /\ chan'[Client] = <<n>>
    <3>1. Ref \in Proc /\ CanRecv(Ref, Tag) /\ RecvSend(Ref, Tag, n)
      BY <1>0, <2>1, Two
    <3>2. DOMAIN chan' = Proc /\ chan'[Ref] = <<>> /\ chan'[Other(Ref)] = <<n>>
      BY <1>2, <3>1, Answering
    <3> QED BY <3>2, Two
  <2>4. /\ i' \in [Proc -> Nat] /\ i'[Ref] = i[Ref] + 1 /\ i'[Client] = i[Client]
        /\ s_last' \in [Proc -> Int] /\ s_last'[Client] = s_last[Client]
    <3>1. Ref \in Proc /\ i \in [Proc -> Nat] /\ s_last \in [Proc -> Int] /\ Time(Ref) \in Int
      BY <1>0, <1>3, Two DEF Types
    <3>2. i' \in [Proc -> Nat] /\ i'[Ref] = i[Ref] + 1 /\ i'[Client] = i[Client]
      BY <2>1, <3>1, Two
    <3>3. s_last' \in [Proc -> Int] /\ s_last'[Client] = s_last[Client]
      BY <2>1, <3>1, Two
    <3> QED BY <3>2, <3>3
  <2>5. Types'
    BY <1>0, <1>3, <2>1, <2>3, <2>4 DEF Types, bounds
  <2>6. Same(Client)
    BY <1>0, <2>1, <2>4 DEF Same, bounds
  <2>7. Alone(Ref)'
    BY <1>0, <2>1, <2>4 DEF Alone, Own, Estimate, BoundsOf
  <2>8. TripTo(l)'
    <3>1. chan'[Client] = <<M(Tag, ValueTo(Client)', ~setup.eager, count[Client],
                              <<l, i[Ref] + 1>>)>>
      BY <2>2, <2>3, Flying, Two
    <3>2. InFlight(Client, Tag, ~setup.eager, count[Client], <<l, i[Ref]>>)'
      BY <1>0, <2>3, <2>4, <3>1, Two DEF InFlight
    <3>3. i[Ref] + 1 <= Trips(Ref) /\ Trips(Ref)' = Trips(Ref)
      <4>1. Trips(Ref) \in Nat
        BY TripsFacts
      <4> QED BY <1>2, <1>6, <2>1, <4>1 DEF Trips
    <3> QED BY <1>0, <2>1, <2>4, <3>2, <3>3 DEF TripTo, At
  <2>9. Together'
    BY <1>0, <1>1, <2>1, <2>8 DEF Together, MainInv, PingpongInv, SameCount
  <2> QED BY <1>0, <2>5, <2>6, <2>7, <2>9, StepOf, Two
<1> QED BY <1>4, <1>5, <1>6

-----------------------------------------------------------------------------
(* The ping-pong algorithm: the steps keep the invariant. *)

LEMMA PingpongStartKeeps ==
    ASSUME IInv, NEW p \in Proc, PingpongStart(p)
    PROVE  IInv'
<1> DEFINE q == Other(p)
<1>0. /\ pc[p] = "start" /\ i[p] = 0 /\ setup.alg = "pingpong" /\ Types /\ Alone(p)
      /\ PingpongInv /\ Own(Ref) /\ Own(Client) /\ p \in Proc /\ q \in Proc /\ q # p
      /\ Other(q) = p /\ Proc = {p, q}
      /\ UNCHANGED <<setup, now, count, i, times, bounds, samples, chan, offset>>
  BY Two DEF PingpongStart, IInv, Alone, Together, Own
<1>1. /\ DOMAIN rtt' = Proc /\ rtt'[q] = rtt[q] /\ DOMAIN hash' = Proc /\ hash'[q] = hash[q]
      /\ pc' \in [Proc -> PC] /\ pc'[q] = pc[q]
      /\ IF hash[p] # {}
         THEN pc'[p] = "rtt" /\ hash'[p] = hash[p] /\ rtt'[p] = rtt[p]
         ELSE pc'[p] = "exchange" /\ hash'[p] = {zero} /\ rtt'[p] = zero
  <2> HIDE DEF q
  <2>0. DOMAIN rtt = Proc /\ DOMAIN hash = Proc /\ pc \in [Proc -> PC] /\ {"rtt", "exchange"} \subseteq PC
    BY <1>0 DEF Types, PC
  <2>1. CASE hash[p] # {}
    <3>1. pc' = [pc EXCEPT ![p] = "rtt"] /\ hash' = hash /\ rtt' = rtt
      BY <2>1 DEF PingpongStart
    <3> QED BY <1>0, <2>0, <2>1, <3>1
  <2>2. CASE hash[p] = {}
    <3>1. /\ pc' = [pc EXCEPT ![p] = "exchange"] /\ rtt' = [rtt EXCEPT ![p] = zero]
          /\ hash' = [hash EXCEPT ![p] = {zero}]
      BY <2>2 DEF PingpongStart, zero
    <3> HIDE DEF zero
    <3>2. pc' \in [Proc -> PC] /\ pc'[p] = "exchange" /\ pc'[q] = pc[q]
      BY <1>0, <2>0, <3>1
    <3>3. DOMAIN rtt' = Proc /\ rtt'[q] = rtt[q] /\ rtt'[p] = zero
      BY <1>0, <2>0, <3>1
    <3>4. DOMAIN hash' = Proc /\ hash'[q] = hash[q] /\ hash'[p] = {zero}
      BY <1>0, <2>0, <3>1
    <3> QED BY <2>2, <3>2, <3>3, <3>4
  <2> QED BY <2>1, <2>2
<1>2. Types'
  BY <1>0, <1>1 DEF Types, times, bounds
<1>3. Same(q)
  BY <1>0, <1>1 DEF Same, times, bounds
<1>4. Alone(p)'
  BY <1>0, <1>1 DEF Alone, Own, Estimate
<1> HIDE DEF zero
<1>5. PingpongInv'
  <2>1. CASE Begins
    <3>1. pc[q] # "done"
      BY <1>0, <2>1, Two DEF Begins, SameCount, Own
    <3>2. BranchesAgree'
      <4>1. CASE p = Ref
        BY <1>0, <1>1, <2>1, <3>1, <4>1, Two DEF Begins, BranchesAgree
      <4>2. CASE p = Client
        BY <1>0, <1>1, <2>1, <3>1, <4>2, Two DEF Begins, BranchesAgree
      <4> QED BY <4>1, <4>2, Two
    <3>3. SameCount' /\ Quiet'
      BY <1>0, <2>1 DEF Begins, SameCount, Quiet
    <3> QED BY <1>0, <1>1, <2>1, <3>2, <3>3 DEF Begins, PingpongInv
  <2>2. CASE ~Begins /\ p = Ref
    <3>1. ExchangeTo \/ ExchangeBack
      BY <1>0, <2>2 DEF PingpongInv, TripTo, TripBack, MeanSent, At
    <3>2. CASE ExchangeTo
      <4>1. hash[Ref] = {} /\ i[Client] = 1 /\ rtt[Client] = zero
        BY <1>0, <2>2, <3>2 DEF ExchangeTo, At
      <4>2. InFlight(Ref, Tag, synchronous, count[Ref], <<"exchange", i[Client]>>)'
            /\ ValueTo(Ref)' \in Int
        BY <1>0, <3>2 DEF ExchangeTo, InFlight, ValueTo
      <4>3. pc'[Ref] = "exchange" /\ i'[Ref] = i'[Client] - 1 /\ rtt'[Ref] = rtt'[Client]
        BY <1>0, <1>1, <2>2, <4>1, Two
      <4>4. ExchangeTo'
        BY <1>0, <1>1, <2>2, <3>2, <4>2, <4>3, Two DEF ExchangeTo, SameCount, At
      <4> QED BY <4>4 DEF PingpongInv
    <3>3. CASE ExchangeBack
      <4>1. hash[Ref] = hash[Client] /\ hash[Client] = {rtt[Client]} /\ hash[Ref] # {}
        BY <1>0, <2>2, <3>3 DEF ExchangeBack, Own, At
      <4>2. ExchangeBack'
        BY <1>0, <1>1, <2>2, <3>3, <4>1, Two DEF ExchangeBack, SameCount, At, InFlight, ValueTo
      <4> QED BY <4>2 DEF PingpongInv
    <3> QED BY <3>1, <3>2, <3>3
  <2>3. CASE ~Begins /\ p = Client
    <3>1. SameCount /\ TripTo("rtt")
      BY <1>0, <2>3, Two DEF PingpongInv, TripBack, MeanSent, ExchangeTo, ExchangeBack, At
    <3>2. hash[Client] # {}
      BY <1>0, <2>3, <3>1 DEF TripTo
    <3>3. TripTo("rtt")' /\ SameCount'
      BY <1>0, <1>1, <2>3, <3>1, <3>2, Two DEF TripTo, At, InFlight, ValueTo, Trips, SameCount
    <3> QED BY <3>3 DEF PingpongInv
  <2> QED BY <2>1, <2>2, <2>3, Two
<1>6. Together'
  BY <1>0, <1>5 DEF Together
<1> QED BY <1>0, <1>2, <1>3, <1>4, <1>6, StepOf

LEMMA Synchronously ==
    ASSUME NEW p, NEW tag, NEW v, NEW round
    PROVE  Ssend(Message(p, tag, v, round)) = M(tag, v, synchronous, count[p], round)
<1>1. \A c, e, x : [M(tag, v, e, c, round) EXCEPT !.sync = x] = M(tag, v, x, c, round)
  BY DEF M
<1>2. Message(p, tag, v, round) = M(tag, v, ~setup.eager, count[p], round)
  BY DEF Message, M
<1>3. Ssend(Message(p, tag, v, round))
          = [M(tag, v, ~setup.eager, count[p], round) EXCEPT !.sync = synchronous]
  BY <1>2 DEF Ssend, synchronous
<1> QED BY <1>1, <1>3

LEMMA FirstExchangeKeeps ==
    ASSUME IInv, NEW p \in Proc, FirstExchange(p)
    PROVE  IInv'
<1> DEFINE n == Ssend(Message(Client, Tag, Time(Client), <<"exchange", 1>>))
<1>0. /\ p = Client /\ pc[Client] = "exchange" /\ i[Client] = 0 /\ Types /\ Alone(Client)
      /\ PingpongInv /\ Own(Ref) /\ Own(Client) /\ setup.alg = "pingpong" /\ Send(Client, n)
      /\ i' = [i EXCEPT ![Client] = 1]
      /\ UNCHANGED <<setup, now, pc, count, times, bounds, hash, trips, offset>>
  BY Two DEF FirstExchange, IInv, Alone, Own, Together
<1>1. Begins
  <2>1. ~MeanSent /\ ~TripTo("rtt") /\ ~TripBack("rtt")
    BY <1>0 DEF MeanSent, TripTo, TripBack, At
  <2>2. ~ExchangeTo /\ ~ExchangeBack
    BY <1>0 DEF ExchangeTo, ExchangeBack
  <2> QED BY <1>0, <2>1, <2>2 DEF PingpongInv
<1>2. /\ SameCount /\ i[Ref] = 0 /\ DOMAIN chan = Proc
      /\ chan[Ref] = <<>> /\ chan[Client] = <<>>
      /\ \/ pc[Ref] = "exchange" /\ rtt[Ref] = rtt[Client]
         \/ pc[Ref] = "start" /\ hash[Ref] = {} /\ rtt[Client] = zero
  <2>1. pc[Ref] # "done"
    BY <1>0, <1>1 DEF Begins, SameCount, Own
  <2> QED BY <1>0, <1>1, <2>1, Two DEF Begins, BranchesAgree, Quiet, Types
<1>3. /\ n = M(Tag, now + setup.diff, synchronous, count[Ref], <<"exchange", 1>>)
      /\ now + setup.diff \in Int /\ setup.nexchanges >= 1
  <2>1. /\ Time(Client) = now + setup.diff /\ now + setup.diff \in Int
        /\ setup.nexchanges >= 1
    BY <1>0, SetupFacts
  <2> QED BY <1>2, <2>1, Synchronously DEF SameCount
<1> HIDE DEF n
<1>4. DOMAIN chan' = Proc /\ chan'[Ref] = <<n>> /\ chan'[Client] = <<>>
  <2>1. Client \in Proc /\ chan[Other(Client)] = <<>> /\ Send(Client, n)
    BY <1>0, <1>2, Two
  <2>2. DOMAIN chan' = Proc /\ chan'[Other(Client)] = <<n>> /\ chan'[Client] = chan[Client]
    BY <1>2, <2>1, Sending
  <2> QED BY <1>2, <2>2, Two
<1>5. i' \in [Proc -> Nat] /\ i'[Client] = 1 /\ i'[Ref] = 0
  <2>1. Client \in Proc /\ i \in [Proc -> Nat]
    BY <1>0, Two DEF Types
  <2> QED BY <1>0, <1>2, <2>1, Two
<1>6. Types'
  BY <1>0, <1>4, <1>5 DEF Types, times, bounds, trips
<1>7. Same(Ref)
  BY <1>0, <1>2, <1>5 DEF Same, times, bounds, trips
<1>8. Alone(Client)'
  BY <1>0, <1>5 DEF Alone, Own, Estimate, trips
<1>9. ExchangeTo'
  <2>1. /\ chan'[Ref] = <<M(Tag, ValueTo(Ref)', synchronous, count[Ref], <<"exchange", 1>>)>>
        /\ ValueTo(Ref)' \in Int
    BY <1>3, <1>4, Flying, Two
  <2>2. InFlight(Ref, Tag, synchronous, count[Ref], <<"exchange", i[Client]>>)'
    BY <1>0, <1>4, <1>5, <2>1, Two DEF InFlight
  <2>3. i'[Client] \in 1 .. setup'.nexchanges
    <3>1. setup.nexchanges \in Nat
      BY <1>0, SetupFacts
    <3> QED BY <1>0, <1>3, <1>5, <3>1
  <2> QED BY <1>0, <1>2, <1>5, <2>1, <2>2, <2>3 DEF ExchangeTo, SameCount, At, trips
<1>10. Together'
  BY <1>0, <1>9 DEF Together, PingpongInv
<1> QED BY <1>0, <1>6, <1>7, <1>8, <1>10, StepOf, Two

LEMMA RefExchangeKeeps ==
    ASSUME IInv, NEW p \in Proc, RefExchange(p)
    PROVE  IInv'
<1> DEFINE n == Ssend(Message(Ref, Tag, Time(Ref), <<"exchange", i[Ref] + 1>>))
<1>0. /\ p = Ref /\ pc[Ref] = "exchange" /\ Types /\ Alone(Ref) /\ PingpongInv
      /\ Own(Ref) /\ Own(Client) /\ setup.alg = "pingpong" /\ CanRecv(Ref, Tag)
      /\ RecvSend(Ref, Tag, n)
      /\ IF i[Ref] + 1 = setup.nexchanges THEN Return(Ref, None)
         ELSE i' = [i EXCEPT ![Ref] = @ + 1] /\ UNCHANGED <<pc, count, offset>>
      /\ UNCHANGED <<setup, now, times, bounds, hash, trips>>
      /\ i[Ref] \in Nat /\ i[Client] \in Nat
  BY Typed, Two DEF RefExchange, IInv, Alone, Own, Together
<1>1. ExchangeTo
  <2>0. chan[Ref] # <<>>
    BY <1>0, NothingToReceive
  <2>1. /\ ~Begins /\ ~TripTo("rtt") /\ ~TripBack("rtt") /\ ~MeanSent /\ ~ExchangeBack
    BY <1>0, <2>0, Two
       DEF Begins, Quiet, TripTo, TripBack, MeanSent, ExchangeBack, InFlight, At
  <2> QED BY <1>0, <2>1 DEF PingpongInv
<1>2. /\ SameCount /\ pc[Client] = "exchange" /\ i[Client] \in 1 .. setup.nexchanges
      /\ i[Ref] = i[Client] - 1 /\ rtt[Ref] = rtt[Client] /\ DOMAIN chan = Proc
      /\ InFlight(Ref, Tag, synchronous, count[Ref], <<"exchange", i[Client]>>)
      /\ setup.nexchanges \in Nat
  BY <1>0, <1>1, SetupFacts DEF ExchangeTo, At, Types
<1>3. n = M(Tag, now, synchronous, count[Client], <<"exchange", i[Client]>>) /\ now \in Int
  <2>1. Time(Ref) = now /\ now \in Int /\ i[Ref] + 1 = i[Client]
    BY <1>0, <1>2, SetupFacts
  <2> QED BY <1>2, <2>1, Synchronously DEF SameCount
<1> HIDE DEF n
<1>4. DOMAIN chan' = Proc /\ chan'[Ref] = <<>> /\ chan'[Client] = <<n>>
  <2>1. Ref \in Proc /\ CanRecv(Ref, Tag) /\ RecvSend(Ref, Tag, n)
    BY <1>0, Two
  <2>2. DOMAIN chan' = Proc /\ chan'[Ref] = <<>> /\ chan'[Other(Ref)] = <<n>>
    BY <1>2, <2>1, Answering
  <2> QED BY <2>2, Two
<1>5. /\ chan'[Client] = <<M(Tag, ValueTo(Client)', synchronous, count[Client], <<"exchange", i[Client]>>)>>
      /\ ValueTo(Client)' \in Int
  BY <1>3, <1>4, Flying, Two
<1>6. CASE i[Ref] + 1 = setup.nexchanges
  <2>1. Return(Ref, None) /\ pc[Ref] \notin {"done", "main"} /\ Ref \in Proc
    BY <1>0, <1>6, Two
  <2>2. /\ offset'[Ref] = None /\ DOMAIN offset' = Proc
        /\ count'[Ref] = count[Ref] + 1 /\ count' \in [Proc -> Nat \ {0}]
        /\ i'[Ref] = 0 /\ i' \in [Proc -> Nat]
        /\ pc'[Ref] \in {"start", "done"} /\ pc' \in [Proc -> PC]
        /\ pc'[Ref] = "done" <=> count'[Ref] > Measurements
        /\ \A q \in Proc \ {Ref} : /\ pc'[q] = pc[q] /\ i'[q] = i[q]
                                   /\ count'[q] = count[q] /\ offset'[q] = offset[q]
    BY <1>0, <2>1, Returning
  <2>3. Types'
    BY <1>0, <1>4, <2>2 DEF Types, times, bounds, trips
  <2>4. Same(Client)
    BY <1>0, <2>2, Two DEF Same, times, bounds, trips
  <2>5. Alone(Ref)'
    BY <1>0, <2>2 DEF Alone, Own, Estimate
  <2>6. ExchangeBack'
    <3>1. InFlight(Client, Tag, synchronous, count[Client], <<"exchange", i[Client]>>)'
      BY <1>4, <1>5, <2>4, Two DEF InFlight, Same
    <3>2. hash[Ref] = hash[Client]
      BY <1>0, <1>2 DEF Own
    <3>3. i[Client] = setup.nexchanges
      BY <1>0, <1>2, <1>6
    <3> QED BY <1>0, <1>2, <1>5, <2>2, <2>4, <3>1, <3>2, <3>3
            DEF ExchangeBack, SameCount, Same, At
  <2>7. Together'
    BY <1>0, <2>6 DEF Together, PingpongInv
  <2> QED BY <1>0, <2>3, <2>4, <2>5, <2>7, StepOf, Two
<1>7. CASE i[Ref] + 1 # setup.nexchanges
  <2>1. i' = [i EXCEPT ![Ref] = @ + 1] /\ UNCHANGED <<pc, count, offset>>
    BY <1>0, <1>7
  <2>2. i' \in [Proc -> Nat] /\ i'[Ref] = i[Client] /\ i'[Client] = i[Client]
    <3>1. Ref \in Proc /\ i \in [Proc -> Nat]
      BY <1>0, Two DEF Types
    <3> QED BY <1>0, <1>2, <2>1, <3>1, Two
  <2>3. Types'
    BY <1>0, <1>4, <2>1, <2>2 DEF Types, times, bounds, trips
  <2>4. Same(Client)
    BY <1>0, <2>1, <2>2 DEF Same, times, bounds, trips
  <2>5. Alone(Ref)'
    BY <1>0, <2>1, <2>2 DEF Alone, Own, Estimate, trips
  <2>6. ExchangeBack'
    <3>1. InFlight(Client, Tag, synchronous, count[Client], <<"exchange", i[Client]>>)'
      BY <1>4, <1>5, <2>1, <2>2, Two DEF InFlight
    <3>2. i[Client] < setup.nexchanges
      BY <1>0, <1>2, <1>7
    <3> QED BY <1>0, <1>2, <1>5, <2>1, <2>2, <3>1, <3>2
            DEF ExchangeBack, SameCount, At, trips
  <2>7. Together'
    BY <1>0, <2>6 DEF Together, PingpongInv
  <2> QED BY <1>0, <2>3, <2>4, <2>5, <2>7, StepOf, Two
<1> QED BY <1>6, <1>7

LEMMA ClientExchangeKeeps ==
    ASSUME IInv, NEW p \in Proc, ClientExchange(p)
    PROVE  IInv'
<1> DEFINE all == Append(samples[Client], Time(Client) - Received(Client, Tag))
           n == Ssend(Message(Client, Tag, Time(Client), <<"exchange", i[Client] + 1>>))
           result == [sample |-> Chosen(all), rtt |-> rtt[Client]]
<1>0. /\ p = Client /\ pc[Client] = "exchange" /\ i[Client] > 0 /\ Types /\ Alone(Client)
      /\ PingpongInv /\ Own(Ref) /\ Own(Client) /\ setup.alg = "pingpong"
      /\ CanRecv(Client, Tag)
      /\ IF i[Client] = setup.nexchanges
         THEN /\ Recv(Client, Tag) /\ Return(Client, result)
              /\ samples' = [samples EXCEPT ![Client] = <<>>]
         ELSE /\ RecvSend(Client, Tag, n)
              /\ i' = [i EXCEPT ![Client] = @ + 1]
              /\ samples' = [samples EXCEPT ![Client] = all]
              /\ UNCHANGED <<pc, count, offset>>
      /\ UNCHANGED <<setup, now, times, bounds, hash, rtt>>
      /\ i[Client] \in Nat /\ i[Ref] \in Nat
  <2>1. i[Client] \in Nat /\ i[Ref] \in Nat
    BY Typed, Two DEF IInv
  <2> HIDE DEF all
  <2> QED BY <2>1, Two DEF ClientExchange, IInv, Alone, Own, Together, all
<1>1. ExchangeBack
  <2>0. chan[Client] # <<>>
    BY <1>0, NothingToReceive
  <2>1. /\ ~Begins /\ ~TripTo("rtt") /\ ~TripBack("rtt") /\ ~MeanSent /\ ~ExchangeTo
    BY <1>0, <2>0, Two
       DEF Begins, Quiet, TripTo, TripBack, MeanSent, ExchangeTo, InFlight, At
  <2> QED BY <1>0, <2>1 DEF PingpongInv
<1>2. /\ i[Client] \in 1 .. setup.nexchanges /\ DOMAIN chan = Proc
      /\ InFlight(Client, Tag, synchronous, count[Client], <<"exchange", i[Client]>>)
      /\ ValueTo(Client) \in Int /\ setup.nexchanges \in Nat
      /\ \/ /\ SameCount /\ i[Client] < setup.nexchanges
            /\ pc[Ref] = "exchange" /\ i[Ref] = i[Client] /\ rtt[Ref] = rtt[Client]
         \/ /\ count[Ref] = count[Client] + 1 /\ i[Client] = setup.nexchanges
            /\ pc[Ref] \in {"start", "rtt", "done"} /\ i[Ref] = 0
            /\ pc[Ref] = "start" => hash[Ref] = hash[Client]
  BY <1>0, <1>1, SetupFacts DEF ExchangeBack, At, Types
<1>3. all \in Seq(Int) /\ all # <<>> /\ samples' \in [Proc -> Seq(Int)]
  <2>1. samples \in [Proc -> Seq(Int)] /\ Client \in Proc
    BY <1>0, Two DEF Types
  <2>2. Time(Client) \in Int /\ Received(Client, Tag) \in Int
    <3>1. Time(Client) \in Int
      BY <1>0, SetupFacts
    <3>2. Received(Client, Tag) = ValueTo(Client)
      BY <1>0, <1>2, <2>1, ValueOf
    <3> QED BY <1>2, <3>1, <3>2
  <2> DEFINE x == Time(Client) - Received(Client, Tag)
  <2>3. x \in Int /\ samples[Client] \in Seq(Int)
    BY <2>1, <2>2
  <2> HIDE DEF x
  <2>4. Append(samples[Client], x) \in Seq(Int) /\ Append(samples[Client], x) # <<>>
    <3> DEFINE old == samples[Client]
               new == Append(old, x)
    <3>1. old \in Seq(Int) /\ new \in Seq(Int) /\ Len(new) = Len(old) + 1
      BY <2>3
    <3>2. Len(old) \in Nat
      BY <3>1
    <3> HIDE DEF new, old
    <3>3. new # <<>>
      BY <3>1, <3>2
    <3> QED BY <3>1, <3>3 DEF new, old
  <2>5. all \in Seq(Int) /\ all # <<>> /\ <<>> \in Seq(Int)
    BY <2>4 DEF x
  <2> HIDE DEF all
  <2> QED BY <1>0, <2>1, <2>5
<1> HIDE DEF all
<1>4. CASE i[Client] = setup.nexchanges
  <2>1. /\ Recv(Client, Tag) /\ Return(Client, result) /\ pc[Client] \notin {"done", "main"}
        /\ Client \in Proc /\ count[Ref] = count[Client] + 1
        /\ pc[Ref] \in {"start", "rtt", "done"} /\ i[Ref] = 0
        /\ pc[Ref] = "start" => hash[Ref] = hash[Client]
    BY <1>0, <1>2, <1>4, Two
  <2>2. DOMAIN chan' = Proc /\ chan'[Client] = <<>> /\ chan'[Ref] = <<>>
    <3>1. DOMAIN chan' = Proc /\ chan'[Client] = <<>> /\ chan'[Other(Client)] = <<>>
      BY <1>0, <1>2, <2>1, Ending
    <3> QED BY <3>1, Two
  <2>3. result.sample # None
    BY <1>3, ChosenIsSample
  <2> HIDE DEF result
  <2>4. /\ offset'[Client] = result /\ DOMAIN offset' = Proc
        /\ count'[Client] = count[Client] + 1 /\ count' \in [Proc -> Nat \ {0}]
        /\ i'[Client] = 0 /\ i' \in [Proc -> Nat]
        /\ pc'[Client] \in {"start", "done"} /\ pc' \in [Proc -> PC]
        /\ pc'[Client] = "done" <=> count'[Client] > Measurements
        /\ \A q \in Proc \ {Client} : /\ pc'[q] = pc[q] /\ i'[q] = i[q]
                                      /\ count'[q] = count[q] /\ offset'[q] = offset[q]
    BY <1>0, <2>1, Returning
  <2>5. Types'
    BY <1>0, <1>3, <2>2, <2>4 DEF Types, times, bounds
  <2>6. Same(Ref)
    BY <1>0, <2>4, Two DEF Same, times, bounds
  <2>7. Alone(Client)'
    BY <1>0, <2>3, <2>4 DEF Alone, Own, Estimate
  <2>8. Begins'
    <3>1. SameCount' /\ Quiet'
      BY <2>1, <2>2, <2>4, <2>6, Two DEF SameCount, Quiet, Same
    <3>2. hash'[Client] # {} /\ hash'[Client] = hash[Client] /\ hash'[Ref] = hash[Ref]
      BY <1>0 DEF Own
    <3>3. BranchesAgree'
      BY <2>1, <2>4, <2>6, <3>2, Two DEF BranchesAgree, Same
    <3> QED BY <2>1, <2>4, <2>6, <3>1, <3>3, Two DEF Begins, Same
  <2>9. Together'
    BY <1>0, <2>8 DEF Together, PingpongInv
  <2> QED BY <1>0, <2>5, <2>6, <2>7, <2>9, StepOf, Two
<1>5. CASE i[Client] # setup.nexchanges
  <2>1. /\ RecvSend(Client, Tag, n) /\ i' = [i EXCEPT ![Client] = @ + 1]
        /\ UNCHANGED <<pc, count, offset>> /\ SameCount /\ i[Client] < setup.nexchanges
        /\ pc[Ref] = "exchange" /\ i[Ref] = i[Client] /\ rtt[Ref] = rtt[Client]
    BY <1>0, <1>2, <1>5
  <2>2. /\ n = M(Tag, now + setup.diff, synchronous, count[Ref], <<"exchange", i[Client] + 1>>)
        /\ now + setup.diff \in Int
    <3>1. Time(Client) = now + setup.diff /\ now + setup.diff \in Int
      BY <1>0, SetupFacts
    <3> QED BY <2>1, <3>1, Synchronously DEF SameCount
  <2> HIDE DEF n
  <2>3. DOMAIN chan' = Proc /\ chan'[Client] = <<>> /\ chan'[Ref] = <<n>>
    <3>1. Client \in Proc /\ CanRecv(Client, Tag) /\ RecvSend(Client, Tag, n)
      BY <1>0, <2>1, Two
    <3>2. DOMAIN chan' = Proc /\ chan'[Client] = <<>> /\ chan'[Other(Client)] = <<n>>
      BY <1>2, <3>1, Answering
    <3> QED BY <3>2, Two
  <2>4. i' \in [Proc -> Nat] /\ i'[Client] = i[Client] + 1 /\ i'[Ref] = i[Ref]
    <3>1. Client \in Proc /\ i \in [Proc -> Nat]
      BY <1>0, Two DEF Types
    <3> QED BY <1>0, <2>1, <3>1, Two
  <2>5. Types'
    BY <1>0, <1>3, <2>1, <2>3, <2>4 DEF Types, times, bounds
  <2>6. Same(Ref)
    BY <1>0, <2>1, <2>4 DEF Same, times, bounds
  <2>7. Alone(Client)'
    BY <1>0, <2>1, <2>4 DEF Alone, Own, Estimate
  <2>8. ExchangeTo'
    <3>1. /\ chan'[Ref] = <<M(Tag, ValueTo(Ref)', synchronous, count[Ref],
                              <<"exchange", i[Client] + 1>>)>>
          /\ ValueTo(Ref)' \in Int
      BY <2>2, <2>3, Flying, Two
    <3>2. InFlight(Ref, Tag, synchronous, count[Ref], <<"exchange", i[Client]>>)'
      BY <2>1, <2>3, <2>4, <3>1, Two DEF InFlight
    <3>3. i[Client] + 1 \in 1 .. setup.nexchanges /\ i[Ref] = (i[Client] + 1) - 1
      BY <1>0, <1>2, <2>1
    <3> QED BY <1>0, <2>1, <2>4, <3>1, <3>2, <3>3 DEF ExchangeTo, SameCount, At
  <2>9. Together'
    BY <1>0, <2>8 DEF Together, PingpongInv
  <2> QED BY <1>0, <2>5, <2>6, <2>7, <2>9, StepOf, Two
<1> QED BY <1>4, <1>5

-----------------------------------------------------------------------------
(* The invariant is inductive. *)

LEMMA InvInit == Init => IInv
<1> SUFFICES ASSUME Init PROVE IInv
  OBVIOUS
<1>1. Types
  <2>1. <<>> \in Seq(Int) /\ {"main", "start"} \subseteq PC
    BY DEF PC
  <2> QED BY <2>1 DEF Init, Types, invalid_time
<1>2. Measurements \in Nat \ {0}
  BY CountsAssumption
<1>3. ASSUME NEW p \in Proc
      PROVE  Own(p) /\ Estimate(p) /\ pc[p] # "loop"
  BY <1>2 DEF Init, Own, Estimate
<1>4. /\ Quiet /\ SameCount /\ \A p \in Proc : i[p] = 0
      /\ \A p \in Proc : pc[p] = IF setup.alg = "drift" THEN "main" ELSE "start"
      /\ hash[Ref] = hash[Client]
  BY Two DEF Init, Quiet, SameCount
<1>5. Together
  <2>1. CASE setup.alg = "pingpong"
    BY <1>4, <2>1, Two DEF Together, PingpongInv, Begins, BranchesAgree
  <2>2. CASE setup.alg = "drift"
    BY <1>4, <2>2, Two DEF Together, MainInv, At
  <2>3. CASE setup.alg \notin {"pingpong", "drift"}
    BY <1>4, <2>3, Two DEF Together, SKaMPIInv, Rests, Upon, ClientWaits
  <2> QED BY <2>1, <2>2, <2>3
<1> QED BY <1>1, <1>3, <1>5 DEF IInv

\* Time passes, or nothing happens.
LEMMA IdleKeeps ==
    ASSUME IInv, now' \in Nat, now <= now',
           UNCHANGED <<setup, pc, count, i, times, bounds, hash, trips, chan, offset>>
    PROVE  IInv'
<1>1. Types /\ Together /\ now \in Nat \ {0}
  BY DEF IInv, Types
<1>2. Types'
  BY <1>1 DEF Types, times, bounds, trips
<1>3. ASSUME NEW q \in Proc PROVE Alone(q)'
  <2>1. Alone(q) /\ Same(q) /\ setup' = setup
    BY DEF IInv, Alone, Same, times, bounds, trips
  <2> QED BY <2>1, AloneKept
<1>4. MainInv => MainInv'
  BY DEF MainInv, TripTo, TripBack, Quiet, InFlight, ValueTo, At, Trips, SameCount
<1>5. PingpongInv => PingpongInv'
  <2>1. Begins => Begins'
    BY DEF Begins, BranchesAgree, SameCount, Quiet, trips
  <2>2. SameCount /\ (TripTo("rtt") \/ TripBack("rtt"))
            => (SameCount /\ (TripTo("rtt") \/ TripBack("rtt")))'
    BY DEF TripTo, TripBack, InFlight, ValueTo, At, Trips, SameCount
  <2>3. MeanSent => MeanSent'
    BY DEF MeanSent, InFlight, ValueTo, At, Trips, SameCount, trips
  <2>4. ExchangeTo => ExchangeTo'
    BY DEF ExchangeTo, InFlight, ValueTo, At, SameCount, trips
  <2>5. ExchangeBack => ExchangeBack'
    BY DEF ExchangeBack, InFlight, ValueTo, At, SameCount, trips
  <2> QED BY <2>1, <2>2, <2>3, <2>4, <2>5 DEF PingpongInv
<1>6. SKaMPIInv => SKaMPIInv'
  <2>0. ClientWaits => ClientWaits'
    BY DEF ClientWaits, Upon, At, Trips
  <2>1. Rests => Rests'
    BY <2>0 DEF Rests, SameCount, Quiet, Upon
  <2>2. FirstTo => FirstTo'
    <3>1. s_last[Ref] \in Int
      BY <1>1, Typed, Two
    <3> QED BY <1>1, <2>0, <3>1 DEF FirstTo, SameCount, InFlight, ValueTo, At, times
  <2>3. FirstBack => FirstBack'
    <3>1. t_last[Client] - setup.diff \in Int
      <4>1. t_last[Client] \in Int
        BY <1>1, Typed, Two
      <4>2. setup.diff \in Int
        BY <1>1, SetupFacts
      <4> QED BY <4>1, <4>2
    <3>2. t_last[Client] - setup.diff <= now => t_last[Client] - setup.diff <= now'
      BY <1>1, <3>1
    <3> QED BY <3>2 DEF FirstBack, SameCount, InFlight, ValueTo, At, times
  <2>4. /\ FirstEnd => FirstEnd'
        /\ LoopTo => LoopTo'
    <3>1. s_now[Ref] \in Int
      BY <1>1, Typed, Two
    <3>2. s_now[Ref] <= now => s_now[Ref] <= now'
      BY <1>1, <3>1
    <3>3. FirstEnd => FirstEnd'
      BY <3>2 DEF FirstEnd, SameCount, InFlight, ValueTo, At, times
    <3>4. LoopTo => LoopTo'
      BY <3>2 DEF LoopTo, SameCount, InFlight, ValueTo, At, times
    <3> QED BY <3>3, <3>4
  <2>5. LoopBack => LoopBack'
    <3>1. t_now[Client] - setup.diff \in Int
      <4>1. t_now[Client] \in Int
        BY <1>1, Typed, Two
      <4>2. setup.diff \in Int
        BY <1>1, SetupFacts
      <4> QED BY <4>1, <4>2
    <3>2. t_now[Client] - setup.diff <= now => t_now[Client] - setup.diff <= now'
      BY <1>1, <3>1
    <3> QED BY <3>2 DEF LoopBack, SameCount, InFlight, ValueTo, At, times
  <2>6. (RefEnded => RefEnded') /\ (ClientEnded => ClientEnded')
    BY DEF RefEnded, ClientEnded, Upon, InFlight, ValueTo
  <2>7. EndAndFirst => EndAndFirst'
    <3>1. s_last[Ref] \in Int
      BY <1>1, Typed, Two
    <3> QED BY <1>1, <3>1 DEF EndAndFirst, At, times
  <2> QED BY <2>1, <2>2, <2>3, <2>4, <2>5, <2>6, <2>7 DEF SKaMPIInv
<1>7. Together'
  BY <1>1, <1>4, <1>5, <1>6 DEF Together
<1> QED BY <1>2, <1>3, <1>7 DEF IInv, Alone

LEMMA InvStep == IInv /\ [Next]_vars => IInv'
<1> SUFFICES ASSUME IInv, [Next]_vars PROVE IInv'
  OBVIOUS
<1>1. now \in Nat \ {0}
  BY DEF IInv, Types
<1>2. CASE Tick
  BY <1>1, <1>2, IdleKeeps DEF Tick
<1>3. CASE UNCHANGED vars
  BY <1>1, <1>3, IdleKeeps DEF vars
<1>4. ASSUME NEW p \in Proc, Rtt(p) PROVE IInv'
  BY <1>4, FirstTripKeeps, RttReplyKeeps, RttRoundKeeps, RttMeanKeeps, WarmedUpKeeps DEF Rtt
<1>5. ASSUME NEW p \in Proc, Pingpong(p) PROVE IInv'
  BY <1>5, PingpongStartKeeps, FirstExchangeKeeps, RefExchangeKeeps, ClientExchangeKeeps
     DEF Pingpong
<1>6. ASSUME NEW p \in Proc, SKaMPI(p), setup.alg # "pingpong" PROVE IInv'
  BY <1>6, SKaMPIStartKeeps, RefSendKeeps, ClientReplyKeeps, RefFirstKeeps, ClientFirstKeeps,
     RefLoopKeeps, ClientLoopKeeps DEF SKaMPI
<1>7. ASSUME NEW p \in Proc, Step(p) PROVE IInv'
  <2>1. Rtt(p) \/ Pingpong(p) \/ (SKaMPI(p) /\ setup.alg # "pingpong")
    BY <1>7 DEF Step, MeasureOffset, MeasureLocalOffset, MeasureGlobalOffset
  <2> QED BY <1>4, <1>5, <1>6, <2>1
<1> QED BY <1>2, <1>3, <1>7 DEF Next

-----------------------------------------------------------------------------
(* The theorems. *)

LEMMA HeadOf ==
    ASSUME NEW p, NEW tag, NEW sync, NEW c, NEW round, InFlight(p, tag, sync, c, round)
    PROVE  Head(chan[p]).at = <<c, round>>
  BY DEF InFlight, M

LEMMA InvPingPongsMatch == IInv => PingPongsMatch
<1> SUFFICES ASSUME IInv, NEW p \in Proc, AtRecv(p), chan[p] # <<>>
             PROVE  Head(chan[p]).at = <<count[p], Round(p)>>
  BY DEF PingPongsMatch
<1>0. /\ Types /\ Together /\ i[Ref] \in Nat /\ i[Client] \in Nat /\ Own(Ref) /\ Own(Client)
      /\ pc[p] \notin {"start", "done"} /\ Trips(Client) \in Nat
  BY Typed, TripsFacts, Two DEF IInv, AtRecv
<1>1. CASE p = Ref
  <2>1. Round(Ref) = <<pc[Ref], IF pc[Ref] = "exchange" THEN i[Ref] + 1 ELSE i[Ref]>>
    BY DEF Round
  <2>2. CASE setup.alg = "pingpong"
    <3>1. TripBack("rtt") \/ ExchangeTo
      BY <1>0, <1>1, <2>2, Two DEF Together, PingpongInv, Begins, TripTo, MeanSent,
                                   ExchangeBack, Quiet, InFlight
    <3>2. TripBack("rtt") => InFlight(Ref, Tag, ~setup.eager, count[Ref], Round(Ref))
      BY <2>1 DEF TripBack
    <3>3. ExchangeTo => InFlight(Ref, Tag, synchronous, count[Ref], Round(Ref))
      <4>1. ExchangeTo => pc[Ref] = "exchange" /\ i[Ref] + 1 = i[Client]
        BY <1>0, <1>1 DEF ExchangeTo, At
      <4> QED BY <2>1, <4>1 DEF ExchangeTo
    <3> QED BY <1>1, <3>1, <3>2, <3>3, HeadOf
  <2>3. CASE setup.alg # "pingpong" /\ pc[Ref] = "main"
    <3>1. TripBack("main")
      BY <1>0, <1>1, <2>3, Two DEF Together, MainInv, TripTo, Quiet, InFlight
    <3>2. InFlight(Ref, Tag, ~setup.eager, count[Ref], Round(Ref))
      BY <2>1, <3>1 DEF TripBack
    <3> QED BY <1>1, <3>2, HeadOf
  <2>4. CASE setup.alg # "pingpong" /\ pc[Ref] # "main"
    <3>1. FirstBack \/ LoopBack \/ ClientEnded
      BY <1>0, <1>1, <2>4, Two DEF Together, SKaMPIInv, Rests, FirstTo, FirstEnd, LoopTo,
                                   RefEnded, EndAndFirst, Quiet, InFlight
    <3>2. FirstBack \/ LoopBack \/ ClientEnded
              => InFlight(Ref, PpTag, ~setup.eager, count[Ref], Round(Ref))
      BY <2>1 DEF FirstBack, LoopBack, ClientEnded, At
    <3> QED BY <1>1, <3>1, <3>2, HeadOf
  <2> QED BY <2>2, <2>3, <2>4
<1>2. CASE p = Client
  <2>1. Round(Client) =
            IF pc[Client] = "rtt" /\ i[Client] = Trips(Client) THEN <<"mean", 1>>
            ELSE <<pc[Client], CASE pc[Client] = "exchange" -> i[Client]
                                 [] pc[Client] = "first" -> 2 * i[Client]
                                 [] OTHER -> i[Client] + 1>>
    BY Two DEF Round
  <2>2. ASSUME NEW l \in {"main", "rtt"}, TripTo(l)
        PROVE  InFlight(Client, Tag, ~setup.eager, count[Client], Round(Client))
    <3>1. pc[Client] = l /\ pc[Ref] = l /\ i[Ref] = i[Client] + 1 /\ i[Ref] <= Trips(Ref)
          /\ InFlight(Client, Tag, ~setup.eager, count[Client], <<l, i[Ref]>>)
      BY <1>0, <1>2, <2>2 DEF TripTo, At
    <3>2. Trips(Ref) = Trips(Client)
      BY <3>1 DEF Trips
    <3>3. i[Client] # Trips(Client)
      BY <1>0, <3>1, <3>2
    <3>4. Round(Client) = <<l, i[Ref]>>
      BY <2>1, <3>1, <3>3
    <3> QED BY <3>1, <3>4
  <2>3. CASE setup.alg = "pingpong"
    <3>1. TripTo("rtt") \/ MeanSent \/ ExchangeBack
      BY <1>0, <1>2, <2>3, Two DEF Together, PingpongInv, Begins, TripBack, ExchangeTo,
                                   Quiet, InFlight
    <3>2. MeanSent => InFlight(Client, Tag, ~setup.eager, count[Client], Round(Client))
      BY <2>1 DEF MeanSent, At
    <3>3. ExchangeBack => InFlight(Client, Tag, synchronous, count[Client], Round(Client))
      BY <2>1 DEF ExchangeBack
    <3> QED BY <1>2, <2>2, <3>1, <3>2, <3>3, HeadOf
  <2>4. CASE setup.alg # "pingpong" /\ pc[Ref] = "main"
    <3>1. TripTo("main")
      BY <1>0, <1>2, <2>4, Two DEF Together, MainInv, TripBack, Quiet, InFlight
    <3> QED BY <1>2, <2>2, <3>1, HeadOf
  <2>5. CASE setup.alg # "pingpong" /\ pc[Ref] # "main"
    <3>1. FirstTo \/ FirstEnd \/ LoopTo \/ RefEnded \/ EndAndFirst
      BY <1>0, <1>2, <2>5, Two DEF Together, SKaMPIInv, Rests, FirstBack, LoopBack,
                                   ClientEnded, Quiet, InFlight
    <3>2. FirstTo => InFlight(Client, PpTag, ~setup.eager, count[Client], Round(Client))
      <4>1. ClientWaits => pc[Client] = "first" /\ i[Client] = 0
        <5>1. pc[Client] = "main" => i[Client] < Trips(Client)
          BY <1>2, Two DEF AtRecv
        <5> QED BY <1>0, <1>2, <5>1 DEF ClientWaits, Upon, At
      <4>2. ClientWaits => Round(Client) = <<"first", 0>>
        BY <2>1, <4>1
      <4> QED BY <4>2 DEF FirstTo
    <3>3. FirstEnd => InFlight(Client, PpTag, ~setup.eager, count[Client], Round(Client))
      <4>1. At(Client, "first", 1) => Round(Client) = <<"first", 2>>
        BY <2>1 DEF At
      <4> QED BY <4>1 DEF FirstEnd
    <3>4. pc[Client] = "loop" => Round(Client) = <<"loop", i[Client] + 1>>
      BY <2>1
    <3>5. LoopTo \/ RefEnded
              => InFlight(Client, PpTag, ~setup.eager, count[Client], Round(Client))
      BY <3>4 DEF LoopTo, RefEnded
    <3>6. EndAndFirst => Head(chan[Client]).at = <<count[Client], Round(Client)>>
      BY <3>4 DEF EndAndFirst, M
    <3> QED BY <1>2, <3>1, <3>2, <3>3, <3>5, <3>6, HeadOf
  <2> QED BY <2>3, <2>4, <2>5
<1> QED BY <1>1, <1>2, Two

\* No message is left over: whatever a process receives, in either algorithm
\* and in the warm-up, was sent in the measurement, the phase and the round the
\* receiver is in, though the reference ends the loop of SKaMPI by itself and
\* goes on before the client has got the end (measure_offset,
\* skampi_clock_offset_alg.cpp, pingpong_clock_offset_alg.cpp).
THEOREM PingPongsStayMatched == Spec => []PingPongsMatch
<1> QED BY InvInit, InvStep, InvPingPongsMatch, PTL DEF Spec

\* However long messages take, td_min and td_max of measure_offset enclose the
\* difference of the clocks at both processes, in every round of the loop.
THEOREM BoundsAlwaysHold == Spec => []BoundsHold
<1>1. IInv => BoundsHold
  BY DEF IInv, BoundsHold, BoundsOf
<1> QED BY <1>1, InvInit, InvStep, PTL DEF Spec

\* What measure_offset returns is an estimate of the client's clock minus the
\* reference's at either process, off by no more than half the distance of the
\* bounds; the ping-pong algorithm returns a sample, and its correction is the
\* same round-trip time at both.
THEOREM OffsetStaysEstimate == Spec => []OffsetIsEstimate
<1>1. IInv => OffsetIsEstimate
  <2> SUFFICES ASSUME IInv PROVE OffsetIsEstimate
    OBVIOUS
  <2>1. ASSUME \A p \in Proc : pc[p] = "exchange" PROVE rtt[Ref] = rtt[Client]
    <3>1. PingpongInv /\ pc[Ref] = "exchange" /\ pc[Client] = "exchange"
      BY <2>1, Two DEF IInv, Own, Together
    <3> QED BY <3>1 DEF PingpongInv, Begins, BranchesAgree, TripTo, TripBack, MeanSent,
                        ExchangeTo, ExchangeBack, At
  <2> QED BY <2>1 DEF IInv, Estimate, OffsetIsEstimate
<1> QED BY <1>1, InvInit, InvStep, PTL DEF Spec
=============================================================================
