-------------------------- MODULE OffsetMeasurement --------------------------
(***************************************************************************)
(* How two processes measure the offset of their clocks, message by        *)
(* message: measure_offset of SKaMPIClockOffsetAlg and of                  *)
(* PingpongClockOffsetAlg (sync/clock_sync_old/clock_offset_algs/), and    *)
(* the copies of the former in the programs of sanity_check/clock_drift/,  *)
(* with the warm-up of measure_real_clock_drift.c.                         *)
(*                                                                         *)
(* Time is a number of ticks.  The reference process reads `now', the      *)
(* client `now + setup.diff': both clocks run alike.  A message takes any  *)
(* time, which includes the time between its receipt and the next look at  *)
(* the clock.  A message carries, besides its value, where in the protocol *)
(* it was sent; only a property looks at that.                             *)
(***************************************************************************)
EXTENDS Integers, Sequences, FiniteSets

SX == INSTANCE SequencesExt
FX == INSTANCE FiniteSetsExt

CONSTANTS
    Setups,               \* the programs and clocks considered
    Measurements,         \* how often the offset is measured
    Warmups,              \* rounds without measurement before a round-trip time
    Minimum_ping_pongs, Number_ping_pongs,
    nexchanges_rtt,       \* round trips of compute_rtt
    MaxTime,              \* bound: ticks
    None                  \* no value yet

ASSUME CountsAssumption ==
    /\ {Measurements, Warmups, nexchanges_rtt} \subseteq Nat \ {0}
    /\ {Minimum_ping_pongs, Number_ping_pongs} \subseteq Nat \ {0}
\* alg: which code measures; diff: the client's clock minus the reference's;
\* nexchanges: exchanges of the ping-pong algorithm; eager: whether MPI_Send
\* returns before the message is received.
ASSUME SetupsAssumption ==
    Setups \subseteq [alg : {"skampi", "pingpong", "drift", "global"}, diff : Int,
                      nexchanges : Nat \ {0}, eager : BOOLEAN]
\* No clock is ever read below 0: a negative time is the sign for the end.
ASSUME ClocksAssumption == \A s \in Setups : s.diff >= -1
ASSUME NoneAssumption == None \notin Int

VARIABLES
    setup, now,
    pc, count, i,                    \* position: phase, measurement, round
    s_last, s_now, t_last, t_now,    \* times of the reference and of the client
    td_min, td_max,                  \* bounds of the other clock minus one's own
    ping_pong_min_time,
    hash,                            \* the entry of the pair, if any, in
                                     \* rankpair2minpingpong, rankpair2rtt
    rtt, samples,                    \* rtts; local_time - master_time
    chan,                            \* messages on their way to each process
    offset                           \* the result of the last measurement

times == <<s_last, s_now, t_last, t_now>>
bounds == <<td_min, td_max, ping_pong_min_time>>
trips == <<rtt, samples>>
vars == <<setup, now, pc, count, i, times, bounds, hash, trips, chan, offset>>

Ref == "ref"
Client == "client"
Proc == {Ref, Client}
Other(p) == IF p = Ref THEN Client ELSE Ref

invalid_time == -1

Time(p) == IF p = Ref THEN now ELSE now + setup.diff

Larger(a, b) == FX!Max({a, b})
Smaller(a, b) == FX!Min({a, b})

Init ==
    /\ setup \in Setups
    /\ now = 1
    /\ pc = [p \in Proc |-> IF setup.alg = "drift" THEN "main" ELSE "start"]
    /\ count = [p \in Proc |-> 1] /\ i = [p \in Proc |-> 0]
    /\ s_last = [p \in Proc |-> 0] /\ s_now = [p \in Proc |-> 0]
    /\ t_last = [p \in Proc |-> 0] /\ t_now = [p \in Proc |-> 0]
    /\ td_min = [p \in Proc |-> 0] /\ td_max = [p \in Proc |-> 0]
    /\ ping_pong_min_time = [p \in Proc |-> invalid_time]
    /\ hash = [p \in Proc |-> {}]
    /\ rtt = [p \in Proc |-> None] /\ samples = [p \in Proc |-> <<>>]
    /\ chan = [p \in Proc |-> <<>>]
    /\ offset = [p \in Proc |-> None]

-----------------------------------------------------------------------------
\* Point-to-point messages, matched by tag.  MPI_Ssend returns when the message
\* is received, MPI_Send may or may not wait for that.
Message(p, tag, value, round) ==
    [tag |-> tag, value |-> value, sync |-> ~setup.eager, at |-> <<count[p], round>>]
Send(p, m) == chan' = [chan EXCEPT ![Other(p)] = Append(@, m)]
Sent(p) == \A k \in DOMAIN chan[Other(p)] : ~chan[Other(p)][k].sync

CanRecv(p, tag) ==
    Sent(p) /\ \E k \in DOMAIN chan[p] : chan[p][k].tag = tag
Index(p, tag) == FX!Min({k \in DOMAIN chan[p] : chan[p][k].tag = tag})
Received(p, tag) == chan[p][Index(p, tag)].value
Rest(p, tag) == SX!RemoveAt(chan[p], Index(p, tag))
Recv(p, tag) == chan' = [chan EXCEPT ![p] = Rest(p, tag)]
RecvSend(p, tag, m) ==
    chan' = [chan EXCEPT ![p] = Rest(p, tag), ![Other(p)] = Append(@, m)]

PpTag == 43
Tag == 0
Ssend(m) == [m EXCEPT !.sync = TRUE]

\* A measurement is over.
Return(p, result) ==
    /\ offset' = [offset EXCEPT ![p] = result]
    /\ count' = [count EXCEPT ![p] = @ + 1]
    /\ i' = [i EXCEPT ![p] = 0]
    /\ pc' = [pc EXCEPT ![p] = IF count[p] = Measurements THEN "done" ELSE "start"]

-----------------------------------------------------------------------------
\* Round trips without a look at their times: compute_rtt and the main program
\* of measure_real_clock_drift begin with them.
Trips(p) == IF pc[p] = "main" THEN Warmups ELSE Warmups + nexchanges_rtt

\* The first message of a series of round trips.
FirstTrip(p) ==
    /\ p = Ref /\ pc[p] \in {"main", "rtt"} /\ i[p] = 0
    /\ Sent(p)
    /\ Send(p, Message(p, Tag, Time(p), <<pc[p], 1>>))
    /\ s_last' = [s_last EXCEPT ![p] = Time(p)]
    /\ i' = [i EXCEPT ![p] = 1]
    /\ UNCHANGED <<setup, now, pc, count, s_now, t_last, t_now, bounds, hash,
                   trips, offset>>

\* Element k of the array a when sorted.
Sorted(a, k) ==
    FX!Min({a[j] : j \in {x \in DOMAIN a :
                              Cardinality({y \in DOMAIN a : a[y] <= a[x]}) >= k}})

\* Quantiles and means by the rules of the GNU Scientific Library; the
\* 0.75-quantile times 4, the mean as sum and number.
UpperQuartile4(a) ==
    LET place == (Len(a) - 1) * 3
        k == place \div 4 + 1
        rest == place % 4
    IN  IF rest = 0 THEN 4 * Sorted(a, k)
        ELSE (4 - rest) * Sorted(a, k) + rest * Sorted(a, k + 1)
Mean(a) == [sum |-> SX!FoldLeft(LAMBDA x, y : x + y, 0, a), n |-> Len(a)]

\* The round trips of at most 1.5 times the upper quartile.
Accepted(a) == SelectSeq(a, LAMBDA t : 8 * t <= 3 * UpperQuartile4(a))

\* The other process answers.
RttReply(p) ==
    /\ p = Client /\ pc[p] \in {"main", "rtt"} /\ i[p] < Trips(p)
    /\ CanRecv(p, Tag)
    /\ RecvSend(p, Tag, Message(p, Tag, Time(p), <<pc[p], i[p] + 1>>))
    /\ i' = [i EXCEPT ![p] = @ + 1]
    /\ UNCHANGED <<setup, now, pc, count, times, bounds, hash, trips, offset>>

\* The answer arrives: another round, or the end, where compute_rtt sends the
\* mean to the other process.
RttRound(p) ==
    LET trip == Time(p) - s_last[p]
        all == IF i[p] > Warmups THEN Append(samples[p], trip) ELSE samples[p]
        last == i[p] = Trips(p)
        mean == Mean(Accepted(all))
    IN  /\ p = Ref /\ pc[p] \in {"main", "rtt"} /\ i[p] > 0
        /\ CanRecv(p, Tag)
        /\ samples' = [samples EXCEPT ![p] = IF last THEN <<>> ELSE all]
        /\ IF last
           THEN /\ IF pc[p] = "rtt"
                   THEN /\ RecvSend(p, Tag, Message(p, Tag, mean, <<"mean", 1>>))
                        /\ rtt' = [rtt EXCEPT ![p] = mean]
                        /\ hash' = [hash EXCEPT ![p] = {mean}]
                        /\ pc' = [pc EXCEPT ![p] = "exchange"]
                   ELSE /\ Recv(p, Tag)
                        /\ pc' = [pc EXCEPT ![p] = "start"]
                        /\ UNCHANGED <<rtt, hash>>
                /\ i' = [i EXCEPT ![p] = 0]
                /\ UNCHANGED s_last
           ELSE /\ RecvSend(p, Tag, Message(p, Tag, Time(p), <<pc[p], i[p] + 1>>))
                /\ s_last' = [s_last EXCEPT ![p] = Time(p)]
                /\ i' = [i EXCEPT ![p] = @ + 1]
                /\ UNCHANGED <<pc, rtt, hash>>
        /\ UNCHANGED <<setup, now, count, s_now, t_last, t_now, bounds, offset>>

\* The other process after its last answer: the mean arrives.
RttMean(p) ==
    /\ p = Client /\ pc[p] = "rtt" /\ i[p] = Trips(p)
    /\ CanRecv(p, Tag)
    /\ Recv(p, Tag)
    /\ rtt' = [rtt EXCEPT ![p] = Received(p, Tag)]
    /\ hash' = [hash EXCEPT ![p] = {Received(p, Tag)}]
    /\ pc' = [pc EXCEPT ![p] = "exchange"]
    /\ i' = [i EXCEPT ![p] = 0]
    /\ UNCHANGED <<setup, now, count, times, bounds, samples, offset>>

WarmedUp(p) ==
    /\ p = Client /\ pc[p] = "main" /\ i[p] = Trips(p)
    /\ pc' = [pc EXCEPT ![p] = "start"]
    /\ i' = [i EXCEPT ![p] = 0]
    /\ UNCHANGED <<setup, now, count, times, bounds, hash, trips, chan, offset>>

-----------------------------------------------------------------------------
\* PingpongClockOffsetAlg::measure_offset.  A pair found in the hash is measured
\* again; for a new one the hash makes an entry of 0.
PingpongStart(p) ==
    /\ setup.alg = "pingpong" /\ pc[p] = "start"
    /\ IF hash[p] # {}
       THEN /\ pc' = [pc EXCEPT ![p] = "rtt"]
            /\ UNCHANGED <<hash, rtt>>
       ELSE /\ pc' = [pc EXCEPT ![p] = "exchange"]
            /\ rtt' = [rtt EXCEPT ![p] = [sum |-> 0, n |-> 1]]
            /\ hash' = [hash EXCEPT ![p] = {[sum |-> 0, n |-> 1]}]
    /\ UNCHANGED <<setup, now, count, i, times, bounds, samples, chan, offset>>

\* The client sends the first of its messages.
FirstExchange(p) ==
    /\ p = Client /\ pc[p] = "exchange" /\ i[p] = 0
    /\ Sent(p)
    /\ Send(p, Ssend(Message(p, Tag, Time(p), <<"exchange", 1>>)))
    /\ i' = [i EXCEPT ![p] = 1]
    /\ UNCHANGED <<setup, now, pc, count, times, bounds, hash, trips, offset>>

\* Mutant: the loop of the reference makes one exchange more.
RefExchangeOneMore(p) ==
    /\ p = Ref /\ pc[p] = "exchange"
    /\ CanRecv(p, Tag)
    /\ RecvSend(p, Tag, Ssend(Message(p, Tag, Time(p), <<"exchange", i[p] + 1>>)))
    /\ IF i[p] = setup.nexchanges THEN Return(p, None)
       ELSE i' = [i EXCEPT ![p] = @ + 1] /\ UNCHANGED <<pc, count, offset>>
    /\ UNCHANGED <<setup, now, times, bounds, hash, trips>>

\* The reference answers every message of the client with its time.
RefExchange(p) ==
    /\ p = Ref /\ pc[p] = "exchange"
    /\ CanRecv(p, Tag)
    /\ RecvSend(p, Tag, Ssend(Message(p, Tag, Time(p), <<"exchange", i[p] + 1>>)))
    /\ IF i[p] + 1 = setup.nexchanges THEN Return(p, None)
       ELSE i' = [i EXCEPT ![p] = @ + 1] /\ UNCHANGED <<pc, count, offset>>
    /\ UNCHANGED <<setup, now, times, bounds, hash, trips>>

\* Mutant: the median of an even number of samples is that of all of them.
MedianOfAll(a) ==
    LET k == (Len(a) + 1) \div 2
    IN  IF Len(a) % 2 = 1 THEN 2 * Sorted(a, k) ELSE Sorted(a, k) + Sorted(a, k + 1)

\* Twice the median of the samples; of an even number the largest is left out.
Median2(a) ==
    LET n == IF Len(a) % 2 = 0 THEN Len(a) - 1 ELSE Len(a)
    IN  2 * Sorted(a, (n + 1) \div 2)

\* The first sample that is the median; without one, no offset.
Chosen(a) ==
    IF \E k \in DOMAIN a : 2 * a[k] = Median2(a)
    THEN a[FX!Min({k \in DOMAIN a : 2 * a[k] = Median2(a)})] ELSE None

\* The reference's time arrives.  Every time_var is its sample less half the
\* round-trip time, which is the same for all of them.
ClientExchange(p) ==
    LET all == Append(samples[p], Time(p) - Received(p, Tag))
    IN  /\ p = Client /\ pc[p] = "exchange" /\ i[p] > 0
        /\ CanRecv(p, Tag)
        /\ IF i[p] = setup.nexchanges
           THEN /\ Recv(p, Tag)
                /\ Return(p, [sample |-> Chosen(all), rtt |-> rtt[p]])
                /\ samples' = [samples EXCEPT ![p] = <<>>]
           ELSE /\ RecvSend(p, Tag, Ssend(Message(p, Tag, Time(p), <<"exchange", i[p] + 1>>)))
                /\ i' = [i EXCEPT ![p] = @ + 1]
                /\ samples' = [samples EXCEPT ![p] = all]
                /\ UNCHANGED <<pc, count, offset>>
        /\ UNCHANGED <<setup, now, times, bounds, hash, rtt>>

Pingpong(p) == PingpongStart(p) \/ FirstExchange(p) \/ RefExchange(p) \/ ClientExchange(p)
Rtt(p) == FirstTrip(p) \/ RttReply(p) \/ RttRound(p) \/ RttMean(p) \/ WarmedUp(p)

-----------------------------------------------------------------------------
\* SKaMPIClockOffsetAlg::measure_offset.  A pair found in the hash has no
\* minimum; for a new one the hash makes an entry of 0.
SKaMPIStart(p) ==
    /\ pc[p] = "start"
    /\ IF setup.alg = "skampi" /\ hash[p] = {}
       THEN /\ ping_pong_min_time' = [ping_pong_min_time EXCEPT ![p] = 0]
            /\ hash' = [hash EXCEPT ![p] = {0}]
       ELSE /\ ping_pong_min_time' = [ping_pong_min_time EXCEPT ![p] = invalid_time]
            /\ UNCHANGED hash
    /\ pc' = [pc EXCEPT ![p] = "first"]
    /\ UNCHANGED <<setup, now, count, i, times, td_min, td_max, trips, chan, offset>>

\* The exchange before the loop.
RefSend(p) ==
    /\ p = Ref /\ pc[p] = "first" /\ i[p] = 0
    /\ Sent(p)
    /\ Send(p, Message(p, PpTag, Time(p), <<"first", 0>>))
    /\ s_last' = [s_last EXCEPT ![p] = Time(p)]
    /\ i' = [i EXCEPT ![p] = 1]
    /\ UNCHANGED <<setup, now, pc, count, s_now, t_last, t_now, bounds, hash,
                   trips, offset>>

ClientReply(p) ==
    /\ p = Client /\ pc[p] = "first" /\ i[p] = 0
    /\ CanRecv(p, PpTag)
    /\ RecvSend(p, PpTag, Message(p, PpTag, Time(p), <<"first", 1>>))
    /\ s_last' = [s_last EXCEPT ![p] = Received(p, PpTag)]
    /\ t_last' = [t_last EXCEPT ![p] = Time(p)]
    /\ i' = [i EXCEPT ![p] = 1]
    /\ UNCHANGED <<setup, now, pc, count, s_now, t_now, bounds, hash, trips, offset>>

RefFirst(p) ==
    /\ p = Ref /\ pc[p] = "first" /\ i[p] = 1
    /\ CanRecv(p, PpTag)
    /\ RecvSend(p, PpTag, Message(p, PpTag, Time(p), <<"first", 2>>))
    /\ t_last' = [t_last EXCEPT ![p] = Received(p, PpTag)]
    /\ s_now' = [s_now EXCEPT ![p] = Time(p)]
    /\ td_min' = [td_min EXCEPT ![p] = Received(p, PpTag) - Time(p)]
    /\ td_max' = [td_max EXCEPT ![p] = Received(p, PpTag) - s_last[p]]
    /\ pc' = [pc EXCEPT ![p] = "loop"] /\ i' = [i EXCEPT ![p] = 1]
    /\ UNCHANGED <<setup, now, count, s_last, t_now, ping_pong_min_time, hash,
                   trips, offset>>

\* The client enters the loop, which begins with sending t_now.
ClientFirst(p) ==
    LET now_at_ref == Received(p, PpTag)
    IN  /\ p = Client /\ pc[p] = "first" /\ i[p] = 1
        /\ CanRecv(p, PpTag)
        /\ s_now' = [s_now EXCEPT ![p] = now_at_ref]
        /\ t_now' = [t_now EXCEPT ![p] = Time(p)]
        /\ td_min' = [td_min EXCEPT ![p] =
               Larger(s_last[p] - t_last[p], now_at_ref - Time(p))]
        /\ td_max' = [td_max EXCEPT ![p] = now_at_ref - t_last[p]]
        /\ RecvSend(p, PpTag, Message(p, PpTag, Time(p), <<"loop", 1>>))
        /\ pc' = [pc EXCEPT ![p] = "loop"]
        /\ UNCHANGED <<setup, now, count, i, s_last, t_last, ping_pong_min_time,
                       hash, trips, offset>>

\* The end: the minimum enters the hash; the offset is the middle of the
\* bounds, for the client with the opposite sign.  Kept as twice the offset.
Finish(p, lo, hi) ==
    LET width == hi - lo
        sign == IF p = Ref THEN 1 ELSE -1
    IN  /\ hash' = IF setup.alg # "skampi" THEN hash
                   ELSE [hash EXCEPT ![p] = {IF ping_pong_min_time[p] < 0 THEN width
                                             ELSE Smaller(ping_pong_min_time[p], width)}]
        /\ Return(p, [twice |-> sign * (lo + hi), width |-> width])

Stops(p, trip) == /\ ping_pong_min_time[p] >= 0
                  /\ i[p] >= Minimum_ping_pongs
                  /\ 10 * trip < 11 * ping_pong_min_time[p]

\* Mutant: s_last is not advanced before the bounds are updated, but s_now.
RefLoopOldTimes(p) ==
    LET t == Received(p, PpTag)
        lo == Larger(td_min[p], t - s_now[p])
        hi == Smaller(td_max[p], t - s_now[p])
        stop == i[p] + 1 >= Number_ping_pongs
    IN  /\ p = Ref /\ pc[p] = "loop"
        /\ CanRecv(p, PpTag)
        /\ t_last' = [t_last EXCEPT ![p] = t]
        /\ s_last' = [s_last EXCEPT ![p] = s_now[p]]
        /\ s_now' = [s_now EXCEPT ![p] = Time(p)]
        /\ td_min' = [td_min EXCEPT ![p] = lo] /\ td_max' = [td_max EXCEPT ![p] = hi]
        /\ RecvSend(p, PpTag, Message(p, PpTag, IF stop THEN invalid_time ELSE Time(p),
                                      <<"loop", i[p] + 1>>))
        /\ IF stop THEN Finish(p, lo, hi)
           ELSE i' = [i EXCEPT ![p] = @ + 1] /\ UNCHANGED <<pc, count, hash, offset>>
        /\ UNCHANGED <<setup, now, t_now, ping_pong_min_time, trips>>

\* One round of the reference's loop.
RefLoop(p) ==
    LET t == Received(p, PpTag)
        lo == Larger(td_min[p], t - Time(p))
        hi == Smaller(td_max[p], t - s_now[p])
        stop == Stops(p, Time(p) - s_now[p]) \/ i[p] + 1 >= Number_ping_pongs
    IN  /\ p = Ref /\ pc[p] = "loop"
        /\ CanRecv(p, PpTag)
        /\ t_last' = [t_last EXCEPT ![p] = t]
        /\ IF t < 0
           THEN Recv(p, PpTag) /\ Finish(p, td_min[p], td_max[p])
                /\ UNCHANGED <<s_last, s_now, td_min, td_max>>
           ELSE /\ s_last' = [s_last EXCEPT ![p] = s_now[p]]
                /\ s_now' = [s_now EXCEPT ![p] = Time(p)]
                /\ td_min' = [td_min EXCEPT ![p] = lo]
                /\ td_max' = [td_max EXCEPT ![p] = hi]
                /\ RecvSend(p, PpTag, Message(p, PpTag,
                       IF stop THEN invalid_time ELSE Time(p), <<"loop", i[p] + 1>>))
                /\ IF stop THEN Finish(p, lo, hi)
                   ELSE i' = [i EXCEPT ![p] = @ + 1] /\ UNCHANGED <<pc, count, hash, offset>>
        /\ UNCHANGED <<setup, now, t_now, ping_pong_min_time, trips>>

\* Mutant: the client answers the message that ends the loop.
ClientLoopAnswersEnd(p) ==
    LET s == Received(p, PpTag)
        lo == Larger(td_min[p], s - Time(p))
        hi == Smaller(td_max[p], s - t_now[p])
    IN  /\ p = Client /\ pc[p] = "loop"
        /\ CanRecv(p, PpTag)
        /\ s_last' = [s_last EXCEPT ![p] = s]
        /\ t_last' = [t_last EXCEPT ![p] = t_now[p]]
        /\ t_now' = [t_now EXCEPT ![p] = Time(p)]
        /\ RecvSend(p, PpTag, Message(p, PpTag, Time(p), <<"loop", i[p] + 1>>))
        /\ IF s < 0
           THEN Finish(p, td_min[p], td_max[p]) /\ UNCHANGED <<td_min, td_max>>
           ELSE /\ td_min' = [td_min EXCEPT ![p] = lo]
                /\ td_max' = [td_max EXCEPT ![p] = hi]
                /\ i' = [i EXCEPT ![p] = @ + 1] /\ UNCHANGED <<pc, count, hash, offset>>
        /\ UNCHANGED <<setup, now, s_now, ping_pong_min_time, trips>>

\* One round of the client's loop, up to the next MPI_Recv.
ClientLoop(p) ==
    LET s == Received(p, PpTag)
        lo == Larger(td_min[p], s - Time(p))
        hi == Smaller(td_max[p], s - t_now[p])
        stop == Stops(p, Time(p) - t_now[p])
    IN  /\ p = Client /\ pc[p] = "loop"
        /\ CanRecv(p, PpTag)
        /\ s_last' = [s_last EXCEPT ![p] = s]
        /\ t_last' = [t_last EXCEPT ![p] = t_now[p]]
        /\ t_now' = [t_now EXCEPT ![p] = Time(p)]
        /\ IF s < 0
           THEN Recv(p, PpTag) /\ Finish(p, td_min[p], td_max[p])
                /\ UNCHANGED <<td_min, td_max>>
           ELSE /\ td_min' = [td_min EXCEPT ![p] = lo]
                /\ td_max' = [td_max EXCEPT ![p] = hi]
                /\ RecvSend(p, PpTag, Message(p, PpTag,
                       IF stop THEN invalid_time ELSE Time(p), <<"loop", i[p] + 1>>))
                /\ IF stop THEN Finish(p, lo, hi)
                   ELSE i' = [i EXCEPT ![p] = @ + 1] /\ UNCHANGED <<pc, count, hash, offset>>
        /\ UNCHANGED <<setup, now, s_now, ping_pong_min_time, trips>>

SKaMPI(p) == \/ SKaMPIStart(p) \/ RefSend(p)     \/ ClientReply(p)
             \/ RefFirst(p)    \/ ClientFirst(p) \/ RefLoop(p)  \/ ClientLoop(p)

\* The copies of the function: with a hash, without one, and without one by the
\* global clocks, whose difference is what a synchronisation has left.
MeasureOffset(p) == setup.alg = "skampi" /\ SKaMPI(p)
MeasureLocalOffset(p) == setup.alg = "drift" /\ SKaMPI(p)
MeasureGlobalOffset(p) == setup.alg = "global" /\ SKaMPI(p)

Step(p) == \/ Rtt(p)           \/ Pingpong(p)
           \/ MeasureOffset(p) \/ MeasureLocalOffset(p) \/ MeasureGlobalOffset(p)

Finished == \A p \in Proc : pc[p] = "done"

Tick == /\ ~Finished
        /\ now < MaxTime
        /\ now' = now + 1
        /\ UNCHANGED <<setup, pc, count, i, times, bounds, hash, trips, chan, offset>>

Next == Tick \/ (\E p \in Proc : Step(p)) \/ (Finished /\ UNCHANGED vars)

\* Processes run and messages arrive.
Spec == Init /\ [][Next]_vars /\ WF_vars(Next)

-----------------------------------------------------------------------------
\* Where p is: what its next message has to belong to.
Round(p) ==
    IF p = Ref THEN <<pc[p], IF pc[p] = "exchange" THEN i[p] + 1 ELSE i[p]>>
    ELSE IF pc[p] = "rtt" /\ i[p] = Trips(p) THEN <<"mean", 1>>
    ELSE <<pc[p], CASE pc[p] = "exchange" -> i[p]
                    [] pc[p] = "first" -> 2 * i[p]
                    [] OTHER -> i[p] + 1>>

\* Whether p waits in MPI_Recv.
AtRecv(p) ==
    /\ pc[p] \notin {"start", "done"}
    /\ IF p = Ref THEN i[p] > 0 \/ pc[p] = "exchange"
       ELSE /\ pc[p] = "exchange" => i[p] > 0
            /\ pc[p] = "main" => i[p] < Trips(p)

\* What p receives belongs to the measurement, the phase and the round p is in.
\* The two loops of SKaMPI have different exits: the reference ends a
\* measurement after Number_ping_pongs rounds and is in the next one while its
\* end message is still on its way, and the client leaves with that message.
\* One that is left over would be read as a time by the next measurement.
\* (The early stop, by which either process could end the loop, never happens:
\* the test for a known minimum is inverted.)
PingPongsMatch ==
    \A p \in Proc : AtRecv(p) /\ chan[p] # <<>> /\ Sent(p) =>
        Head(chan[p]).at = <<count[p], Round(p)>>

\* However long messages take, the true difference of the clocks is between
\* the bounds of either process.
Truth(p) == IF p = Ref THEN setup.diff ELSE -setup.diff
BoundsHold ==
    \A p \in Proc : pc[p] = "loop" =>
        td_min[p] <= Truth(p) /\ Truth(p) <= td_max[p]

\* What a measurement returns: an estimate of the client's clock minus the
\* reference's, at both processes alike, wrong by no more than half the
\* distance of the bounds (SKaMPI); a measured sample, corrected by the
\* round-trip time the reference has computed, too (ping-pong).
OffsetIsEstimate ==
    /\ \A p \in Proc : offset[p] # None =>
           IF setup.alg = "pingpong" THEN offset[p].sample # None
           ELSE /\ 2 * setup.diff - offset[p].width <= offset[p].twice
                /\ offset[p].twice <= 2 * setup.diff + offset[p].width
    /\ (\A p \in Proc : pc[p] = "exchange") => rtt[Ref] = rtt[Client]

\* Every measurement ends at both processes.
EveryMeasurementEnds == <>Finished
=============================================================================
