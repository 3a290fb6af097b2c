------------------------ MODULE ClockSyncAlgorithms ------------------------
(***************************************************************************)
(* The algorithms of clock_sync_old/sync_methods.  What one process does   *)
(* in a call of synchronize_all_clocks(comm, c) is a sequence of           *)
(* operations: the communications it takes part in, in the order of the    *)
(* code, and the statements between them.  ClockSync executes them.        *)
(*                                                                         *)
(* comm is the sequence of the communicator's processes, me the rank of    *)
(* the process in it.  An operation with partners carries them in who.     *)
(***************************************************************************)
EXTENDS ClockModels

CONSTANTS NFit             \* n_fitpoints
ASSUME NFitAssumption == NFit \in Nat \ {0}

Do(what) == [op |-> "do", who |-> <<>>, what |-> what]
Collective(op, comm) == [op |-> op, who |-> comm]
At(comm, rank) == comm[rank + 1]

\* measure_offset(comm, ref, client, clock): the client learns the offset
\* between the clock it uses and the one the reference uses, and does
\* "then" with it.
measure_offset(comm, ref, client, use, then) ==
    [op |-> "measure", who |-> <<At(comm, ref), At(comm, client)>>, use |-> use, then |-> then]

\* floor(log2(n)) and 2^floor(log2(n)).
NRounds(n) == CHOOSE k \in 0 .. n : 2 ^ k <= n /\ n < 2 ^ (k + 1)
MaxPowerTwo(n) == 2 ^ NRounds(n)

Repeat(n, F(_)) == FlattenSeq([k \in 1 .. n |-> F(k)])

\* NFit offsets, the fit, and for HCA2 and HCA3 with recompute_intercept one
\* more offset that gives the intercept.
learn_model(a, comm, ref, client, use) ==
    [j \in 1 .. NFit |-> measure_offset(comm, ref, client, use, IF j = NFit THEN "fit" ELSE "point")]
    \o (IF a.recompute THEN <<measure_offset(comm, ref, client, use, "intercept")>> ELSE <<>>)

-----------------------------------------------------------------------------
(* HCA and HCA2: models learnt along a binomial tree travel back to the    *)
(* root, which merges them and scatters the results.                       *)

HCAStepOne(a, comm, me) ==
    LET top == MaxPowerTwo(Len(comm))
        Round(i) ==
            LET half == 2 ^ (i - 1)
                pair(ref, client) ==
                    learn_model(a, comm, ref, client, "c")
                    \o <<[op |-> "models", who |-> <<At(comm, client), At(comm, ref)>>,
                          first |-> client, count |-> half]>>
            IN  (IF me >= top THEN <<>>
                 ELSE IF me % (2 * half) = 0 THEN pair(me, me + half)
                 ELSE IF me % (2 * half) = half THEN pair(me - half, me)
                 ELSE <<>>)
                \o <<Collective("barrier", comm)>>
    IN  Repeat(NRounds(Len(comm)), Round)

\* Mutant: the first process of the second step is left out.
StepTwoGroupShort(comm) ==
    <<At(comm, 0)>> \o SubSeq(comm, MaxPowerTwo(Len(comm)) + 2, Len(comm))
StepTwoGroup(comm) ==
    <<At(comm, 0)>> \o SubSeq(comm, MaxPowerTwo(Len(comm)) + 1, Len(comm))

HCAStepTwo(a, comm, me) ==
    LET n == Len(comm)
        top == MaxPowerTwo(n)
    IN  IF n = top THEN <<>>
        ELSE <<Collective("create", comm)>>
             \o (IF me >= top THEN learn_model(a, comm, me - top, me, "c")
                 ELSE IF me + top < n THEN learn_model(a, comm, me, me + top, "c") ELSE <<>>)
             \o (IF me = 0 \/ me >= top
                 THEN <<[op |-> "gather", who |-> StepTwoGroup(comm), top |-> top]>> ELSE <<>>)

\* HCA measures every intercept again at the end; HCA2 does nothing here.
remeasure_all_intercepts(comm, me) ==
    Repeat(Len(comm) - 1, LAMBDA i : IF me \in {0, i}
                                     THEN <<measure_offset(comm, 0, i, "c", "intercept")>> ELSE <<>>)

HCAProgram(a, comm, me) ==
    HCAStepOne(a, comm, me) \o HCAStepTwo(a, comm, me)
    \o <<Collective("scatter", comm)>>
    \o (IF a.name = "hca" THEN remeasure_all_intercepts(comm, me) ELSE <<>>)
    \o <<Collective("barrier", comm), Do(IF me = 0 THEN "zeroLM" ELSE "newLM")>>

-----------------------------------------------------------------------------
(* HCA3 and its variant with offsets alone: a process measures against the *)
(* global clock its reference has by then.                                 *)

HCA3Tree(comm, me, pair(_, _)) ==
    LET n == Len(comm)
        top == MaxPowerTwo(n)
        Round(k) ==
            LET running == 2 ^ (NRounds(n) - k + 1)
                next == running \div 2
            IN  IF me >= top THEN <<>>
                ELSE IF me % running = 0 THEN pair(me, me + next)
                ELSE IF me % running = next THEN pair(me - next, me)
                ELSE <<>>
    IN  Repeat(NRounds(n), Round)
        \o (IF me >= top THEN pair(me - top, me)
            ELSE IF me < n - top THEN pair(me, me + top) ELSE <<>>)

HCA3Program(a, comm, me) ==
    <<Do("zeroLM")>>
    \o HCA3Tree(comm, me, LAMBDA ref, client :
          learn_model(a, comm, ref, client, "my")
          \o (IF me = client THEN <<Do("newLM")>> ELSE <<>>))

HCA3OffsetProgram(a, comm, me) ==
    <<Do("zeroOFF")>>
    \o HCA3Tree(comm, me, LAMBDA ref, client :
          <<measure_offset(comm, ref, client, "my", "offset")>>
          \o (IF me = client THEN <<Do("newOFF")>> ELSE <<>>))

-----------------------------------------------------------------------------
(* JK: the root measures with every other process, NFit times around.      *)

JKProgram(a, comm, me) ==
    Repeat(NFit, LAMBDA j :
        Repeat(Len(comm) - 1, LAMBDA p :
            IF me \in {0, p}
            THEN <<measure_offset(comm, 0, p, "c", IF j = NFit THEN "fit" ELSE "point")>> ELSE <<>>))
    \o <<Do(IF me = 0 THEN "zeroLM" ELSE "newLM")>>

(* SKaMPI: one offset per process, then the table of the root's offsets,   *)
(* of which a process keeps using its own entry.                           *)
SKaMPIProgram(a, comm, me) ==
    Repeat(Len(comm) - 1, LAMBDA i :
        <<Collective("barrier", comm)>>
        \o (IF me \in {0, i} THEN <<measure_offset(comm, 0, i, "c", "offset")>> ELSE <<>>))
    \o <<Collective("bcast", comm), Collective("barrier", comm),
         Do(IF me = 0 THEN "zeroOFF" ELSE "newOFF")>>

(* Propagation: without a global clock to propagate nothing is returned;   *)
(* otherwise rank 0 broadcasts the size and the bytes of its clock.        *)
PropProgram(a, comm, me, c) ==
    IF IsBaseClock(c) THEN <<Do("null")>>
    ELSE IF Len(comm) = 1 THEN <<Do("keep")>>
    ELSE <<Collective("bcast", comm), Collective("clock", comm)>>

-----------------------------------------------------------------------------
(* The clock with which a process without partners on the first level      *)
(* takes part: of the first algorithm's kind with two levels, always a     *)
(* linear model with three.                                                *)
create_global_dummy_clock(a) ==
    Do(IF a.name \in {"skampi", "hca3offset", "prop0"} THEN "zeroOFF" ELSE "zeroLM")

\* MPI_Comm_split: by is what the colour is made from.
Split(over, new, by) == [op |-> "split", who |-> <<>>, over |-> over, new |-> new, by |-> by]

\* The code of a level is known once the communicators are: "level" is
\* replaced by the program of the algorithm, or of what happens without it.
Level(a, comm, otherwise) ==
    [op |-> "level", who |-> <<>>, alg |-> a, comm |-> comm, otherwise |-> otherwise]

TwoLevelProgram(algs, initialized) ==
    (IF initialized THEN <<>>
     ELSE <<Split("world", "intranode", "node"), Split("world", "internode", "intranode")>>)
    \o <<Level(algs[1], "internode", create_global_dummy_clock(algs[1])), Do("nest"),
         Level(algs[2], "intranode", Do("keep"))>>

HierarchicalProgram(algs, initialized) ==
    (IF initialized THEN <<>>
     ELSE <<Split("world", "intranode", "node"), Split("world", "internode", "intranode"),
            Split("intranode", "intrasocket", "socket"),
            Split("intranode", "intersocket", "intrasocket")>>)
    \o <<Level(algs[1], "internode", Do("zeroLM")), Do("nest"),
         Level(algs[2], "intersocket", Do("keep")), Do("nest"),
         Level(algs[3], "intrasocket", Do("keep"))>>

\* synchronize_all_clocks of the algorithm.
Program(a, comm, me, c) ==
    CASE a.name \in {"hca", "hca2"} -> HCAProgram(a, comm, me)
      [] a.name = "hca3" -> HCA3Program(a, comm, me)
      [] a.name = "hca3offset" -> HCA3OffsetProgram(a, comm, me)
      [] a.name = "jk" -> JKProgram(a, comm, me)
      [] a.name = "skampi" -> SKaMPIProgram(a, comm, me)
      [] a.name \in {"prop0", "prop1"} -> PropProgram(a, comm, me, c)

=============================================================================
