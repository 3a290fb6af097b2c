---------------------------- MODULE ClockModels ----------------------------
(***************************************************************************)
(* The clocks of clock_sync_old/clocks, as far as it matters which time    *)
(* they show.  A base clock shows the time of its node; a global clock     *)
(* wraps another clock and applies a model to what that one shows.  A      *)
(* model learnt between two clocks is right for the time frame it was      *)
(* learnt in and for no other: [from |-> f, to |-> g] turns a time of      *)
(* frame f into one of frame g, and the numbers (slope, intercept) of the  *)
(* code are abstracted to the two frames.                                  *)
(***************************************************************************)
EXTENDS Naturals, SequencesExt

Wrong == "wrong"                   \* a time no frame can be given to
Nowhere == [from |-> Wrong, to |-> Wrong]
Zero == [from |-> "any", to |-> "any"]        \* slope 0, intercept 0

BaseClock(node) == [source |-> node, chain |-> <<>>]
NoClock == [source |-> Wrong, chain |-> <<>>]               \* NULL
GlobalClockLM(c, lm) == [c EXCEPT !.chain = Append(@, [type |-> 1, model |-> lm])]
GlobalClockOffset(c, off) == [c EXCEPT !.chain = Append(@, [type |-> 0, model |-> off])]
IsBaseClock(c) == c.chain = <<>>

\* What a model makes of a time of frame f.
Applied(model, f) == IF model = Zero THEN f
                     ELSE IF model.from = f THEN model.to ELSE Wrong

\* The frame of the time the clock shows: every model in turn, inner first.
Shows(c) == FoldLeft(LAMBDA f, g : Applied(g.model, f), c.source, c.chain)

\* What a client learns when it measures against a reference: from the time
\* its own clock shows to the time the clock of the reference shows.
Learnt(client, ref) == [from |-> Shows(client), to |-> Shows(ref)]

\* Apply lm2 first, then lm1.
merge_second(lm1, lm2) == lm2                    \* mutant: the first is left out
merge_linear_models(lm1, lm2) ==
    IF lm1 = Zero THEN lm2
    ELSE IF lm2 = Zero THEN lm1
    ELSE IF lm2.to = lm1.from THEN [from |-> lm2.from, to |-> lm1.to] ELSE Nowhere

-----------------------------------------------------------------------------
(***************************************************************************)
(* Flattening for the propagation: one entry per global clock, written at  *)
(* the end of the buffer for the outermost and before it for the inner     *)
(* ones.  A linear model writes right before the end it is given; an       *)
(* offset goes back by the size of the clock and the one inside it.        *)
(***************************************************************************)
ThisSize(g) == IF g.type = 1 THEN 20 ELSE 12

FlattenedSize(chain) ==
    LET k == Len(chain)
    IN  ThisSize(chain[k]) + (IF k > 1 THEN ThisSize(chain[k - 1]) ELSE 0)

StepBack(chain) == IF chain[Len(chain)].type = 1 THEN ThisSize(chain[Len(chain)])
                   ELSE FlattenedSize(chain)

\* The entries that end up inside the buffer, by position; what is written
\* before its first byte is lost.
Flatten(chain) ==
    LET Level[k \in 0 .. Len(chain)] ==      \* end pointer after k levels
            IF k = 0 THEN 4 + FlattenedSize(chain)
            ELSE LET outer == SubSeq(chain, 1, Len(chain) - (k - 1))
                 IN  IF Level[k - 1] > StepBack(outer) THEN Level[k - 1] - StepBack(outer) ELSE 0
    IN  [size |-> 4 + FlattenedSize(chain), levels |-> Len(chain),
         entries |-> {[at |-> Level[k], g |-> chain[Len(chain) - (k - 1)]] :
                         k \in {j \in 1 .. Len(chain) : Level[j] >= 4}}]

\* The receiver reads the announced number of clocks one after the other.
Rebuild(base, buf) ==
    LET EntryAt(p) == {e \in buf.entries : e.at = p}
        Read[k \in 0 .. buf.levels] ==
            IF k = 0 THEN [pos |-> 4, clock |-> base]
            ELSE LET s == Read[k - 1]
                 IN  IF EntryAt(s.pos) = {}
                     THEN [pos |-> s.pos, clock |-> GlobalClockLM(s.clock, Nowhere)]
                     ELSE LET g == (CHOOSE e \in EntryAt(s.pos) : TRUE).g
                          IN  [pos |-> s.pos + ThisSize(g), clock |-> [s.clock EXCEPT !.chain = Append(@, g)]]
    IN  Read[buf.levels].clock
=============================================================================
