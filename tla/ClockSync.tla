----------------------------- MODULE ClockSync -----------------------------
(***************************************************************************)
(* Clock synchronisation by clock_sync_old: the processes of a job, each   *)
(* executing the operations still ahead of it (prog) on its own memory.    *)
(* Communications are taken in their strictest form, where no partner      *)
(* leaves before all have arrived, so that operations that do not pair up  *)
(* deadlock.                                                               *)
(***************************************************************************)
EXTENDS ClockSyncAlgorithms

CONSTANTS Configs          \* the jobs: processes, their nodes, options, test

VARIABLES config,          \* the job at hand
          prog,            \* prog[r]: what process r has still to do
          mem              \* mem[r]: clocks, models and communicators of r

syncvars == <<config, prog, mem>>

Ranks == 0 .. config.np - 1
World == [i \in 1 .. config.np |-> i - 1]
RankIn(comm, r) == (CHOOSE i \in DOMAIN comm : comm[i] = r) - 1

-----------------------------------------------------------------------------
(* Options: the loader makes an algorithm of a parameter's value, or NULL  *)
(* when it is absent or not understood; the module takes a default then.   *)

None == [name |-> "NULL", recompute |-> FALSE]
Exit == [name |-> "exit", recompute |-> FALSE]
Alg(name) == [name |-> name, recompute |-> FALSE]

\* The last parameters of a value: an algorithm that measures offsets, with
\* two numbers.
OffsetAlgKnown == config.offset \in {"skampi_offset", "pingpong_offset"}

\* "param@1@..." of hca2 and hca3 is written hca2r and hca3r.
instantiate_clock_sync(value) ==
    CASE value \notin {"prop0", "prop1", "prop2"} /\ ~OffsetAlgKnown -> None
      [] value \in {"hca", "hca2", "hca3", "jk", "skampi", "hca3offset", "prop0", "prop1"} -> Alg(value)
      [] value = "hca2r" -> [name |-> "hca2", recompute |-> TRUE]
      [] value = "hca3r" -> [name |-> "hca3", recompute |-> TRUE]
      [] value = "prop2" -> Exit
      [] OTHER -> None

\* init_module of the modules with one algorithm: HCA2 is a kind of HCA, any
\* other mismatch ends the program.
FlatModule(default, accepted) ==
    LET a == instantiate_clock_sync(config.alg[1])
    IN  [levels |-> 1,
         algs |-> <<IF a = None THEN Alg(default) ELSE IF a.name \in accepted THEN a ELSE Exit>>]

\* init_module of the topology-aware modules: all parameters or the default.
TopoModule(n, defaults) ==
    LET a == [i \in 1 .. n |-> instantiate_clock_sync(config.alg[i])]
        complete(k) == \A i \in 1 .. k : a[i] # None
    IN  [levels |-> n,
         algs |-> IF \E i \in 1 .. n : a[i] = Exit /\ complete(i) THEN <<Exit>>
                  ELSE IF complete(n) THEN a ELSE [i \in 1 .. n |-> Alg(defaults[i])]]

HCAModule == FlatModule("hca", {"hca", "hca2"})
HCA2Module == FlatModule("hca2", {"hca2"})
HCA3Module == FlatModule("hca3", {"hca3"})
HCA3OModule == FlatModule("hca3offset", {"hca3offset"})
JKModule == FlatModule("jk", {"jk"})
SKaMPIModule == FlatModule("skampi", {"skampi"})
Topo1Module == TopoModule(3, <<"hca3", "hca3", "prop1">>)
Topo2Module == TopoModule(2, <<"hca3", "prop1">>)
NoModule == [levels |-> 0, algs |-> <<None>>]

\* The module of --clock-sync, initialised.
init_sync_module ==
    CASE config.module = "HCA" -> HCAModule
      [] config.module = "HCA2" -> HCA2Module
      [] config.module = "HCA3" -> HCA3Module
      [] config.module = "HCA3O" -> HCA3OModule
      [] config.module = "JK" -> JKModule
      [] config.module = "SKaMPI" -> SKaMPIModule
      [] config.module = "Topo1" -> Topo1Module
      [] config.module = "Topo2" -> Topo2Module
      [] config.module = "None" -> NoModule

LeavesAtInit == init_sync_module.algs[1] = Exit

\* sync_clocks of the module for process r.
sync_clocks(r) ==
    LET m == init_sync_module
    IN  CASE m.levels = 0 -> <<>>
          [] m.levels = 1 -> Program(m.algs[1], World, r, mem[r].c)
          [] m.levels = 2 -> TwoLevelProgram(m.algs, mem[r].initialized)
          [] m.levels = 3 -> HierarchicalProgram(m.algs, mem[r].initialized)

-----------------------------------------------------------------------------
FreshModels == [k \in Ranks |-> Nowhere]
FreshMemory(r) ==
    [c |-> BaseClock(config.node[r]), my |-> NoClock, global |-> NoClock,
     lm |-> Nowhere, fit |-> <<>>, models |-> FreshModels,
     comms |-> [k \in {"intranode", "internode", "intrasocket", "intersocket"} |-> <<>>],
     initialized |-> FALSE, returned |-> 0]

Ahead(r) == prog[r] # <<>>
Cur(r) == Head(prog[r])
Is(r, op) == Ahead(r) /\ Cur(r).op = op

Who(r) == IF Cur(r).op # "split" THEN Cur(r).who
          ELSE IF Cur(r).over = "world" THEN World ELSE mem[r].comms[Cur(r).over]

\* All partners of r's operation have arrived at it; r is the first of them.
Met(r, op) ==
    /\ Is(r, op) /\ Who(r)[1] = r
    /\ \A q \in ToSet(Who(r)) : Is(q, op) /\ Who(q) = Who(r)

Step(S) == prog' = [q \in Ranks |-> IF q \in S THEN Tail(prog[q]) ELSE prog[q]]
Remember(S, M(_)) == mem' = [q \in Ranks |-> IF q \in S THEN M(q) ELSE mem[q]]

-----------------------------------------------------------------------------
\* sync_clocks is called: the base clock again, and the module's program.
EnterSync(r) ==
    /\ Is(r, "sync")
    /\ mem' = [mem EXCEPT ![r].c = BaseClock(config.node[r])]
    /\ prog' = [prog EXCEPT ![r] = sync_clocks(r) \o <<Do("return")>> \o Tail(@)]
    /\ UNCHANGED config

\* What a process does by itself between two communications.
Local(r) ==
    /\ Is(r, "do")
    /\ Step({r})
    /\ LET m == mem[r]
           w == Cur(r).what
           new == CASE w = "zeroLM" -> [m EXCEPT !.my = GlobalClockLM(m.c, Zero)]
                    [] w = "zeroOFF" -> [m EXCEPT !.my = GlobalClockOffset(m.c, Zero)]
                    [] w = "newLM" -> [m EXCEPT !.my = GlobalClockLM(m.c, m.lm)]
                    [] w = "newOFF" -> [m EXCEPT !.my = GlobalClockOffset(m.c, m.lm)]
                    [] w = "keep" -> [m EXCEPT !.my = m.c]
                    [] w = "null" -> [m EXCEPT !.my = NoClock]
                    [] w = "nest" -> [m EXCEPT !.c = m.my]
                    [] w = "return" -> [m EXCEPT !.global = m.my, !.initialized = TRUE,
                                                 !.returned = @ + 1]
       IN  mem' = [mem EXCEPT ![r] = new]
    /\ UNCHANGED config

\* A level of a hierarchical algorithm: skipped without partners.
EnterLevel(r) ==
    /\ Is(r, "level")
    /\ LET o == Cur(r)
           comm == mem[r].comms[o.comm]
       IN  prog' = [prog EXCEPT ![r] =
               (IF Len(comm) > 1 THEN Program(o.alg, comm, RankIn(comm, r), mem[r].c)
                ELSE <<o.otherwise>>) \o Tail(@)]
    /\ mem' = [mem EXCEPT ![r].lm = Nowhere, ![r].fit = <<>>, ![r].models = FreshModels]
    /\ UNCHANGED config

\* get_socket_id always gives up (its variable is unsigned, so that the
\* first core already counts as a second socket): socket 0 for everyone.
SocketId(r) == "socket 0"

\* The colour of a process in MPI_Comm_split; -1 for MPI_UNDEFINED.
Colour(r) ==
    LET by == Cur(r).by
    IN  CASE by = "node" -> config.node[r]
          [] by = "socket" -> SocketId(r)
          [] OTHER -> IF mem[r].comms[by][1] = r THEN "first" ELSE "undefined"

CommSplit(r) ==
    /\ Met(r, "split")
    /\ Step(ToSet(Who(r)))
    /\ LET members(q) == IF Colour(q) = "undefined" THEN <<>>
                         ELSE SelectSeq(Who(r), LAMBDA p : Colour(p) = Colour(q))
       IN  Remember(ToSet(Who(r)), LAMBDA q : [mem[q] EXCEPT !.comms[Cur(q).new] = members(q)])
    /\ UNCHANGED config

-----------------------------------------------------------------------------
\* The clock a process measures with: the one it was given or the global
\* clock it has by now.
UsedClock(r) == IF Cur(r).use = "my" THEN mem[r].my ELSE mem[r].c

\* learn_model and remeasure_intercept: the client's side.
Noted(m, new, then) ==
    CASE then = "point" -> [m EXCEPT !.fit = Append(@, new)]
      [] then = "fit" -> [m EXCEPT !.fit = <<>>,
                                   !.lm = IF \A k \in DOMAIN m.fit : m.fit[k] = new
                                          THEN new ELSE Nowhere]
      [] then = "intercept" -> [m EXCEPT !.lm = IF m.lm = new THEN new ELSE Nowhere]
      [] then = "offset" -> [m EXCEPT !.lm = new]

Measure(ref) ==
    /\ Met(ref, "measure")
    /\ LET client == Who(ref)[2]
           new == Learnt(UsedClock(client), UsedClock(ref))
       IN  /\ mem' = [mem EXCEPT ![client] = Noted(@, new, Cur(client).then)]
           /\ Step({ref, client})
    /\ UNCHANGED config

\* The client sends its model and those it holds of its subtree; its
\* reference puts the client's own model on top of them.
SendModels(client) ==
    /\ Met(client, "models")
    /\ LET o == Cur(client)
           ref == o.who[2]
           sent == [mem[client].models EXCEPT ![o.first] = mem[client].lm]
           merged(k) == IF k = o.first THEN sent[k] ELSE merge_linear_models(sent[o.first], sent[k])
       IN  /\ mem' = [mem EXCEPT ![client].models = sent,
                                 ![ref].models = [k \in Ranks |->
                                     IF k \in o.first .. o.first + o.count - 1 THEN merged(k) ELSE @[k]]]
           /\ Step({client, ref})
    /\ UNCHANGED config

\* Step two of HCA: the root gathers the models of the last processes and
\* puts those of their references on top.
GatherModels(root) ==
    /\ Met(root, "gather")
    /\ LET o == Cur(root)
           got(j) == mem[o.who[j + 1]].lm
           merged(p) == LET j == p - (o.top - 1)
                        IN  IF j = 1 THEN got(j)
                            ELSE merge_linear_models(mem[root].models[j - 1], got(j))
       IN  mem' = [mem EXCEPT ![root].models = [p \in Ranks |->
                      IF p \in o.top .. o.top + Len(o.who) - 2 THEN merged(p) ELSE @[p]]]
    /\ Step(ToSet(Who(root)))
    /\ UNCHANGED config

ScatterModels(root) ==
    /\ Met(root, "scatter")
    /\ Remember(ToSet(Who(root)),
                LAMBDA q : [mem[q] EXCEPT !.lm = mem[root].models[RankIn(Who(root), q)]])
    /\ Step(ToSet(Who(root)))
    /\ UNCHANGED config

\* Propagation: the others rebuild the root's clock over their own.
BcastClock(root) ==
    /\ Met(root, "clock")
    /\ LET buf == Flatten(mem[root].c.chain)
       IN  Remember(ToSet(Who(root)), LAMBDA q : [mem[q] EXCEPT !.my =
               IF q = root THEN mem[root].c ELSE Rebuild(BaseClock(config.node[q]), buf)])
    /\ Step(ToSet(Who(root)))
    /\ UNCHANGED config

\* Collective operations that only order the processes or carry data no
\* clock depends on.
Synchronise(r) ==
    /\ \E op \in {"barrier", "create", "bcast"} : Met(r, op)
    /\ Step(ToSet(Who(r)))
    /\ UNCHANGED <<config, mem>>

SyncOwnStep(r) == Local(r) \/ EnterLevel(r)

SyncStep(r) ==
    \/ EnterSync(r) \/ CommSplit(r)
    \/ Measure(r) \/ SendModels(r) \/ GatherModels(r) \/ ScatterModels(r)
    \/ BcastClock(r) \/ Synchronise(r)
=============================================================================
