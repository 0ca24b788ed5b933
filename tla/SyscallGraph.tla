---------------------------- MODULE SyscallGraph ----------------------------
(***************************************************************************)
(* SyscallGraph::build and SyscallGraph::cooExport: the recorded events    *)
(* become a weighted graph in coordinate form.  One step is one iteration  *)
(* of a loop.  std::map is a function on the set of its keys, visited in   *)
(* increasing order of the keys.  Vertices count from 0, sequences from 1. *)
(***************************************************************************)
EXTENDS Integers, Sequences, FiniteSets

CONSTANTS Half,    \* 2^31: a syscall number is a uint32_t, exported as an int
          Streams  \* the event lists considered

Word  == 0 .. 2 * Half - 1
Event == [syscall_nr : Word, blocked : {0, 1}] \* pid and timestamp: not read

ASSUME HalfAssumption    == Half \in Nat \ {0}
ASSUME StreamsAssumption == Streams \subseteq Seq(Event)

VARIABLES
  events,      \* the argument of build
  pc,          \* the loop the code is in
  i,           \* build's index
  rest,        \* the keys a loop over a map has still to visit
  nodes, edges, syscVertex, \* the maps of SyscallGraph
  cg           \* the COOGraph

vars == <<events, pc, i, rest, nodes, edges, syscVertex, cg>>

Empty == [k \in {} |-> 0]

Put(f, k, v) == [x \in DOMAIN f \cup {k} |-> IF x = k THEN v ELSE f[x]]

(* operator[]: a key that is missing is made with the value 0 *)
At(f, k) == IF k \in DOMAIN f THEN f[k] ELSE 0

ToInt(x) == IF x < Half THEN x ELSE x - 2 * Half

(* the orders of the keys: numbers, and pairs of them *)
Least(S) == CHOOSE s \in S : \A t \in S : s <= t

LeastPair(S) ==
  LET first == Least({e[1] : e \in S})
  IN  <<first, Least({e[2] : e \in {d \in S : d[1] = first}})>>

COOGraph == [from : Seq(Nat), to : Seq(Nat), weights : Seq(Nat),
             nodes : Seq(Int), blocked : Seq({0, 1})]

TypeOK ==
  /\ events \in Streams
  /\ pc \in {"count", "number", "edges", "nodes", "done"}
  /\ i \in Nat
  /\ rest \subseteq IF pc = "edges" THEN Word \X Word ELSE Word
  /\ DOMAIN nodes \subseteq Word /\ nodes \in [DOMAIN nodes -> {0, 1}]
  /\ DOMAIN edges \subseteq Word \X Word /\ edges \in [DOMAIN edges -> Nat \ {0}]
  /\ DOMAIN syscVertex \subseteq Word /\ syscVertex \in [DOMAIN syscVertex -> Nat]
  /\ cg \in COOGraph

(* build returns at once when there are no events *)
Init ==
  /\ events \in Streams
  /\ pc = IF events = <<>> THEN "edges" ELSE "count"
  /\ i = 0 /\ rest = {}
  /\ nodes = Empty /\ edges = Empty /\ syscVertex = Empty
  /\ cg = [from |-> <<>>, to |-> <<>>, weights |-> <<>>,
           nodes |-> <<>>, blocked |-> <<>>]

----------------------------------------------------------------------------
(* A faulty variant: flags are added up as the weights are. *)
OrSummed(a, b) == a + b
Or(a, b) == IF a = 1 \/ b = 1 THEN 1 ELSE 0

(* A faulty variant: the flag of the last event wins. *)
MarkedByLast(e) == Put(nodes, e.syscall_nr, e.blocked)
Marked(e) == Put(nodes, e.syscall_nr, Or(e.blocked, At(nodes, e.syscall_nr)))

MoreTransitions == i < Len(events) - 1

CountTransition ==
  /\ pc = "count" /\ MoreTransitions
  /\ LET step == <<events[i + 1].syscall_nr, events[i + 2].syscall_nr>>
     IN  edges' = Put(edges, step, At(edges, step) + 1)
  /\ nodes' = Marked(events[i + 1])
  /\ i' = i + 1
  /\ UNCHANGED <<events, pc, rest, syscVertex, cg>>

LastEvent ==
  /\ pc = "count" /\ ~MoreTransitions
  /\ nodes' = Marked(events[Len(events)])
  /\ pc' = "number" /\ i' = 0 /\ rest' = DOMAIN nodes'
  /\ UNCHANGED <<events, edges, syscVertex, cg>>

NumberVertex ==
  /\ pc = "number" /\ rest # {}
  /\ syscVertex' = Put(syscVertex, Least(rest), i)
  /\ i' = i + 1 /\ rest' = rest \ {Least(rest)}
  /\ UNCHANGED <<events, pc, nodes, edges, cg>>

AllNumbered ==
  /\ pc = "number" /\ rest = {}
  /\ pc' = "edges" /\ rest' = DOMAIN edges
  /\ UNCHANGED <<events, i, nodes, edges, syscVertex, cg>>

ExportEdge ==
  /\ pc = "edges" /\ rest # {}
  /\ LET e == LeastPair(rest)
     IN  /\ cg' = [cg EXCEPT !.from    = Append(@, syscVertex[e[1]]),
                             !.to      = Append(@, syscVertex[e[2]]),
                             !.weights = Append(@, edges[e])]
         /\ rest' = rest \ {e}
  /\ UNCHANGED <<events, pc, i, nodes, edges, syscVertex>>

AllEdgesExported ==
  /\ pc = "edges" /\ rest = {}
  /\ pc' = "nodes" /\ rest' = DOMAIN nodes
  /\ UNCHANGED <<events, i, nodes, edges, syscVertex, cg>>

(* A faulty variant: vertices are written out in another order. *)
Greatest(S) == CHOOSE s \in S : \A t \in S : t <= s
ExportNodeBackwards ==
  /\ pc = "nodes" /\ rest # {}
  /\ cg' = [cg EXCEPT !.nodes   = Append(@, ToInt(Greatest(rest))),
                      !.blocked = Append(@, nodes[Greatest(rest)])]
  /\ rest' = rest \ {Greatest(rest)}
  /\ UNCHANGED <<events, pc, i, nodes, edges, syscVertex>>

ExportNode ==
  /\ pc = "nodes" /\ rest # {}
  /\ cg' = [cg EXCEPT !.nodes   = Append(@, ToInt(Least(rest))),
                      !.blocked = Append(@, nodes[Least(rest)])]
  /\ rest' = rest \ {Least(rest)}
  /\ UNCHANGED <<events, pc, i, nodes, edges, syscVertex>>

AllExported ==
  /\ pc = "nodes" /\ rest = {}
  /\ pc' = "done"
  /\ UNCHANGED <<events, i, rest, nodes, edges, syscVertex, cg>>

Next ==
  \/ CountTransition \/ LastEvent \/ NumberVertex \/ AllNumbered
  \/ ExportEdge \/ AllEdgesExported \/ ExportNode \/ AllExported

Spec == Init /\ [][Next]_vars

----------------------------------------------------------------------------
(* The reference: what the graph of a list of events is. *)

(* where, among the first n events, b follows a *)
Transitions(a, b, n) ==
  {k \in 1 .. n : events[k].syscall_nr = a /\ events[k + 1].syscall_nr = b}

Steps(a, b) == Transitions(a, b, Len(events) - 1)

(* the flags with which the call s was recorded among the first n events *)
Flags(s, n) ==
  {f \in {0, 1} : \E k \in 1 .. n :
     events[k].syscall_nr = s /\ events[k].blocked = f}

(* The exported arrays fit together: every edge has its weight and both    *)
(* ends among the vertices, every vertex its flag, and no two vertices are *)
(* the same call, although a call changes its type on the way.  train.py   *)
(* and Inference::predict index by these arrays without a test.            *)
WellFormed ==
  pc = "done" =>
    /\ Len(cg.from) = Len(cg.weights) /\ Len(cg.to) = Len(cg.weights)
    /\ Len(cg.nodes) = Len(cg.blocked)
    /\ \A k \in DOMAIN cg.from :
         cg.from[k] < Len(cg.nodes) /\ cg.to[k] < Len(cg.nodes)
    /\ \A j, k \in DOMAIN cg.nodes : cg.nodes[j] = cg.nodes[k] => j = k

(* the edge k of the export reads: call a, call b *)
Reads(k, a, b) ==
  /\ cg.nodes[cg.from[k] + 1] = ToInt(a)
  /\ cg.nodes[cg.to[k] + 1] = ToInt(b)

(* Read back through the vertex numbers, the export has one edge for every *)
(* two calls that follow one another somewhere, its weight the number of   *)
(* times they do, and no other edge.  build numbers the vertices in one    *)
(* loop and cooExport lists them in another.                               *)
EdgesDecode ==
  pc = "done" =>
    /\ \A a, b \in Word : Steps(a, b) # {} =>
         \E k \in DOMAIN cg.from : Reads(k, a, b)
    /\ \A a, b \in Word : \A k \in DOMAIN cg.from : Reads(k, a, b) =>
         /\ cg.weights[k] = Cardinality(Steps(a, b)) /\ Steps(a, b) # {}
         /\ \A j \in DOMAIN cg.from : Reads(j, a, b) => j = k

(* The vertices are the calls that occur, each flagged exactly if one of   *)
(* its occurrences was blocked, wherever in the list that was.             *)
NodesDecode ==
  pc = "done" =>
    \A s \in Word : LET flags == Flags(s, Len(events)) IN
      /\ flags # {} => \E k \in DOMAIN cg.nodes : cg.nodes[k] = ToInt(s)
      /\ \A k \in DOMAIN cg.nodes : cg.nodes[k] = ToInt(s) =>
           flags # {} /\ (cg.blocked[k] = 1 <=> 1 \in flags)

(* What build and cooExport promise: whoever reads the arrays, by whatever *)
(* loops, gets back what main recorded, and cannot read past their ends.   *)
ExportDecodes == WellFormed /\ EdgesDecode /\ NodesDecode

============================================================================
