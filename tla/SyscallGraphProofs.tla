------------------------- MODULE SyscallGraphProofs -------------------------
(***************************************************************************)
(* Proofs about SyscallGraph, for every list of events and every width of  *)
(* a syscall number.                                                       *)
(***************************************************************************)
EXTENDS SyscallGraph, FiniteSetTheorems, WellFoundedInduction, TLAPS

----------------------------------------------------------------------------
(* Orders.  Every set of numbers that is not empty has a least element.    *)

LEMMA WordFinite == IsFiniteSet(Word) /\ \A s \in Word : s \in Nat
  BY FS_Interval, HalfAssumption DEF Word

LEMMA SubsetFinite ==
  ASSUME NEW S \in SUBSET Word
  PROVE  IsFiniteSet(S) /\ Cardinality(S) \in Nat
  BY WordFinite, FS_Subset, FS_CardinalityType

LEMMA LeastIn ==
  ASSUME NEW S \in SUBSET Word, S # {}
  PROVE  Least(S) \in S /\ \A t \in S : Least(S) <= t
<1> DEFINE UpTo(s) == {t \in S : t <= s}
           Tops == {UpTo(s) : s \in S}
           R == StrictSubsetOrdering(Word)
<1>1. IsWellFoundedOn(R, FiniteSubsetsOf(Word))
  BY FS_StrictSubsetOrderingWellFounded
<1>2. Tops \subseteq FiniteSubsetsOf(Word) /\ Tops # {}
  BY SubsetFinite DEF FiniteSubsetsOf
<1>3. \E x \in Tops : \A y \in Tops : ~(<<y, x>> \in R)
  BY <1>1, <1>2, WFMin
<1>4. PICK s \in S : \A t \in S : ~(<<UpTo(t), UpTo(s)>> \in R)
  BY <1>3
<1>5. \A t \in S : s <= t
  <2> SUFFICES ASSUME NEW t \in S, t < s PROVE FALSE
    BY WordFinite
  <2>1. \A u \in S : u \in Nat
    BY WordFinite
  <2>2. UpTo(t) \subseteq UpTo(s) /\ s \in UpTo(s) /\ s \notin UpTo(t)
    BY <2>1
  <2>3. UpTo(t) \in SUBSET Word /\ UpTo(s) \in SUBSET Word
    OBVIOUS
  <2>4. <<UpTo(t), UpTo(s)>> \in R
    BY <2>2, <2>3 DEF StrictSubsetOrdering
  <2> QED
    BY <1>4, <2>4
<1> QED
  BY <1>5 DEF Least

LEMMA LeastPairIn ==
  ASSUME NEW S \in SUBSET (Word \X Word), S # {}
  PROVE  LeastPair(S) \in S
<1> DEFINE first == Least({e[1] : e \in S})
           seconds == {e[2] : e \in {d \in S : d[1] = first}}
<1> DEFINE firsts == {e[1] : e \in S}
<1>a. firsts \in SUBSET Word /\ firsts # {}
  OBVIOUS
<1>1. first \in firsts
  BY <1>a, LeastIn
<1>2. seconds \in SUBSET Word /\ seconds # {}
  BY <1>1
<1>3. Least(seconds) \in seconds
  BY <1>2, LeastIn
<1>4. PICK e \in S : e[1] = first /\ e[2] = Least(seconds)
  BY <1>3
<1> QED
  BY <1>4 DEF LeastPair

(* How many keys are smaller: the position of a key in the map. *)
Below(s) == {t \in DOMAIN nodes : t < s}
Position(s) == Cardinality(Below(s))

LEMMA PositionGrows ==
  ASSUME DOMAIN nodes \subseteq Word,
         NEW s \in DOMAIN nodes, NEW t \in DOMAIN nodes, s < t
  PROVE  Position(s) < Position(t)
<1>0. \A u \in DOMAIN nodes : u \in Nat
  BY WordFinite
<1>1. Below(s) \cup {s} \subseteq Below(t) /\ s \notin Below(s)
  BY <1>0 DEF Below
<1>2. Below(s) \in SUBSET Word /\ Below(t) \in SUBSET Word
  BY DEF Below
<1>3. Cardinality(Below(s) \cup {s}) = Cardinality(Below(s)) + 1
  BY <1>1, <1>2, SubsetFinite, FS_AddElement
<1>4. Cardinality(Below(s) \cup {s}) <= Cardinality(Below(t))
  BY <1>1, <1>2, SubsetFinite, FS_Subset
<1> QED
  BY <1>2, <1>3, <1>4, SubsetFinite DEF Position

LEMMA PositionInj ==
  ASSUME DOMAIN nodes \subseteq Word,
         NEW s \in DOMAIN nodes, NEW t \in DOMAIN nodes,
         Position(s) = Position(t)
  PROVE  s = t
<1>1. s \in Nat /\ t \in Nat
  BY WordFinite
<1>2. Position(s) \in Nat
  BY SubsetFinite DEF Position, Below
<1>3. ~(s < t) /\ ~(t < s)
  BY <1>2, PositionGrows
<1> QED
  BY <1>1, <1>3

LEMMA PositionBounded ==
  ASSUME DOMAIN nodes \subseteq Word, NEW s \in DOMAIN nodes
  PROVE  Position(s) \in Nat /\ Position(s) < Cardinality(DOMAIN nodes)
<1>0. s \in Nat
  BY WordFinite
<1>1. Below(s) \in SUBSET Word /\ Below(s) \subseteq DOMAIN nodes /\ s \notin Below(s)
  BY <1>0 DEF Below
<1>2. Cardinality(Below(s)) <= Cardinality(DOMAIN nodes)
  BY <1>1, SubsetFinite, FS_Subset
<1>3. Cardinality(Below(s)) # Cardinality(DOMAIN nodes)
  BY <1>1, SubsetFinite, FS_Subset
<1> QED
  BY <1>1, <1>2, <1>3, SubsetFinite DEF Position

LEMMA ToIntInj ==
  ASSUME NEW s \in Word, NEW t \in Word, ToInt(s) = ToInt(t)
  PROVE  s = t
  BY HalfAssumption DEF Word, ToInt

----------------------------------------------------------------------------
(* The inductive invariant. *)

Counted == IF pc = "count" THEN i ELSE Len(events) - 1
Seen    == IF pc = "count" THEN i ELSE Len(events)
Visited == DOMAIN nodes \ rest

LoopInv ==
  /\ pc = "count" => i < Len(events) /\ rest = {}
  /\ pc \in {"number", "nodes"} =>
       rest \subseteq DOMAIN nodes /\ \A s \in Visited, t \in rest : s < t
  /\ pc = "edges" => rest \subseteq DOMAIN edges

(* What build has counted and marked so far. *)
EdgesInv ==
  \A a, b \in Word :
    /\ <<a, b>> \in DOMAIN edges <=> Transitions(a, b, Counted) # {}
    /\ <<a, b>> \in DOMAIN edges =>
         edges[<<a, b>>] = Cardinality(Transitions(a, b, Counted))

NodesInv ==
  \A s \in Word, n \in {Seen} :
    /\ s \in DOMAIN nodes <=> Flags(s, n) # {}
    /\ s \in DOMAIN nodes => (nodes[s] = 1 <=> 1 \in Flags(s, n))

(* Vertices are numbered by position in the map. *)
Numbered ==
  IF pc = "count" THEN {} ELSE IF pc = "number" THEN Visited ELSE DOMAIN nodes

NumberInv ==
  /\ DOMAIN syscVertex = Numbered
  /\ pc = "number" => i = Cardinality(Visited)
  /\ \A s \in Numbered : syscVertex[s] = Position(s)

(* What cooExport has written so far. *)
EdgesOut ==
  IF pc \in {"count", "number"} THEN {}
  ELSE IF pc = "edges" THEN DOMAIN edges \ rest ELSE DOMAIN edges

Writes(k, e) == cg.from[k] = Position(e[1]) /\ cg.to[k] = Position(e[2])

EdgesOutInv ==
  /\ Len(cg.to) = Len(cg.from) /\ Len(cg.weights) = Len(cg.from)
  /\ \A k \in 1 .. Len(cg.from) :
       \E e \in EdgesOut : Writes(k, e) /\ cg.weights[k] = edges[e]
  /\ \A e \in EdgesOut : \E k \in 1 .. Len(cg.from) : Writes(k, e)
  /\ \A j, k \in 1 .. Len(cg.from) :
       cg.from[j] = cg.from[k] /\ cg.to[j] = cg.to[k] => j = k

NodesOut == IF pc \in {"nodes", "done"} THEN Visited ELSE {}

NodesOutInv ==
  /\ pc = "done" => rest = {}
  /\ Len(cg.nodes) = Cardinality(NodesOut)
  /\ Len(cg.blocked) = Cardinality(NodesOut)
  /\ \A s \in NodesOut :
       /\ Position(s) + 1 \in 1 .. Len(cg.nodes)
       /\ cg.nodes[Position(s) + 1] = ToInt(s)
       /\ cg.blocked[Position(s) + 1] = nodes[s]
  /\ \A k \in 1 .. Len(cg.nodes) : \E s \in NodesOut : k = Position(s) + 1

IInv ==
  /\ TypeOK /\ LoopInv /\ EdgesInv /\ NodesInv /\ NumberInv
  /\ EdgesOutInv /\ NodesOutInv

----------------------------------------------------------------------------
(* What one more event adds to the reference. *)

LEMMA EventsTyped ==
  ASSUME TypeOK
  PROVE  /\ Len(events) \in Nat
         /\ \A k \in 1 .. Len(events) : events[k].syscall_nr \in Word
                                      /\ events[k].blocked \in {0, 1}
         /\ events # <<>> => Len(events) > 0
<1>1. events \in Seq(Event)
  BY StreamsAssumption DEF TypeOK
<1>2. \A k \in 1 .. Len(events) : events[k] \in Event
  BY <1>1
<1> QED
  BY <1>1, <1>2 DEF Event

LEMMA TransitionsFinite ==
  ASSUME NEW a, NEW b, NEW n \in Int
  PROVE  /\ IsFiniteSet(Transitions(a, b, n))
         /\ Cardinality(Transitions(a, b, n)) \in Nat
         /\ Cardinality(Transitions(a, b, n)) = 0 <=> Transitions(a, b, n) = {}
<1>1. Transitions(a, b, n) \in SUBSET (1 .. n)
  BY DEF Transitions
<1>2. IsFiniteSet(Transitions(a, b, n))
  BY <1>1, FS_Interval, FS_Subset
<1> QED
  BY <1>2, FS_EmptySet, FS_CardinalityType

LEMMA OneMoreTransition ==
  ASSUME NEW a, NEW b, NEW n \in Nat
  PROVE  /\ events[n + 1].syscall_nr = a /\ events[n + 2].syscall_nr = b =>
              Cardinality(Transitions(a, b, n + 1)) = Cardinality(Transitions(a, b, n)) + 1
         /\ ~(events[n + 1].syscall_nr = a /\ events[n + 2].syscall_nr = b) =>
              Transitions(a, b, n + 1) = Transitions(a, b, n)
<1>1. \A k : k \in 1 .. n + 1 <=> k \in 1 .. n \/ k = n + 1
  OBVIOUS
<1>2. ASSUME events[n + 1].syscall_nr = a, events[n + 2].syscall_nr = b
      PROVE  Cardinality(Transitions(a, b, n + 1)) = Cardinality(Transitions(a, b, n)) + 1
  <2>1. Transitions(a, b, n + 1) = Transitions(a, b, n) \cup {n + 1}
    BY <1>1, <1>2 DEF Transitions
  <2>2. n + 1 \notin Transitions(a, b, n)
    BY DEF Transitions
  <2> QED
    BY <2>1, <2>2, TransitionsFinite, FS_AddElement
<1>3. ASSUME ~(events[n + 1].syscall_nr = a /\ events[n + 2].syscall_nr = b)
      PROVE  Transitions(a, b, n + 1) = Transitions(a, b, n)
  BY <1>1, <1>3 DEF Transitions
<1> QED
  BY <1>2, <1>3

LEMMA OneMoreFlag ==
  ASSUME NEW s, NEW n \in Nat, events[n + 1].blocked \in {0, 1}
  PROVE  Flags(s, n + 1) = IF events[n + 1].syscall_nr = s
                             THEN Flags(s, n) \cup {events[n + 1].blocked}
                             ELSE Flags(s, n)
<1>1. \A k : k \in 1 .. n + 1 <=> k \in 1 .. n \/ k = n + 1
  OBVIOUS
<1> QED
  BY <1>1 DEF Flags

(* Both ends of an edge are vertices. *)
LEMMA EndsAreVertices ==
  ASSUME TypeOK, EdgesInv, NodesInv, pc # "count",
         NEW a \in Word, NEW b \in Word, <<a, b>> \in DOMAIN edges
  PROVE  a \in DOMAIN nodes /\ b \in DOMAIN nodes
<1>1. PICK k \in 1 .. Len(events) - 1 :
        events[k].syscall_nr = a /\ events[k + 1].syscall_nr = b
  BY DEF EdgesInv, Counted, Transitions
<1>2. k \in 1 .. Len(events) /\ k + 1 \in 1 .. Len(events)
  BY EventsTyped
<1>3. events[k].blocked \in Flags(a, Len(events)) /\ events[k + 1].blocked \in Flags(b, Len(events))
  BY <1>1, <1>2, EventsTyped DEF Flags
<1> QED
  BY <1>3 DEF NodesInv, Seen

----------------------------------------------------------------------------
(* Initially the invariant holds. *)
LEMMA InitInv == Init => IInv
<1> SUFFICES ASSUME Init PROVE IInv
  OBVIOUS
<1>1. TypeOK
  BY DEF Init, TypeOK, COOGraph, Empty, Word
<1>2. LoopInv
  BY <1>1, EventsTyped DEF Init, LoopInv, Empty
<1>3. pc = "count" => Counted = 0 /\ Seen = 0
  BY DEF Init, Counted, Seen
<1>4. pc = "edges" => Counted = -1 /\ Seen = 0
  BY DEF Init, Counted, Seen
<1>5. EdgesInv
  BY <1>3, <1>4 DEF Init, EdgesInv, Transitions, Empty
<1>6. NodesInv
  BY <1>3, <1>4 DEF Init, NodesInv, Flags, Empty
<1>7. NumberInv
  BY DEF Init, NumberInv, Numbered, Empty
<1>8. EdgesOutInv
  BY DEF Init, EdgesOutInv, EdgesOut, Empty
<1>9. NodesOutInv
  BY FS_EmptySet DEF Init, NodesOutInv, NodesOut, Empty
<1> QED
  BY <1>1, <1>2, <1>5, <1>6, <1>7, <1>8, <1>9 DEF IInv

(* Adding a key to a map, and an element to the arrays of the export. *)
LEMMA PutFacts ==
  ASSUME NEW f, NEW k, NEW v
  PROVE  /\ DOMAIN Put(f, k, v) = DOMAIN f \cup {k}
         /\ Put(f, k, v)[k] = v
         /\ \A x \in DOMAIN f : x # k => Put(f, k, v)[x] = f[x]
  BY DEF Put

LEMMA AppendFacts ==
  ASSUME NEW S, NEW q \in Seq(S), NEW x \in S
  PROVE  /\ Len(Append(q, x)) = Len(q) + 1
         /\ Append(q, x)[Len(q) + 1] = x
         /\ \A k \in 1 .. Len(q) : Append(q, x)[k] = q[k]
  OBVIOUS

(* What the visited key is, in each of the loops over a map. *)
LEMMA NumberedKey ==
  ASSUME IInv, pc \in {"number", "nodes"}, rest # {}
  PROVE  /\ Least(rest) \in rest /\ Least(rest) \in DOMAIN nodes
         /\ Least(rest) \in Word
         /\ \A t \in rest : Least(rest) <= t
  BY LeastIn DEF IInv, TypeOK, LoopInv

LEMMA ExportedEdge ==
  ASSUME IInv, pc = "edges", rest # {}, NEW e, e = LeastPair(rest)
  PROVE  /\ e \in rest /\ e \in DOMAIN edges
         /\ e[1] \in DOMAIN nodes /\ e[2] \in DOMAIN nodes
         /\ e[1] \in Word /\ e[2] \in Word /\ e = <<e[1], e[2]>>
         /\ syscVertex[e[1]] = Position(e[1])
         /\ syscVertex[e[2]] = Position(e[2])
         /\ edges[e] \in Nat
<1>1. e \in rest /\ e \in DOMAIN edges /\ e \in Word \X Word
  BY LeastPairIn DEF IInv, TypeOK, LoopInv
<1>2. e[1] \in Word /\ e[2] \in Word /\ e = <<e[1], e[2]>>
  BY <1>1
<1>3. e[1] \in DOMAIN nodes /\ e[2] \in DOMAIN nodes
  BY <1>1, <1>2, EndsAreVertices DEF IInv
<1>4. edges[e] \in Nat
  BY <1>1 DEF IInv, TypeOK
<1> QED
  BY <1>1, <1>2, <1>3, <1>4 DEF IInv, NumberInv, Numbered

(* What an iteration of the export's two loops writes. *)
LEMMA EdgeWritten ==
  ASSUME IInv, ExportEdge, NEW e, e = LeastPair(rest)
  PROVE  /\ cg' \in COOGraph
         /\ cg'.from = Append(cg.from, Position(e[1]))
         /\ cg'.to = Append(cg.to, Position(e[2]))
         /\ cg'.weights = Append(cg.weights, edges[e])
         /\ cg'.nodes = cg.nodes /\ cg'.blocked = cg.blocked
<1>1. cg \in COOGraph
  BY DEF IInv, TypeOK
<1>2. /\ syscVertex[e[1]] = Position(e[1]) /\ Position(e[1]) \in Nat
      /\ syscVertex[e[2]] = Position(e[2]) /\ Position(e[2]) \in Nat
      /\ edges[e] \in Nat
  BY ExportedEdge, PositionBounded DEF ExportEdge, IInv, TypeOK
<1>3. PICK from, to, weights :
        /\ from = Append(cg.from, Position(e[1]))
        /\ to = Append(cg.to, Position(e[2]))
        /\ weights = Append(cg.weights, edges[e])
  OBVIOUS
<1>4. from \in Seq(Nat) /\ to \in Seq(Nat) /\ weights \in Seq(Nat)
  BY <1>1, <1>2, <1>3 DEF COOGraph
<1>5. cg' = [cg EXCEPT !.from = from, !.to = to, !.weights = weights]
  BY <1>2, <1>3 DEF ExportEdge
<1>6. /\ cg' \in COOGraph
      /\ cg'.from = from /\ cg'.to = to /\ cg'.weights = weights
      /\ cg'.nodes = cg.nodes /\ cg'.blocked = cg.blocked
  BY ONLY <1>1, <1>4, <1>5 DEF COOGraph
<1> QED
  BY <1>3, <1>6

LEMMA NodeWritten ==
  ASSUME IInv, ExportNode
  PROVE  /\ cg' \in COOGraph
         /\ cg'.nodes = Append(cg.nodes, ToInt(Least(rest)))
         /\ cg'.blocked = Append(cg.blocked, nodes[Least(rest)])
         /\ cg'.from = cg.from /\ cg'.to = cg.to /\ cg'.weights = cg.weights
<1>1. cg \in COOGraph
  BY DEF IInv, TypeOK
<1>2. Least(rest) \in DOMAIN nodes /\ Least(rest) \in Word
  BY NumberedKey DEF ExportNode
<1>3. ToInt(Least(rest)) \in Int /\ nodes[Least(rest)] \in {0, 1}
  BY <1>2, HalfAssumption DEF ToInt, Word, IInv, TypeOK
<1>4. PICK ns, bs : /\ ns = Append(cg.nodes, ToInt(Least(rest)))
                    /\ bs = Append(cg.blocked, nodes[Least(rest)])
  OBVIOUS
<1>5. ns \in Seq(Int) /\ bs \in Seq({0, 1})
  BY <1>1, <1>3, <1>4 DEF COOGraph
<1>6. cg' = [cg EXCEPT !.nodes = ns, !.blocked = bs]
  BY <1>4 DEF ExportNode
<1>7. /\ cg' \in COOGraph
      /\ cg'.nodes = ns /\ cg'.blocked = bs
      /\ cg'.from = cg.from /\ cg'.to = cg.to /\ cg'.weights = cg.weights
  BY ONLY <1>1, <1>5, <1>6 DEF COOGraph
<1> QED
  BY <1>4, <1>7

(* Every step keeps the types. *)
LEMMA TypeStep == IInv /\ [Next]_vars => TypeOK'
<1> SUFFICES ASSUME IInv, [Next]_vars PROVE TypeOK'
  OBVIOUS
<1>a. TypeOK /\ IInv
  BY DEF IInv
<1>b. ASSUME NEW k \in 1 .. Len(events)
      PROVE  /\ Marked(events[k]) \in [DOMAIN Marked(events[k]) -> {0, 1}]
             /\ DOMAIN Marked(events[k]) \subseteq Word
  <2>1. events[k].syscall_nr \in Word /\ events[k].blocked \in {0, 1}
    BY <1>a, EventsTyped
  <2>2. Or(events[k].blocked, At(nodes, events[k].syscall_nr)) \in {0, 1}
    BY DEF Or
  <2>3. DOMAIN nodes \subseteq Word /\ nodes \in [DOMAIN nodes -> {0, 1}]
    BY <1>a DEF TypeOK
  <2> QED
    BY ONLY <2>1, <2>2, <2>3 DEF Marked, Put
<1>1. CASE CountTransition
  <2> DEFINE step == <<events[i + 1].syscall_nr, events[i + 2].syscall_nr>>
  <2>1. i + 1 \in 1 .. Len(events) /\ i + 2 \in 1 .. Len(events)
    BY <1>a, <1>1, EventsTyped DEF CountTransition, MoreTransitions, TypeOK
  <2>2. step \in Word \X Word
    BY <1>a, <2>1, EventsTyped
  <2>3. At(edges, step) + 1 \in Nat \ {0}
    BY <1>a DEF At, TypeOK
  <2>4. /\ DOMAIN edges' \subseteq Word \X Word
        /\ edges' \in [DOMAIN edges' -> Nat \ {0}]
    <3> HIDE DEF step
    <3>1. edges' = Put(edges, step, At(edges, step) + 1)
      BY <1>1 DEF CountTransition, step
    <3>2. /\ DOMAIN edges \subseteq Word \X Word
          /\ edges \in [DOMAIN edges -> Nat \ {0}]
      BY <1>a DEF TypeOK
    <3> QED
      BY ONLY <2>2, <2>3, <3>1, <3>2 DEF Put
  <2>5. DOMAIN nodes' \subseteq Word /\ nodes' \in [DOMAIN nodes' -> {0, 1}]
    BY <1>1, <1>b, <2>1 DEF CountTransition
  <2> QED
    BY <1>a, <1>1, <2>4, <2>5 DEF CountTransition, TypeOK
<1>2. CASE LastEvent
  <2>1. Len(events) \in 1 .. Len(events)
    BY <1>a, <1>2, EventsTyped DEF LastEvent, TypeOK, IInv, LoopInv
  <2>2. DOMAIN nodes' \subseteq Word /\ nodes' \in [DOMAIN nodes' -> {0, 1}]
    BY <1>2, <1>b, <2>1 DEF LastEvent
  <2> QED
    BY <1>a, <1>2, <2>2 DEF LastEvent, TypeOK
<1>3. CASE NumberVertex
  <2>1. Least(rest) \in rest /\ rest \subseteq Word
    BY <1>a, <1>3, LeastIn DEF NumberVertex, TypeOK
  <2>2. /\ DOMAIN syscVertex' \subseteq Word
        /\ syscVertex' \in [DOMAIN syscVertex' -> Nat]
    <3>1. i \in Nat /\ DOMAIN syscVertex \subseteq Word
      BY <1>a DEF TypeOK
    <3>2. syscVertex \in [DOMAIN syscVertex -> Nat]
      BY <1>a DEF TypeOK
    <3>3. syscVertex' = Put(syscVertex, Least(rest), i)
      BY <1>3 DEF NumberVertex
    <3> QED
      BY ONLY <2>1, <3>1, <3>2, <3>3 DEF Put
  <2> QED
    BY <1>a, <1>3, <2>1, <2>2 DEF NumberVertex, TypeOK
<1>4. CASE AllNumbered
  BY <1>a, <1>4 DEF AllNumbered, TypeOK
<1>5. CASE ExportEdge
  <2>1. cg' \in COOGraph
    BY <1>a, <1>5, EdgeWritten
  <2> QED
    BY <1>a, <1>5, <2>1 DEF ExportEdge, TypeOK
<1>6. CASE AllEdgesExported
  BY <1>a, <1>6 DEF AllEdgesExported, TypeOK
<1>7. CASE ExportNode
  <2>1. cg' \in COOGraph
    BY <1>a, <1>7, NodeWritten
  <2> QED
    BY <1>a, <1>7, <2>1 DEF ExportNode, TypeOK
<1>8. CASE AllExported
  BY <1>a, <1>8 DEF AllExported, TypeOK
<1>9. CASE UNCHANGED vars
  BY <1>a, <1>9 DEF vars, TypeOK
<1> QED
  BY <1>1, <1>2, <1>3, <1>4, <1>5, <1>6, <1>7, <1>8, <1>9 DEF Next

(* Every step keeps the loops within their bounds and in order. *)
LEMMA LoopStep == IInv /\ [Next]_vars => LoopInv'
<1> SUFFICES ASSUME IInv, [Next]_vars PROVE LoopInv'
  OBVIOUS
<1>a. LoopInv
  BY DEF IInv
<1>b. /\ Len(events) \in Nat /\ i \in Nat /\ DOMAIN nodes \subseteq Word
      /\ \A s \in DOMAIN nodes : s \in Nat
  BY EventsTyped, WordFinite DEF IInv, TypeOK
<1>c. ASSUME pc \in {"number", "nodes"}, rest # {}, UNCHANGED <<pc, nodes>>,
             rest' = rest \ {Least(rest)}
      PROVE  LoopInv'
  <2>1. \A s \in DOMAIN nodes \ rest', t \in rest' : s < t
    BY <1>a, <1>b, <1>c, NumberedKey DEF LoopInv, Visited
  <2> QED
    BY <1>a, <1>c, <2>1 DEF LoopInv, Visited
<1>1. CASE CountTransition
  BY <1>a, <1>b, <1>1 DEF CountTransition, MoreTransitions, LoopInv
<1>2. CASE LastEvent
  BY <1>2 DEF LastEvent, LoopInv, Visited
<1>3. CASE NumberVertex
  BY <1>3, <1>c DEF NumberVertex
<1>4. CASE AllNumbered
  BY <1>4 DEF AllNumbered, LoopInv
<1>5. CASE ExportEdge
  BY <1>a, <1>5 DEF ExportEdge, LoopInv
<1>6. CASE AllEdgesExported
  BY <1>6 DEF AllEdgesExported, LoopInv, Visited
<1>7. CASE ExportNode
  BY <1>7, <1>c DEF ExportNode
<1>8. CASE AllExported
  BY <1>8 DEF AllExported, LoopInv
<1>9. CASE UNCHANGED vars
  BY <1>a, <1>9 DEF vars, LoopInv, Visited
<1> QED
  BY <1>1, <1>2, <1>3, <1>4, <1>5, <1>6, <1>7, <1>8, <1>9 DEF Next

(* Every step keeps the transition counts of the events read so far. *)
LEMMA EdgesStep == IInv /\ [Next]_vars => EdgesInv'
<1> SUFFICES ASSUME IInv, [Next]_vars PROVE EdgesInv'
  OBVIOUS
<1>a. EdgesInv /\ i \in Nat /\ Len(events) \in Nat
  BY EventsTyped DEF IInv, TypeOK
<1>b. ASSUME UNCHANGED <<events, edges>>, Counted' = Counted
      PROVE  EdgesInv'
  BY <1>a, <1>b DEF EdgesInv, Transitions
<1>1. CASE CountTransition
  <2> DEFINE step == <<events[i + 1].syscall_nr, events[i + 2].syscall_nr>>
  <2>1. /\ edges' = Put(edges, step, At(edges, step) + 1)
        /\ Counted = i /\ Counted' = i + 1 /\ UNCHANGED events
    BY <1>1 DEF CountTransition, Counted
  <2>a. /\ DOMAIN edges' = DOMAIN edges \cup {step}
        /\ edges'[step] = At(edges, step) + 1
        /\ \A x \in DOMAIN edges : x # step => edges'[x] = edges[x]
    <3> HIDE DEF step
    <3> QED
      BY ONLY <2>1 DEF Put
  <2> SUFFICES ASSUME NEW a \in Word, NEW b \in Word
               PROVE  /\ <<a, b>> \in DOMAIN edges' <=> Transitions(a, b, i + 1) # {}
                      /\ <<a, b>> \in DOMAIN edges' =>
                           edges'[<<a, b>>] = Cardinality(Transitions(a, b, i + 1))
    BY <2>1 DEF EdgesInv, Transitions
  <2>2. /\ <<a, b>> \in DOMAIN edges <=> Transitions(a, b, i) # {}
        /\ <<a, b>> \in DOMAIN edges =>
             edges[<<a, b>>] = Cardinality(Transitions(a, b, i))
    BY <1>a, <2>1 DEF EdgesInv
  <2>3. CASE step = <<a, b>>
    <3>1. Cardinality(Transitions(a, b, i + 1)) = Cardinality(Transitions(a, b, i)) + 1
      BY <1>a, <2>3, OneMoreTransition
    <3>2. At(edges, step) = Cardinality(Transitions(a, b, i))
      BY <1>a, <2>2, <2>3, TransitionsFinite DEF At
    <3>3. Transitions(a, b, i + 1) # {}
      BY <1>a, <3>1, TransitionsFinite
    <3> HIDE DEF step
    <3> QED
      BY <2>a, <2>3, <3>1, <3>2, <3>3
  <2>4. CASE step # <<a, b>>
    <3>1. Transitions(a, b, i + 1) = Transitions(a, b, i)
      BY <1>a, <2>4, OneMoreTransition
    <3> HIDE DEF step
    <3> QED
      BY <2>a, <2>2, <2>4, <3>1
  <2> QED
    BY <2>3, <2>4
<1>2. CASE LastEvent
  <2>1. Counted = Len(events) - 1 /\ Counted' = Len(events) - 1
    BY <1>a, <1>2 DEF LastEvent, MoreTransitions, Counted, IInv, LoopInv
  <2> QED
    BY <1>2, <1>b, <2>1 DEF LastEvent
<1>3. CASE NumberVertex \/ AllNumbered \/ ExportEdge \/ AllEdgesExported
           \/ ExportNode \/ AllExported
  BY <1>3, <1>b DEF NumberVertex, AllNumbered, ExportEdge, AllEdgesExported,
     ExportNode, AllExported, Counted
<1>4. CASE UNCHANGED vars
  BY <1>4, <1>b DEF vars, Counted
<1> QED
  BY <1>1, <1>2, <1>3, <1>4 DEF Next

(* Every step keeps the flags of the events read so far. *)
LEMMA NodesStep == IInv /\ [Next]_vars => NodesInv'
<1> SUFFICES ASSUME IInv, [Next]_vars PROVE NodesInv'
  OBVIOUS
<1>a. NodesInv /\ i \in Nat /\ Len(events) \in Nat
  BY EventsTyped DEF IInv, TypeOK
<1>b. ASSUME UNCHANGED <<events, nodes>>, Seen' = Seen
      PROVE  NodesInv'
  <2>1. \A s, n : Flags(s, n)' = Flags(s, n)
    BY <1>b DEF Flags
  <2> QED
    BY <1>a, <1>b, <2>1 DEF NodesInv
<1>c. ASSUME pc = "count", i < Len(events), UNCHANGED events,
             nodes' = Marked(events[i + 1]), Seen' = i + 1
      PROVE  NodesInv'
  <2>0. \A s, n : Flags(s, n)' = Flags(s, n)
    BY <1>c DEF Flags
  <2> SUFFICES ASSUME NEW s \in Word
               PROVE  /\ s \in DOMAIN nodes' <=> Flags(s, i + 1) # {}
                      /\ s \in DOMAIN nodes' => (nodes'[s] = 1 <=> 1 \in Flags(s, i + 1))
    BY <1>c, <2>0 DEF NodesInv
  <2> DEFINE e == events[i + 1]
  <2>1. e.syscall_nr \in Word /\ e.blocked \in {0, 1}
    BY <1>a, <1>c, EventsTyped DEF IInv
  <2>2. /\ s \in DOMAIN nodes <=> Flags(s, i) # {}
        /\ s \in DOMAIN nodes => (nodes[s] = 1 <=> 1 \in Flags(s, i))
    BY <1>a, <1>c DEF NodesInv, Seen
  <2>3. nodes' = Put(nodes, e.syscall_nr, Or(e.blocked, At(nodes, e.syscall_nr)))
    BY <1>c DEF Marked
  <2>4. Flags(s, i + 1) = IF e.syscall_nr = s THEN Flags(s, i) \cup {e.blocked}
                                              ELSE Flags(s, i)
    BY <1>a, <2>1, OneMoreFlag
  <2> HIDE DEF e
  <2>a. /\ DOMAIN nodes' = DOMAIN nodes \cup {e.syscall_nr}
        /\ nodes'[e.syscall_nr] = Or(e.blocked, At(nodes, e.syscall_nr))
        /\ \A x \in DOMAIN nodes : x # e.syscall_nr => nodes'[x] = nodes[x]
    BY ONLY <2>3 DEF Put
  <2>5. CASE e.syscall_nr = s
    BY <2>1, <2>2, <2>a, <2>4, <2>5 DEF At, Or
  <2>6. CASE e.syscall_nr # s
    BY <2>2, <2>a, <2>4, <2>6
  <2> QED
    BY <2>5, <2>6
<1>1. CASE CountTransition
  BY <1>a, <1>c, <1>1 DEF CountTransition, MoreTransitions, Seen
<1>2. CASE LastEvent
  <2>1. i + 1 = Len(events) /\ i < Len(events)
    BY <1>a, <1>2 DEF LastEvent, MoreTransitions, IInv, LoopInv
  <2> QED
    BY <1>2, <1>c, <2>1 DEF LastEvent, Seen
<1>3. CASE NumberVertex \/ AllNumbered \/ ExportEdge \/ AllEdgesExported
           \/ ExportNode \/ AllExported
  BY <1>3, <1>b DEF NumberVertex, AllNumbered, ExportEdge, AllEdgesExported,
     ExportNode, AllExported, Seen
<1>4. CASE UNCHANGED vars
  BY <1>4, <1>b DEF vars, Seen
<1> QED
  BY <1>1, <1>2, <1>3, <1>4 DEF Next

(* A visited key comes after all the keys visited before it. *)
LEMMA LeastPosition ==
  ASSUME IInv, pc \in {"number", "nodes"}, rest # {}
  PROVE  /\ Position(Least(rest)) = Cardinality(Visited)
         /\ Cardinality(Visited) \in Nat
         /\ DOMAIN nodes \ (rest \ {Least(rest)}) = Visited \cup {Least(rest)}
         /\ Cardinality(Visited \cup {Least(rest)}) = Cardinality(Visited) + 1
<1> DEFINE l == Least(rest)
<1>1. l \in rest /\ l \in DOMAIN nodes /\ (\A t \in rest : l <= t)
  BY NumberedKey
<1>2. (\A t \in DOMAIN nodes : t \in Nat) /\ Visited \in SUBSET Word
  BY WordFinite DEF IInv, TypeOK, Visited
<1>3. \A t \in DOMAIN nodes : t \in Visited <=> t < l
  BY <1>1, <1>2 DEF IInv, LoopInv, Visited
<1>4. Below(l) = Visited
  BY <1>3 DEF Below, Visited
<1>5. l \notin Visited /\ DOMAIN nodes \ (rest \ {l}) = Visited \cup {l}
  BY <1>1 DEF Visited
<1> QED
  BY <1>2, <1>4, <1>5, SubsetFinite, FS_AddElement DEF Position

LEMMA PositionStable ==
  ASSUME UNCHANGED nodes
  PROVE  \A s : Position(s)' = Position(s)
  BY DEF Position, Below

(* Every step numbers the vertices by their position in the map. *)
LEMMA NumberStep == IInv /\ [Next]_vars => NumberInv'
<1> SUFFICES ASSUME IInv, [Next]_vars PROVE NumberInv'
  OBVIOUS
<1>a. NumberInv
  BY DEF IInv
<1>1. CASE CountTransition
  BY <1>a, <1>1 DEF CountTransition, NumberInv, Numbered
<1>2. CASE LastEvent
  <2>1. Visited' = {} /\ Numbered' = {} /\ DOMAIN syscVertex' = {}
    BY <1>a, <1>2 DEF LastEvent, NumberInv, Numbered, Visited
  <2> QED
    BY <1>2, <2>1, FS_EmptySet DEF LastEvent, NumberInv
<1>3. CASE NumberVertex
  <2> DEFINE l == Least(rest)
  <2>1. /\ Position(l) = i /\ i \in Nat
        /\ Visited' = Visited \cup {l} /\ Cardinality(Visited') = i + 1
        /\ Numbered = Visited /\ Numbered' = Visited' /\ DOMAIN syscVertex = Visited
    BY <1>a, <1>3, LeastPosition DEF NumberVertex, NumberInv, Numbered, Visited
  <2>2. l \notin Visited
    BY <1>3, NumberedKey DEF NumberVertex, Visited
  <2>3. \A s : Position(s)' = Position(s)
    BY <1>3, PositionStable DEF NumberVertex
  <2>4. /\ DOMAIN syscVertex' = Visited \cup {l} /\ syscVertex'[l] = i
        /\ \A s \in Visited : syscVertex'[s] = syscVertex[s]
    <3>1. syscVertex' = Put(syscVertex, l, i)
      BY <1>3 DEF NumberVertex
    <3> HIDE DEF l
    <3> QED
      BY ONLY <2>1, <2>2, <3>1 DEF Put
  <2> QED
    BY <1>a, <1>3, <2>1, <2>3, <2>4 DEF NumberVertex, NumberInv
<1>4. CASE AllNumbered \/ ExportEdge \/ AllEdgesExported
           \/ ExportNode \/ AllExported
  <2>1. /\ UNCHANGED <<nodes, syscVertex>> /\ Numbered' = Numbered
        /\ pc' # "number"
    BY <1>4 DEF AllNumbered, ExportEdge, AllEdgesExported, ExportNode,
       AllExported, Numbered, Visited
  <2> QED
    BY <1>a, <2>1, PositionStable DEF NumberInv
<1>5. CASE UNCHANGED vars
  <2>1. Numbered' = Numbered /\ Visited' = Visited
    BY <1>5 DEF vars, Numbered, Visited
  <2> QED
    BY <1>a, <1>5, <2>1, PositionStable DEF NumberInv, vars
<1> QED
  BY <1>1, <1>2, <1>3, <1>4, <1>5 DEF Next

(* Every step keeps the edges written so far. *)
LEMMA EdgesOutStep == IInv /\ [Next]_vars => EdgesOutInv'
<1> SUFFICES ASSUME IInv, [Next]_vars PROVE EdgesOutInv'
  OBVIOUS
<1>a. EdgesOutInv /\ cg \in COOGraph
  BY DEF IInv, TypeOK
<1>b. ASSUME UNCHANGED <<nodes, edges>>, EdgesOut' = EdgesOut,
             cg'.from = cg.from, cg'.to = cg.to, cg'.weights = cg.weights
      PROVE  EdgesOutInv'
  <2>1. \A s : Position(s)' = Position(s)
    BY <1>b, PositionStable
  <2>2. \A k, e : Writes(k, e)' <=> Writes(k, e)
    BY <1>b, <2>1 DEF Writes
  <2> QED
    BY <1>a, <1>b, <2>2 DEF EdgesOutInv
<1>1. CASE CountTransition \/ LastEvent
  <2>1. EdgesOut = {} /\ EdgesOut' = {} /\ cg' = cg
    BY <1>1 DEF CountTransition, LastEvent, EdgesOut
  <2> QED
    BY <1>a, <2>1 DEF EdgesOutInv, COOGraph
<1>2. CASE ExportEdge
  <2>a. PICK e : e = LeastPair(rest)
    OBVIOUS
  <2>b. PICK n : n = Len(cg.from)
    OBVIOUS
  <2>1. /\ e \in rest /\ e \in DOMAIN edges /\ e = <<e[1], e[2]>>
        /\ e[1] \in DOMAIN nodes /\ e[2] \in DOMAIN nodes
        /\ syscVertex[e[1]] = Position(e[1]) /\ syscVertex[e[2]] = Position(e[2])
        /\ edges[e] \in Nat /\ Position(e[1]) \in Nat /\ Position(e[2]) \in Nat
    BY <1>2, <2>a, ExportedEdge, PositionBounded DEF ExportEdge, IInv, TypeOK
  <2>2. /\ cg'.from = Append(cg.from, Position(e[1]))
        /\ cg'.to = Append(cg.to, Position(e[2]))
        /\ cg'.weights = Append(cg.weights, edges[e])
    BY <1>2, <2>a, EdgeWritten
  <2>3. /\ cg.from \in Seq(Nat) /\ cg.to \in Seq(Nat) /\ cg.weights \in Seq(Nat)
        /\ Len(cg.to) = n /\ Len(cg.weights) = n /\ n \in Nat
    BY <1>a, <2>b DEF COOGraph, EdgesOutInv
  <2>4. EdgesOut' = EdgesOut \cup {e} /\ e \notin EdgesOut /\ UNCHANGED <<nodes, edges>>
    BY <1>2, <2>a, <2>1 DEF ExportEdge, EdgesOut
  <2>5. \A d \in EdgesOut : /\ d[1] \in DOMAIN nodes /\ d[2] \in DOMAIN nodes
                           /\ d = <<d[1], d[2]>>
    BY <1>2, EndsAreVertices DEF ExportEdge, EdgesOut, IInv, TypeOK
  <2>6. \A s : Position(s)' = Position(s)
    BY <2>4, PositionStable
  <2>7. /\ Len(cg'.from) = n + 1 /\ Len(cg'.to) = n + 1 /\ Len(cg'.weights) = n + 1
        /\ cg'.from[n + 1] = Position(e[1]) /\ cg'.to[n + 1] = Position(e[2])
        /\ cg'.weights[n + 1] = edges[e]
        /\ \A k \in 1 .. n : /\ cg'.from[k] = cg.from[k] /\ cg'.to[k] = cg.to[k]
                             /\ cg'.weights[k] = cg.weights[k]
    <3>1. /\ Len(cg'.from) = n + 1 /\ cg'.from[n + 1] = Position(e[1])
          /\ \A k \in 1 .. n : cg'.from[k] = cg.from[k]
      BY ONLY <2>1, <2>2, <2>3, <2>b, AppendFacts
    <3>2. /\ Len(cg'.to) = n + 1 /\ cg'.to[n + 1] = Position(e[2])
          /\ \A k \in 1 .. n : cg'.to[k] = cg.to[k]
      BY ONLY <2>1, <2>2, <2>3, <2>b, AppendFacts
    <3>3. /\ Len(cg'.weights) = n + 1 /\ cg'.weights[n + 1] = edges[e]
          /\ \A k \in 1 .. n : cg'.weights[k] = cg.weights[k]
      BY ONLY <2>1, <2>2, <2>3, <2>b, AppendFacts
    <3> QED
      BY ONLY <3>1, <3>2, <3>3
  <2>8. \A k : k \in 1 .. n + 1 <=> k \in 1 .. n \/ k = n + 1
    BY <2>3
  <2>9. \A d : Writes(n + 1, d)' <=> Position(e[1]) = Position(d[1]) /\ Position(e[2]) = Position(d[2])
    BY <2>6, <2>7 DEF Writes
  <2>10. \A k \in 1 .. n : \A d : Writes(k, d)' <=> Writes(k, d)
    BY <2>6, <2>7 DEF Writes
  <2>11. \A k \in 1 .. n : ~(cg.from[k] = Position(e[1]) /\ cg.to[k] = Position(e[2]))
    <3> SUFFICES ASSUME NEW k \in 1 .. n,
                        cg.from[k] = Position(e[1]), cg.to[k] = Position(e[2])
                 PROVE  FALSE
      OBVIOUS
    <3>1. PICK d \in EdgesOut : Writes(k, d)
      BY <1>a, <2>b DEF EdgesOutInv
    <3>2. d[1] = e[1] /\ d[2] = e[2]
      BY <2>1, <2>5, <3>1, PositionInj DEF Writes, IInv, TypeOK
    <3> QED
      BY <2>1, <2>4, <2>5, <3>2
  <2>12. \A k \in 1 .. n + 1 : \E d \in EdgesOut' : Writes(k, d)' /\ cg'.weights[k] = edges'[d]
    BY <1>a, <2>4, <2>7, <2>8, <2>9, <2>10, <2>b DEF EdgesOutInv
  <2>13. \A d \in EdgesOut' : \E k \in 1 .. n + 1 : Writes(k, d)'
    BY <1>a, <2>4, <2>8, <2>9, <2>10, <2>b DEF EdgesOutInv
  <2>14. \A j, k \in 1 .. n + 1 :
          cg'.from[j] = cg'.from[k] /\ cg'.to[j] = cg'.to[k] => j = k
    <3> SUFFICES ASSUME NEW j \in 1 .. n + 1, NEW k \in 1 .. n + 1,
                        cg'.from[j] = cg'.from[k], cg'.to[j] = cg'.to[k]
                 PROVE  j = k
      OBVIOUS
    <3>1. CASE j \in 1 .. n /\ k \in 1 .. n
      BY <1>a, <2>7, <2>b, <3>1 DEF EdgesOutInv
    <3>2. CASE j = n + 1 \/ k = n + 1
      BY <2>7, <2>8, <2>11, <3>2
    <3> QED
      BY <2>8, <3>1, <3>2
  <2> QED
    BY <2>7, <2>12, <2>13, <2>14 DEF EdgesOutInv
<1>3. CASE NumberVertex \/ AllNumbered \/ AllEdgesExported \/ AllExported
  <2>1. EdgesOut' = EdgesOut
    BY <1>3 DEF NumberVertex, AllNumbered, AllEdgesExported, AllExported, EdgesOut
  <2> QED
    BY <1>3, <1>b, <2>1 DEF NumberVertex, AllNumbered, AllEdgesExported, AllExported
<1>4. CASE ExportNode
  <2>1. EdgesOut' = EdgesOut /\ UNCHANGED <<nodes, edges>>
    BY <1>4 DEF ExportNode, EdgesOut
  <2>2. cg'.from = cg.from /\ cg'.to = cg.to /\ cg'.weights = cg.weights
    BY <1>4, NodeWritten
  <2> QED
    BY <1>b, <2>1, <2>2
<1>5. CASE UNCHANGED vars
  BY <1>5, <1>b DEF vars, EdgesOut
<1> QED
  BY <1>1, <1>2, <1>3, <1>4, <1>5 DEF Next

(* Every step keeps the vertices written so far. *)
LEMMA NodesOutStep == IInv /\ [Next]_vars => NodesOutInv'
<1> SUFFICES ASSUME IInv, [Next]_vars PROVE NodesOutInv'
  OBVIOUS
<1>a. NodesOutInv /\ cg \in COOGraph
  BY DEF IInv, TypeOK
<1>b. ASSUME UNCHANGED nodes, NodesOut' = NodesOut, pc' = "done" => rest' = {},
             cg'.nodes = cg.nodes, cg'.blocked = cg.blocked
      PROVE  NodesOutInv'
  BY <1>a, <1>b, PositionStable DEF NodesOutInv
<1>1. CASE CountTransition \/ LastEvent
  <2>1. NodesOut = {} /\ NodesOut' = {} /\ cg' = cg /\ pc' # "done"
    BY <1>1 DEF CountTransition, LastEvent, NodesOut
  <2> QED
    BY <1>a, <2>1 DEF NodesOutInv
<1>2. CASE NumberVertex \/ AllNumbered \/ AllEdgesExported \/ AllExported
  <2>1. NodesOut' = NodesOut /\ (pc' = "done" => rest' = {})
    BY <1>2 DEF NumberVertex, AllNumbered, AllEdgesExported, AllExported,
       NodesOut, Visited
  <2> QED
    BY <1>2, <1>b, <2>1 DEF NumberVertex, AllNumbered, AllEdgesExported, AllExported
<1>3. CASE ExportEdge
  <2>1. cg'.nodes = cg.nodes /\ cg'.blocked = cg.blocked
    BY <1>3, EdgeWritten
  <2> QED
    BY <1>3, <1>b, <2>1 DEF ExportEdge, NodesOut
<1>4. CASE ExportNode
  <2>a. PICK l, n : l = Least(rest) /\ n = Len(cg.nodes)
    OBVIOUS
  <2>1. /\ l \in DOMAIN nodes /\ l \in Word /\ l \notin Visited
        /\ nodes[l] \in {0, 1} /\ ToInt(l) \in Int
    BY <1>4, <2>a, NumberedKey, HalfAssumption
       DEF ExportNode, Visited, ToInt, Word, IInv, TypeOK
  <2>2. /\ Position(l) = n /\ n \in Nat
        /\ NodesOut = Visited /\ NodesOut' = Visited \cup {l}
        /\ Cardinality(NodesOut') = n + 1
        /\ Len(cg.blocked) = n
    BY <1>a, <1>4, <2>a, LeastPosition DEF ExportNode, NodesOutInv, NodesOut, Visited
  <2>3. cg.nodes \in Seq(Int) /\ cg.blocked \in Seq({0, 1})
    BY <1>a DEF COOGraph
  <2>4. cg'.nodes = Append(cg.nodes, ToInt(l)) /\ cg'.blocked = Append(cg.blocked, nodes[l])
    BY <1>4, <2>a, NodeWritten
  <2>5. /\ Len(cg'.nodes) = n + 1 /\ cg'.nodes[n + 1] = ToInt(l)
        /\ \A k \in 1 .. n : cg'.nodes[k] = cg.nodes[k]
    BY ONLY <2>1, <2>3, <2>4, <2>a, AppendFacts
  <2>6. /\ Len(cg'.blocked) = n + 1 /\ cg'.blocked[n + 1] = nodes[l]
        /\ \A k \in 1 .. n : cg'.blocked[k] = cg.blocked[k]
    BY ONLY <2>1, <2>2, <2>3, <2>4, AppendFacts
  <2>7. \A s : Position(s)' = Position(s)
    BY <1>4, PositionStable DEF ExportNode
  <2>8. \A k : k \in 1 .. n + 1 <=> k \in 1 .. n \/ k = n + 1
    BY <2>2
  <2>9. \A s \in NodesOut' : /\ Position(s) + 1 \in 1 .. n + 1
                            /\ cg'.nodes[Position(s) + 1] = ToInt(s)
                            /\ cg'.blocked[Position(s) + 1] = nodes[s]
    <3> SUFFICES ASSUME NEW s \in NodesOut'
                 PROVE  /\ Position(s) + 1 \in 1 .. n + 1
                        /\ cg'.nodes[Position(s) + 1] = ToInt(s)
                        /\ cg'.blocked[Position(s) + 1] = nodes[s]
      OBVIOUS
    <3>1. CASE s \in NodesOut
      BY <1>a, <2>a, <2>5, <2>6, <2>8, <3>1 DEF NodesOutInv
    <3>2. CASE s = l
      BY <2>2, <2>5, <2>6, <2>8, <3>2
    <3> QED
      BY <2>2, <3>1, <3>2
  <2>10. \A k \in 1 .. n + 1 : \E s \in NodesOut' : k = Position(s) + 1
    <3> SUFFICES ASSUME NEW k \in 1 .. n + 1
                 PROVE  \E s \in NodesOut' : k = Position(s) + 1
      OBVIOUS
    <3>1. CASE k \in 1 .. n
      BY <1>a, <2>2, <2>a, <3>1 DEF NodesOutInv
    <3>2. CASE k = n + 1
      BY <2>2, <3>2
    <3> QED
      BY <2>8, <3>1, <3>2
  <2> QED
    BY <1>4, <2>2, <2>5, <2>6, <2>7, <2>9, <2>10 DEF NodesOutInv, ExportNode
<1>5. CASE UNCHANGED vars
  BY <1>a, <1>5, <1>b DEF vars, NodesOut, Visited, NodesOutInv
<1> QED
  BY <1>1, <1>2, <1>3, <1>4, <1>5 DEF Next

(* IInv is inductive and holds in every reachable state. *)
THEOREM Invariance == Spec => []IInv
<1>1. IInv /\ [Next]_vars => IInv'
  BY TypeStep, LoopStep, EdgesStep, NodesStep, NumberStep, EdgesOutStep,
     NodesOutStep DEF IInv
<1> QED
  BY InitInv, <1>1, PTL DEF Spec

(* build and cooExport keep the types of their maps and arrays. *)
THEOREM TypeCorrect == Spec => []TypeOK
<1>1. IInv => TypeOK
  BY DEF IInv
<1> QED
  BY Invariance, <1>1, PTL

----------------------------------------------------------------------------
(* Reading the finished export back. *)

LEMMA Decoding ==
  ASSUME IInv, pc = "done"
  PROVE  /\ Len(cg.nodes) = Cardinality(DOMAIN nodes)
         /\ Len(cg.blocked) = Len(cg.nodes)
         /\ \A s \in DOMAIN nodes :
              /\ Position(s) + 1 \in DOMAIN cg.nodes
              /\ cg.nodes[Position(s) + 1] = ToInt(s)
              /\ cg.blocked[Position(s) + 1] = nodes[s]
         /\ \A k \in DOMAIN cg.nodes : \E s \in DOMAIN nodes :
              k = Position(s) + 1 /\ cg.nodes[k] = ToInt(s)
         /\ DOMAIN cg.from = 1 .. Len(cg.from)
         /\ \A k \in DOMAIN cg.from : \E a, b \in DOMAIN nodes :
              <<a, b>> \in DOMAIN edges /\ Writes(k, <<a, b>>)
              /\ cg.weights[k] = edges[<<a, b>>]
<1>1. cg \in COOGraph /\ NodesOutInv /\ EdgesOutInv
  BY DEF IInv, TypeOK
<1>2. NodesOut = DOMAIN nodes /\ EdgesOut = DOMAIN edges
  BY <1>1 DEF NodesOutInv, NodesOut, EdgesOut, Visited
<1>3. DOMAIN cg.nodes = 1 .. Len(cg.nodes) /\ DOMAIN cg.from = 1 .. Len(cg.from)
  BY <1>1 DEF COOGraph
<1>4. \A e \in DOMAIN edges : \E a, b \in DOMAIN nodes : e = <<a, b>>
  BY EndsAreVertices DEF IInv, TypeOK
<1>5. /\ Len(cg.nodes) = Cardinality(DOMAIN nodes)
      /\ Len(cg.blocked) = Len(cg.nodes)
      /\ \A s \in DOMAIN nodes :
           /\ Position(s) + 1 \in 1 .. Len(cg.nodes)
           /\ cg.nodes[Position(s) + 1] = ToInt(s)
           /\ cg.blocked[Position(s) + 1] = nodes[s]
  BY <1>1, <1>2 DEF NodesOutInv
<1>6. ASSUME NEW k \in DOMAIN cg.nodes
      PROVE  \E s \in DOMAIN nodes : k = Position(s) + 1 /\ cg.nodes[k] = ToInt(s)
  <2>1. PICK s \in DOMAIN nodes : k = Position(s) + 1
    BY <1>1, <1>2, <1>3 DEF NodesOutInv
  <2> QED
    BY <1>5, <2>1
<1>7. ASSUME NEW k \in DOMAIN cg.from
      PROVE  \E a, b \in DOMAIN nodes : /\ <<a, b>> \in DOMAIN edges
                                        /\ Writes(k, <<a, b>>)
                                        /\ cg.weights[k] = edges[<<a, b>>]
  <2>1. PICK e \in DOMAIN edges : Writes(k, e) /\ cg.weights[k] = edges[e]
    BY <1>1, <1>2, <1>3 DEF EdgesOutInv, Writes
  <2>2. PICK a, b \in DOMAIN nodes : e = <<a, b>>
    BY <1>4
  <2> QED
    BY <2>1, <2>2
<1> QED
  BY <1>3, <1>5, <1>6, <1>7

(* Whatever the events, the arrays cooExport returns fit together. *)
THEOREM ExportWellFormed == Spec => []WellFormed
<1>1. IInv => WellFormed
  <2> SUFFICES ASSUME IInv, pc = "done"
               PROVE  /\ Len(cg.from) = Len(cg.weights) /\ Len(cg.to) = Len(cg.weights)
                      /\ Len(cg.nodes) = Len(cg.blocked)
                      /\ \A k \in DOMAIN cg.from :
                           cg.from[k] < Len(cg.nodes) /\ cg.to[k] < Len(cg.nodes)
                      /\ \A j, k \in DOMAIN cg.nodes : cg.nodes[j] = cg.nodes[k] => j = k
    BY DEF WellFormed
  <2>1. Len(cg.from) = Len(cg.weights) /\ Len(cg.to) = Len(cg.weights)
    BY DEF IInv, EdgesOutInv
  <2>2. DOMAIN nodes \subseteq Word
    BY DEF IInv, TypeOK
  <2>3. \A k \in DOMAIN cg.from : cg.from[k] < Len(cg.nodes) /\ cg.to[k] < Len(cg.nodes)
    BY <2>2, Decoding, PositionBounded DEF Writes
  <2>4. ASSUME NEW j \in DOMAIN cg.nodes, NEW k \in DOMAIN cg.nodes,
               cg.nodes[j] = cg.nodes[k]
        PROVE  j = k
    <3>1. PICK s \in DOMAIN nodes : j = Position(s) + 1 /\ cg.nodes[j] = ToInt(s)
      BY Decoding
    <3>2. PICK t \in DOMAIN nodes : k = Position(t) + 1 /\ cg.nodes[k] = ToInt(t)
      BY Decoding
    <3>3. s = t
      BY <2>2, <2>4, <3>1, <3>2, ToIntInj
    <3> QED
      BY <3>1, <3>2, <3>3
  <2> QED
    BY <2>1, <2>3, <2>4, Decoding
<1> QED
  BY Invariance, <1>1, PTL

(* Whatever the events, the edges cooExport returns, read through its
   vertex numbers, are the transitions build was given, with their counts. *)
THEOREM ExportDecodesEdges == Spec => []EdgesDecode
<1>1. IInv => EdgesDecode
  <2> SUFFICES ASSUME IInv, pc = "done", NEW a \in Word, NEW b \in Word
               PROVE  /\ Steps(a, b) # {} => \E k \in DOMAIN cg.from : Reads(k, a, b)
                      /\ \A k \in DOMAIN cg.from : Reads(k, a, b) =>
                           /\ cg.weights[k] = Cardinality(Steps(a, b))
                           /\ Steps(a, b) # {}
                           /\ \A j \in DOMAIN cg.from : Reads(j, a, b) => j = k
    BY DEF EdgesDecode
  <2>1. /\ <<a, b>> \in DOMAIN edges <=> Steps(a, b) # {}
        /\ <<a, b>> \in DOMAIN edges => edges[<<a, b>>] = Cardinality(Steps(a, b))
    BY DEF IInv, EdgesInv, Counted, Steps
  <2>2. DOMAIN nodes \subseteq Word
    BY DEF IInv, TypeOK
  <2>3. ASSUME NEW k \in DOMAIN cg.from, Reads(k, a, b)
        PROVE  /\ <<a, b>> \in DOMAIN edges /\ Writes(k, <<a, b>>)
               /\ cg.weights[k] = edges[<<a, b>>]
    <3>1. PICK c, d \in DOMAIN nodes : /\ <<c, d>> \in DOMAIN edges
                                       /\ Writes(k, <<c, d>>)
                                       /\ cg.weights[k] = edges[<<c, d>>]
      BY Decoding
    <3>2. cg.nodes[cg.from[k] + 1] = ToInt(c) /\ cg.nodes[cg.to[k] + 1] = ToInt(d)
      BY <3>1, Decoding DEF Writes
    <3>3. c = a /\ d = b
      BY <2>2, <2>3, <3>2, ToIntInj DEF Reads
    <3> QED
      BY <3>1, <3>3
  <2>4. ASSUME Steps(a, b) # {}
        PROVE  \E k \in DOMAIN cg.from : Reads(k, a, b)
    <3>1. a \in DOMAIN nodes /\ b \in DOMAIN nodes
      BY <2>1, <2>4, EndsAreVertices DEF IInv
    <3>2. PICK k \in 1 .. Len(cg.from) : Writes(k, <<a, b>>)
      BY <2>1, <2>4 DEF IInv, EdgesOutInv, EdgesOut
    <3> QED
      BY <3>1, <3>2, Decoding DEF Writes, Reads
  <2>5. ASSUME NEW j \in DOMAIN cg.from, NEW k \in DOMAIN cg.from,
               Reads(j, a, b), Reads(k, a, b)
        PROVE  j = k
    <3>1. Writes(j, <<a, b>>) /\ Writes(k, <<a, b>>)
      BY <2>3, <2>5
    <3>2. cg.from[j] = cg.from[k] /\ cg.to[j] = cg.to[k]
      BY <3>1 DEF Writes
    <3>3. j \in 1 .. Len(cg.from) /\ k \in 1 .. Len(cg.from)
      BY Decoding
    <3> QED
      BY <3>2, <3>3 DEF IInv, EdgesOutInv
  <2> QED
    BY <2>1, <2>3, <2>4, <2>5
<1> QED
  BY Invariance, <1>1, PTL

(* Whatever the events, the vertices are the calls that occur, each with
   the flag its occurrences call for. *)
THEOREM ExportDecodesNodes == Spec => []NodesDecode
<1>1. IInv => NodesDecode
  <2> SUFFICES ASSUME IInv, pc = "done", NEW s \in Word, NEW flags,
                      flags = Flags(s, Len(events))
               PROVE  /\ flags # {} => \E k \in DOMAIN cg.nodes : cg.nodes[k] = ToInt(s)
                      /\ \A k \in DOMAIN cg.nodes : cg.nodes[k] = ToInt(s) =>
                           flags # {} /\ (cg.blocked[k] = 1 <=> 1 \in flags)
    BY DEF NodesDecode
  <2>1. /\ s \in DOMAIN nodes <=> flags # {}
        /\ s \in DOMAIN nodes => (nodes[s] = 1 <=> 1 \in flags)
    BY DEF IInv, NodesInv, Seen
  <2>2. DOMAIN nodes \subseteq Word
    BY DEF IInv, TypeOK
  <2>3. ASSUME NEW k \in DOMAIN cg.nodes, cg.nodes[k] = ToInt(s)
        PROVE  s \in DOMAIN nodes /\ cg.blocked[k] = nodes[s]
    <3>1. PICK t \in DOMAIN nodes : k = Position(t) + 1 /\ cg.nodes[k] = ToInt(t)
      BY Decoding
    <3>2. t = s
      BY <2>2, <2>3, <3>1, ToIntInj
    <3> QED
      BY <3>1, <3>2, Decoding
  <2> QED
    BY <2>1, <2>3, Decoding
<1> QED
  BY Invariance, <1>1, PTL

(* Whatever the events, what cooExport returns says what build was given. *)
THEOREM ExportIsFaithful == Spec => []ExportDecodes
  BY ExportWellFormed, ExportDecodesEdges, ExportDecodesNodes, PTL
     DEF ExportDecodes

============================================================================
