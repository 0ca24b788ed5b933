----------------------------- MODULE FilesDepth -----------------------------
(***************************************************************************)
(* Proofs that rmRF leaves only what is too deep for it, that each of its  *)
(* steps and of those of cpy brings the end nearer, and that all of them   *)
(* come to Preparation, for trees of any size, listed in any order:        *)
(* OnlyTooDeepLeft, EveryStepCounts and UpperPrepared in module Files.     *)
(***************************************************************************)
EXTENDS FilesProofs, FiniteSetTheorems

----------------------------------------------------------------------------
(* The things around a thing. *)

LEMMA AroundSelf ==
  ASSUME NEW p, NEW t \in Things
  PROVE  t \in Around(p, t) /\ Around(p, t) \subseteq Things
  BY DEF Around

LEMMA AroundUp ==
  ASSUME NEW p, NEW t \in Things, NEW u \in Around(p, t), p[u] \in Things
  PROVE  p[u] \in Around(p, t)
  BY DEF Around

LEMMA AroundLeast ==
  ASSUME NEW p, NEW t, NEW S \in SUBSET Things, t \in S,
         \A v \in S : p[v] \in Things => p[v] \in S
  PROVE  Around(p, t) \subseteq S
  BY DEF Around

LEMMA AroundTransitive ==
  ASSUME NEW p, NEW t \in Things, NEW u \in Around(p, t)
  PROVE  Around(p, u) \subseteq Around(p, t)
<1>1. Around(p, t) \in SUBSET Things
  BY AroundSelf
<1>2. \A v \in Around(p, t) : p[v] \in Things => p[v] \in Around(p, t)
  BY AroundUp
<1> QED
  BY <1>1, <1>2, AroundLeast

(* Whatever is around t holds something that is. *)
LEMMA AroundHolds ==
  ASSUME NEW p, NEW t \in Things, NEW u \in Around(p, t), u # t
  PROVE  \E v \in Around(p, t) : p[v] = u
<1> SUFFICES ASSUME \A v \in Around(p, t) : p[v] # u PROVE FALSE
  OBVIOUS
<1> DEFINE S == Around(p, t) \ {u}
<1>1. S \in SUBSET Things /\ t \in S
  BY AroundSelf
<1>2. \A v \in S : p[v] \in Things => p[v] \in S
  BY AroundUp
<1>3. Around(p, t) \subseteq S
  BY <1>1, <1>2, AroundLeast
<1> QED
  BY <1>3

LEMMA AroundStep ==
  ASSUME NEW p, NEW t \in Things, NEW u \in Around(p, t), u # t
  PROVE  p[t] \in Things /\ u \in Around(p, p[t])
<1>1. CASE p[t] \in Things
  <2> DEFINE S == {t} \cup Around(p, p[t])
  <2>1. S \in SUBSET Things /\ t \in S /\ p[t] \in Around(p, p[t])
    BY <1>1, AroundSelf
  <2>2. \A v \in S : p[v] \in Things => p[v] \in S
    BY <1>1, <2>1, AroundUp
  <2>3. Around(p, t) \subseteq S
    BY <2>1, <2>2, AroundLeast
  <2> QED
    BY <1>1, <2>3
<1>2. CASE p[t] \notin Things
  <2>1. {t} \in SUBSET Things /\ \A v \in {t} : p[v] \in Things => p[v] \in {t}
    BY <1>2
  <2>2. Around(p, t) \subseteq {t}
    BY <2>1, AroundLeast
  <2> QED
    BY <2>2
<1> QED
  BY <1>1, <1>2

(* Nothing around the rest changes when a thing that holds none is deleted. *)
LEMMA AroundRemoved ==
  ASSUME NEW p \in [Nodes -> Nodes \cup {Overlay, Home, Gone}],
         NEW x \in Things, \A v \in Things : p[v] # x,
         NEW t \in Things, t # x
  PROVE  Around([p EXCEPT ![x] = Gone], t) = Around(p, t)
<1> DEFINE q == [p EXCEPT ![x] = Gone]
<1>1. /\ q[x] = Gone /\ Gone \notin Things
      /\ \A v \in Things : v # x => q[v] = p[v]
  BY Numbers
<1> HIDE DEF q
<1>2. Around(q, t) \subseteq Around(p, t)
  <2>1. Around(p, t) \in SUBSET Things /\ t \in Around(p, t)
    BY AroundSelf
  <2>2. \A v \in Around(p, t) : q[v] \in Things => q[v] \in Around(p, t)
    BY <1>1, <2>1, AroundUp
  <2> QED
    BY <2>1, <2>2, AroundLeast
<1>3. Around(p, t) \subseteq Around(q, t)
  <2>1. Around(q, t) \in SUBSET Things /\ t \in Around(q, t)
    BY AroundSelf
  <2>2. x \notin Around(q, t)
    BY <1>1, <2>1, AroundHolds
  <2>3. \A v \in Around(q, t) : p[v] \in Things => p[v] \in Around(q, t)
    BY <1>1, <2>1, <2>2, AroundUp
  <2> QED
    BY <2>1, <2>3, AroundLeast
<1> QED
  BY <1>2, <1>3 DEF q

(* Numbered from the top, a thing is in one that is in nothing below upper. *)
LEMMA AroundTop ==
  ASSUME NEW p, \A v \in Things : p[v] \in Things => p[v] < v,
         NEW t \in Things
  PROVE  \E u \in Around(p, t) : p[u] \notin Things
<1> DEFINE F == {1..u : u \in Around(p, t)}
<1>1. Around(p, t) \subseteq Things /\ t \in Around(p, t)
  BY AroundSelf
<1>2. IsFiniteSet(Things) /\ Things \subseteq Nat
  BY BoundsAssumption, FS_Interval DEF Things
<1>3. FiniteSubsetsOf(Things) = SUBSET Things
  BY <1>2, FS_FiniteSubsetsOfFinite
<1>4. IsWellFoundedOn(StrictSubsetOrdering(Things), SUBSET Things)
  BY <1>3, FS_StrictSubsetOrderingWellFounded
<1>5. F \subseteq SUBSET Things /\ F # {}
  BY <1>1, BoundsAssumption DEF Things
<1>6. PICK m \in F : \A y \in F : <<y, m>> \notin StrictSubsetOrdering(Things)
  <2> HIDE DEF F
  <2> QED
    BY <1>4, <1>5, WFMin
<1>7. PICK u \in Around(p, t) : m = 1..u
  BY <1>6
<1>8. ASSUME p[u] \in Things
      PROVE  FALSE
  <2>1. p[u] \in Around(p, t) /\ p[u] < u /\ u \in Things
    BY <1>1, <1>8, AroundUp
  <2>2. 1..p[u] \in F /\ 1..p[u] \in SUBSET Things /\ 1..u \in SUBSET Things
    <3>1. 1..p[u] \in F /\ 1..u \in F
      BY <2>1
    <3> HIDE DEF F
    <3> QED
      BY <1>5, <3>1
  <2>3. 1..p[u] \subseteq 1..u /\ u \in 1..u /\ u \notin 1..p[u]
    BY <1>2, <1>8, <2>1, BoundsAssumption DEF Things
  <2>4. <<1..p[u], 1..u>> \in StrictSubsetOrdering(Things)
    BY <2>2, <2>3 DEF StrictSubsetOrdering
  <2> QED
    BY <1>6, <1>7, <2>2, <2>4
<1> QED
  BY <1>8

----------------------------------------------------------------------------
(* The inductive invariant, beside IInv. *)

Entered(s, t) == \E i \in 1..Len(s) : t = s[i].node

(* Until cpy, what is in the tree is in a directory of it. *)
ShapeInv ==
  at \in {"reset", "remove", "mkdir", "open"} =>
    \A t \in Things :
      IF kind[t] = "none" THEN parent[t] = Gone
      ELSE parent[t] \in Things \cup {Upper} /\ kind[parent[t]] = "dir"

(* Each call is for a directory in that of the call around it, and what is *)
(* left in it was not entered.                                             *)
Chain(s) ==
  /\ \A i \in 1..(Len(s) - 1) : parent[s[i].node] = s[i + 1].node
  /\ \A i, j \in 1..(Len(s) - 1) : i <= j => s[j].node \in Above(s[i].node)
  /\ \A i \in 1..Len(s) : \A t \in s[i].left :
       parent[t] = s[i].node /\ ~Entered(s, t)

DoneInv ==
  /\ at = "remove" =>
       \A t \in Things : kind[t] # "none" =>
         Waiting(stack, t) \/ Entered(stack, t) \/ NearTooDeep(t)
  /\ at \in {"mkdir", "open"} =>
       \A t \in Things : kind[t] # "none" => NearTooDeep(t)

DepthInv == ShapeInv /\ Chain(stack) /\ DoneInv

----------------------------------------------------------------------------
(* The stack of calls. *)

LEMMA StackFacts ==
  ASSUME IInv, at = "remove"
  PROVE  /\ stack \in Seq(Call) /\ stack # <<>> /\ Len(stack) \in Nat \ {0}
         /\ Len(stack) = streams /\ Len(stack) <= MaxOpen
         /\ \A i \in 1..Len(stack) :
              /\ stack[i] \in Call /\ stack[i].node \in Nodes
              /\ stack[i].left \subseteq Things
              /\ kind[stack[i].node] = "dir" /\ stack[i].node \notin TooLong
         /\ \A i, j \in 1..Len(stack) :
              i # j => stack[i].node # stack[j].node
         /\ \A i \in 1..(Len(stack) - 1) : stack[i].node \in Things
         /\ stack[Len(stack)].node = Upper
<1>0. TypeOK /\ RemoveInv
  BY DEF IInv
<1>1. stack \in Seq(Call) /\ stack # <<>> /\ Len(stack) \in Nat \ {0}
  BY <1>0 DEF TypeOK, RemoveInv, Call
<1>2. Len(stack) = streams /\ Len(stack) <= MaxOpen
  BY <1>0 DEF TypeOK, RemoveInv
<1>3. \A i \in 1..Len(stack) :
        /\ stack[i] \in Call /\ stack[i].node \in Nodes
        /\ stack[i].node \in Things \cup {Upper} /\ stack[i].node \in Int
        /\ stack[i].left \subseteq Things /\ kind[stack[i].node] = "dir"
        /\ stack[i].node \notin TooLong
  <2> SUFFICES ASSUME NEW i \in 1..Len(stack)
               PROVE  /\ stack[i] \in Call /\ stack[i].node \in Nodes
                      /\ stack[i].node \in Things \cup {Upper}
                      /\ stack[i].node \in Int
                      /\ stack[i].left \subseteq Things
                      /\ kind[stack[i].node] = "dir"
                      /\ stack[i].node \notin TooLong
    OBVIOUS
  <2>1. CallInv(stack[i]) /\ stack[i] \in Call
    BY <1>0, <1>1 DEF RemoveInv
  <2>2. stack[i].node \in Nodes /\ stack[i].node \in Int
    BY <2>1 DEF Call, Nodes
  <2> QED
    BY <2>1, <2>2 DEF CallInv
<1>4. \A i, j \in 1..Len(stack) : i # j => stack[i].node # stack[j].node
  <2> SUFFICES ASSUME NEW i \in 1..Len(stack), NEW j \in 1..Len(stack), i # j
               PROVE  stack[i].node # stack[j].node
    OBVIOUS
  <2>1. stack[j].node < stack[i].node \/ stack[i].node < stack[j].node
    <3>1. i < j \/ j < i
      BY <1>1
    <3> QED
      BY <1>0, <3>1 DEF RemoveInv
  <2> QED
    BY <1>3, <2>1
<1>5. stack[Len(stack)].node = Upper
  BY <1>0, <1>1 DEF RemoveInv
<1>6. \A i \in 1..(Len(stack) - 1) : stack[i].node \in Things
  <2> SUFFICES ASSUME NEW i \in 1..(Len(stack) - 1)
               PROVE  stack[i].node \in Things
    OBVIOUS
  <2>1. i \in 1..Len(stack) /\ Len(stack) \in 1..Len(stack) /\ i # Len(stack)
    BY <1>1
  <2> QED
    BY <1>3, <1>4, <1>5, <2>1
<1> QED
  BY <1>1, <1>2, <1>3, <1>4, <1>5, <1>6

(* What makes a chain of the calls there will be *)
LEMMA ChainNext ==
  ASSUME NEW s, stack' = s,
         \A i \in 1..(Len(s) - 1) : parent'[s[i].node] = s[i + 1].node,
         \A i, j \in 1..(Len(s) - 1) :
           i <= j => s[j].node \in Around(parent', s[i].node),
         \A i \in 1..Len(s) : \A v \in s[i].left :
           parent'[v] = s[i].node /\ ~Entered(s, v)
  PROVE  Chain(stack)'
<1>1. \A v : Entered(stack, v)' <=> Entered(s, v)
  BY DEF Entered
<1> QED
  BY <1>1 DEF Chain, Above

(* What has been listed leaves the rest in order. *)
LEMMA ChainShrunk ==
  ASSUME NEW s \in Seq(Call), NEW u \in Seq(Call), Chain(s), Len(u) = Len(s),
         \A i \in 1..Len(s) :
           u[i].node = s[i].node /\ u[i].left \subseteq s[i].left
  PROVE  Chain(u)
<1>1. \A i \in 1..(Len(s) - 1) : i \in 1..Len(s) /\ i + 1 \in 1..Len(s)
  OBVIOUS
<1>2. \A i \in 1..(Len(u) - 1) : parent[u[i].node] = u[i + 1].node
  BY <1>1 DEF Chain
<1>3. \A i, j \in 1..(Len(u) - 1) : i <= j => u[j].node \in Above(u[i].node)
  BY <1>1 DEF Chain
<1>4. \A t : Entered(u, t) => Entered(s, t)
  BY DEF Entered
<1> QED
  BY <1>2, <1>3, <1>4 DEF Chain

(* A directory is entered from the innermost call. *)
LEMMA ChainPushed ==
  ASSUME IInv, NEW s \in Seq(Call), s # <<>>, Chain(s),
         \A i \in 1..(Len(s) - 1) : s[i].node \in Things,
         s[Len(s)].node = Upper,
         NEW t \in Things, parent[t] = s[1].node,
         ~Entered(s, t), \A i \in 1..Len(s) : t \notin s[i].left
  PROVE  Chain(<<[node |-> t, left |-> Entries(t)]>> \o s)
<1> DEFINE d == [node |-> t, left |-> Entries(t)]
           u == <<d>> \o s
<1>1. d \in Call
  BY Numbers DEF Entries, Call
<1>2. /\ Len(u) = Len(s) + 1 /\ Len(s) \in Nat \ {0}
      /\ u[1] = d /\ \A i \in 1..Len(s) : u[i + 1] = s[i]
  BY <1>1, Pushed
<1>3. d.node = t /\ d.left = Entries(t)
  OBVIOUS
<1> HIDE DEF d, u
<1>4. \A i \in 1..Len(u) : i = 1 \/ (i - 1 \in 1..Len(s) /\ u[i] = s[i - 1])
  <2> SUFFICES ASSUME NEW i \in 1..Len(u), i # 1
               PROVE  i - 1 \in 1..Len(s) /\ u[i] = s[i - 1]
    OBVIOUS
  <2>1. i - 1 \in 1..Len(s) /\ (i - 1) + 1 = i
    BY <1>2
  <2> QED
    BY <1>2, <2>1
<1>5. \A i \in 1..(Len(u) - 1) :
        i \in 1..Len(u) /\ i + 1 \in 1..Len(u) /\ i \in 1..Len(s)
        /\ (i = 1 \/ i - 1 \in 1..(Len(s) - 1))
  BY <1>2
<1>6. \A i \in 1..(Len(u) - 1) : parent[u[i].node] = u[i + 1].node
  <2> SUFFICES ASSUME NEW i \in 1..(Len(u) - 1)
               PROVE  parent[u[i].node] = u[i + 1].node
    OBVIOUS
  <2>1. u[i + 1] = s[i]
    BY <1>2, <1>5
  <2>2. CASE i = 1
    BY <1>2, <1>3, <2>1, <2>2
  <2>3. CASE i # 1
    <3>1. i - 1 \in 1..(Len(s) - 1) /\ u[i] = s[i - 1] /\ (i - 1) + 1 = i
      BY <1>2, <1>4, <1>5, <2>3
    <3>2. parent[s[i - 1].node] = s[(i - 1) + 1].node
      BY <3>1 DEF Chain
    <3> QED
      BY <2>1, <3>1, <3>2
  <2> QED
    BY <2>2, <2>3
<1>7. \A i, j \in 1..(Len(u) - 1) : i <= j => u[j].node \in Above(u[i].node)
  <2> SUFFICES ASSUME NEW i \in 1..(Len(u) - 1), NEW j \in 1..(Len(u) - 1),
                      i <= j
               PROVE  u[j].node \in Above(u[i].node)
    OBVIOUS
  <2>1. CASE j = 1
    <3>1. i = 1
      BY <2>1
    <3> QED
      BY <1>2, <1>3, <2>1, <3>1, AroundSelf DEF Above
  <2>2. CASE j # 1
    <3>1. j - 1 \in 1..(Len(s) - 1) /\ u[j] = s[j - 1] /\ 1 \in 1..(Len(s) - 1)
      BY <1>2, <1>4, <1>5, <2>2
    <3>2. CASE i = 1
      <4>1. s[j - 1].node \in Above(s[1].node) /\ s[1].node \in Things
        BY <3>1 DEF Chain
      <4>2. s[1].node \in Above(t)
        <5>1. t \in Around(parent, t)
          BY AroundSelf
        <5> QED
          BY <4>1, <5>1, AroundUp DEF Above
      <4>3. Above(s[1].node) \subseteq Above(t)
        BY <4>2, AroundTransitive DEF Above
      <4> QED
        BY <1>2, <1>3, <3>1, <3>2, <4>1, <4>3
    <3>3. CASE i # 1
      <4>1. i - 1 \in 1..(Len(s) - 1) /\ u[i] = s[i - 1] /\ i - 1 <= j - 1
        BY <1>4, <1>5, <3>3
      <4> QED
        BY <3>1, <4>1 DEF Chain
    <3> QED
      BY <3>2, <3>3
  <2> QED
    BY <2>1, <2>2
<1>8. \A v : Entered(u, v) <=> v = t \/ Entered(s, v)
  <2>1. \A v : Entered(u, v) => v = t \/ Entered(s, v)
    BY <1>2, <1>3, <1>4 DEF Entered
  <2>2. ASSUME NEW v, Entered(s, v)
        PROVE  Entered(u, v)
    <3>1. PICK i \in 1..Len(s) : v = s[i].node
      BY <2>2 DEF Entered
    <3>2. i + 1 \in 1..Len(u) /\ u[i + 1] = s[i]
      BY <1>2
    <3> QED
      BY <3>1, <3>2 DEF Entered
  <2>3. 1 \in 1..Len(u) /\ u[1].node = t
    BY <1>2, <1>3
  <2> QED
    BY <2>1, <2>2, <2>3 DEF Entered
<1>9. ASSUME NEW v \in Entries(t)
      PROVE  parent[v] = t /\ ~Entered(u, v)
  <2>1. v \in Nodes /\ parent[v] = t /\ v \in Things /\ t < v /\ t \in Nodes
    BY <1>9, Numbers DEF Entries, IInv, TreeInv
  <2>2. v # t
    BY <2>1 DEF Things
  <2>3. ASSUME NEW i \in 1..Len(s), v = s[i].node
        PROVE  FALSE
    <3>1. i # Len(s)
      BY <2>1, <2>3, Numbers
    <3>2. i \in 1..(Len(s) - 1) /\ i + 1 \in 1..Len(s)
      BY <1>2, <3>1
    <3>3. t = s[i + 1].node
      BY <2>1, <2>3, <3>2 DEF Chain
    <3> QED
      BY <3>2, <3>3 DEF Entered
  <2> QED
    BY <1>8, <2>1, <2>2, <2>3 DEF Entered
<1>10. \A i \in 1..Len(u) : \A v \in u[i].left :
         parent[v] = u[i].node /\ ~Entered(u, v)
  <2> SUFFICES ASSUME NEW i \in 1..Len(u), NEW v \in u[i].left
               PROVE  parent[v] = u[i].node /\ ~Entered(u, v)
    OBVIOUS
  <2>1. CASE i = 1
    BY <1>2, <1>3, <1>9, <2>1
  <2>2. CASE i # 1
    <3>1. i - 1 \in 1..Len(s) /\ u[i] = s[i - 1]
      BY <1>4, <2>2
    <3> QED
      BY <1>8, <3>1 DEF Chain
  <2> QED
    BY <2>1, <2>2
<1> QED
  BY <1>6, <1>7, <1>10 DEF Chain, u, d

(* A directory that is left for want of descriptors is too deep. *)
LEMMA StackDeep ==
  ASSUME IInv, at = "remove", Chain(stack), NEW t \in stack[1].left,
         kind[t] = "dir", Len(stack) = MaxOpen
  PROVE  TooDeep(t)
<1> DEFINE n == Len(stack)
           f == [i \in 1..n |-> IF i = n THEN t ELSE stack[i].node]
<1>1. /\ n \in Nat \ {0} /\ t \in Things
      /\ \A i \in 1..(n - 1) : stack[i].node \in Things
      /\ \A i, j \in 1..n : i # j => stack[i].node # stack[j].node
  BY StackFacts
<1>2. parent[t] = stack[1].node /\ ~Entered(stack, t)
  BY <1>1 DEF Chain
<1>3. \A i \in 1..n : i # n => stack[i].node \in Above(t)
  <2> SUFFICES ASSUME NEW i \in 1..n, i # n
               PROVE  stack[i].node \in Above(t)
    OBVIOUS
  <2>1. i \in 1..(n - 1) /\ 1 \in 1..(n - 1) /\ 1 <= i
    BY <1>1
  <2>2. stack[i].node \in Above(stack[1].node) /\ stack[1].node \in Things
    BY <1>1, <2>1 DEF Chain
  <2>3. stack[1].node \in Above(t)
    <3>1. t \in Around(parent, t)
      BY <1>1, AroundSelf
    <3> QED
      BY <1>1, <1>2, <2>2, <3>1, AroundUp DEF Above
  <2>4. Above(stack[1].node) \subseteq Above(t)
    BY <1>1, <2>3, AroundTransitive DEF Above
  <2> QED
    BY <2>2, <2>4
<1>4. t \in Above(t) /\ Above(t) \subseteq Things
  BY <1>1, AroundSelf DEF Above
<1>5. f \in [1..n -> Above(t)]
  BY <1>3, <1>4
<1>6. \A i, j \in 1..n : f[i] = f[j] => i = j
  BY <1>1, <1>2 DEF Entered
<1>7. f \in Injection(1..n, Above(t))
  <2> HIDE DEF f, n
  <2> QED
    BY <1>5, <1>6 DEF Injection, IsInjective
<1>8. IsFiniteSet(Above(t))
  <2>1. IsFiniteSet(Things)
    BY BoundsAssumption, FS_Interval DEF Things
  <2> QED
    BY <1>4, <2>1, FS_Subset
<1>9. Cardinality(1..n) <= Cardinality(Above(t))
  <2> HIDE DEF f, n
  <2> QED
    BY <1>7, <1>8, FS_Injection
<1>10. Cardinality(1..n) = n
  BY <1>1, FS_Interval
<1> QED
  BY <1>9, <1>10 DEF TooDeep

(* A directory that was opened is not. *)
LEMMA StackShallow ==
  ASSUME IInv, at = "remove", Chain(stack), stack[1].node \in Things
  PROVE  /\ ~TooDeep(stack[1].node)
         /\ \A u \in Above(stack[1].node) : Entered(stack, u)
<1> DEFINE m == Len(stack) - 1
           h == stack[1].node
           S == {u \in Things : \E i \in 1..m : u = stack[i].node}
           g == [u \in Above(h) |-> CHOOSE i \in 1..m : u = stack[i].node]
<1>1. /\ Len(stack) \in Nat \ {0} /\ Len(stack) <= MaxOpen
      /\ stack[Len(stack)].node = Upper
      /\ \A i \in 1..m : stack[i].node \in Things
      /\ h \notin TooLong
  BY StackFacts
<1>2. Len(stack) # 1
  BY <1>1, Numbers
<1>3. m \in Nat \ {0} /\ 1 \in 1..m /\ m < MaxOpen
  <2>1. \A k \in Nat \ {0} : k # 1 /\ k <= MaxOpen =>
          k - 1 \in Nat \ {0} /\ 1 \in 1..(k - 1) /\ k - 1 < MaxOpen
    BY BoundsAssumption
  <2> QED
    BY <1>1, <1>2, <2>1
<1>4. h \in S /\ S \in SUBSET Things
  BY <1>3
<1>5. \A v \in S : parent[v] \in Things => parent[v] \in S
  <2> SUFFICES ASSUME NEW i \in 1..m, parent[stack[i].node] \in Things
               PROVE  parent[stack[i].node] \in S
    OBVIOUS
  <2>1. parent[stack[i].node] = stack[i + 1].node
    BY DEF Chain
  <2>2. i + 1 # Len(stack)
    BY <1>1, <2>1, Numbers
  <2>3. i + 1 \in 1..m
    BY <1>1, <2>2
  <2> QED
    BY <2>1, <2>3
<1>6. Above(h) \subseteq S
  BY <1>4, <1>5, AroundLeast DEF Above
<1>7. \A u \in Above(h) : g[u] \in 1..m /\ u = stack[g[u]].node
  BY <1>6
<1>8. g \in [Above(h) -> 1..m] /\ \A u, v \in Above(h) : g[u] = g[v] => u = v
  BY <1>7
<1>9. g \in Injection(Above(h), 1..m)
  <2> HIDE DEF g, h, m
  <2> QED
    BY <1>8 DEF Injection, IsInjective
<1>10. IsFiniteSet(1..m) /\ Cardinality(1..m) = m
  <2> HIDE DEF m
  <2> QED
    BY <1>3, FS_Interval
<1>11. IsFiniteSet(Above(h)) /\ Cardinality(Above(h)) <= m
  <2> HIDE DEF g, h, m
  <2> QED
    BY <1>9, <1>10, FS_Injection
<1>12. Cardinality(Above(h)) \in Nat
  <2> HIDE DEF h, m
  <2> QED
    BY <1>11, FS_CardinalityType
<1>13. ~TooDeep(h)
  <2> HIDE DEF h, m
  <2> QED
    BY <1>1, <1>3, <1>11, <1>12, BoundsAssumption DEF TooDeep
<1>14. \A u \in Above(h) : Entered(stack, u)
  BY <1>1, <1>6 DEF Entered
<1> QED
  BY <1>13, <1>14

(* Deleting what holds nothing and is not too deep changes nothing for the *)
(* rest.                                                                   *)
LEMMA RemovedFacts ==
  ASSUME IInv, ShapeInv, at = "remove", NEW x \in Things, Remove(x),
         \A v \in Things : parent[v] # x, ~TooDeep(x)
  PROVE  /\ \A t \in Things \ {x} :
              /\ kind'[t] = kind[t] /\ parent'[t] = parent[t]
              /\ Above(t)' = Above(t) /\ x \notin Above(t)
              /\ NearTooDeep(t) => NearTooDeep(t)'
         /\ kind'[x] = "none" /\ parent'[x] = Gone
<1>0. TypeOK
  BY DEF IInv
<1>1. /\ \A t \in Nodes \ {x} : kind'[t] = kind[t] /\ parent'[t] = parent[t]
      /\ kind'[x] = "none" /\ parent'[x] = Gone
      /\ parent' = [parent EXCEPT ![x] = Gone]
  BY <1>0, Numbers DEF Remove, TypeOK
<1>2. ASSUME NEW t \in Things \ {x}
      PROVE  Above(t)' = Above(t) /\ x \notin Above(t)
  <2>1. Around(parent', t) = Around(parent, t)
    <3>1. parent \in [Nodes -> Nodes \cup {Overlay, Home, Gone}]
      BY <1>0 DEF TypeOK
    <3>2. Around([parent EXCEPT ![x] = Gone], t) = Around(parent, t)
      BY <3>1, AroundRemoved
    <3> QED
      BY <1>1, <3>2
  <2>2. x \notin Around(parent, t)
    BY AroundHolds, AroundSelf
  <2> QED
    BY <2>1, <2>2 DEF Above
<1>3. ASSUME NEW t \in Things \ {x}, NearTooDeep(t)
      PROVE  NearTooDeep(t)'
  <2>1. PICK d \in Things : TooDeep(d) /\ (d \in Above(t) \/ t \in Above(d))
    BY <1>3 DEF NearTooDeep
  <2>2. d # x
    BY <2>1
  <2>3. Above(d)' = Above(d) /\ Above(t)' = Above(t) /\ kind'[d] = kind[d]
    BY <1>1, <1>2, <2>2, Numbers
  <2>4. TooDeep(d)'
    BY <2>1, <2>3 DEF TooDeep
  <2> QED
    BY <2>1, <2>3, <2>4 DEF NearTooDeep
<1> QED
  BY <1>1, <1>2, <1>3, Numbers

----------------------------------------------------------------------------
(* The steps. *)

LEMMA DepthInit == Init => DepthInv
<1> SUFFICES ASSUME Init PROVE DepthInv
  OBVIOUS
<1>1. at = "reset" /\ stack = <<>>
  BY DEF Init
<1>2. ShapeInv
  <2>1. PICK tree \in [Things -> Places],
             upper \in {Absent, [kind |-> "dir", parent |-> Overlay]} :
          /\ kind = [n \in Nodes |-> (IF n \in Things THEN tree[n]
                                     ELSE IF n = Upper THEN upper
                                     ELSE [kind |-> "file", parent |-> Home]).kind]
          /\ parent = [n \in Nodes |-> (IF n \in Things THEN tree[n]
                                     ELSE IF n = Upper THEN upper
                                     ELSE [kind |-> "file", parent |-> Home]).parent]
    BY DEF Init
  <2>2. \A t \in Things : /\ tree[t] \in Places
                          /\ kind[t] = tree[t].kind /\ parent[t] = tree[t].parent
    BY <2>1, Numbers
  <2>3. \A q \in Places : /\ q.kind = "none" => q.parent = Gone
                          /\ q.kind # "none" => q.parent \in 0..(MaxThings - 1)
    BY DEF Places, Absent
  <2>4. 0..(MaxThings - 1) \subseteq Things \cup {Upper}
    BY BoundsAssumption DEF Things, Upper
  <2>5. \A t \in Things : kind[t] # "none" => kind[parent[t]] = "dir"
    BY DEF Init
  <2> QED
    BY <2>2, <2>3, <2>4, <2>5 DEF ShapeInv
<1>3. Chain(stack)
  BY <1>1 DEF Chain
<1>4. DoneInv
  BY <1>1 DEF DoneInv
<1> QED
  BY <1>2, <1>3, <1>4 DEF DepthInv

(* At first everything is waiting. *)
LEMMA DepthRemoveUpper ==
  ASSUME IInv, IInv', DepthInv, RemoveUpper
  PROVE  DepthInv'
<1>0. /\ TypeOK /\ TreeInv /\ ShapeInv /\ at = "reset"
      /\ UNCHANGED <<kind, parent>>
      /\ stack = <<>> /\ streams = 0
  BY DEF IInv, DepthInv, RemoveUpper, RemoveInv
<1>1. \A v : Above(v)' = Above(v)
  BY <1>0 DEF Above
<1>2. \A t \in Things : IF kind[t] = "none" THEN parent[t] = Gone
        ELSE parent[t] \in Things \cup {Upper} /\ kind[parent[t]] = "dir"
  BY <1>0 DEF ShapeInv
<1>3. ShapeInv'
  BY <1>0, <1>2 DEF ShapeInv
<1>4. ASSUME NEW t \in Things, kind[t] # "none"
      PROVE  \E u \in Above(t) : parent[u] = Upper
  <2>1. \A v \in Things : parent[v] \in Things => parent[v] < v
    BY <1>0, Numbers DEF TreeInv
  <2>2. PICK u \in Above(t) : parent[u] \notin Things
    BY <2>1, AroundTop DEF Above
  <2>3. u \in Things
    BY AroundSelf DEF Above
  <2>4. kind[u] # "none"
    <3>1. CASE u = t
      BY <1>4, <3>1
    <3>2. CASE u # t
      <4>1. PICK v \in Above(t) : parent[v] = u
        BY <3>2, AroundHolds DEF Above
      <4>2. v \in Things
        BY AroundSelf DEF Above
      <4>3. kind[u] = "dir"
        BY <1>2, <2>3, <4>1, <4>2, Numbers
      <4> QED
        BY <4>3
    <3> QED
      BY <3>1, <3>2
  <2> QED
    BY <1>2, <2>2, <2>3, <2>4
<1>5. CASE CanOpen(Upper)
  <2> DEFINE call == [node |-> Upper, left |-> Entries(Upper)]
  <2>1. kind[Upper] # "dirlink"
    BY <1>0, Numbers DEF TreeInv
  <2>2. stack' = <<call>> /\ at' = "remove"
    BY <1>0, <1>5, <2>1 DEF RemoveUpper, Opendir, Listed
  <2>3. /\ Len(stack') = 1 /\ stack'[1].node = Upper
        /\ stack'[1].left = Entries(Upper)
    BY <2>2
  <2>4. \A t \in Entries(Upper) : parent[t] = Upper /\ t # Upper
    BY <1>0, Numbers DEF Entries, TreeInv
  <2>5. Chain(stack)'
    BY <1>0, <2>3, <2>4 DEF Chain, Entered
  <2>6. ASSUME NEW t \in Things, kind[t] # "none"
        PROVE  Waiting(stack, t)'
    <3>1. PICK u \in Above(t) : parent[u] = Upper
      BY <1>4, <2>6
    <3>2. u \in Entries(Upper)
      BY <3>1, AroundSelf, Numbers DEF Above, Entries
    <3> QED
      BY <1>1, <2>3, <3>1, <3>2 DEF Waiting
  <2>7. DoneInv'
    BY <1>0, <2>2, <2>6 DEF DoneInv
  <2> QED
    BY <1>3, <2>5, <2>7 DEF DepthInv
<1>6. CASE ~CanOpen(Upper)
  <2>1. at' = "mkdir" /\ stack' = <<>>
    BY <1>0, <1>6 DEF RemoveUpper
  <2>2. kind[Upper] # "dir"
    BY <1>0, <1>6, BoundsAssumption, Numbers DEF CanOpen
  <2>3. \A t \in Things : kind[t] = "none"
    <3> SUFFICES ASSUME NEW t \in Things, kind[t] # "none" PROVE FALSE
      OBVIOUS
    <3>1. PICK u \in Above(t) : parent[u] = Upper
      BY <1>4
    <3>2. u \in Things /\ Upper # Gone
      BY AroundSelf, Numbers DEF Above
    <3>3. kind[parent[u]] = "dir"
      BY <1>2, <3>1, <3>2
    <3> QED
      BY <2>2, <3>1, <3>3
  <2>4. DoneInv'
    BY <1>0, <2>1, <2>3 DEF DoneInv
  <2>5. Chain(stack)'
    BY <2>1 DEF Chain
  <2> QED
    BY <1>3, <2>4, <2>5 DEF DepthInv
<1> QED
  BY <1>5, <1>6

(* An iteration of rmRF takes one entry, which no call has entered, from    *)
(* those of the innermost call.                                             *)
LEMMA EntryFacts ==
  ASSUME IInv, Chain(stack), NextEntry
  PROVE  \E t \in stack[1].left, calls \in Seq(Call) :
           /\ t \in Things /\ parent[t] = stack[1].node /\ ~Entered(stack, t)
           /\ Len(calls) = Len(stack) /\ calls # <<>>
           /\ \A i \in 1..Len(stack) :
                /\ calls[i].node = stack[i].node
                /\ calls[i].left = stack[i].left \ {t}
           /\ \/ /\ t \notin TooLong /\ ~IsDirectory(t) /\ Remove(t)
                 /\ stack' = calls
              \/ /\ IsDirectory(t) /\ CanOpen(t)
                 /\ Opendir(t, calls) /\ UNCHANGED <<kind, parent>>
              \/ /\ t \in TooLong \/ (IsDirectory(t) /\ ~CanOpen(t))
                 /\ stack' = calls /\ UNCHANGED <<kind, parent, streams>>
<1>0. at = "remove"
  BY DEF NextEntry
<1>1. /\ stack \in Seq(Call) /\ stack # <<>> /\ Len(stack) \in Nat \ {0}
      /\ \A i \in 1..Len(stack) :
           stack[i] \in Call /\ stack[i].left \subseteq Things
      /\ \A i, j \in 1..Len(stack) : i # j => stack[i].node # stack[j].node
  BY <1>0, StackFacts
<1> DEFINE h == stack[1]
<1>2. h = Head(stack) /\ h \in Call /\ 1 \in 1..Len(stack)
  BY <1>1, Popped
<1>3. PICK t \in h.left :
        LET calls == <<[h EXCEPT !.left = @ \ {t}]>> \o Tail(stack)
        IN  \/ /\ t \notin TooLong /\ ~IsDirectory(t) /\ Remove(t)
               /\ stack' = calls /\ UNCHANGED streams
            \/ /\ IsDirectory(t) /\ CanOpen(t)
               /\ Opendir(t, calls) /\ UNCHANGED <<kind, parent>>
            \/ /\ t \in TooLong \/ (IsDirectory(t) /\ ~CanOpen(t))
               /\ stack' = calls /\ UNCHANGED <<kind, parent, streams>>
  BY <1>2 DEF NextEntry
<1> DEFINE c == [h EXCEPT !.left = @ \ {t}]
           calls == <<c>> \o Tail(stack)
<1>4. /\ t \in Things /\ parent[t] = h.node /\ ~Entered(stack, t)
      /\ \A i \in 2..Len(stack) : t \notin stack[i].left
  <2>1. t \in Things /\ parent[t] = h.node /\ ~Entered(stack, t)
    BY <1>1, <1>2 DEF Chain
  <2>2. ASSUME NEW i \in 2..Len(stack), t \in stack[i].left
        PROVE  FALSE
    <3>1. i \in 1..Len(stack) /\ i # 1
      BY <1>1
    <3>2. parent[t] = stack[i].node
      BY <2>2, <3>1 DEF Chain
    <3> QED
      BY <1>1, <1>2, <2>1, <3>1, <3>2
  <2> QED
    BY <2>1, <2>2
<1>5. c \in Call /\ c.node = h.node /\ c.left = h.left \ {t}
  BY <1>2 DEF Call
<1>6. /\ calls \in Seq(Call) /\ Len(calls) = Len(stack) /\ calls # <<>>
      /\ calls[1] = c /\ \A i \in 2..Len(stack) : calls[i] = stack[i]
  BY <1>1, <1>5, Replaced
<1>7. \A i \in 1..Len(stack) :
        /\ calls[i].node = stack[i].node
        /\ calls[i].left = stack[i].left \ {t}
  <2> SUFFICES ASSUME NEW i \in 1..Len(stack)
               PROVE  /\ calls[i].node = stack[i].node
                      /\ calls[i].left = stack[i].left \ {t}
    OBVIOUS
  <2> HIDE DEF c, calls
  <2>1. CASE i = 1
    BY <1>5, <1>6, <2>1
  <2>2. CASE i # 1
    <3>1. i \in 2..Len(stack)
      BY <1>1, <2>2
    <3> QED
      BY <1>4, <1>6, <3>1
  <2> QED
    BY <2>1, <2>2
<1>8. \/ t \notin TooLong /\ ~IsDirectory(t) /\ Remove(t) /\ stack' = calls
      \/ /\ IsDirectory(t) /\ CanOpen(t)
         /\ Opendir(t, calls) /\ UNCHANGED <<kind, parent>>
      \/ /\ t \in TooLong \/ (IsDirectory(t) /\ ~CanOpen(t))
         /\ stack' = calls /\ UNCHANGED <<kind, parent, streams>>
  BY <1>3
<1> HIDE DEF h, c, calls
<1> QED
  BY <1>4, <1>6, <1>7, <1>8 DEF h

(* An entry that is unlinked is gone; of one that is entered, what it holds *)
(* is waiting instead; one that stays as it is is too deep.                 *)
LEMMA DepthNextEntry ==
  ASSUME IInv, IInv', DepthInv, NextEntry
  PROVE  DepthInv'
<1>0. /\ TypeOK /\ TreeInv /\ ShapeInv /\ Chain(stack) /\ DoneInv
      /\ at = "remove" /\ at' = "remove"
  BY DEF IInv, DepthInv, NextEntry
<1>1. /\ stack \in Seq(Call) /\ stack # <<>> /\ Len(stack) \in Nat \ {0}
      /\ Len(stack) = streams /\ Len(stack) <= MaxOpen
      /\ \A i \in 1..Len(stack) :
           /\ stack[i] \in Call /\ stack[i].node \in Nodes
           /\ stack[i].left \subseteq Things
      /\ \A i, j \in 1..Len(stack) : i # j => stack[i].node # stack[j].node
      /\ \A i \in 1..(Len(stack) - 1) : stack[i].node \in Things
      /\ stack[Len(stack)].node = Upper
  BY <1>0, StackFacts
<1>2. PICK t \in stack[1].left, calls \in Seq(Call) :
        /\ t \in Things /\ parent[t] = stack[1].node /\ ~Entered(stack, t)
        /\ Len(calls) = Len(stack) /\ calls # <<>>
        /\ \A i \in 1..Len(stack) :
             /\ calls[i].node = stack[i].node
             /\ calls[i].left = stack[i].left \ {t}
        /\ \/ /\ t \notin TooLong /\ ~IsDirectory(t) /\ Remove(t)
              /\ stack' = calls
           \/ /\ IsDirectory(t) /\ CanOpen(t)
              /\ Opendir(t, calls) /\ UNCHANGED <<kind, parent>>
           \/ /\ t \in TooLong \/ (IsDirectory(t) /\ ~CanOpen(t))
              /\ stack' = calls /\ UNCHANGED <<kind, parent, streams>>
  BY <1>0, EntryFacts
<1>3. \/ t \notin TooLong /\ ~IsDirectory(t) /\ Remove(t) /\ stack' = calls
      \/ /\ IsDirectory(t) /\ CanOpen(t)
         /\ Opendir(t, calls) /\ UNCHANGED <<kind, parent>>
      \/ /\ t \in TooLong \/ (IsDirectory(t) /\ ~CanOpen(t))
         /\ stack' = calls /\ UNCHANGED <<kind, parent, streams>>
  BY <1>2
<1>4. t \in Things /\ parent[t] = stack[1].node /\ ~Entered(stack, t)
  BY <1>2
<1>6. calls \in Seq(Call) /\ Len(calls) = Len(stack) /\ calls # <<>>
  BY <1>2
<1>7. \A i \in 1..Len(stack) :
        /\ calls[i].node = stack[i].node
        /\ calls[i].left = stack[i].left \ {t}
  BY <1>2
<1>8. Chain(calls)
  BY <1>0, <1>1, <1>6, <1>7, ChainShrunk
<1>9. \A v : Entered(stack, v) <=> Entered(calls, v)
  BY <1>6, <1>7 DEF Entered
(* with t out of what is left *)
<1>10. ASSUME NEW v \in Things, kind[v] # "none"
       PROVE  \/ Waiting(calls, v) \/ Entered(calls, v) \/ NearTooDeep(v)
              \/ t \in Above(v)
  <2>1. Waiting(stack, v) \/ Entered(stack, v) \/ NearTooDeep(v)
    BY <1>0, <1>10 DEF DoneInv
  <2>2. Waiting(stack, v) => Waiting(calls, v) \/ t \in Above(v)
    BY <1>6, <1>7 DEF Waiting
  <2> QED
    BY <1>9, <2>1, <2>2
<1>11. CASE t \notin TooLong /\ ~IsDirectory(t) /\ Remove(t) /\ stack' = calls
  <2>1. \A v \in Things : parent[v] # t
    <3>1. t # Gone /\ t # Upper
      BY <1>4, Numbers
    <3> QED
      BY <1>0, <1>11, <3>1 DEF ShapeInv, IsDirectory
  <2>2. ~TooDeep(t)
    BY <1>11 DEF TooDeep, IsDirectory
  <2>3. /\ \A v \in Things \ {t} :
              /\ kind'[v] = kind[v] /\ parent'[v] = parent[v]
              /\ Above(v)' = Above(v) /\ t \notin Above(v)
              /\ NearTooDeep(v) => NearTooDeep(v)'
        /\ kind'[t] = "none" /\ parent'[t] = Gone
    BY <1>0, <1>4, <1>11, <2>1, <2>2, RemovedFacts
  <2>4. kind'[Upper] = kind[Upper]
    BY <1>0, <1>4, <1>11, Numbers DEF Remove, TypeOK
  <2>5. ShapeInv'
    BY <1>0, <2>1, <2>3, <2>4 DEF ShapeInv
  <2>6. \A i \in 1..Len(calls) : calls[i].node # t
    BY <1>4, <1>9 DEF Entered
  <2>7. Chain(stack)'
    <3>0. \A v \in Things \ {t} : Around(parent', v) = Around(parent, v)
      BY <2>3 DEF Above
    <3>1. \A i \in 1..(Len(calls) - 1) :
            /\ calls[i].node \in Things \ {t}
            /\ parent'[calls[i].node] = parent[calls[i].node]
            /\ Around(parent', calls[i].node) = Around(parent, calls[i].node)
      <4> SUFFICES ASSUME NEW i \in 1..(Len(calls) - 1)
                   PROVE  /\ calls[i].node \in Things \ {t}
                          /\ parent'[calls[i].node] = parent[calls[i].node]
                          /\ Around(parent', calls[i].node)
                               = Around(parent, calls[i].node)
        OBVIOUS
      <4>1. i \in 1..Len(calls) /\ i \in 1..(Len(stack) - 1)
            /\ i \in 1..Len(stack)
        BY <1>1, <1>6
      <4>2. calls[i].node \in Things \ {t}
        BY <1>1, <1>7, <2>6, <4>1
      <4> QED
        BY <2>3, <3>0, <4>2
    <3>2. \A i \in 1..Len(calls) : \A v \in calls[i].left :
            v \in Things \ {t} /\ parent'[v] = parent[v]
      BY <1>1, <1>6, <1>7, <2>3
    <3>3. \A i \in 1..(Len(calls) - 1) : parent'[calls[i].node] = calls[i + 1].node
      BY <1>8, <3>1 DEF Chain
    <3>4. \A i, j \in 1..(Len(calls) - 1) :
            i <= j => calls[j].node \in Around(parent', calls[i].node)
      BY <1>8, <3>1 DEF Chain, Above
    <3>5. \A i \in 1..Len(calls) : \A v \in calls[i].left :
            parent'[v] = calls[i].node /\ ~Entered(calls, v)
      BY <1>8, <3>2 DEF Chain
    <3> QED
      BY <1>11, <3>3, <3>4, <3>5, ChainNext
  <2>8. ASSUME NEW v \in Things, kind'[v] # "none"
        PROVE  Waiting(stack, v)' \/ Entered(stack, v)' \/ NearTooDeep(v)'
    <3>1. v # t /\ kind[v] # "none" /\ t \notin Above(v) /\ Above(v)' = Above(v)
      BY <2>3, <2>8
    <3>2. Waiting(calls, v) \/ Entered(calls, v) \/ NearTooDeep(v)
      BY <1>10, <3>1
    <3>3. Waiting(calls, v) => Waiting(stack, v)'
      BY <1>11, <3>1 DEF Waiting
    <3>4. Entered(calls, v) => Entered(stack, v)'
      BY <1>11 DEF Entered
    <3> QED
      BY <2>3, <3>1, <3>2, <3>3, <3>4
  <2>9. DoneInv'
    BY <1>0, <2>8 DEF DoneInv
  <2> QED
    BY <2>5, <2>7, <2>9 DEF DepthInv
<1>12. ASSUME UNCHANGED <<kind, parent>>
       PROVE  /\ ShapeInv' /\ \A v : Above(v)' = Above(v)
              /\ \A v : NearTooDeep(v)' <=> NearTooDeep(v)
  BY <1>0, <1>12 DEF ShapeInv, Above, NearTooDeep, TooDeep
<1>13. CASE /\ t \in TooLong \/ (IsDirectory(t) /\ ~CanOpen(t))
            /\ stack' = calls /\ UNCHANGED <<kind, parent, streams>>
  <2>1. TooDeep(t)
    <3>1. CASE t \in TooLong
      <4>1. parent[t] # Gone /\ t \in Things
        BY <1>1, <1>4, Numbers
      <4>2. kind[t] # "none"
        BY <1>0, <4>1 DEF ShapeInv
      <4> QED
        BY <3>1, <4>2 DEF TooDeep
    <3>2. CASE IsDirectory(t) /\ t \notin TooLong
      <4>1. Len(stack) = MaxOpen /\ kind[t] = "dir"
        BY <1>0, <1>1, <1>13, <3>2, BoundsAssumption
           DEF CanOpen, IsDirectory, TypeOK
      <4> QED
        BY <1>0, <4>1, StackDeep
    <3> QED
      BY <1>13, <3>1, <3>2
  <2>3. \A v \in Things : t \in Above(v) => NearTooDeep(v)
    BY <1>4, <2>1 DEF NearTooDeep
  <2>4. \A v : (Waiting(stack, v)' <=> Waiting(calls, v))
             /\ (Entered(stack, v)' <=> Entered(calls, v))
    BY <1>12, <1>13 DEF Waiting, Entered
  <2>5. DoneInv'
    BY <1>0, <1>10, <1>12, <1>13, <2>3, <2>4 DEF DoneInv
  <2>6. Chain(stack)'
    BY <1>8, <1>12, <1>13 DEF Chain, Entered
  <2> QED
    BY <1>12, <1>13, <2>5, <2>6 DEF DepthInv
<1>14. CASE /\ IsDirectory(t) /\ CanOpen(t)
            /\ Opendir(t, calls) /\ UNCHANGED <<kind, parent>>
  <2> DEFINE d == [node |-> t, left |-> Entries(t)]
             u == <<d>> \o calls
  <2>1. stack' = u
    BY <1>14 DEF IsDirectory, Opendir, Listed
  <2>2. d \in Call
    BY <1>4, Numbers DEF Call, Entries
  <2>3. /\ Len(u) = Len(calls) + 1 /\ u[1] = d
        /\ \A i \in 1..Len(calls) : u[i + 1] = calls[i]
        /\ Len(calls) \in Nat
    BY <1>1, <1>6, <2>2, Pushed
  <2>4. d.node = t /\ d.left = Entries(t)
    OBVIOUS
  <2>5. Chain(u)
    <3>1. /\ \A i \in 1..(Len(calls) - 1) : calls[i].node \in Things
          /\ calls[Len(calls)].node = Upper
      <4>1. \A i \in 1..(Len(stack) - 1) : i \in 1..Len(stack)
        BY <1>1
      <4>2. Len(stack) \in 1..Len(stack)
        BY <1>1
      <4> QED
        BY <1>1, <1>6, <1>7, <4>1, <4>2
    <3>2. parent[t] = calls[1].node /\ ~Entered(calls, t)
      BY <1>1, <1>4, <1>7, <1>9
    <3>3. \A i \in 1..Len(calls) : t \notin calls[i].left
      BY <1>6, <1>7
    <3> QED
      BY <1>4, <1>6, <1>8, <3>1, <3>2, <3>3, ChainPushed
  <2> HIDE DEF d, u
  <2>6. Chain(stack)'
    BY <1>12, <1>14, <2>1, <2>5 DEF Chain, Entered
  <2>7. ASSUME NEW v \in Things, kind[v] # "none"
        PROVE  Waiting(stack, v)' \/ Entered(stack, v)' \/ NearTooDeep(v)
    <3>1. \A i \in 1..Len(calls) : i + 1 \in 1..Len(u) /\ u[i + 1] = calls[i]
      BY <2>3
    <3>2. Waiting(calls, v) => Waiting(stack, v)'
      <4> SUFFICES ASSUME NEW i \in 1..Len(calls), NEW w \in Above(v),
                          w \in calls[i].left
                   PROVE  Waiting(stack, v)'
        BY DEF Waiting
      <4> QED
        BY <1>12, <1>14, <2>1, <3>1 DEF Waiting
    <3>3. Entered(calls, v) => Entered(stack, v)'
      <4> SUFFICES ASSUME NEW i \in 1..Len(calls), v = calls[i].node
                   PROVE  Entered(stack, v)'
        BY DEF Entered
      <4> QED
        BY <2>1, <3>1 DEF Entered
    <3>4. 1 \in 1..Len(u)
      BY <2>3
    <3>5. v = t => Entered(stack, v)'
      BY <2>1, <2>3, <2>4, <3>4 DEF Entered
    <3>6. t \in Above(v) /\ v # t => Waiting(stack, v)'
      <4> SUFFICES ASSUME t \in Above(v), v # t PROVE Waiting(stack, v)'
        OBVIOUS
      <4>1. PICK w \in Above(v) : parent[w] = t
        BY AroundHolds DEF Above
      <4>2. w \in u[1].left
        BY <2>3, <2>4, <4>1, AroundSelf, Numbers DEF Above, Entries
      <4> QED
        BY <1>12, <1>14, <2>1, <3>4, <4>1, <4>2 DEF Waiting
    <3> QED
      BY <1>10, <2>7, <3>2, <3>3, <3>5, <3>6
  <2>8. DoneInv'
    BY <1>0, <1>12, <1>14, <2>7 DEF DoneInv
  <2> QED
    BY <1>12, <1>14, <2>6, <2>8 DEF DepthInv
<1> QED
  BY <1>3, <1>11, <1>13, <1>14

(* What holds for things below upper does not depend on upper. *)
LEMMA ThingsSame ==
  ASSUME \A v \in Things : kind'[v] = kind[v] /\ parent'[v] = parent[v]
  PROVE  /\ \A t : Around(parent', t) = Around(parent, t)
         /\ \A t : NearTooDeep(t) => NearTooDeep(t)'
<1>1. ASSUME NEW t
      PROVE  Around(parent', t) = Around(parent, t)
  <2>1. ASSUME NEW S \in SUBSET Things
        PROVE  (\A v \in S : parent'[v] \in Things => parent'[v] \in S)
                 <=> (\A v \in S : parent[v] \in Things => parent[v] \in S)
    OBVIOUS
  <2> QED
    BY <2>1, Zenon DEF Around
<1>2. ASSUME NEW t, NearTooDeep(t)
      PROVE  NearTooDeep(t)'
  <2>1. PICK d \in Things : TooDeep(d) /\ (d \in Above(t) \/ t \in Above(d))
    BY <1>2 DEF NearTooDeep
  <2>2. Above(d)' = Above(d) /\ Above(t)' = Above(t) /\ kind'[d] = kind[d]
    BY <1>1 DEF Above
  <2>3. TooDeep(d)'
    BY <2>1, <2>2 DEF TooDeep
  <2> QED
    BY <2>1, <2>2, <2>3 DEF NearTooDeep
<1> QED
  BY <1>1, <1>2

(* A directory that was entered and listed, and still holds something, is  *)
(* around what is too deep, or in it.                                      *)
LEMMA NotEmptied ==
  ASSUME IInv, DepthInv, at = "remove", stack[1].node \in Things,
         stack[1].left = {}, Entries(stack[1].node) # {}
  PROVE  NearTooDeep(stack[1].node)
<1> DEFINE n == stack[1].node
<1>0. TypeOK /\ TreeInv /\ ShapeInv /\ Chain(stack) /\ DoneInv
  BY DEF IInv, DepthInv
<1>1. /\ Len(stack) \in Nat \ {0} /\ stack[Len(stack)].node = Upper
      /\ \A i, j \in 1..Len(stack) : i # j => stack[i].node # stack[j].node
  BY StackFacts
<1>2. PICK e \in Nodes : parent[e] = n
  BY DEF Entries
<1>3. n \in Nodes /\ e \in Things /\ e # n /\ n # Gone /\ n # Upper
  <2>1. n \in Nodes /\ e \in Things /\ parent[e] < e /\ n # Gone /\ n # Upper
    BY <1>0, <1>2, Numbers DEF TreeInv
  <2> QED
    BY <1>2, <2>1 DEF Things
<1>4. kind[e] # "none"
  BY <1>0, <1>2, <1>3 DEF ShapeInv
<1>5. \A u \in Above(e) : u = e \/ u \in Above(n)
  BY <1>2, <1>3, AroundStep DEF Above
<1>6. \A u \in Above(n) : Entered(stack, u)
  BY <1>0, StackShallow
<1>7. ~Waiting(stack, e)
  <2> SUFFICES ASSUME NEW i \in 1..Len(stack), NEW u \in Above(e),
                      u \in stack[i].left
               PROVE  FALSE
    BY DEF Waiting
  <2>1. parent[u] = stack[i].node /\ ~Entered(stack, u)
    BY <1>0 DEF Chain
  <2>2. u = e
    BY <1>5, <1>6, <2>1
  <2>3. i # 1 /\ 1 \in 1..Len(stack)
    BY <1>1
  <2> QED
    BY <1>1, <1>2, <2>1, <2>2, <2>3
<1>8. ~Entered(stack, e)
  <2> SUFFICES ASSUME NEW i \in 1..Len(stack), e = stack[i].node
               PROVE  FALSE
    BY DEF Entered
  <2>1. i # Len(stack)
    BY <1>1, <1>3, Numbers
  <2>2. i \in 1..(Len(stack) - 1) /\ i + 1 \in 1..Len(stack) /\ i + 1 # 1
        /\ 1 \in 1..Len(stack)
    BY <1>1, <2>1
  <2>3. n = stack[i + 1].node
    BY <1>0, <1>2, <2>2 DEF Chain
  <2> QED
    BY <1>1, <2>2, <2>3
<1>9. NearTooDeep(e)
  BY <1>0, <1>3, <1>4, <1>7, <1>8 DEF DoneInv
<1>10. PICK d \in Things : TooDeep(d) /\ (d \in Above(e) \/ e \in Above(d))
  BY <1>9 DEF NearTooDeep
<1>11. e \in Above(d) => n \in Above(d)
  <2>1. parent[e] \in Things
    BY <1>2
  <2>2. e \in Around(parent, d) => parent[e] \in Around(parent, d)
    BY <2>1, AroundUp
  <2> QED
    BY <1>2, <2>2 DEF Above
<1>12. d = e => e \in Above(d)
  BY <1>3, AroundSelf DEF Above
<1> QED
  BY <1>5, <1>10, <1>11, <1>12 DEF NearTooDeep

(* A directory that is left is deleted, or was not emptied. *)
LEMMA DepthEndOfDirectory ==
  ASSUME IInv, IInv', DepthInv, EndOfDirectory
  PROVE  DepthInv'
<1> DEFINE n == stack[1].node
<1>0. /\ TypeOK /\ TreeInv /\ ShapeInv /\ Chain(stack) /\ DoneInv
      /\ at = "remove" /\ stack' = Tail(stack)
      /\ at' = IF Tail(stack) = <<>> THEN "mkdir" ELSE "remove"
  BY DEF IInv, DepthInv, EndOfDirectory
<1>1. /\ stack \in Seq(Call) /\ stack # <<>> /\ Len(stack) \in Nat \ {0}
      /\ \A i \in 1..Len(stack) : stack[i].left \subseteq Things
      /\ \A i, j \in 1..Len(stack) : i # j => stack[i].node # stack[j].node
      /\ \A i \in 1..(Len(stack) - 1) : stack[i].node \in Things
      /\ stack[Len(stack)].node = Upper
  BY <1>0, StackFacts
<1>2. /\ Len(stack') = Len(stack) - 1 /\ Len(stack') \in Nat
      /\ stack' = <<>> <=> Len(stack) = 1
      /\ \A i \in 1..Len(stack') : stack'[i] = stack[i + 1]
      /\ Head(stack) = stack[1]
  BY <1>0, <1>1, Popped
<1>3. stack[1].left = {} /\ Rmdir(n)
  BY <1>2 DEF EndOfDirectory
<1>4. /\ \A i \in 1..Len(stack') : i + 1 \in 1..Len(stack)
      /\ \A i \in 1..(Len(stack') - 1) : i + 1 \in 1..(Len(stack) - 1)
      /\ \A i \in 1..Len(stack) : i # 1 =>
           i - 1 \in 1..Len(stack') /\ stack'[i - 1] = stack[i]
  <2>1. \A i \in 1..Len(stack) : i # 1 =>
          i - 1 \in 1..Len(stack') /\ (i - 1) + 1 = i
    BY <1>1, <1>2
  <2>2. \A i \in 1..Len(stack) : i # 1 => stack'[i - 1] = stack[i]
    <3> SUFFICES ASSUME NEW i \in 1..Len(stack), i # 1
                 PROVE  stack'[i - 1] = stack[i]
      OBVIOUS
    <3>1. stack'[i - 1] = stack[(i - 1) + 1]
      BY <1>2, <2>1
    <3> QED
      BY <2>1, <3>1
  <2> QED
    BY <1>1, <1>2, <2>1, <2>2
<1>5. \A v : Entered(stack, v) => v = n \/ Entered(stack, v)'
  <2> SUFFICES ASSUME NEW v, NEW i \in 1..Len(stack), v = stack[i].node, v # n
               PROVE  Entered(stack, v)'
    BY DEF Entered
  <2>1. i # 1
    OBVIOUS
  <2> QED
    BY <1>4, <2>1 DEF Entered
<1>6. ASSUME NEW v, Around(parent', v) = Around(parent, v), Waiting(stack, v)
      PROVE  Waiting(stack, v)'
  <2>1. PICK i \in 1..Len(stack) : \E u \in Above(v) : u \in stack[i].left
    BY <1>6 DEF Waiting
  <2>2. i # 1
    BY <1>3, <2>1
  <2>3. i - 1 \in 1..Len(stack') /\ stack'[i - 1].left = stack[i].left
    BY <1>4, <2>2
  <2> QED
    BY <1>6, <2>1, <2>3 DEF Waiting, Above
(* The calls that are left *)
<1>7. /\ \A i \in 1..(Len(stack') - 1) :
           /\ stack'[i].node \in Things /\ stack'[i].node # n
           /\ parent[stack'[i].node] = stack'[i + 1].node
      /\ \A i, j \in 1..(Len(stack') - 1) :
           i <= j => stack'[j].node \in Around(parent, stack'[i].node)
      /\ \A i \in 1..Len(stack') : \A v \in stack'[i].left :
           /\ v \in Things /\ v # n
           /\ parent[v] = stack'[i].node
           /\ \A j \in 1..Len(stack') : v # stack'[j].node
  <2>1. ASSUME NEW i \in 1..(Len(stack') - 1)
        PROVE  /\ stack'[i].node \in Things /\ stack'[i].node # n
               /\ parent[stack'[i].node] = stack'[i + 1].node
    <3>1. /\ i \in 1..Len(stack') /\ i + 1 \in 1..Len(stack')
          /\ i + 1 \in 1..(Len(stack) - 1) /\ i + 1 \in 1..Len(stack)
          /\ i + 1 # 1 /\ 1 \in 1..Len(stack)
      BY <1>1, <1>2, <1>4
    <3>2. stack'[i] = stack[i + 1] /\ stack'[i + 1] = stack[(i + 1) + 1]
      BY <1>2, <3>1
    <3> QED
      BY <1>0, <1>1, <3>1, <3>2 DEF Chain
  <2>2. ASSUME NEW i \in 1..(Len(stack') - 1), NEW j \in 1..(Len(stack') - 1),
               i <= j
        PROVE  stack'[j].node \in Around(parent, stack'[i].node)
    <3>1. /\ i + 1 \in 1..(Len(stack) - 1) /\ j + 1 \in 1..(Len(stack) - 1)
          /\ i + 1 <= j + 1 /\ i \in 1..Len(stack') /\ j \in 1..Len(stack')
      BY <1>2, <1>4, <2>2
    <3>2. stack'[i] = stack[i + 1] /\ stack'[j] = stack[j + 1]
      BY <1>2, <3>1
    <3> QED
      BY <1>0, <3>1, <3>2 DEF Chain, Above
  <2>3. ASSUME NEW i \in 1..Len(stack'), NEW v \in stack'[i].left
        PROVE  /\ v \in Things /\ v # n
               /\ parent[v] = stack'[i].node
               /\ \A j \in 1..Len(stack') : v # stack'[j].node
    <3>1. stack'[i] = stack[i + 1] /\ i + 1 \in 1..Len(stack)
      BY <1>2, <1>4
    <3>2. parent[v] = stack'[i].node /\ ~Entered(stack, v) /\ v \in Things
      BY <1>0, <1>1, <2>3, <3>1 DEF Chain
    <3>3. \A j \in 1..Len(stack) : v # stack[j].node
      BY <3>2 DEF Entered
    <3>4. v # n
      BY <1>1, <3>3
    <3>5. \A j \in 1..Len(stack') : v # stack'[j].node
      BY <1>2, <1>4, <3>3
    <3> QED
      BY <3>2, <3>4, <3>5
  <2> QED
    BY <2>1, <2>2, <2>3
<1>8. ASSUME \A v \in Things \ {n} : /\ parent'[v] = parent[v]
                                     /\ Around(parent', v) = Around(parent, v)
      PROVE  Chain(stack)'
  <2>1. \A i \in 1..(Len(stack') - 1) : parent'[stack'[i].node] = stack'[i + 1].node
    BY <1>7, <1>8
  <2>2. \A i, j \in 1..(Len(stack') - 1) :
          i <= j => stack'[j].node \in Around(parent', stack'[i].node)
    BY <1>7, <1>8
  <2>3. \A i \in 1..Len(stack') : \A v \in stack'[i].left :
          /\ parent'[v] = stack'[i].node
          /\ \A j \in 1..Len(stack') : v # stack'[j].node
    BY <1>7, <1>8
  <2> QED
    BY <2>1, <2>2, <2>3 DEF Chain, Entered, Above
(* The last call is for upper, and nothing waits any more. *)
<1>9. CASE Len(stack) = 1
  <2>1. n = Upper /\ at' = "mkdir"
    BY <1>0, <1>1, <1>2, <1>9
  <2>2. \A v \in Nodes \ {Upper} : kind'[v] = kind[v] /\ parent'[v] = parent[v]
    BY <1>0, <1>3, <2>1, Numbers DEF Rmdir, Remove, TypeOK
  <2>3. /\ \A v \in Things : kind'[v] = kind[v] /\ parent'[v] = parent[v]
        /\ kind'[Upper] = kind[Upper] \/ \A v \in Things : parent[v] # Upper
    BY <1>3, <2>1, <2>2, Numbers DEF Rmdir, Entries
  <2>4. ASSUME NEW v \in Things, kind[v] # "none"
        PROVE  NearTooDeep(v)'
    <3>1. ~Entered(stack, v)
      BY <1>1, <1>9, <2>1, Numbers DEF Entered
    <3>2. ~Waiting(stack, v)
      BY <1>3, <1>9 DEF Waiting
    <3>3. NearTooDeep(v)
      BY <1>0, <2>4, <3>1, <3>2 DEF DoneInv
    <3> QED
      BY <2>3, <3>3, ThingsSame
  <2>5. DoneInv'
    BY <2>1, <2>3, <2>4 DEF DoneInv
  <2>6. ShapeInv'
    BY <1>0, <2>3, Numbers DEF ShapeInv
  <2>7. Chain(stack)'
    BY <1>2, <1>9 DEF Chain
  <2> QED
    BY <2>5, <2>6, <2>7 DEF DepthInv
<1>10. CASE Len(stack) # 1
  <2>1. n \in Things /\ at' = "remove" /\ kind[n] = "dir"
    <3>1. 1 \in 1..(Len(stack) - 1) /\ 1 \in 1..Len(stack)
      <4>1. \A k \in Nat \ {0} : k # 1 => 1 \in 1..(k - 1) /\ 1 \in 1..k
        OBVIOUS
      <4> QED
        BY <1>1, <1>10, <4>1
    <3> QED
      BY <1>0, <1>1, <1>2, <1>10, <3>1, StackFacts
  <2>2. CASE Entries(n) = {}
    <3>1. Remove(n)
      BY <1>3, <2>1, <2>2 DEF Rmdir
    <3>2. \A v \in Things : parent[v] # n
      BY <2>2, Numbers DEF Entries
    <3>3. ~TooDeep(n)
      BY <1>0, <2>1, StackShallow
    <3>4. /\ \A v \in Things \ {n} :
               /\ kind'[v] = kind[v] /\ parent'[v] = parent[v]
               /\ Above(v)' = Above(v) /\ n \notin Above(v)
               /\ NearTooDeep(v) => NearTooDeep(v)'
          /\ kind'[n] = "none" /\ parent'[n] = Gone
      BY <1>0, <2>1, <3>1, <3>2, <3>3, RemovedFacts
    <3>5. \A v \in Things \ {n} : Around(parent', v) = Around(parent, v)
      BY <3>4 DEF Above
    <3>6. kind'[Upper] = kind[Upper]
      BY <1>0, <2>1, <3>1, Numbers DEF Remove, TypeOK
    <3>7. ShapeInv'
      BY <1>0, <3>2, <3>4, <3>6 DEF ShapeInv
    <3>8. Chain(stack)'
      BY <1>8, <3>4, <3>5
    <3>9. ASSUME NEW v \in Things, kind'[v] # "none"
          PROVE  Waiting(stack, v)' \/ Entered(stack, v)' \/ NearTooDeep(v)'
      <4>1. v # n /\ kind[v] # "none"
        BY <3>4, <3>9
      <4>2. Waiting(stack, v) \/ Entered(stack, v) \/ NearTooDeep(v)
        BY <1>0, <4>1 DEF DoneInv
      <4> QED
        BY <1>5, <1>6, <3>4, <3>5, <4>1, <4>2
    <3>10. DoneInv'
      BY <2>1, <3>9 DEF DoneInv
    <3> QED
      BY <3>7, <3>8, <3>10 DEF DepthInv
  <2>3. CASE Entries(n) # {}
    <3>1. UNCHANGED <<kind, parent>>
      BY <1>3, <2>3 DEF Rmdir
    <3>2. NearTooDeep(n)
      BY <1>0, <1>3, <2>1, <2>3, NotEmptied
    <3>3. /\ \A v : Around(parent', v) = Around(parent, v)
          /\ \A v : NearTooDeep(v) => NearTooDeep(v)'
      BY <3>1, ThingsSame
    <3>4. ShapeInv'
      BY <1>0, <3>1 DEF ShapeInv
    <3>5. Chain(stack)'
      BY <1>8, <3>1, <3>3
    <3>6. ASSUME NEW v \in Things, kind'[v] # "none"
          PROVE  Waiting(stack, v)' \/ Entered(stack, v)' \/ NearTooDeep(v)'
      <4>1. Waiting(stack, v) \/ Entered(stack, v) \/ NearTooDeep(v)
        BY <1>0, <3>1, <3>6 DEF DoneInv
      <4>2. v = n => NearTooDeep(v)'
        BY <3>2, <3>3
      <4> QED
        BY <1>5, <1>6, <3>3, <4>1, <4>2
    <3>7. DoneInv'
      BY <2>1, <3>6 DEF DoneInv
    <3> QED
      BY <3>4, <3>5, <3>7 DEF DepthInv
  <2> QED
    BY <2>2, <2>3
<1> QED
  BY <1>9, <1>10

(* What follows rmRF leaves the things below upper, until cpy opens. *)
LEMMA DepthOther ==
  ASSUME IInv, DepthInv,
         \/ MkdirP \/ OpenFiles \/ Read \/ Write \/ BufferWritten
         \/ CopyError \/ CloseFiles
  PROVE  DepthInv'
<1>0. TypeOK /\ ShapeInv /\ DoneInv /\ at # "remove" /\ stack = <<>>
  BY DEF IInv, DepthInv, RemoveInv, MkdirP, OpenFiles, Read, Write,
         BufferWritten, CopyError, CloseFiles
<1>1. stack' = <<>>
  BY <1>0 DEF MkdirP, OpenFiles, Read, Write, BufferWritten, CopyError,
              CloseFiles, treeVars
<1>2. Chain(stack)'
  BY <1>1 DEF Chain
<1>3. CASE MkdirP
  <2>1. /\ \A v \in Things : kind'[v] = kind[v] /\ parent'[v] = parent[v]
        /\ kind'[Upper] = "dir" /\ at = "mkdir" /\ at' = "open"
    BY <1>0, <1>3, Numbers DEF MkdirP, TypeOK
  <2>2. ShapeInv'
    BY <1>0, <2>1 DEF ShapeInv
  <2>3. \A v : NearTooDeep(v) => NearTooDeep(v)'
    BY <2>1, ThingsSame
  <2>4. DoneInv'
    BY <1>0, <2>1, <2>3 DEF DoneInv
  <2> QED
    BY <1>2, <2>2, <2>4 DEF DepthInv
<1>4. CASE ~MkdirP
  <2>1. at' \notin {"reset", "remove", "mkdir", "open"}
    BY <1>4 DEF OpenFiles, Read, Write, BufferWritten, CopyError, CloseFiles
  <2> QED
    BY <1>2, <2>1 DEF DepthInv, ShapeInv, DoneInv
<1> QED
  BY <1>3, <1>4

----------------------------------------------------------------------------
(* The theorems. *)

(* While rmRF runs, whatever is in the tree is waiting in one of its calls,
   is the directory of one, or is around or in a directory too deep for it. *)
THEOREM DepthInvariance == Spec => []DepthInv
<1>1. IInv /\ IInv' /\ DepthInv /\ [Next]_vars => DepthInv'
  <2> SUFFICES ASSUME IInv, IInv', DepthInv, [Next]_vars PROVE DepthInv'
    OBVIOUS
  <2>1. CASE UNCHANGED vars
    <3>1. ShapeInv'
      BY <2>1 DEF DepthInv, ShapeInv, vars, treeVars
    <3>2. DoneInv'
      BY <2>1 DEF DepthInv, DoneInv, Waiting, Entered, NearTooDeep, TooDeep,
                  Above, vars, treeVars
    <3>3. parent' = parent /\ stack' = stack
      BY <2>1 DEF vars, treeVars
    <3>4. Chain(stack)'
      BY <3>3 DEF DepthInv, Chain, Entered, Above
    <3> QED
      BY <3>1, <3>2, <3>4 DEF DepthInv
  <2> QED
    BY <2>1, DepthRemoveUpper, DepthNextEntry, DepthEndOfDirectory, DepthOther
       DEF Next, Progress
<1> QED
  BY Invariance, DepthInit, <1>1, PTL DEF Spec

(* After resetOverlay only depth has kept rmRF from its work: everything
   left is too deep for it, in a directory that is, or around one. *)
THEOREM LeavesOnlyTooDeep == Spec => []OnlyTooDeepLeft
<1>1. DepthInv => OnlyTooDeepLeft
  BY DEF DepthInv, DoneInv, NearTooDeep, OnlyTooDeepLeft
<1> QED
  BY DepthInvariance, <1>1, PTL

----------------------------------------------------------------------------
(* Every step counts. *)

LeftOf(s) == {t \in Things : Waiting(s, t)}

LEMMA LeftFinite ==
  /\ IsFiniteSet(Things) /\ Cardinality(Things) = MaxThings
  /\ \A S \in SUBSET Things :
       IsFiniteSet(S) /\ Cardinality(S) \in Nat /\ Cardinality(S) <= MaxThings
<1>1. IsFiniteSet(Things) /\ Cardinality(Things) = MaxThings
  BY BoundsAssumption, FS_Interval DEF Things
<1> QED
  BY <1>1, FS_Subset, FS_CardinalityType

(* Deleting takes away from what is around a thing. *)
LEMMA AroundLess ==
  ASSUME NEW p, NEW q, NEW t \in Things,
         \A v \in Things : q[v] = p[v] \/ q[v] = Gone
  PROVE  Around(q, t) \subseteq Around(p, t)
<1>1. Around(p, t) \in SUBSET Things /\ t \in Around(p, t)
  BY AroundSelf
<1>2. \A v \in Around(p, t) : q[v] \in Things => q[v] \in Around(p, t)
  BY <1>1, AroundUp, Numbers
<1> QED
  BY <1>1, <1>2, AroundLeast

(* A step of rmRF adds nothing to what is left, and an iteration takes the
   entry from it. *)
LEMMA EntryLess ==
  ASSUME IInv, DepthInv, NextEntry
  PROVE  \E t \in LeftOf(stack) :
           /\ LeftOf(stack)' \subseteq LeftOf(stack) \ {t}
           /\ Len(stack') \in {Len(stack), Len(stack) + 1}
<1>0. /\ TypeOK /\ TreeInv /\ ShapeInv /\ Chain(stack) /\ at = "remove"
  BY DEF IInv, DepthInv, NextEntry
<1>1. /\ Len(stack) \in Nat \ {0} /\ stack[Len(stack)].node = Upper
      /\ \A i \in 1..(Len(stack) - 1) : stack[i].node \in Things
      /\ \A i \in 1..Len(stack) : stack[i].node \in Nodes
  BY <1>0, StackFacts
<1>2. PICK t \in stack[1].left, calls \in Seq(Call) :
        /\ t \in Things /\ parent[t] = stack[1].node /\ ~Entered(stack, t)
        /\ Len(calls) = Len(stack) /\ calls # <<>>
        /\ \A i \in 1..Len(stack) :
             /\ calls[i].node = stack[i].node
             /\ calls[i].left = stack[i].left \ {t}
        /\ \/ /\ t \notin TooLong /\ ~IsDirectory(t) /\ Remove(t)
              /\ stack' = calls
           \/ /\ IsDirectory(t) /\ CanOpen(t)
              /\ Opendir(t, calls) /\ UNCHANGED <<kind, parent>>
           \/ /\ t \in TooLong \/ (IsDirectory(t) /\ ~CanOpen(t))
              /\ stack' = calls /\ UNCHANGED <<kind, parent, streams>>
  BY <1>0, EntryFacts
<1>3. t \in LeftOf(stack)
  <2>1. 1 \in 1..Len(stack) /\ t \in Above(t)
    BY <1>1, <1>2, AroundSelf DEF Above
  <2> QED
    BY <1>2, <2>1 DEF LeftOf, Waiting
(* What is around the entry has been entered. *)
<1>4. \A u \in Above(t) : u = t \/ Entered(stack, u)
  <2> SUFFICES ASSUME NEW u \in Above(t), u # t
               PROVE  Entered(stack, u)
    OBVIOUS
  <2>1. stack[1].node \in Things /\ u \in Above(stack[1].node)
    BY <1>2, AroundStep DEF Above
  <2> QED
    BY <1>0, <2>1, StackShallow
<1>5. \A i \in 1..Len(stack) : \A u \in Above(t) : u \notin calls[i].left
  BY <1>0, <1>2, <1>4 DEF Chain
<1>6. \A v \in Things : Around(parent', v) \subseteq Around(parent, v)
  <2>1. parent' = parent \/ parent' = [parent EXCEPT ![t] = Gone]
    BY <1>2 DEF Remove
  <2>2. \A v \in Things : parent'[v] = parent[v] \/ parent'[v] = Gone
    BY <1>0, <2>1, Numbers DEF TypeOK
  <2> QED
    BY <2>2, AroundLess
<1>7. CASE stack' = calls
  <2>1. ASSUME NEW v \in Things, NEW i \in 1..Len(calls),
               NEW u \in Around(parent', v), u \in calls[i].left
        PROVE  v # t /\ Waiting(stack, v)
    <3>1. u \in Above(v) /\ i \in 1..Len(stack) /\ u \in stack[i].left
      BY <1>2, <1>6, <2>1 DEF Above
    <3> QED
      BY <1>5, <2>1, <3>1 DEF Waiting
  <2>2. \A v \in Things : Waiting(stack, v)' => v # t /\ Waiting(stack, v)
    BY <1>7, <2>1 DEF Waiting, Above
  <2> QED
    BY <1>2, <1>3, <1>7, <2>2 DEF LeftOf
<1>8. CASE IsDirectory(t) /\ Opendir(t, calls) /\ UNCHANGED <<kind, parent>>
  <2> DEFINE d == [node |-> t, left |-> Entries(t)]
             w == <<d>> \o calls
  <2>1. stack' = w
    BY <1>8 DEF IsDirectory, Opendir, Listed
  <2>2. d \in Call
    BY <1>2, Numbers DEF Call, Entries
  <2>3. /\ Len(w) = Len(calls) + 1 /\ w[1] = d
        /\ \A i \in 1..Len(calls) : w[i + 1] = calls[i]
    BY <2>2, Pushed
  <2>4. d.left = Entries(t)
    OBVIOUS
  <2> HIDE DEF d, w
  <2>5. \A i \in 1..Len(w) : i = 1 \/ (i - 1 \in 1..Len(stack) /\ w[i] = calls[i - 1])
    <3> SUFFICES ASSUME NEW i \in 1..Len(w), i # 1
                 PROVE  i - 1 \in 1..Len(stack) /\ w[i] = calls[i - 1]
      OBVIOUS
    <3>1. i - 1 \in 1..Len(stack) /\ (i - 1) + 1 = i
      BY <1>1, <1>2, <2>3
    <3> QED
      BY <1>2, <2>3, <3>1
(* What the directory holds was waiting because the directory was. *)
  <2>6. ASSUME NEW v \in Things, NEW u \in Above(v), u \in Entries(t)
        PROVE  v # t /\ Waiting(stack, v)
    <3>1. u \in Things /\ parent[u] = t /\ u # t
      <4>1. u \in Things /\ u \in Nodes /\ parent[u] = t
        BY <2>6, AroundSelf, Numbers DEF Above, Entries
      <4>2. parent[u] < u /\ t \in Int
        BY <1>0, <1>2, <4>1, Numbers DEF TreeInv, Things
      <4> QED
        BY <4>1, <4>2
    <3>2. t \in Above(v)
      BY <1>2, <3>1, AroundUp DEF Above
    <3>3. Waiting(stack, v)
      BY <1>1, <1>2, <3>2 DEF Waiting
    <3>4. ASSUME v = t PROVE FALSE
      <4>1. PICK i \in 1..Len(stack) : u = stack[i].node
        BY <1>4, <3>1, <3>4 DEF Entered
      <4>2. i # Len(stack)
        BY <1>1, <3>1, <4>1, Numbers
      <4>3. i \in 1..(Len(stack) - 1) /\ i + 1 \in 1..Len(stack)
        BY <1>1, <4>2
      <4>4. t = stack[i + 1].node
        BY <1>0, <3>1, <4>1, <4>3 DEF Chain
      <4> QED
        BY <1>2, <4>3, <4>4 DEF Entered
    <3> QED
      BY <3>3, <3>4
  <2>7. ASSUME NEW v \in Things, NEW i \in 1..Len(w),
               NEW u \in Above(v), u \in w[i].left
        PROVE  v # t /\ Waiting(stack, v)
    <3>1. CASE i = 1
      BY <2>3, <2>4, <2>6, <2>7, <3>1
    <3>2. CASE i # 1
      <4>1. i - 1 \in 1..Len(stack) /\ w[i] = calls[i - 1]
        BY <2>5, <3>2
      <4>2. u \in calls[i - 1].left /\ u \in stack[i - 1].left
        BY <1>2, <2>7, <4>1
      <4> QED
        BY <1>5, <4>1, <4>2 DEF Waiting
    <3> QED
      BY <3>1, <3>2
  <2>8. \A v \in Things : Waiting(stack, v)' => v # t /\ Waiting(stack, v)
    BY <1>8, <2>1, <2>7 DEF Waiting, Above
  <2> QED
    BY <1>2, <1>3, <2>1, <2>3, <2>8 DEF LeftOf
<1> QED
  BY <1>2, <1>7, <1>8

LEMMA EndLess ==
  ASSUME IInv, DepthInv, EndOfDirectory
  PROVE  /\ LeftOf(stack)' \subseteq LeftOf(stack)
         /\ Len(stack') = Len(stack) - 1 /\ Len(stack) \in Nat \ {0}
         /\ at' = "remove" => Len(stack') \in Nat
<1>0. TypeOK /\ at = "remove" /\ stack' = Tail(stack)
  BY DEF IInv, EndOfDirectory
<1>1. stack \in Seq(Call) /\ stack # <<>> /\ Len(stack) \in Nat \ {0}
  BY <1>0, StackFacts
<1>2. /\ Len(stack') = Len(stack) - 1 /\ Len(stack') \in Nat
      /\ \A i \in 1..Len(stack') : stack'[i] = stack[i + 1]
      /\ \A i \in 1..Len(stack') : i + 1 \in 1..Len(stack)
  BY <1>0, <1>1, Popped
<1>3. \A v \in Things : Around(parent', v) \subseteq Around(parent, v)
  <2>1. UNCHANGED parent \/ \E t : parent' = [parent EXCEPT ![t] = Gone]
    BY DEF EndOfDirectory, Rmdir, Remove
  <2>2. \A v \in Things : parent'[v] = parent[v] \/ parent'[v] = Gone
    BY <1>0, <2>1, Numbers DEF TypeOK
  <2> QED
    BY <2>2, AroundLess
<1>4. ASSUME NEW v \in Things, NEW i \in 1..Len(stack'),
             NEW u \in Around(parent', v), u \in stack'[i].left
      PROVE  Waiting(stack, v)
  BY <1>2, <1>3, <1>4 DEF Waiting, Above
<1>5. \A v \in Things : Waiting(stack, v)' => Waiting(stack, v)
  BY <1>4 DEF Waiting, Above
<1> QED
  BY <1>1, <1>2, <1>5 DEF LeftOf

(* The bound is a number, and a step of rmRF lowers it. *)
LEMMA RemoveCounts ==
  ASSUME IInv, DepthInv, RemoveUpper \/ NextEntry \/ EndOfDirectory
  PROVE  StepsLeft' \in Nat /\ StepsLeft' < StepsLeft
<1> DEFINE c == Cardinality(LeftOf(stack))
           e == Cardinality(LeftOf(stack)')
<1>0. /\ MaxThings \in Nat \ {0} /\ Size \in Nat
      /\ LeftOf(stack) \subseteq Things /\ LeftOf(stack)' \subseteq Things
  BY BoundsAssumption, SizeAssumption DEF LeftOf
<1>1. c \in Nat /\ e \in Nat /\ e <= MaxThings /\ IsFiniteSet(LeftOf(stack))
  BY <1>0, LeftFinite
<1>2. ThingsLeft = c /\ ThingsLeft' = e
  BY DEF ThingsLeft, LeftOf
<1> HIDE DEF c, e
<1>3. CASE RemoveUpper
  <2>1. StepsLeft = 3 * Size + 2 * MaxThings + 7
    BY <1>3 DEF RemoveUpper, StepsLeft
  <2>2. CASE at' = "remove"
    <3>1. Len(stack') = 1
      BY <1>3, <2>2 DEF RemoveUpper, Opendir, IInv, RemoveInv
    <3>2. StepsLeft' = 3 * Size + 2 * e + 1 + 5
      BY <1>2, <2>2, <3>1 DEF StepsLeft
    <3> QED
      BY <1>0, <1>1, <2>1, <3>2
  <2>3. CASE at' = "mkdir"
    <3>1. StepsLeft' = 3 * Size + 5
      BY <2>3 DEF StepsLeft
    <3> QED
      BY <1>0, <2>1, <3>1
  <2> QED
    BY <1>3, <2>2, <2>3 DEF RemoveUpper
<1>4. CASE NextEntry
  <2>1. PICK t \in LeftOf(stack) :
          /\ LeftOf(stack)' \subseteq LeftOf(stack) \ {t}
          /\ Len(stack') \in {Len(stack), Len(stack) + 1}
    BY <1>4, EntryLess
  <2>2. e <= c - 1
    <3>1. /\ IsFiniteSet(LeftOf(stack) \ {t})
          /\ Cardinality(LeftOf(stack) \ {t}) = c - 1
      BY <1>1, FS_RemoveElement DEF c
    <3> QED
      BY <2>1, <3>1, FS_Subset DEF e
  <2>3. at = "remove" /\ at' = "remove" /\ Len(stack) \in Nat
    BY <1>4, StackFacts DEF NextEntry
  <2>4. /\ StepsLeft = 3 * Size + 2 * c + Len(stack) + 5
        /\ StepsLeft' = 3 * Size + 2 * e + Len(stack') + 5
    BY <1>2, <2>3 DEF StepsLeft
  <2> QED
    BY <1>0, <1>1, <2>1, <2>2, <2>3, <2>4
<1>5. CASE EndOfDirectory
  <2>1. /\ LeftOf(stack)' \subseteq LeftOf(stack)
        /\ Len(stack') = Len(stack) - 1 /\ Len(stack) \in Nat \ {0}
    BY <1>5, EndLess
  <2>2. e <= c
    BY <1>1, <2>1, FS_Subset DEF c, e
  <2>3. StepsLeft = 3 * Size + 2 * c + Len(stack) + 5
    BY <1>2, <1>5 DEF EndOfDirectory, StepsLeft
  <2>4. CASE at' = "remove"
    <3>1. StepsLeft' = 3 * Size + 2 * e + Len(stack') + 5
      BY <1>2, <2>4 DEF StepsLeft
    <3> QED
      BY <1>0, <1>1, <2>1, <2>2, <2>3, <3>1
  <2>5. CASE at' = "mkdir"
    <3>1. StepsLeft' = 3 * Size + 5
      BY <2>5 DEF StepsLeft
    <3> QED
      BY <1>0, <1>1, <2>1, <2>3, <3>1
  <2> QED
    BY <1>5, <2>4, <2>5 DEF EndOfDirectory
<1> QED
  BY <1>3, <1>4, <1>5

(* So does a step of mkdirP and cpy, whatever read and write return. *)
LEMMA CopyCounts ==
  ASSUME IInv,
         \/ MkdirP \/ OpenFiles \/ Read \/ Write \/ BufferWritten
         \/ CopyError \/ CloseFiles
  PROVE  StepsLeft' \in Nat /\ StepsLeft' < StepsLeft
<1>1. Size \in Nat /\ offset \in Nat /\ offset <= Size /\ bytesread \in Nat
  BY SizeAssumption DEF IInv, TypeOK
<1> USE DEF StepsLeft, BytesLeft
<1>2. CASE MkdirP
  BY <1>1, <1>2 DEF MkdirP
<1>3. CASE OpenFiles
  <2>1. at = "open" /\ at' \in {"read", "close"} /\ offset' = offset
    BY <1>3 DEF OpenFiles
  <2> QED
    BY <1>1, <2>1
<1>4. CASE Read
  <2>1. PICK n \in 0..Size :
          /\ Got(n) /\ at' = IF n = 0 THEN "close" ELSE "write"
          /\ offset' = offset + n /\ bytesread' = n
    BY <1>4 DEF Read, IsEnd
  <2>2. at = "read" /\ offset + n <= Size
    BY <1>4, <2>1 DEF Read, Got
  <2> QED
    BY <1>1, <2>1, <2>2
<1>5. CASE Write
  <2>1. PICK k \in 1..bytesread : bytesread' = bytesread - k
    BY <1>5 DEF Write, Advance
  <2>2. at = "write" /\ at' = "write" /\ offset' = offset
    BY <1>5 DEF Write
  <2> QED
    BY <1>1, <2>1, <2>2
<1>6. CASE BufferWritten
  <2>1. at = "write" /\ at' = "read" /\ bytesread = 0 /\ offset' = offset
    BY <1>6 DEF BufferWritten, copyVars
  <2> QED
    BY <1>1, <2>1
<1>7. CASE CopyError
  <2>1. at \in {"read", "write"} /\ at' = "close"
    BY <1>7 DEF CopyError
  <2> QED
    BY <1>1, <2>1
<1>8. CASE CloseFiles
  <2>1. at = "close" /\ at' \in {"copied", "failed"}
    BY <1>8 DEF CloseFiles
  <2> QED
    BY <2>1
<1> QED
  BY <1>2, <1>3, <1>4, <1>5, <1>6, <1>7, <1>8

(* Every readdir, unlink, rmdir, read and write brings the end of
   resetOverlay and cpy nearer, by a bound known at the beginning: neither a
   tree nor the way its entries and the bytes come can keep launch there. *)
THEOREM PrepareIsBounded == Spec => EveryStepCounts
<1>1. IInv /\ DepthInv /\ [Next]_vars
        => [StepsLeft' \in Nat /\ StepsLeft' < StepsLeft]_vars
  BY RemoveCounts, CopyCounts DEF Next, Progress
<1> QED
  BY Invariance, DepthInvariance, <1>1, PTL DEF Spec, EveryStepCounts

----------------------------------------------------------------------------
(* Files implements Preparation. *)

(* What is too deep depends on the things that are in others, not on where *)
(* the rest is.                                                            *)
LEMMA DepthSame ==
  ASSUME \A v \in Things : parent'[v] \in Things \/ parent[v] \in Things =>
                             parent'[v] = parent[v],
         \A v \in Things : TooDeep(v) \/ TooDeep(v)' => kind'[v] = kind[v]
  PROVE  /\ \A v \in Things : TooDeep(v)' <=> TooDeep(v)
         /\ \A v : NearTooDeep(v)' <=> NearTooDeep(v)
<1>1. ASSUME NEW v
      PROVE  Above(v)' = Above(v)
  <2>1. ASSUME NEW S \in SUBSET Things
        PROVE  (\A u \in S : parent'[u] \in Things => parent'[u] \in S)
                 <=> (\A u \in S : parent[u] \in Things => parent[u] \in S)
    OBVIOUS
  <2> QED
    BY <2>1, Zenon DEF Above, Around
<1>2. \A v \in Things : TooDeep(v)' <=> TooDeep(v)
  BY <1>1 DEF TooDeep
<1> QED
  BY <1>1, <1>2 DEF NearTooDeep

LEMMA HoldsSame ==
  ASSUME \A v \in Things : kind'[v] = kind[v] /\ parent'[v] = parent[v]
  PROVE  Holds' = Holds
<1>1. /\ \A v \in Things : TooDeep(v)' <=> TooDeep(v)
      /\ \A v : NearTooDeep(v)' <=> NearTooDeep(v)
  BY DepthSame
<1>2. "target" \in Holds' <=> "target" \in Holds
  BY Numbers DEF Holds
<1>3. "deep" \in Holds' <=> "deep" \in Holds
  BY <1>1 DEF Holds
<1>4. "files" \in Holds' <=> "files" \in Holds
  BY <1>1 DEF Holds
<1>5. /\ Holds \subseteq {"target", "deep", "files"}
      /\ Holds' \subseteq {"target", "deep", "files"}
  BY DEF Holds
<1>6. Holds' \subseteq Holds /\ Holds \subseteq Holds'
  BY <1>2, <1>3, <1>4, <1>5
<1> QED
  BY <1>6

(* Deleting what is in reach and holds nothing brings nothing in, and what *)
(* is left is near what is too deep if it was before.                      *)
LEMMA HoldsLess ==
  ASSUME IInv, ShapeInv, at = "remove", NEW x \in Things, Remove(x),
         \A v \in Things : parent[v] # x, ~TooDeep(x)
  PROVE  Holds' \subseteq Holds
<1>1. /\ \A t \in Things \ {x} :
           /\ kind'[t] = kind[t] /\ Above(t)' = Above(t)
           /\ NearTooDeep(t) => NearTooDeep(t)'
      /\ kind'[x] = "none"
  BY RemovedFacts
<1>2. \A t \in Things : kind'[t] # "none" => t # x /\ kind'[t] = kind[t]
  BY <1>1
<1>3. \A d \in Things : TooDeep(d)' => TooDeep(d)
  <2> SUFFICES ASSUME NEW d \in Things, TooDeep(d)' PROVE TooDeep(d)
    OBVIOUS
  <2>1. kind'[d] # "none"
    BY DEF TooDeep
  <2>2. kind'[d] = kind[d] /\ Above(d)' = Above(d)
    BY <1>1, <1>2, <2>1
  <2> QED
    BY <2>2 DEF TooDeep
<1>4. "target" \in Holds' => "target" \in Holds
  BY <1>2, Numbers DEF Holds
<1>5. "deep" \in Holds' => "deep" \in Holds
  BY <1>3 DEF Holds
<1>6. "files" \in Holds' => "files" \in Holds
  BY <1>1, <1>2 DEF Holds
<1>7. Holds' \subseteq {"target", "deep", "files"}
  BY DEF Holds
<1> QED
  BY <1>4, <1>5, <1>6, <1>7

(* A step of rmRF deletes one thing that is in its reach and holds         *)
(* nothing, or nothing but upper.                                          *)
LEMMA RemovesOne ==
  ASSUME IInv, DepthInv, RemoveUpper \/ NextEntry \/ EndOfDirectory
  PROVE  \/ \A v \in Things : kind'[v] = kind[v] /\ parent'[v] = parent[v]
         \/ \E x \in Things :
              /\ at = "remove" /\ Remove(x) /\ ~TooDeep(x)
              /\ \A v \in Things : parent[v] # x
<1>0. TypeOK /\ ShapeInv /\ Chain(stack)
  BY DEF IInv, DepthInv
<1>1. CASE RemoveUpper
  BY <1>1 DEF RemoveUpper
<1>2. CASE NextEntry
  <2>1. PICK t \in stack[1].left, calls \in Seq(Call) :
          /\ t \in Things
          /\ \/ t \notin TooLong /\ ~IsDirectory(t) /\ Remove(t)
             \/ UNCHANGED <<kind, parent>>
    BY <1>0, <1>2, EntryFacts
  <2>2. CASE t \notin TooLong /\ ~IsDirectory(t) /\ Remove(t)
    <3>1. \A v \in Things : parent[v] # t
      <4>1. t # Gone /\ t # Upper
        BY <2>1, Numbers
      <4> QED
        BY <1>0, <1>2, <2>2, <4>1 DEF ShapeInv, IsDirectory, NextEntry
    <3>2. ~TooDeep(t)
      BY <2>2 DEF TooDeep, IsDirectory
    <3> QED
      BY <1>2, <2>1, <2>2, <3>1, <3>2 DEF NextEntry
  <2> QED
    BY <2>1, <2>2
<1>3. CASE EndOfDirectory
  <2> DEFINE n == stack[1].node
  <2>1. /\ at = "remove" /\ n \in Things \cup {Upper}
        /\ Rmdir(n)
    <3>1. at = "remove" /\ Rmdir(Head(stack).node)
      BY <1>3 DEF EndOfDirectory
    <3>2. stack \in Seq(Call) /\ stack # <<>> /\ 1 \in 1..Len(stack)
      BY <3>1, StackFacts
    <3>3. Head(stack) = stack[1] /\ CallInv(stack[1])
      BY <3>2, Popped DEF IInv, RemoveInv
    <3> QED
      BY <3>1, <3>3 DEF CallInv
  <2>2. CASE UNCHANGED <<kind, parent>>
    BY <2>2
  <2>3. CASE Remove(n) /\ Entries(n) = {}
    <3>1. \A v \in Things : parent[v] # n
      BY <2>3, Numbers DEF Entries
    <3>2. CASE n = Upper
      BY <1>0, <2>3, <3>2, Numbers DEF Remove, TypeOK
    <3>3. CASE n \in Things
      <4>1. ~TooDeep(n)
        BY <1>0, <2>1, <3>3, StackShallow
      <4> QED
        BY <2>1, <2>3, <3>1, <3>3, <4>1
    <3> QED
      BY <2>1, <3>2, <3>3
  <2> QED
    BY <2>1, <2>2, <2>3 DEF Rmdir
<1> QED
  BY <1>1, <1>2, <1>3

(* The recursion is a sequence of deletions. *)
LEMMA RemoveRefines ==
  ASSUME IInv, DepthInv, RemoveUpper \/ NextEntry \/ EndOfDirectory
  PROVE  [Prepared!Next]_<<Stage, Holds, FALSE>>
<1>1. Stage = "begun" /\ Stage' = "begun"
  BY DEF Stage, RemoveUpper, NextEntry, EndOfDirectory
<1>2. Holds' \subseteq Holds
  BY RemovesOne, HoldsSame, HoldsLess DEF DepthInv
<1> QED
  BY <1>1, <1>2 DEF Prepared!Next, Prepared!Delete

(* While a target in upper would be a directory or none *)
LEMMA NoTarget ==
  ASSUME IInv, at \in {"mkdir", "open"}
  PROVE  kind[Target] \in {"none", "dir"}
  BY Numbers DEF IInv, TreeInv, RemoveInv

(* When upper is made anew, only what is too deep is left. *)
LEMMA MkdirRefines ==
  ASSUME IInv, DepthInv, MkdirP
  PROVE  [Prepared!Next]_<<Stage, Holds, FALSE>>
<1>1. Stage = "begun" /\ Stage' = "emptied" /\ at = "mkdir"
  BY DEF Stage, MkdirP
<1>2. \A n \in Things : kind'[n] = kind[n] /\ parent'[n] = parent[n]
  BY Numbers DEF MkdirP, IInv, TypeOK
<1>3. "target" \notin Holds
  BY <1>1, NoTarget DEF Holds
<1>4. "files" \notin Holds
  BY <1>1 DEF Holds, DepthInv, DoneInv
<1>5. Holds \subseteq {"deep"}
  BY <1>3, <1>4 DEF Holds
<1>6. Holds' = Holds
  BY <1>2, HoldsSame
<1> QED
  BY <1>1, <1>5, <1>6 DEF Prepared!Next, Prepared!Emptied

(* open creates the copy, or nothing. *)
LEMMA OpenRefines ==
  ASSUME IInv, DepthInv, OpenFiles
  PROVE  [Prepared!Next]_<<Stage, Holds, FALSE>>
<1>0. TypeOK /\ ShapeInv /\ at = "open"
  BY DEF IInv, DepthInv, OpenFiles
<1>1. Stage = "emptied" /\ Stage' = "emptied"
  BY DEF Stage, OpenFiles
<1>2. CASE UNCHANGED <<kind, parent>>
  <2>1. Holds' = Holds
    BY <1>2, HoldsSame
  <2> QED
    BY <1>1, <2>1
<1>3. CASE ~UNCHANGED <<kind, parent>>
  <2>1. kind[Target] \in {"none", "dir"}
    BY <1>0, NoTarget
  <2>2. /\ kind[Target] = "none" /\ kind' = [kind EXCEPT ![Target] = "file"]
        /\ parent' = [parent EXCEPT ![Target] = Upper]
    BY <1>3, <2>1 DEF OpenFiles, Followed
  <2>3. /\ kind'[Target] = "file" /\ parent'[Target] = Upper
        /\ \A t \in Things \ {Target} : kind'[t] = kind[t]
        /\ \A t \in Things \ {Target} : parent'[t] = parent[t]
        /\ parent[Target] = Gone
    BY <1>0, <2>2, Numbers DEF TypeOK, ShapeInv
  <2>4. ~TooDeep(Target) /\ ~TooDeep(Target)'
    BY <2>2, <2>3, Numbers DEF TooDeep
  <2>5. /\ \A v \in Things : TooDeep(v)' <=> TooDeep(v)
        /\ \A v : NearTooDeep(v)' <=> NearTooDeep(v)
    <3>1. \A v \in Things : parent'[v] \in Things \/ parent[v] \in Things =>
                              parent'[v] = parent[v]
      BY <2>3, Numbers
    <3>2. \A v \in Things : TooDeep(v) \/ TooDeep(v)' => kind'[v] = kind[v]
      BY <2>3, <2>4
    <3> QED
      BY <3>1, <3>2, DepthSame
  <2>6. "target" \in Holds'
    BY <2>3 DEF Holds
  <2>7. "deep" \in Holds' <=> "deep" \in Holds
    BY <2>5 DEF Holds
  <2>8. "files" \in Holds' <=> "files" \in Holds
    BY <2>2, <2>3, <2>5 DEF Holds
  <2>9. /\ Holds \subseteq {"target", "deep", "files"}
        /\ Holds' \subseteq {"target", "deep", "files"}
    BY DEF Holds
  <2>10. Holds' = Holds \cup {"target"}
    BY <2>6, <2>7, <2>8, <2>9
  <2> QED
    BY <1>1, <2>10 DEF Prepared!Next, Prepared!Create
<1> QED
  BY <1>2, <1>3

(* The loop changes nothing but the copy, and cpy that returns 0 has one. *)
LEMMA CopyRefines ==
  ASSUME IInv, Read \/ Write \/ BufferWritten \/ CopyError \/ CloseFiles
  PROVE  [Prepared!Next]_<<Stage, Holds, FALSE>>
<1>1. UNCHANGED <<kind, parent>>
  BY DEF Read, Write, BufferWritten, CopyError, CloseFiles, treeVars
<1>2. Holds' = Holds
  BY <1>1, HoldsSame
<1>3. CASE Read \/ Write \/ BufferWritten \/ CopyError
  <2>1. Stage' = Stage
    BY <1>3 DEF Read, Write, BufferWritten, CopyError, Stage
  <2> QED
    BY <1>2, <2>1
<1>4. CASE CloseFiles
  <2>1. /\ Stage = "emptied"
        /\ Stage' = IF exitcode = 0 THEN "copied" ELSE "failed"
    BY <1>4 DEF CloseFiles, Stage
  <2>2. exitcode = 0 => kind[Target] = "file"
    BY <1>4 DEF CloseFiles, IInv, CopyInv
  <2>3. exitcode = 0 => "target" \in Holds
    BY <2>2 DEF Holds
  <2>4. CASE exitcode = 0
    <3>1. Holds' = Holds \cup {"target"}
      BY <1>2, <2>3, <2>4
    <3> QED
      BY <2>1, <2>4, <3>1 DEF Prepared!Next, Prepared!Copied
  <2>5. CASE exitcode # 0
    BY <1>2, <2>1, <2>5 DEF Prepared!Next, Prepared!GiveUp
  <2> QED
    BY <2>4, <2>5
<1> QED
  BY <1>3, <1>4

(* Taken apart, resetOverlay and cpy come to what Session takes them for:
   the directory holds nothing but what is too deep when it is made anew, and
   the copy when cpy returns 0. *)
THEOREM UpperRefined == Spec => UpperPrepared
<1>1. Init => Prepared!Init
  BY DEF Init, Prepared!Init, Prepared!Contents, Stage, Holds
<1>2. IInv /\ DepthInv /\ [Next]_vars
        => [Prepared!Next]_<<Stage, Holds, FALSE>>
  <2> SUFFICES ASSUME IInv, DepthInv, [Next]_vars
               PROVE  [Prepared!Next]_<<Stage, Holds, FALSE>>
    OBVIOUS
  <2>1. CASE UNCHANGED vars
    <3>1. Stage' = Stage /\ Holds' = Holds
      BY <2>1, HoldsSame DEF vars, treeVars, Stage
    <3> QED
      BY <3>1
  <2> QED
    BY <2>1, RemoveRefines, MkdirRefines, OpenRefines, CopyRefines
       DEF Next, Progress
<1> QED
  BY <1>1, <1>2, Invariance, DepthInvariance, PTL
     DEF Spec, UpperPrepared, Prepared!Spec

==============================================================================
