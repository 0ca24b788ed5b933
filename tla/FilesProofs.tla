---------------------------- MODULE FilesProofs ----------------------------
(***************************************************************************)
(* Proofs about Files, for trees of any size and binaries of any length:   *)
(* nothing outside is touched, the copy is the binary, and everything that *)
(* was opened is closed.                                                   *)
(***************************************************************************)
EXTENDS Files, TLAPS

----------------------------------------------------------------------------
(* The inductive invariant. *)

(* The tree: numbered from the top, with Kept outside of it *)
TreeInv ==
  /\ kind[Kept] = "file" /\ parent[Kept] = Home /\ kind[Upper] \in {"dir", "none"}
  /\ \A t \in Nodes : parent[t] \in Nodes => t \in Things /\ parent[t] < t
  /\ kind[Target] # "none" => parent[Target] = Upper
  /\ at = "reset" => \A t \in Things : parent[t] = Upper => kind[Upper] = "dir"

(* A call of rmRF: it is inside of upper, and what readdir has returned of *)
(* its directory is deleted, is a directory or has a path too long.        *)
CallInv(call) ==
  /\ call.node \in (Things \cup {Upper}) \ TooLong
  /\ kind[call.node] = "dir"
  /\ call.left \subseteq Things
  /\ \A t \in call.left : t > call.node
  /\ \A t \in Things :
       parent[t] = call.node =>
         t \in call.left \/ kind[t] = "dir" \/ t \in TooLong

RemoveInv ==
  /\ stack # <<>> <=> at = "remove"
  /\ streams = Len(stack)
  /\ \A i \in 1..Len(stack) : CallInv(stack[i])
  /\ \A i, j \in 1..Len(stack) : i < j => stack[j].node < stack[i].node
  /\ stack # <<>> => stack[Len(stack)].node = Upper
  /\ at \in {"mkdir", "open"} =>
       \A t \in Things :
         parent[t] = Upper => kind[t] = "dir" \/ t \in TooLong

(* What is read and not written is the rest of the buffer. *)
CopyInv ==
  /\ to # Kept
  /\ \A i \in 1..Len(buffer) : buffer[i] = offset - Len(buffer) + i
  /\ ptr + bytesread = Len(buffer)
  /\ Len(dest) + bytesread = offset
  /\ \A i \in 1..Len(dest) : dest[i] = i
  /\ at \in {"reset", "remove", "mkdir", "open", "read"} => bytesread = 0
  /\ at \notin {"close", "copied", "failed"} => exitcode = 0
  /\ at \in {"close", "copied"} /\ exitcode = 0 => Len(dest) = Size
  /\ at = "copied" => exitcode = 0
  /\ at \notin {"read", "write", "close"} => opened = {}
  /\ at \in {"read", "write"} \/ (at = "close" /\ exitcode = 0) =>
       to = Target /\ kind[Target] = "file"

IInv == TypeOK /\ TreeInv /\ RemoveInv /\ CopyInv

----------------------------------------------------------------------------
LEMMA Numbers ==
  /\ Kept \in Nodes /\ Kept \notin Things /\ Kept # Upper /\ Kept # Target
  /\ Target \in Things /\ Target \in Nodes /\ Upper \in Nodes
  /\ Upper \notin Things /\ Target > Upper
  /\ Things \subseteq Nodes /\ Nodes = Things \cup {Upper, Kept}
  /\ {Overlay, Home, Gone} \cap Nodes = {} /\ Home # Gone /\ Home # Overlay
  /\ TooLong \subseteq Things /\ Target \notin TooLong
  BY BoundsAssumption, TooLongAssumption
     DEF Kept, Nodes, Things, Target, Upper, Overlay, Home, Gone

LEMMA InitInv == Init => IInv
<1> SUFFICES ASSUME Init PROVE IInv
  OBVIOUS
<1>1. PICK tree \in [Things -> Places],
           upper \in {Absent, [kind |-> "dir", parent |-> Overlay]} :
        /\ kind = [n \in Nodes |-> (IF n \in Things THEN tree[n]
                                   ELSE IF n = Upper THEN upper
                                   ELSE [kind |-> "file", parent |-> Home]).kind]
        /\ parent = [n \in Nodes |-> (IF n \in Things THEN tree[n]
                                   ELSE IF n = Upper THEN upper
                                   ELSE [kind |-> "file", parent |-> Home]).parent]
  BY DEF Init
<1>2. \A p \in Places : /\ p.kind \in Kinds
                        /\ p.parent \in Nodes \cup {Gone}
                        /\ p.kind = "none" <=> p.parent \notin Nodes
                        /\ p.parent # Kept
  BY BoundsAssumption DEF Places, Absent, Kinds, Nodes, Gone, Kept
<1>3. \A t \in Things : /\ tree[t] \in Places
                        /\ kind[t] = tree[t].kind /\ parent[t] = tree[t].parent
  BY <1>1, Numbers
<1>4. kind[Kept] = "file" /\ parent[Kept] = Home
  BY <1>1, Numbers
<1>5. /\ kind[Upper] \in {"dir", "none"} /\ parent[Upper] \in {Overlay, Gone}
  BY <1>1, Numbers DEF Absent
<1>6. kind \in [Nodes -> Kinds]
  BY <1>1, <1>2, <1>3, <1>4, <1>5, Numbers DEF Kinds
<1>7. parent \in [Nodes -> Nodes \cup {Overlay, Home, Gone}]
  BY <1>1, <1>2, <1>3, <1>4, <1>5, Numbers
<1>8. TypeOK
  BY <1>6, <1>7, SizeAssumption, BoundsAssumption DEF Init, TypeOK
<1>9. TreeInv
  <2>1. \A t \in Nodes : parent[t] \in Nodes => t \in Things /\ parent[t] < t
    <3>1. \A t \in Things : parent[t] \in Nodes => parent[t] < t
      <4>1. \A t \in Things : kind[t] # "none" => parent[t] < t
        BY DEF Init
      <4> QED
        BY <1>2, <1>3, <4>1
    <3> QED
      BY <1>4, <1>5, <3>1, Numbers
  <2>2. kind[Target] # "none" => parent[Target] = Upper
    BY Numbers DEF Init
  <2>3. \A t \in Things : parent[t] = Upper => kind[Upper] = "dir"
    <3>1. ASSUME NEW t \in Things, parent[t] = Upper
          PROVE  kind[Upper] = "dir"
      <4>1. kind[t] # "none"
        BY <1>2, <1>3, <3>1, Numbers
      <4> QED
        BY <3>1, <4>1 DEF Init
    <3> QED
      BY <3>1
  <2> QED
    BY <1>4, <1>5, <2>1, <2>2, <2>3 DEF TreeInv
<1>10. RemoveInv
  BY DEF Init, RemoveInv
<1>11. CopyInv
  BY Numbers, SizeAssumption DEF Init, CopyInv
<1> QED
  BY <1>8, <1>9, <1>10, <1>11 DEF IInv

----------------------------------------------------------------------------
(* Stacks: replacing, adding and removing the first element. *)

LEMMA Replaced ==
  ASSUME NEW R, NEW s \in Seq(R), s # <<>>, NEW c \in R
  PROVE  LET u == <<c>> \o Tail(s)
         IN  /\ u \in Seq(R) /\ Len(u) = Len(s) /\ Len(s) > 0 /\ u # <<>>
             /\ u[1] = c /\ \A i \in 2..Len(s) : u[i] = s[i]
  OBVIOUS

LEMMA Pushed ==
  ASSUME NEW R, NEW s \in Seq(R), NEW c \in R
  PROVE  LET u == <<c>> \o s
         IN  /\ u \in Seq(R) /\ Len(u) = Len(s) + 1 /\ u # <<>>
             /\ u[1] = c /\ \A i \in 1..Len(s) : u[i + 1] = s[i]
  OBVIOUS

LEMMA Popped ==
  ASSUME NEW R, NEW s \in Seq(R), s # <<>>
  PROVE  /\ Tail(s) \in Seq(R) /\ Len(Tail(s)) = Len(s) - 1
         /\ Head(s) = s[1] /\ Head(s) \in R /\ Len(s) > 0
         /\ Tail(s) = <<>> <=> Len(s) = 1
         /\ \A i \in 1..(Len(s) - 1) : Tail(s)[i] = s[i + 1]
<1>1. /\ Tail(s) \in Seq(R) /\ Len(Tail(s)) = Len(s) - 1
      /\ Head(s) = s[1] /\ Head(s) \in R /\ Len(s) > 0
  OBVIOUS
<1>2. Tail(s) = <<>> <=> Len(s) = 1
  BY <1>1
<1>3. \A i \in 1..(Len(s) - 1) : Tail(s)[i] = s[i + 1]
  OBVIOUS
<1> QED
  BY <1>1, <1>2, <1>3

----------------------------------------------------------------------------
(* The steps of rmRF and mkdirP. *)

Call == [node : Nodes, left : SUBSET Nodes]

(* Deleting something below upper leaves a tree, and Kept where it was. *)
LEMMA RemoveFacts ==
  ASSUME IInv, NEW t \in Things \cup {Upper}, Remove(t), at' # "reset"
  PROVE  /\ kind' \in [Nodes -> Kinds]
         /\ parent' \in [Nodes -> Nodes \cup {Overlay, Home, Gone}]
         /\ TreeInv'
         /\ \A n \in Nodes : n # t => kind'[n] = kind[n]
         /\ \A n \in Nodes : parent'[n] \in Nodes =>
                                n # t /\ parent'[n] = parent[n]
<1>0. TypeOK /\ TreeInv
  BY DEF IInv
<1>1. t \in Nodes /\ t # Kept
  BY Numbers
<1>2. /\ kind' \in [Nodes -> Kinds]
      /\ parent' \in [Nodes -> Nodes \cup {Overlay, Home, Gone}]
  BY <1>0, <1>1 DEF Remove, TypeOK, Kinds
<1>3. /\ \A n \in Nodes : n # t => kind'[n] = kind[n] /\ parent'[n] = parent[n]
      /\ kind'[t] = "none" /\ parent'[t] = Gone
  BY <1>0, <1>1 DEF Remove, TypeOK
<1>4. \A n \in Nodes : parent'[n] \in Nodes =>
                         n # t /\ parent'[n] = parent[n]
  BY <1>3, Numbers
<1>5. TreeInv'
  BY <1>0, <1>1, <1>3, <1>4, Numbers DEF TreeInv
<1> QED
  BY <1>2, <1>3, <1>4, <1>5

(* rmRF is called for upper. *)
LEMMA RemoveUpperStep ==
  ASSUME IInv, RemoveUpper
  PROVE  IInv'
<1>0. /\ TypeOK /\ TreeInv /\ RemoveInv /\ CopyInv /\ at = "reset"
      /\ UNCHANGED <<kind, parent, copyVars>>
  BY DEF IInv, RemoveUpper
<1>1. CopyInv' /\ at' \in {"remove", "mkdir"} /\ TreeInv'
  BY <1>0 DEF RemoveUpper, CopyInv, TreeInv, copyVars
<1>2. stack = <<>> /\ streams = 0
  BY <1>0 DEF RemoveInv
<1>3. CASE CanOpen(Upper)
  <2> DEFINE call == [node |-> Upper, left |-> Entries(Upper)]
  <2>1. kind[Upper] = "dir" /\ Listed(Upper) = Upper
    <3>1. kind[Upper] # "dirlink"
      BY <1>0, Numbers DEF RemoveUpper, TreeInv, TypeOK
    <3> QED
      BY <1>3, <3>1 DEF CanOpen, Listed
  <2>2. stack' = <<call>> /\ streams' = 1 /\ at' = "remove"
    BY <1>0, <1>2, <1>3, <2>1 DEF RemoveUpper, Opendir
  <2>3. call \in Call
    BY Numbers DEF Entries, Call
  <2>4. stack' \in Seq(Call) /\ Len(stack') = 1 /\ stack'[1] = call
    BY <2>2, <2>3
  <2>5. RemoveInv'
    <3>1. ASSUME NEW i \in 1..Len(stack')
          PROVE  CallInv(stack[i])' /\ i = 1
      <4>1. i = 1 /\ stack'[i] = call
        BY <2>4
      <4>2. /\ call.node = Upper /\ call.left \subseteq Things
            /\ \A t \in call.left : t > Upper
            /\ \A t \in Things : parent[t] = Upper => t \in call.left
        BY <1>0, Numbers DEF Entries, TreeInv
      <4> QED
        BY <1>0, Numbers, <2>1, <4>1, <4>2 DEF CallInv
    <3>2. stack'[Len(stack')].node = Upper /\ stack' # <<>>
      BY <2>4
    <3> QED
      BY <2>2, <2>4, <3>1, <3>2 DEF RemoveInv
  <2>6. TypeOK'
    BY <1>0, <2>2, <2>4, BoundsAssumption DEF TypeOK, Call, copyVars
  <2> QED
    BY <1>1, <2>5, <2>6 DEF IInv
<1>4. CASE ~CanOpen(Upper)
  <2>1. at' = "mkdir" /\ UNCHANGED <<stack, streams>>
    BY <1>4 DEF RemoveUpper
  <2>2. kind[Upper] # "dir"
    BY <1>2, <1>4, BoundsAssumption, Numbers DEF CanOpen
  <2>3. \A t \in Things : parent[t] # Upper
    BY <1>0, <2>2 DEF TreeInv
  <2>4. RemoveInv'
    BY <1>0, <1>2, <2>1, <2>3 DEF RemoveInv
  <2>5. TypeOK'
    BY <1>0, <2>1 DEF TypeOK, copyVars
  <2> QED
    BY <1>1, <2>4, <2>5 DEF IInv
<1> QED
  BY <1>3, <1>4

(* One more entry: it is unlinked, or entered, or left as it is. *)
LEMMA NextEntryStep ==
  ASSUME IInv, NextEntry
  PROVE  IInv'
<1>0. /\ TypeOK /\ TreeInv /\ RemoveInv /\ CopyInv
      /\ at = "remove" /\ at' = "remove" /\ UNCHANGED copyVars
  BY DEF IInv, NextEntry
<1>1. CopyInv'
  BY <1>0 DEF CopyInv, copyVars
<1>2. stack # <<>> /\ stack \in Seq(Call)
  BY <1>0 DEF RemoveInv, TypeOK, Call
<1> DEFINE h == stack[1]
<1>3. h = Head(stack) /\ h \in Call /\ Len(stack) \in Nat \ {0}
  BY <1>2, Popped
<1>4. PICK t \in h.left :
        LET calls == <<[h EXCEPT !.left = @ \ {t}]>> \o Tail(stack)
        IN  \/ /\ t \notin TooLong /\ ~IsDirectory(t) /\ Remove(t)
               /\ stack' = calls /\ UNCHANGED streams
            \/ /\ IsDirectory(t) /\ CanOpen(t)
               /\ Opendir(t, calls) /\ UNCHANGED <<kind, parent>>
            \/ /\ t \in TooLong \/ (IsDirectory(t) /\ ~CanOpen(t))
               /\ stack' = calls /\ UNCHANGED <<kind, parent, streams>>
  BY <1>3 DEF NextEntry
<1> DEFINE c == [h EXCEPT !.left = @ \ {t}]
           calls == <<c>> \o Tail(stack)
<1>5. /\ CallInv(h) /\ t \in Things /\ t > h.node
      /\ \A i \in 1..Len(stack) : CallInv(stack[i])
  BY <1>0, <1>3 DEF RemoveInv, CallInv
<1>6. c \in Call /\ c.node = h.node /\ c.left = h.left \ {t}
  BY <1>3 DEF Call
<1>7. /\ calls \in Seq(Call) /\ Len(calls) = Len(stack) /\ calls # <<>>
      /\ calls[1] = c /\ \A i \in 2..Len(stack) : calls[i] = stack[i]
  BY <1>2, <1>6, Replaced
<1>8. \A i \in 1..Len(stack) :
        /\ calls[i].node = stack[i].node /\ calls[i].left \subseteq stack[i].left
        /\ \A n \in stack[i].left : n \in calls[i].left \/ n = t
  <2>1. ASSUME NEW i \in 1..Len(stack)
        PROVE  /\ calls[i].node = stack[i].node
               /\ calls[i].left \subseteq stack[i].left
               /\ \A n \in stack[i].left : n \in calls[i].left \/ n = t
    <3> HIDE DEF h, c, calls
    <3>1. CASE i = 1
      BY <1>6, <1>7, <3>1 DEF h
    <3>2. CASE i # 1
      <4>1. i \in 2..Len(stack)
        BY <1>3, <2>1, <3>2
      <4> QED
        BY <1>7, <4>1
    <3> QED
      BY <3>1, <3>2
  <2> QED
    BY <2>1
<1>9. \A i \in 2..Len(stack) : t # stack[i].node /\ t # h.node
  BY <1>0, <1>3, <1>5, Numbers DEF RemoveInv, CallInv, Things, Upper
<1>bottom. calls[Len(stack)].node = Upper /\ Len(stack) \in 1..Len(stack)
  <2> HIDE DEF h, c, calls
  <2>1. Len(stack) \in 1..Len(stack)
    BY <1>3
  <2>2. calls[Len(stack)].node = stack[Len(stack)].node
    BY <1>8, <2>1
  <2> QED
    BY <1>0, <1>2, <2>1, <2>2 DEF RemoveInv
<1> HIDE DEF h, c, calls
<1>10. CASE /\ ~IsDirectory(t) /\ Remove(t)
            /\ stack' = calls /\ UNCHANGED streams
  <2>1. /\ kind' \in [Nodes -> Kinds]
        /\ parent' \in [Nodes -> Nodes \cup {Overlay, Home, Gone}]
        /\ TreeInv'
        /\ \A n \in Nodes : n # t => kind'[n] = kind[n]
        /\ \A n \in Nodes : parent'[n] \in Nodes =>
                               n # t /\ parent'[n] = parent[n]
    BY <1>0, <1>5, <1>10, RemoveFacts
  <2>2. ASSUME NEW i \in 1..Len(stack)
        PROVE  CallInv(stack[i])'
    <3>1. stack'[i] = calls[i] /\ CallInv(stack[i])
      BY <1>5, <1>10
    <3>2. kind'[stack[i].node] = "dir" /\ stack[i].node \in Nodes
      <4>1. stack[i].node # t /\ stack[i].node \in Nodes
        BY <1>9, <3>1, <1>3, <1>5, Numbers DEF CallInv, IsDirectory, Things, Upper
      <4> QED
        BY <2>1, <3>1, <4>1 DEF CallInv
    <3>3. ASSUME NEW n \in Things, parent'[n] = stack[i].node
          PROVE  n \in calls[i].left \/ kind'[n] = "dir" \/ n \in TooLong
      <4>1. n # t /\ parent[n] = stack[i].node /\ kind'[n] = kind[n]
        BY <2>1, <3>2, <3>3, Numbers
      <4> QED
        BY <1>8, <3>1, <4>1 DEF CallInv
    <3> QED
      BY <1>8, <3>1, <3>2, <3>3 DEF CallInv
  <2>3. RemoveInv'
    BY <1>0, <1>7, <1>8, <1>bottom, <1>10, <2>2 DEF RemoveInv
  <2>4. TypeOK'
    BY <1>0, <1>7, <1>10, <2>1 DEF TypeOK, Call, copyVars
  <2> QED
    BY <1>1, <2>1, <2>3, <2>4 DEF IInv
<1>11. ASSUME t \in TooLong \/ IsDirectory(t), UNCHANGED <<kind, parent>>,
              NEW i \in 1..Len(stack)
       PROVE  CallInv(calls[i])
  <2>1. CallInv(stack[i])
    BY <1>5
  <2>2. kind[t] = "dir" \/ t \in TooLong
    BY <1>11 DEF IsDirectory
  <2> QED
    BY <1>8, <2>1, <2>2 DEF CallInv
<1>12. CASE /\ t \in TooLong \/ (IsDirectory(t) /\ ~CanOpen(t))
            /\ stack' = calls /\ UNCHANGED <<kind, parent, streams>>
  <2>1. ASSUME NEW i \in 1..Len(stack)
        PROVE  CallInv(stack[i])'
    BY <1>11, <1>12 DEF CallInv
  <2>2. RemoveInv'
    BY <1>0, <1>7, <1>8, <1>bottom, <1>12, <2>1 DEF RemoveInv
  <2>3. TypeOK' /\ TreeInv'
    BY <1>0, <1>7, <1>12 DEF TypeOK, Call, copyVars, TreeInv
  <2> QED
    BY <1>1, <2>2, <2>3 DEF IInv
<1>13. CASE /\ IsDirectory(t) /\ CanOpen(t)
            /\ Opendir(t, calls) /\ UNCHANGED <<kind, parent>>
  <2> DEFINE d == [node |-> t, left |-> Entries(t)]
  <2>1. /\ kind[t] = "dir" /\ Listed(t) = t /\ streams < MaxOpen
        /\ t \notin TooLong
    BY <1>13 DEF IsDirectory, Listed, CanOpen
  <2>2. stack' = <<d>> \o calls /\ streams' = streams + 1
    BY <1>13, <2>1 DEF Opendir
  <2>3. d \in Call
    BY <1>5, Numbers DEF Call, Entries
  <2>4. /\ stack' \in Seq(Call) /\ Len(stack') = Len(stack) + 1
        /\ stack' # <<>> /\ stack'[1] = d
        /\ \A i \in 1..Len(stack) : stack'[i + 1] = calls[i]
    BY <1>7, <2>2, <2>3, Pushed
  <2>5. ASSUME NEW i \in 1..Len(stack')
        PROVE  CallInv(stack[i])'
    <3>1. CASE i = 1
      <4>1. /\ stack'[i].node = t /\ stack'[i].left = Entries(t)
        BY <2>4, <3>1
      <4>2. /\ Entries(t) \subseteq Things
            /\ \A n \in Entries(t) : n > t
            /\ \A n \in Things : parent[n] = t => n \in Entries(t)
        BY <1>0, <1>5, Numbers DEF Entries, TreeInv
      <4> QED
        BY <1>5, <1>13, <2>1, <4>1, <4>2 DEF CallInv
    <3>2. CASE i > 1
      <4>1. i - 1 \in 1..Len(stack) /\ stack'[i] = calls[i - 1]
        <5>1. i - 1 \in 1..Len(stack)
          BY <1>3, <2>4, <3>2
        <5> QED
          BY <2>4, <5>1
      <4>2. CallInv(calls[i - 1])
        BY <1>11, <1>13, <4>1
      <4> QED
        BY <1>13, <4>1, <4>2 DEF CallInv
    <3> QED
      BY <3>1, <3>2, <2>4
  <2>6. ASSUME NEW i \in 1..Len(stack'), NEW j \in 1..Len(stack'), i < j
        PROVE  stack'[j].node < stack'[i].node
    <3>1. j - 1 \in 1..Len(stack) /\ stack'[j].node = stack[j - 1].node
      <4>1. j - 1 \in 1..Len(stack)
        BY <1>3, <2>4, <2>6
      <4>2. stack'[j] = calls[j - 1]
        BY <2>4, <4>1
      <4> QED
        BY <1>8, <4>1, <4>2
    <3>2. CASE i = 1
      <4>1. stack[j - 1].node <= h.node
        <5>1. CASE j - 1 = 1
          BY <5>1, <1>3 DEF Call, Nodes, h
        <5>2. CASE j - 1 > 1
          <6>1. 1 \in 1..Len(stack) /\ 1 < j - 1
            BY <1>3, <5>2
          <6>2. stack[j - 1].node < stack[1].node
            BY <1>0, <3>1, <6>1 DEF RemoveInv
          <6>3. stack[j - 1] \in Call /\ stack[1] \in Call
            BY <1>2, <3>1, <6>1
          <6> QED
            BY <6>2, <6>3 DEF h, Call, Nodes
        <5> QED
          BY <3>1, <5>1, <5>2
      <4>2. h.node \in Int /\ t \in Int /\ stack[j - 1].node \in Int
        <5>1. stack[j - 1] \in Call
          BY <1>2, <3>1
        <5> QED
          BY <1>3, <1>5, <5>1 DEF Call, Nodes, Things
      <4> QED
        BY <1>5, <2>4, <3>1, <3>2, <4>1, <4>2
    <3>3. CASE i > 1
      <4>1. i - 1 \in 1..Len(stack) /\ stack'[i].node = stack[i - 1].node
            /\ i - 1 < j - 1
        <5>1. i - 1 \in 1..Len(stack) /\ i - 1 < j - 1
          BY <1>3, <2>4, <2>6, <3>3
        <5>2. stack'[i] = calls[i - 1]
          BY <2>4, <5>1
        <5> QED
          BY <1>8, <5>1, <5>2
      <4> QED
        BY <1>0, <3>1, <4>1 DEF RemoveInv
    <3> QED
      BY <3>2, <3>3, <2>4
  <2>7. stack'[Len(stack')].node = Upper
    <3>1. stack'[Len(stack')] = calls[Len(stack)]
      BY <1>bottom, <2>4
    <3> QED
      BY <1>bottom, <3>1
  <2>8. RemoveInv'
    BY <1>0, <2>2, <2>4, <2>5, <2>6, <2>7 DEF RemoveInv
  <2>9. TypeOK' /\ TreeInv'
    BY <1>0, <1>13, <2>1, <2>2, <2>4, BoundsAssumption
       DEF TypeOK, Call, copyVars, TreeInv
  <2> QED
    BY <1>1, <2>8, <2>9 DEF IInv
<1> QED
  BY <1>4, <1>10, <1>12, <1>13 DEF calls, c, h

(* The end of a directory: it is deleted if nothing is left in it. *)
LEMMA EndOfDirectoryStep ==
  ASSUME IInv, EndOfDirectory
  PROVE  IInv'
<1>0. /\ TypeOK /\ TreeInv /\ RemoveInv /\ CopyInv /\ at = "remove"
      /\ at' = (IF Tail(stack) = <<>> THEN "mkdir" ELSE "remove")
      /\ stack' = Tail(stack) /\ streams' = streams - 1
      /\ Head(stack).left = {} /\ Rmdir(Head(stack).node)
      /\ UNCHANGED copyVars
  BY DEF IInv, EndOfDirectory
<1>1. CopyInv'
  BY <1>0 DEF CopyInv, copyVars
<1>2. stack # <<>> /\ stack \in Seq(Call)
  BY <1>0 DEF RemoveInv, TypeOK, Call
<1> DEFINE t == stack[1].node
<1>3. /\ stack' \in Seq(Call) /\ Len(stack') = Len(stack) - 1
      /\ Head(stack) = stack[1] /\ stack[1] \in Call
      /\ Len(stack) \in Nat \ {0} /\ Len(stack') \in Nat
      /\ stack' = <<>> <=> Len(stack) = 1
      /\ \A i \in 1..Len(stack') : stack'[i] = stack[i + 1]
  BY <1>0, <1>2, Popped
<1>4. /\ t \in Things \cup {Upper} /\ t \in Nodes /\ kind[t] = "dir"
      /\ \A n \in Things : parent[n] = t => kind[n] = "dir" \/ n \in TooLong
  BY <1>0, <1>3, Numbers DEF RemoveInv, CallInv
<1>5. /\ kind' \in [Nodes -> Kinds]
      /\ parent' \in [Nodes -> Nodes \cup {Overlay, Home, Gone}]
      /\ TreeInv'
      /\ \A n \in Nodes : n # t => kind'[n] = kind[n]
      /\ \A n \in Nodes : parent'[n] \in Nodes =>
                             parent'[n] = parent[n] /\ kind'[n] = kind[n]
  <2>1. CASE Remove(t)
    BY <1>0, <1>4, <2>1, RemoveFacts
  <2>2. CASE UNCHANGED <<kind, parent>>
    BY <1>0, <2>2 DEF TypeOK, TreeInv
  <2> QED
    BY <1>0, <1>3, <2>1, <2>2 DEF Rmdir
<1>6. ASSUME NEW i \in 1..Len(stack')
      PROVE  /\ i + 1 \in 1..Len(stack) /\ stack'[i] = stack[i + 1]
             /\ CallInv(stack[i + 1]) /\ stack[i + 1].node # t
             /\ stack[i + 1].node \in Nodes
  <2>1. i + 1 \in 1..Len(stack) /\ 1 \in 1..Len(stack) /\ 1 < i + 1
    BY <1>3
  <2>2. CallInv(stack[i + 1]) /\ stack[i + 1].node < t
    BY <1>0, <2>1 DEF RemoveInv
  <2>3. stack[i + 1].node \in Nodes /\ stack[i + 1].node \in Int /\ t \in Int
    BY <1>4, <2>2, Numbers DEF CallInv, Nodes
  <2> QED
    BY <1>3, <2>1, <2>2, <2>3
<1>7. ASSUME NEW i \in 1..Len(stack')
      PROVE  CallInv(stack[i])'
  <2>1. kind'[stack[i + 1].node] = "dir"
    BY <1>5, <1>6 DEF CallInv
  <2>2. ASSUME NEW n \in Things, parent'[n] = stack[i + 1].node
        PROVE  n \in stack[i + 1].left \/ kind'[n] = "dir" \/ n \in TooLong
    BY <1>5, <1>6, <2>2, Numbers DEF CallInv
  <2> QED
    BY <1>6, <2>1, <2>2 DEF CallInv
<1>8. ASSUME NEW i \in 1..Len(stack'), NEW j \in 1..Len(stack'), i < j
      PROVE  stack'[j].node < stack'[i].node
  <2>1. i + 1 < j + 1
    BY <1>3, <1>8
  <2> QED
    BY <1>0, <1>6, <2>1 DEF RemoveInv
<1>9. stack' # <<>> => stack'[Len(stack')].node = Upper
  <2>1. ASSUME stack' # <<>>
        PROVE  Len(stack') \in 1..Len(stack') /\ Len(stack') + 1 = Len(stack)
    BY <1>3, <2>1
  <2>2. stack[Len(stack)].node = Upper
    BY <1>0, <1>2 DEF RemoveInv
  <2> QED
    BY <1>6, <2>1, <2>2
<1>10. stack' = <<>> =>
         \A n \in Things :
           parent'[n] = Upper => kind'[n] = "dir" \/ n \in TooLong
  <2> SUFFICES ASSUME stack' = <<>>, NEW n \in Things, parent'[n] = Upper
               PROVE  kind'[n] = "dir" \/ n \in TooLong
    OBVIOUS
  <2>1. t = Upper
    BY <1>0, <1>2, <1>3 DEF RemoveInv
  <2>2. parent[n] = Upper /\ n # t
    BY <1>5, <2>1, Numbers
  <2> QED
    BY <1>4, <1>5, <2>1, <2>2, Numbers
<1>11. stack' # <<>> <=> at' = "remove"
  BY <1>0
<1>12. RemoveInv'
  BY <1>0, <1>3, <1>7, <1>8, <1>9, <1>10, <1>11 DEF RemoveInv
<1>13. TypeOK'
  <2>1. streams' = Len(stack')
    BY <1>0, <1>3 DEF RemoveInv
  <2> QED
    BY <1>0, <1>3, <1>5, <2>1, BoundsAssumption DEF TypeOK, Call, copyVars
<1> QED
  BY <1>1, <1>5, <1>12, <1>13 DEF IInv

LEMMA MkdirPStep ==
  ASSUME IInv, MkdirP
  PROVE  IInv'
<1>0. /\ TypeOK /\ TreeInv /\ RemoveInv /\ CopyInv
      /\ at = "mkdir" /\ at' = "open" /\ UNCHANGED <<stack, streams, copyVars>>
      /\ kind' = [kind EXCEPT ![Upper] = "dir"]
      /\ parent' = [parent EXCEPT ![Upper] = Overlay]
  BY DEF IInv, MkdirP
<1>1. stack = <<>>
  BY <1>0 DEF RemoveInv
<1>2. \A n \in Nodes \ {Upper} : kind'[n] = kind[n] /\ parent'[n] = parent[n]
  BY <1>0 DEF TypeOK
<1>3. kind'[Upper] = "dir" /\ parent'[Upper] = Overlay
  BY <1>0, Numbers DEF TypeOK
<1>4. TypeOK'
  BY <1>0, Numbers DEF TypeOK, Kinds, copyVars
<1>5. TreeInv'
  BY <1>0, <1>2, <1>3, Numbers DEF TreeInv
<1>6. RemoveInv'
  BY <1>0, <1>1, <1>2, Numbers DEF RemoveInv
<1>7. CopyInv'
  BY <1>0 DEF CopyInv, copyVars
<1> QED
  BY <1>4, <1>5, <1>6, <1>7 DEF IInv

----------------------------------------------------------------------------
(* The steps of cpy. *)

(* What cpy does after opening leaves the directories alone. *)
LEMMA TreeKept ==
  ASSUME IInv, UNCHANGED treeVars,
         at \notin {"reset", "remove", "mkdir", "open"},
         at' \notin {"reset", "remove", "mkdir", "open"}
  PROVE  TreeInv' /\ RemoveInv'
<1>1. TreeInv'
  BY DEF IInv, TreeInv, treeVars
<1>2. stack = <<>> /\ RemoveInv
  BY DEF IInv, RemoveInv
<1>3. RemoveInv'
  BY <1>2 DEF RemoveInv, treeVars
<1> QED
  BY <1>1, <1>3

(* There is no link that open could follow out of the overlay. *)
LEMMA OpenFilesStep ==
  ASSUME IInv, OpenFiles
  PROVE  IInv'
<1>0. /\ TypeOK /\ TreeInv /\ RemoveInv /\ CopyInv /\ at = "open"
      /\ UNCHANGED <<stack, streams, offset, buffer, ptr, bytesread, dest>>
      /\ at' \in {"read", "close"}
  BY DEF IInv, OpenFiles
<1>1. kind[Target] # "filelink"
  BY <1>0, Numbers DEF TreeInv, RemoveInv
<1>2. PICK o \in SUBSET {"from", "to"} :
        /\ opened' = o
        /\ IF o = {"from", "to"} THEN at' = "read"  /\ exitcode' = 0
                                 ELSE at' = "close" /\ exitcode' = 1
        /\ \/ "to" \notin o /\ UNCHANGED <<kind, parent, to>>
           \/ /\ "to" \in o /\ kind[Target] \notin {"dir", "dirlink"}
              /\ to' = Target
              /\ kind' = [kind EXCEPT ![Target] = "file"]
              /\ parent' = [parent EXCEPT ![Target] = Upper]
  BY <1>1 DEF OpenFiles, Followed
<1>3. stack = <<>>
  BY <1>0 DEF RemoveInv
<1>4. CASE "to" \notin o /\ UNCHANGED <<kind, parent, to>>
  <2>1. TypeOK'
    BY <1>0, <1>2, <1>4 DEF TypeOK
  <2>2. TreeInv' /\ RemoveInv'
    BY <1>0, <1>3, <1>4 DEF TreeInv, RemoveInv
  <2>3. CopyInv'
    BY <1>0, <1>2, <1>4, SizeAssumption DEF CopyInv, TypeOK
  <2> QED
    BY <2>1, <2>2, <2>3 DEF IInv
<1>5. CASE /\ to' = Target
           /\ kind' = [kind EXCEPT ![Target] = "file"]
           /\ parent' = [parent EXCEPT ![Target] = Upper]
  <2>1. TypeOK'
    BY <1>0, <1>2, <1>5, Numbers DEF TypeOK, Kinds
  <2>2. /\ \A n \in Nodes \ {Target} : kind'[n] = kind[n] /\ parent'[n] = parent[n]
        /\ kind'[Target] = "file" /\ parent'[Target] = Upper
    BY <1>0, <1>5, Numbers DEF TypeOK
  <2>3. Target # Upper
    BY Numbers
  <2>4. TreeInv'
    BY <1>0, <2>2, <2>3, Numbers DEF TreeInv
  <2>5. RemoveInv'
    BY <1>0, <1>3 DEF RemoveInv
  <2>6. CopyInv'
    BY <1>0, <1>2, <1>5, <2>2, Numbers, SizeAssumption DEF CopyInv, TypeOK
  <2> QED
    BY <2>1, <2>4, <2>5, <2>6 DEF IInv
<1> QED
  BY <1>2, <1>4, <1>5

(* read fills the buffer with the bytes that follow. *)
LEMMA ReadStep ==
  ASSUME IInv, Read
  PROVE  IInv'
<1>0. /\ TypeOK /\ CopyInv /\ at = "read" /\ at' \in {"write", "close"}
      /\ UNCHANGED <<treeVars, opened, to, exitcode, dest>>
  BY DEF IInv, Read
<1>1. PICK n \in 0..Size :
        /\ Got(n)
        /\ at' = IF IsEnd(n) THEN "close" ELSE "write"
        /\ buffer' = [i \in 1..n |-> offset + i]
        /\ offset' = offset + n /\ bytesread' = n /\ ptr' = 0
  BY DEF Read
<1>2. /\ offset \in 0..Size /\ n \in Nat /\ offset + n <= Size /\ n <= BufferSize
      /\ n = 0 => offset = Size
  BY <1>0, <1>1 DEF TypeOK, Got, Room
<1>3. \A i \in 1..n : offset + i \in 1..Size
  BY <1>2, SizeAssumption
<1>4. buffer' \in Seq(1..Size) /\ Len(buffer') = n
  BY <1>1, <1>2, <1>3
<1>5. TypeOK'
  BY <1>0, <1>1, <1>2, <1>4, SizeAssumption DEF TypeOK, treeVars
<1>6. bytesread = 0 /\ Len(dest) = offset
  BY <1>0 DEF CopyInv, TypeOK
<1>7. \A i \in 1..Len(buffer') : buffer'[i] = offset' - Len(buffer') + i
  BY <1>1, <1>2, <1>4
<1>8. CopyInv'
  BY <1>0, <1>1, <1>2, <1>4, <1>6, <1>7 DEF CopyInv, IsEnd, treeVars
<1> QED
  BY <1>0, <1>5, <1>8, TreeKept DEF IInv

LEMMA PartFacts ==
  ASSUME NEW R, NEW s \in Seq(R), NEW p \in Nat, NEW k \in Nat, p + k <= Len(s)
  PROVE  /\ SubSeq(s, p + 1, p + k) \in Seq(R)
         /\ Len(SubSeq(s, p + 1, p + k)) = k
         /\ \A i \in 1..k : SubSeq(s, p + 1, p + k)[i] = s[p + i]
<1>1. \A i \in (p + 1)..(p + k) : i \in 1..Len(s)
  OBVIOUS
<1>2. SubSeq(s, p + 1, p + k) = [i \in 1..k |-> s[p + i]]
  BY <1>1
<1>3. \A i \in 1..k : s[p + i] \in R
  BY <1>1
<1> QED
  BY <1>2, <1>3

(* A short write leaves the rest of the buffer to the next. *)
LEMMA WriteStep ==
  ASSUME IInv, Write
  PROVE  IInv'
<1>0. /\ TypeOK /\ CopyInv /\ at = "write" /\ at' = "write"
      /\ UNCHANGED <<treeVars, opened, to, offset, buffer, exitcode>>
  BY DEF IInv, Write
<1>1. PICK k \in 1..bytesread :
        /\ dest' = dest \o SubSeq(buffer, ptr + 1, ptr + k)
        /\ ptr' = ptr + k /\ bytesread' = bytesread - k
  BY DEF Write, Advance
<1>2. /\ ptr \in Nat /\ bytesread \in Nat /\ offset \in Nat /\ k \in Nat
      /\ 1 <= k /\ k <= bytesread /\ ptr + bytesread = Len(buffer)
      /\ Len(dest) + bytesread = offset
      /\ buffer \in Seq(1..Size) /\ dest \in Seq(1..Size)
  BY <1>0, <1>1, SizeAssumption DEF TypeOK, CopyInv
<1> DEFINE part == SubSeq(buffer, ptr + 1, ptr + k)
<1>3. /\ part \in Seq(1..Size) /\ Len(part) = k
      /\ \A i \in 1..k : part[i] = buffer[ptr + i]
  <2>1. /\ ptr + k <= Len(buffer) /\ ptr \in Nat /\ k \in Nat
        /\ buffer \in Seq(1..Size)
    BY <1>2
  <2> QED
    BY <2>1, PartFacts, Zenon
<1>4. \A i \in 1..k : part[i] = Len(dest) + i
  <2> SUFFICES ASSUME NEW i \in 1..k PROVE part[i] = Len(dest) + i
    OBVIOUS
  <2>1. ptr + i \in 1..Len(buffer)
    BY <1>2
  <2>2. buffer[ptr + i] = offset - Len(buffer) + (ptr + i)
    BY <1>0, <2>1 DEF CopyInv
  <2> QED
    BY <1>2, <1>3, <2>2
<1>5. /\ dest' \in Seq(1..Size) /\ Len(dest') = Len(dest) + k
      /\ \A i \in 1..Len(dest) : dest'[i] = dest[i]
      /\ \A i \in 1..k : dest'[Len(dest) + i] = part[i]
  <2> HIDE DEF part
  <2>1. dest' = dest \o part
    BY <1>1 DEF part
  <2>2. dest \in Seq(1..Size) /\ part \in Seq(1..Size) /\ Len(part) = k
    BY <1>2, <1>3
  <2>3. /\ dest \o part \in Seq(1..Size)
        /\ Len(dest \o part) = Len(dest) + Len(part)
        /\ \A i \in 1..Len(dest) : (dest \o part)[i] = dest[i]
        /\ \A i \in 1..Len(part) : (dest \o part)[Len(dest) + i] = part[i]
    BY ONLY <2>2
  <2> QED
    BY <2>1, <2>2, <2>3
<1>6. \A i \in 1..Len(dest') : dest'[i] = i
  <2> SUFFICES ASSUME NEW i \in 1..Len(dest') PROVE dest'[i] = i
    OBVIOUS
  <2>1. CASE i <= Len(dest)
    BY <1>0, <1>2, <1>5, <2>1 DEF CopyInv
  <2>2. CASE i > Len(dest)
    <3>1. i - Len(dest) \in 1..k
      BY <1>2, <1>5, <2>2
    <3>2. dest'[Len(dest) + (i - Len(dest))] = Len(dest) + (i - Len(dest))
      BY <1>4, <1>5, <3>1
    <3> QED
      BY <1>2, <3>2
  <2> QED
    BY <1>2, <2>1, <2>2
<1>7. TypeOK'
  BY <1>0, <1>1, <1>2, <1>5 DEF TypeOK, treeVars
<1>8. CopyInv'
  <2>1. Len(dest') + bytesread' = offset' /\ ptr' + bytesread' = Len(buffer')
    <3>1. Len(dest) \in Nat /\ Len(buffer) \in Nat
      BY <1>2
    <3>2. /\ offset' = offset /\ Len(buffer') = Len(buffer)
          /\ ptr' = ptr + k /\ bytesread' = bytesread - k
          /\ Len(dest') = Len(dest) + k
      BY <1>0, <1>1, <1>5
    <3> QED
      BY <1>2, <3>1, <3>2
  <2> QED
    BY <1>0, <1>6, <2>1 DEF CopyInv, treeVars
<1> QED
  BY <1>0, <1>7, <1>8, TreeKept DEF IInv

LEMMA OtherCopySteps ==
  ASSUME IInv, BufferWritten \/ CopyError \/ CloseFiles
  PROVE  IInv'
<1>0. TypeOK /\ CopyInv
  BY DEF IInv
<1>1. CASE BufferWritten
  <2>1. TypeOK' /\ CopyInv'
    BY <1>0, <1>1 DEF BufferWritten, TypeOK, CopyInv, treeVars, copyVars
  <2>2. TreeInv' /\ RemoveInv'
    BY <1>1, TreeKept DEF BufferWritten
  <2> QED
    BY <2>1, <2>2 DEF IInv
<1>2. CASE CopyError
  <2>1. TypeOK' /\ CopyInv'
    BY <1>0, <1>2 DEF CopyError, TypeOK, CopyInv, treeVars
  <2>2. TreeInv' /\ RemoveInv'
    BY <1>2, TreeKept DEF CopyError
  <2> QED
    BY <2>1, <2>2 DEF IInv
<1>3. CASE CloseFiles
  <2>1. TypeOK' /\ CopyInv'
    BY <1>0, <1>3 DEF CloseFiles, CloseOpened, TypeOK, CopyInv, treeVars
  <2>2. TreeInv' /\ RemoveInv'
    BY <1>3, TreeKept DEF CloseFiles
  <2> QED
    BY <2>1, <2>2 DEF IInv
<1> QED
  BY <1>1, <1>2, <1>3

----------------------------------------------------------------------------
(* The theorems. *)

(* The inductive invariant of rmRF, mkdirP and cpy. *)
THEOREM Invariance == Spec => []IInv
<1>1. Init => IInv
  BY InitInv
<1>2. IInv /\ [Next]_vars => IInv'
  <2> SUFFICES ASSUME IInv, [Next]_vars PROVE IInv'
    OBVIOUS
  <2>1. CASE UNCHANGED vars
    <3>1. TypeOK' /\ TreeInv'
      BY <2>1 DEF IInv, TypeOK, TreeInv, vars, treeVars, copyVars
    <3>2. RemoveInv'
      BY <2>1 DEF IInv, RemoveInv, CallInv, vars, treeVars
    <3>3. CopyInv'
      BY <2>1 DEF IInv, CopyInv, vars, treeVars, copyVars
    <3> QED
      BY <3>1, <3>2, <3>3 DEF IInv
  <2> QED
    BY <2>1, RemoveUpperStep, NextEntryStep, EndOfDirectoryStep, MkdirPStep,
       OpenFilesStep, ReadStep, WriteStep, OtherCopySteps DEF Next, Progress
<1> QED
  BY <1>1, <1>2, PTL DEF Spec

(* The variables keep their types; cpy stays within its buffer. *)
THEOREM TypeCorrect == Spec => []TypeOK
<1>1. IInv => TypeOK
  BY DEF IInv
<1> QED
  BY Invariance, <1>1, PTL

(* rmRF and cpy never delete or write anything outside of the overlay,
   whatever links a target left. *)
THEOREM OutsideIsSpared == Spec => []OutsideSpared
<1>1. IInv => OutsideSpared
  BY DEF IInv, TreeInv, CopyInv, OutsideSpared
<1> QED
  BY Invariance, <1>1, PTL

(* cpy writes the binary from its beginning, and the whole of it when it
   returns 0, however read and write divide it. *)
THEOREM CopyIsFaithful == Spec => []CopyFaithful
<1>1. IInv => CopyFaithful
  BY DEF IInv, CopyInv, CopyFaithful
<1> QED
  BY Invariance, <1>1, PTL

(* rmRF and cpy close whatever they opened. *)
THEOREM DescriptorsAreReturned == Spec => []DescriptorsReturned
<1>1. IInv => DescriptorsReturned
  <2> SUFFICES ASSUME IInv, at \in {"copied", "failed"}
               PROVE  opened = {} /\ streams = 0
    BY DEF DescriptorsReturned
  <2>1. opened = {}
    BY DEF IInv, CopyInv
  <2>2. stack = <<>> /\ streams = Len(stack)
    BY DEF IInv, RemoveInv
  <2> QED
    BY <2>1, <2>2
<1> QED
  BY Invariance, <1>1, PTL

============================================================================
