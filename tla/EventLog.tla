------------------------------ MODULE EventLog ------------------------------
(***************************************************************************)
(* What the record of a target's calls promises, however it is made: calls *)
(* are made, and some of them are entered, each at most once and with a    *)
(* flag that is right.  It merges two streams, the calls the filter allows *)
(* and those it denies; each keeps its order, calls may be missing from    *)
(* both, and only a denied call may be entered too early.                  *)
(***************************************************************************)
EXTENDS Naturals, Sequences, TLAPS

CONSTANTS Threads, \* the threads of the target
          Tasks    \* those, and the tasks of the processes it starts

VARIABLES made,    \* the calls, in the order in which they were made
          events   \* the record

Call == [task : Tasks, restricted : BOOLEAN, watched : BOOLEAN]

Recorded == {events[j].call : j \in DOMAIN events}

Init == made = <<>> /\ events = <<>>

Made == \E c \in Call : made' = Append(made, c) /\ UNCHANGED events

(* A call may be entered: what is allowed, only of the target while it is  *)
(* traced; what is denied, before its task makes another call.             *)
MayEnter(k) ==
  /\ k \in DOMAIN made \ Recorded
  /\ \A j \in Recorded : (made[j].restricted <=> made[k].restricted) => j < k
  /\ IF made[k].restricted
       THEN \A j \in DOMAIN made : made[j].task = made[k].task => j <= k
       ELSE made[k].task \in Threads /\ made[k].watched

Entered ==
  \E k \in DOMAIN made :
    /\ MayEnter(k)
    /\ events' = Append(events,
                        [call |-> k,
                         blocked |-> IF made[k].restricted THEN 1 ELSE 0])
    /\ UNCHANGED made

Next == Made \/ Entered

Spec == Init /\ [][Next]_<<made, events>>

----------------------------------------------------------------------------
(* In the record the calls of one task are in their order, but for blocked *)
(* calls that overtake calls made before them: poll looked at the ring     *)
(* buffer before those arrived, at the listener after.                     *)
OnlyBlockedOvertake ==
  \A i, j \in DOMAIN events :
    LET a == events[i].call
        b == events[j].call
    IN  i < j /\ made[a].task = made[b].task /\ a > b
          => made[a].restricted /\ ~made[b].restricted
----------------------------------------------------------------------------
(* The invariant: what is recorded was made. *)
IInv ==
  /\ made \in Seq(Call)
  /\ events \in Seq([call : Nat, blocked : {0, 1}])
  /\ \A j \in DOMAIN events : events[j].call \in DOMAIN made
  /\ OnlyBlockedOvertake

(* However the calls are made and entered, of one task only blocked calls  *)
(* overtake, and only calls that are not: what pollmethod's order may do.  *)
THEOREM Overtaking == Spec => []OnlyBlockedOvertake
<1>1. Init => IInv
  BY DEF Init, IInv, OnlyBlockedOvertake
<1>2. ASSUME IInv, Made
      PROVE  IInv'
  <2>1. PICK c \in Call : made' = Append(made, c) /\ events' = events
    BY <1>2 DEF Made
  <2>2. made \in Seq(Call) /\ made' \in Seq(Call)
    BY <1>2, <2>1 DEF IInv
  <2>3. /\ DOMAIN made \subseteq DOMAIN made'
        /\ \A k \in DOMAIN made : made'[k] = made[k]
    BY <2>1, <2>2
  <2>4. \A j \in DOMAIN events : events[j].call \in DOMAIN made
    BY <1>2 DEF IInv
  <2>5. \A j \in DOMAIN events' : events'[j].call \in DOMAIN made'
    BY <2>1, <2>3, <2>4
  <2>6. OnlyBlockedOvertake'
    BY <1>2, <2>1, <2>3, <2>4 DEF IInv, OnlyBlockedOvertake
  <2> QED
    BY <1>2, <2>1, <2>2, <2>5, <2>6 DEF IInv
<1>3. ASSUME IInv, Entered
      PROVE  IInv'
  <2>1. PICK k \in DOMAIN made, flag \in {0, 1} :
          /\ MayEnter(k) /\ made' = made
          /\ events' = Append(events, [call |-> k, blocked |-> flag])
    BY <1>3 DEF Entered
  <2>2. /\ events \in Seq([call : Nat, blocked : {0, 1}])
        /\ DOMAIN made = 1 .. Len(made) /\ Len(made) \in Nat
    BY <1>3 DEF IInv
  <2>3. events' \in Seq([call : Nat, blocked : {0, 1}])
    BY <2>1, <2>2
  <2>4. /\ DOMAIN events = 1 .. Len(events) /\ Len(events) \in Nat
        /\ DOMAIN events' = 1 .. Len(events) + 1
        /\ \A i \in DOMAIN events : events'[i] = events[i]
        /\ events'[Len(events) + 1].call = k
    BY <2>1, <2>2
  <2>5. \A i \in DOMAIN events : /\ events[i].call \in Recorded
                                /\ events[i].call \in DOMAIN made
    BY <1>3 DEF IInv, Recorded
  <2>6. \A i \in DOMAIN events' : events'[i].call \in DOMAIN made'
    BY <2>1, <2>4, <2>5
  <2>7. ASSUME NEW i \in DOMAIN events', NEW j \in DOMAIN events', i < j,
               made[events'[i].call].task = made[events'[j].call].task,
               events'[i].call > events'[j].call
        PROVE  /\ made[events'[i].call].restricted
               /\ ~made[events'[j].call].restricted
    <3>1. CASE j \in DOMAIN events
      <4>1. /\ i \in DOMAIN events
            /\ events'[i] = events[i] /\ events'[j] = events[j]
        BY <2>4, <2>7, <3>1
      <4> QED
        BY <1>3, <2>7, <3>1, <4>1 DEF IInv, OnlyBlockedOvertake
    <3>2. CASE j = Len(events) + 1
      <4> DEFINE a == events[i].call
      <4>1. i \in DOMAIN events /\ events'[i].call = a /\ events'[j].call = k
        BY <2>4, <2>7, <3>2
      <4>2. a \in Recorded /\ a \in DOMAIN made /\ a > k
        BY <2>5, <2>7, <4>1
      <4>3. ~(a <= k) /\ ~(a < k)
        BY <2>1, <2>2, <4>2
      <4>4. ~made[k].restricted
        BY <2>1, <2>7, <4>1, <4>2, <4>3 DEF MayEnter
      <4>5. made[a].restricted
        BY <2>1, <4>2, <4>3, <4>4 DEF MayEnter
      <4> QED
        BY <2>1, <4>1, <4>4, <4>5
    <3> QED
      BY <2>4, <3>1, <3>2
  <2>8. OnlyBlockedOvertake'
    BY <2>1, <2>7 DEF OnlyBlockedOvertake
  <2> QED
    BY <1>3, <2>1, <2>3, <2>6, <2>8 DEF IInv
<1>4. ASSUME IInv, UNCHANGED <<made, events>>
      PROVE  IInv'
  BY <1>4 DEF IInv, OnlyBlockedOvertake
<1>5. IInv => OnlyBlockedOvertake
  BY DEF IInv
<1> QED
  BY <1>1, <1>2, <1>3, <1>4, <1>5, PTL DEF Spec, Next
============================================================================
