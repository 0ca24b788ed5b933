--------------------------- MODULE ObserverProofs ---------------------------
(***************************************************************************)
(* Proofs about Observer, for any tasks, any size of the ring buffer and   *)
(* any number of calls and signals: what is recorded, and that the vector  *)
(* of Tracer is a record as EventLog promises it.                          *)
(***************************************************************************)
EXTENDS Observer, FiniteSetTheorems, TLAPS

----------------------------------------------------------------------------
(* The inductive invariant. *)

(* What the buffers hold are calls that were made, by tasks that were there. *)
MadeInv ==
  /\ ring \subseteq DOMAIN made /\ waiting \subseteq DOMAIN made
  /\ Recorded \subseteq DOMAIN made
  /\ \A k \in DOMAIN made : life[made[k].task] # "to come"

(* The stored calls are the target's, and later than those consumed; while *)
(* stop has still to detach the program, none of them will be consumed.    *)
RingInv ==
  \A k \in ring :
    /\ ~made[k].restricted /\ made[k].task \in Threads
    /\ made[k].watched <=> pc # "free"
    /\ k \notin Recorded
    /\ \A j \in Recorded : ~made[j].restricted => j < k

(* A call that waits is the last of its task; those RECV has not taken are *)
(* later than those it has.                                                *)
WaitInv ==
  \A k \in waiting :
    /\ made[k].restricted /\ life[made[k].task] = "alive"
    /\ \A j \in DOMAIN made : made[j].task = made[k].task => j <= k
    /\ k \notin sent => /\ k \notin Recorded
                        /\ \A j \in Recorded : made[j].restricted => j < k

LoopInv ==
  /\ pc = "send" => taken \in Recorded
  /\ pc = "recv" => "notify" \in ready
  /\ pc = "notify" => "notify" \notin ready

(* The semaphore counts at least the calls RECV has not taken, and what    *)
(* poll reported.                                                          *)
RequestsInv ==
  /\ Cardinality(Pending) <= requests
  /\ pc \in {"consume", "recv"} /\ "notify" \in ready /\ ~PollFails
       => requests > 0

IInv ==
  /\ TypeOK /\ MadeInv /\ RingInv /\ WaitInv /\ LoopInv /\ RequestsInv
  /\ NothingLost /\ LoggedBeforeDenied

----------------------------------------------------------------------------
(* Sets of calls, the two sequences. *)

LEMMA CallsAreNumbers == \A k \in Calls : k \in Nat
  BY BoundsAssumption DEF Calls

LEMMA CallsFinite ==
  ASSUME NEW S \in SUBSET Calls
  PROVE  IsFiniteSet(S) /\ Cardinality(S) \in Nat
<1>1. IsFiniteSet(Calls)
  BY FS_Interval, BoundsAssumption DEF Calls
<1> QED
  BY <1>1, FS_Subset, FS_CardinalityType

LEMMA Shrinks ==
  ASSUME NEW S \in SUBSET Calls, NEW T \in SUBSET S
  PROVE  Cardinality(T) <= Cardinality(S)
  BY CallsFinite, FS_Subset

LEMMA Grows ==
  ASSUME NEW S \in SUBSET Calls, NEW k \in Calls
  PROVE  Cardinality(S \cup {k}) <= Cardinality(S) + 1
  BY CallsFinite, FS_AddElement

LEMMA LogRecords ==
  ASSUME events \in Seq(Event), NEW k \in Calls, NEW flag \in {0, 1},
         Log(k, flag)
  PROVE  Recorded' = Recorded \cup {k} /\ events' \in Seq(Event)
<1>1. [call |-> k, blocked |-> flag] \in Event
  BY DEF Event
<1>2. events' = Append(events, [call |-> k, blocked |-> flag])
  BY DEF Log
<1>3. events' \in Seq(Event)
  BY <1>1, <1>2
<1>4. /\ DOMAIN events = 1 .. Len(events) /\ Len(events) \in Nat
      /\ DOMAIN events' = 1 .. Len(events) + 1
      /\ \A j \in DOMAIN events : events'[j] = events[j]
      /\ events'[Len(events) + 1].call = k
  BY <1>1, <1>2
<1>5. ASSUME NEW c
      PROVE  c \in Recorded' <=> c \in Recorded \cup {k}
  BY <1>4 DEF Recorded, Record!Recorded
<1> QED
  BY <1>3, <1>5

LEMMA SameRecorded ==
  ASSUME events' = events
  PROVE  Recorded' = Recorded
  BY DEF Recorded, Record!Recorded

LEMMA RecordedAreCalls ==
  ASSUME events \in Seq(Event)
  PROVE  Recorded \subseteq Calls
<1>1. \A j \in DOMAIN events : events[j] \in Event
  OBVIOUS
<1> QED
  BY <1>1 DEF Recorded, Record!Recorded, Event

(* The call made last is later than all before, which stay what they are. *)
Newest(t, restricted) ==
  /\ made' \in Seq(Call) /\ Len(made') <= MaxCalls
  /\ Len(made') \in Calls /\ Len(made') \notin DOMAIN made
  /\ DOMAIN made' = DOMAIN made \cup {Len(made')}
  /\ \A k \in DOMAIN made : made'[k] = made[k] /\ k < Len(made')
  /\ made'[Len(made')].task = t
  /\ made'[Len(made')].restricted <=> restricted
  /\ made'[Len(made')].watched <=> Watching

LEMMA MakesNewest ==
  ASSUME made \in Seq(Call), Len(made) < MaxCalls,
         NEW t \in Tasks, NEW restricted \in BOOLEAN, Makes(t, restricted)
  PROVE  Newest(t, restricted)
<1> DEFINE c == [task |-> t, restricted |-> restricted, watched |-> Watching]
<1>1. c \in Call
  BY DEF Call, Watching, Attached
<1>2. made' = Append(made, c)
  BY DEF Makes
<1>3. /\ made' \in Seq(Call) /\ Len(made') = Len(made) + 1
      /\ DOMAIN made = 1 .. Len(made) /\ DOMAIN made' = 1 .. Len(made) + 1
      /\ Len(made) \in Nat
      /\ \A k \in DOMAIN made : made'[k] = made[k]
      /\ made'[Len(made) + 1] = c
  BY <1>1, <1>2
<1>4. Len(made') \in Calls /\ Len(made') <= MaxCalls
  BY <1>3, BoundsAssumption DEF Calls
<1>5. /\ Len(made') \notin DOMAIN made
      /\ DOMAIN made' = DOMAIN made \cup {Len(made')}
      /\ \A k \in DOMAIN made : k < Len(made')
  BY <1>3
<1>6. /\ c.task = t /\ c.restricted = restricted /\ c.watched = Watching
  OBVIOUS
<1> QED
  BY <1>3, <1>4, <1>5, <1>6 DEF Newest

LEMMA DomainMade ==
  ASSUME TypeOK
  PROVE  /\ DOMAIN made \subseteq Calls /\ DOMAIN made = 1 .. Len(made)
         /\ \A k \in DOMAIN made : made[k] \in Call /\ made[k].task \in Tasks
<1>1. made \in Seq(Call) /\ Len(made) <= MaxCalls
  BY DEF TypeOK
<1>2. DOMAIN made = 1 .. Len(made) /\ Len(made) \in Nat
  BY <1>1
<1>3. \A k \in DOMAIN made : made[k] \in Call
  BY <1>1
<1>4. \A k \in DOMAIN made : made[k].task \in Tasks
  BY <1>3 DEF Call
<1>5. DOMAIN made \subseteq Calls
  BY <1>1, <1>2, BoundsAssumption DEF Calls
<1> QED
  BY <1>2, <1>3, <1>4, <1>5

----------------------------------------------------------------------------
LEMMA InitInv == Init => IInv
<1> SUFFICES ASSUME Init PROVE IInv
  OBVIOUS
<1>1. events = <<>> /\ made = <<>> /\ waiting = {} /\ sent = {}
  BY DEF Init
<1>a. DOMAIN events = {} /\ DOMAIN made = {} /\ Len(made) = 0
  BY <1>1
<1>b. Recorded = {}
  BY <1>a DEF Recorded, Record!Recorded
<1>2. Cardinality({}) = 0
  BY FS_EmptySet
<1>c. Pending = {} /\ Cardinality(Pending) = 0
  BY <1>1, <1>2 DEF Pending
<1>d. events \in Seq(Event) /\ made \in Seq(Call)
  BY <1>1
<1>e. life \in [Tasks -> {"to come", "alive", "ended"}]
  BY DEF Init
<1>3. TypeOK
  <2>1. ring = {} /\ Cardinality(ring) <= Capacity /\ Len(made) <= MaxCalls
    <3>1. ring = {}
      BY DEF Init
    <3>2. Cardinality(ring) = 0
      BY <1>2, <3>1
    <3> QED
      BY <3>1, <3>2, <1>a, BoundsAssumption
  <2> QED
    BY <2>1, <1>d, <1>e DEF Init, TypeOK
<1>4. MadeInv /\ RingInv /\ WaitInv /\ LoopInv
  BY <1>a, <1>b DEF Init, MadeInv, RingInv, WaitInv, LoopInv
<1>5. RequestsInv
  <2>1. requests = 0 /\ ready = {}
    BY DEF Init
  <2> QED
    BY <1>c, <2>1 DEF RequestsInv
<1>6. NothingLost /\ LoggedBeforeDenied
  BY <1>a DEF NothingLost, LoggedBeforeDenied
<1> QED
  BY <1>3, <1>4, <1>5, <1>6 DEF IInv

----------------------------------------------------------------------------
(* Steps of main that neither record a call nor end a wait. *)

LEMMA ControlStep ==
  ASSUME IInv,
         UNCHANGED <<events, ring, waiting, sent, life, made, dropped,
                     interrupted>>,
         ring = {} \/ (pc = "free" <=> pc' = "free"),
         TypeOK', LoopInv', RequestsInv'
  PROVE  IInv'
<1>1. Recorded' = Recorded
  BY SameRecorded
<1>2. MadeInv' /\ RingInv' /\ WaitInv'
  BY <1>1 DEF IInv, MadeInv, RingInv, WaitInv
<1>3. NothingLost' /\ LoggedBeforeDenied'
  BY <1>1 DEF IInv, NothingLost, LoggedBeforeDenied, Alive
<1> QED
  BY <1>2, <1>3 DEF IInv

LEMMA TimePassesInv ==
  ASSUME IInv, TimePasses
  PROVE  IInv'
<1>1. TypeOK'
  BY DEF IInv, TypeOK, TimePasses, listener, taskVars
<1>2. LoopInv' /\ RequestsInv'
  BY SameRecorded
     DEF IInv, LoopInv, RequestsInv, Pending, TimePasses, listener, taskVars
<1> QED
  BY <1>1, <1>2, ControlStep DEF TimePasses, listener, taskVars

LEMMA IsRunningInv ==
  ASSUME IInv, IsRunning
  PROVE  IInv'
<1>1. TypeOK'
  BY DEF IInv, TypeOK, IsRunning, listener, taskVars
<1>2. LoopInv' /\ RequestsInv'
  BY DEF IInv, LoopInv, RequestsInv, Pending, IsRunning, listener, taskVars
<1> QED
  BY <1>1, <1>2, ControlStep DEF IsRunning, listener, taskVars

LEMMA PollRingInv ==
  ASSUME IInv, PollRing
  PROVE  IInv'
<1>1. TypeOK'
  BY DEF IInv, TypeOK, PollRing, listener, taskVars
<1>2. LoopInv' /\ RequestsInv'
  BY DEF IInv, LoopInv, RequestsInv, Pending, PollRing, listener, taskVars
<1> QED
  BY <1>1, <1>2, ControlStep DEF PollRing, listener, taskVars

(* A notification poll saw has been counted by the semaphore. *)
LEMMA PollNotifyInv ==
  ASSUME IInv, PollNotify
  PROVE  IInv'
<1>1. TypeOK'
  BY DEF IInv, TypeOK, PollNotify, listener, taskVars
<1>2. LoopInv'
  BY DEF IInv, LoopInv, PollNotify
<1>3. Pending # {} => requests > 0
  <2> SUFFICES ASSUME NEW k \in Pending
               PROVE  requests > 0
    OBVIOUS
  <2>1. Pending \in SUBSET Calls /\ {k} \in SUBSET Pending
    BY DEF IInv, TypeOK, Pending
  <2>2. Cardinality({k}) = 1 /\ Cardinality({k}) <= Cardinality(Pending)
    BY <2>1, Shrinks, FS_Singleton
  <2>3. Cardinality(Pending) \in Nat /\ requests \in Nat
        /\ Cardinality(Pending) <= requests
    BY <2>1, CallsFinite DEF IInv, TypeOK, RequestsInv
  <2> QED
    BY <2>2, <2>3
<1>4. "notify" \in ready' => Pending # {}
  BY DEF PollNotify, IInv, LoopInv
<1>5. Pending' = Pending /\ requests' = requests
  BY DEF PollNotify, listener, Pending
<1>6. RequestsInv'
  BY <1>3, <1>4, <1>5 DEF IInv, RequestsInv
<1> QED
  BY <1>1, <1>2, <1>6, ControlStep DEF PollNotify, listener, taskVars

----------------------------------------------------------------------------
(* Steps that record a call. *)

(* handleEvent, with everything but pc unchanged beside *)
LEMMA HandleEventInv ==
  ASSUME IInv, HandleEvent, pc \in {"consume", "flush"},
         UNCHANGED <<pc, late, ready, taken, listener, taskVars>>
  PROVE  IInv'
<1>1. PICK k \in ring : IsOldest(k, ring) /\ Log(k, 0) /\ ring' = ring \ {k}
  BY DEF HandleEvent
<1>2. /\ k \in Calls /\ events \in Seq(Event) /\ ring \in SUBSET Calls
      /\ \A j \in ring : j \in Nat
  BY CallsAreNumbers DEF IInv, TypeOK
<1>3. Recorded' = Recorded \cup {k} /\ events' \in Seq(Event)
  BY <1>1, <1>2, LogRecords
<1>4. TypeOK'
  <2>1. Cardinality(ring') <= Capacity
    <3>1. ring' \in SUBSET ring
      BY <1>1
    <3>2. /\ Cardinality(ring') <= Cardinality(ring)
          /\ Cardinality(ring) \in Nat /\ Cardinality(ring') \in Nat
      BY <1>2, <3>1, Shrinks, CallsFinite
    <3>3. Cardinality(ring) <= Capacity
      BY DEF IInv, TypeOK
    <3> QED
      BY <3>2, <3>3, BoundsAssumption
  <2> QED
    BY <1>1, <1>3, <2>1 DEF IInv, TypeOK, listener, taskVars
<1>5. MadeInv'
  BY <1>1, <1>3 DEF IInv, MadeInv, listener, taskVars
<1>6. RingInv'
  BY <1>1, <1>2, <1>3 DEF IInv, RingInv, IsOldest, taskVars
<1>7. WaitInv'
  <2>1. ~made[k].restricted
    BY <1>1 DEF IInv, RingInv
  <2> QED
    BY <1>3, <2>1 DEF IInv, WaitInv, listener, taskVars
<1>8. LoopInv' /\ RequestsInv'
  BY DEF IInv, LoopInv, RequestsInv, Pending, listener
<1>9. NothingLost'
  BY <1>1, <1>3 DEF IInv, NothingLost, taskVars
<1>10. LoggedBeforeDenied'
  BY <1>3 DEF IInv, LoggedBeforeDenied, Alive, listener, taskVars
<1> QED
  BY <1>4, <1>5, <1>6, <1>7, <1>8, <1>9, <1>10 DEF IInv

LEMMA ConsumeInv ==
  ASSUME IInv, Consume
  PROVE  IInv'
<1>1. CASE "ring" \in ready /\ ring # {}
  BY <1>1, HandleEventInv DEF Consume
<1>2. CASE ~("ring" \in ready /\ ring # {})
  <2>1. pc = "consume" /\ pc' = AfterConsume
        /\ UNCHANGED <<events, ring, late, ready, taken, listener, taskVars>>
    BY <1>2 DEF Consume
  <2>2. TypeOK'
    BY <2>1 DEF IInv, TypeOK, AfterConsume, listener, taskVars
  <2>3. LoopInv' /\ RequestsInv'
    BY <2>1 DEF IInv, LoopInv, RequestsInv, Pending, AfterConsume, listener
  <2>4. pc # "free" /\ pc' # "free"
    BY <2>1 DEF AfterConsume
  <2> QED
    BY <2>1, <2>2, <2>3, <2>4, ControlStep DEF listener, taskVars
<1> QED
  BY <1>1, <1>2

LEMMA StopInv ==
  ASSUME IInv, Stop
  PROVE  IInv'
<1>1. CASE ring # {}
  BY <1>1, HandleEventInv DEF Stop
<1>2. CASE ring = {}
  <2>1. pc' = "free"
        /\ UNCHANGED <<events, ring, late, ready, taken, listener, taskVars>>
    BY <1>2 DEF Stop
  <2>2. TypeOK'
    BY <2>1 DEF IInv, TypeOK, listener, taskVars
  <2>3. LoopInv' /\ RequestsInv'
    BY <2>1 DEF IInv, LoopInv, RequestsInv, Pending, listener
  <2> QED
    BY <1>2, <2>1, <2>2, <2>3, ControlStep DEF listener, taskVars
<1> QED
  BY <1>1, <1>2

(* Nothing is lost by detaching: what was stored by then was not watched. *)
LEMMA DetachInv ==
  ASSUME IInv, Detach
  PROVE  IInv'
<1>1. /\ pc = "free" /\ pc' = "stopped" /\ ring' = {}
      /\ UNCHANGED <<late, ready, taken, events, waiting, sent, requests, life,
                     made, dropped, interrupted>>
  BY DEF Detach, listener, taskVars
<1>2. Recorded' = Recorded
  BY <1>1, SameRecorded
<1>3. TypeOK'
  <2>1. Cardinality(ring') <= Capacity
    BY <1>1, FS_EmptySet, BoundsAssumption
  <2> QED
    BY <1>1, <2>1 DEF IInv, TypeOK
<1>4. MadeInv' /\ RingInv' /\ WaitInv'
  BY <1>1, <1>2 DEF IInv, MadeInv, RingInv, WaitInv
<1>5. LoopInv' /\ RequestsInv'
  BY <1>1, <1>2 DEF IInv, LoopInv, RequestsInv, Pending
<1>6. NothingLost'
  <2>1. \A k \in ring : ~made[k].watched
    BY <1>1 DEF IInv, RingInv
  <2> QED
    BY <1>1, <1>2, <2>1 DEF IInv, NothingLost
<1>7. LoggedBeforeDenied'
  BY <1>1, <1>2 DEF IInv, LoggedBeforeDenied, Alive
<1> QED
  BY <1>3, <1>4, <1>5, <1>6, <1>7 DEF IInv

(* RECV takes the oldest of those it has not taken. *)
LEMMA ReceiveInv ==
  ASSUME IInv, Receive
  PROVE  IInv'
<1>0. pc = "recv" /\ requests > 0 /\ requests' = requests - 1
      /\ UNCHANGED <<late, ready, ring, waiting, taskVars>>
  BY DEF Receive
<1>a. requests \in Nat /\ requests' \in Nat
  <2>1. requests \in Nat
    BY DEF IInv, TypeOK
  <2> QED
    BY <1>0, <2>1
<1>1. CASE Pending = {} /\ pc' = "isRunning" /\ UNCHANGED <<taken, events, sent>>
  <2>1. TypeOK'
    BY <1>0, <1>1, <1>a DEF IInv, TypeOK, taskVars
  <2>2. Pending' = {} /\ Cardinality(Pending') = 0
    BY <1>0, <1>1, FS_EmptySet DEF Pending
  <2>3. LoopInv' /\ RequestsInv'
    <3>1. Cardinality(Pending') <= requests'
      BY <1>a, <2>2
    <3> QED
      BY <1>1, <3>1 DEF LoopInv, RequestsInv
  <2> QED
    BY <1>0, <1>1, <2>1, <2>3, ControlStep DEF taskVars
<1>2. ASSUME NEW k \in Pending, IsOldest(k, Pending), pc' = "send", Take(k)
      PROVE  IInv'
  <2>1. /\ k \in waiting /\ k \notin sent /\ k \in Calls
        /\ events \in Seq(Event) /\ Pending \in SUBSET Calls
        /\ \A j \in waiting : j \in Nat
    BY CallsAreNumbers DEF IInv, TypeOK, Pending
  <2>2. taken' = k /\ sent' = sent \cup {k} /\ Log(k, 1)
    BY <1>2 DEF Take
  <2>3. Recorded' = Recorded \cup {k} /\ events' \in Seq(Event)
    BY <2>1, <2>2, LogRecords
  <2>4. TypeOK'
    BY <1>0, <1>2, <1>a, <2>1, <2>2, <2>3 DEF IInv, TypeOK, taskVars
  <2>5. MadeInv'
    BY <1>0, <2>1, <2>3 DEF IInv, MadeInv, taskVars
  <2>6. made[k].restricted
    BY <2>1 DEF IInv, WaitInv
  <2>7. RingInv'
    BY <1>0, <1>2, <2>3, <2>6 DEF IInv, RingInv, taskVars
  <2>8. WaitInv'
    <3>1. \A j \in waiting : j \notin sent' => j \in Pending /\ j # k
      BY <2>2 DEF Pending
    <3> QED
      BY <1>0, <1>2, <2>1, <2>2, <2>3, <3>1
         DEF IInv, WaitInv, IsOldest, taskVars
  <2>9. LoopInv'
    BY <1>2, <2>2, <2>3 DEF LoopInv
  <2>10. RequestsInv'
    <3>1. Pending' = Pending \ {k}
      BY <1>0, <2>2 DEF Pending
    <3>2. Cardinality(Pending \ {k}) = Cardinality(Pending) - 1
      BY <2>1, CallsFinite, FS_RemoveElement
    <3>3. Cardinality(Pending) \in Nat /\ Cardinality(Pending) <= requests
      BY <2>1, CallsFinite DEF IInv, RequestsInv
    <3>4. Cardinality(Pending') <= requests'
      BY <1>0, <1>a, <3>1, <3>2, <3>3
    <3> QED
      BY <1>2, <3>4 DEF RequestsInv
  <2>11. NothingLost' /\ LoggedBeforeDenied'
    BY <1>0, <2>3 DEF IInv, NothingLost, LoggedBeforeDenied, Alive, taskVars
  <2> QED
    BY <2>4, <2>5, <2>7, <2>8, <2>9, <2>10, <2>11 DEF IInv
<1> QED
  BY <1>1, <1>2 DEF Receive

----------------------------------------------------------------------------
(* Steps that end waits: by an answer, a signal, or the end of the task. *)

(* What they have in common: the calls that still wait are of tasks that   *)
(* live, and one that waits no more is recorded, interrupted, or its task  *)
(* is no more.                                                             *)
LEMMA WaitsEnd ==
  ASSUME IInv, NEW calls \in SUBSET waiting, StillWait(calls),
         UNCHANGED <<late, ready, events, ring, requests, made, dropped>>,
         life' \in [Tasks -> {"to come", "alive", "ended"}],
         interrupted \subseteq interrupted', interrupted' \subseteq Calls,
         taken' \in Calls \cup {0},
         \/ pc' = pc /\ taken' = taken
         \/ pc # "free" /\ pc' \in {"isRunning", "killed"},
         \A t \in Tasks : life[t] # "to come" => life'[t] # "to come",
         \A t \in Tasks : life'[t] = "alive" => life[t] = "alive",
         \A k \in calls : life'[made[k].task] = "alive",
         \A k \in waiting \ calls :
           k \in Recorded \cup interrupted' \/ life'[made[k].task] # "alive"
  PROVE  IInv'
<1>1. Recorded' = Recorded
  BY SameRecorded
<1>2. waiting' = calls /\ sent' = sent \cap calls
  BY DEF StillWait
<1>3. \A k \in DOMAIN made : made[k].task \in Tasks
  BY DomainMade DEF IInv
<1>4. TypeOK'
  BY <1>2 DEF IInv, TypeOK
<1>5. MadeInv'
  BY <1>1, <1>2, <1>3 DEF IInv, MadeInv
<1>6. RingInv'
  BY <1>1 DEF IInv, RingInv
<1>7. WaitInv'
  BY <1>1, <1>2 DEF IInv, WaitInv
<1>8. LoopInv'
  BY <1>1 DEF IInv, LoopInv
<1>9. RequestsInv'
  <2>1. Pending \in SUBSET Calls /\ Pending' \in SUBSET Pending
    BY <1>2 DEF IInv, TypeOK, Pending
  <2>2. /\ Cardinality(Pending') <= Cardinality(Pending)
        /\ Cardinality(Pending) \in Nat /\ Cardinality(Pending') \in Nat
    BY <2>1, Shrinks, CallsFinite
  <2>3. requests \in Nat /\ Cardinality(Pending) <= requests
    BY DEF IInv, TypeOK, RequestsInv
  <2>4. requests' = requests
    OBVIOUS
  <2>5. Cardinality(Pending') <= requests'
    BY ONLY <2>2, <2>3, <2>4
  <2> QED
    BY <2>5 DEF IInv, RequestsInv
<1>10. NothingLost'
  BY <1>1 DEF IInv, NothingLost
<1>11. LoggedBeforeDenied'
  <2> SUFFICES ASSUME NEW k \in DOMAIN made, made[k].restricted,
                      life'[made[k].task] = "alive", k \notin interrupted'
               PROVE  k \in Recorded \cup calls
    BY <1>1, <1>2 DEF LoggedBeforeDenied, Alive
  <2>1. made[k].task \in Alive /\ k \notin interrupted
    BY <1>3 DEF Alive
  <2>2. k \in Recorded \cup waiting
    BY <2>1 DEF IInv, LoggedBeforeDenied
  <2> QED
    BY <2>2
<1> QED
  BY <1>4, <1>5, <1>6, <1>7, <1>8, <1>9, <1>10, <1>11 DEF IInv

(* RECV recorded the call that SEND answers. *)
LEMMA AnswerInv ==
  ASSUME IInv, Answer
  PROVE  IInv'
<1>1. /\ pc = "send" /\ pc' = "isRunning" /\ taken' = 0
      /\ StillWait(waiting \ {taken})
      /\ UNCHANGED <<late, ready, events, ring, requests, life, made, dropped,
                     interrupted>>
  BY DEF Answer, taskVars
<1>2. taken \in Recorded
  BY <1>1 DEF IInv, LoopInv
<1>3. /\ life \in [Tasks -> {"to come", "alive", "ended"}]
      /\ interrupted \subseteq Calls
  BY DEF IInv, TypeOK
<1>4. \A k \in waiting : life[made[k].task] = "alive"
  BY DEF IInv, WaitInv
<1> QED
  BY <1>1, <1>2, <1>3, <1>4, WaitsEnd

LEMMA InterruptInv ==
  ASSUME IInv, NEW t \in Tasks, Interrupt(t)
  PROVE  IInv'
<1>1. PICK k \in waiting :
        /\ StillWait(waiting \ {k}) /\ interrupted' = interrupted \cup {k}
        /\ UNCHANGED <<mainVars, ring, requests, life, made, dropped>>
  BY DEF Interrupt
<1>2. /\ life \in [Tasks -> {"to come", "alive", "ended"}]
      /\ interrupted' \subseteq Calls /\ taken \in Calls \cup {0}
  BY <1>1 DEF IInv, TypeOK
<1>3. \A j \in waiting : life[made[j].task] = "alive"
  BY DEF IInv, WaitInv
<1> QED
  BY <1>1, <1>2, <1>3, WaitsEnd DEF mainVars

LEMMA EndsInv ==
  ASSUME IInv, NEW tasks, Ends(tasks),
         UNCHANGED <<late, ready, taken, events, ring, requests, made, dropped,
                     interrupted>>,
         pc' = pc \/ (pc = "stopped" /\ pc' = "killed")
  PROVE  IInv'
<1> DEFINE left == IF Alive \cap Threads \subseteq tasks THEN {}
                                                         ELSE Alive \ tasks
           calls == {k \in waiting : made[k].task \in left}
<1>1. /\ life' = [t \in Tasks |-> IF t \in Alive \ left THEN "ended" ELSE life[t]]
      /\ StillWait(calls)
  BY DEF Ends
<1>2. life \in [Tasks -> {"to come", "alive", "ended"}] /\ left \subseteq Alive
  BY DEF IInv, TypeOK
<1>3. /\ life' \in [Tasks -> {"to come", "alive", "ended"}]
      /\ \A t \in Tasks : /\ life'[t] = "to come" <=> life[t] = "to come"
                          /\ life'[t] = "alive" <=> t \in left
  BY <1>1, <1>2 DEF Alive
<1>4. \A t \in left : t \in Tasks /\ life[t] = "alive"
  BY <1>2 DEF Alive
<1>5. \A k \in waiting : made[k].task \in Tasks
  BY DomainMade DEF IInv, MadeInv
<1>6. interrupted \subseteq Calls /\ taken \in Calls \cup {0}
  BY DEF IInv, TypeOK
<1>7. \A k \in waiting \ calls : life'[made[k].task] # "alive"
  BY <1>3, <1>5
<1>8. \A k \in calls : life'[made[k].task] = "alive"
  BY <1>3, <1>5
<1>9. calls \in SUBSET waiting
  OBVIOUS
<1> HIDE DEF left, calls
<1> QED
  BY <1>1, <1>3, <1>4, <1>6, <1>7, <1>8, <1>9, WaitsEnd

LEMMA ExitInv ==
  ASSUME IInv, NEW t \in Tasks, Exit(t)
  PROVE  IInv'
<1>1. PICK tasks \in {{t}, Threads} : Ends(tasks)
  BY DEF Exit
<1>2. UNCHANGED <<mainVars, ring, requests, made, dropped, interrupted>>
  BY DEF Exit
<1> QED
  BY <1>1, <1>2, EndsInv DEF mainVars

LEMMA KillInv ==
  ASSUME IInv, Kill
  PROVE  IInv'
<1>1. /\ Ends(Tasks) /\ pc = "stopped" /\ pc' = "killed"
      /\ UNCHANGED <<late, ready, taken, events, ring, requests, made, dropped,
                     interrupted>>
  BY DEF Kill
<1> QED
  BY <1>1, EndsInv

----------------------------------------------------------------------------
(* Steps in which a task makes a call. *)

LEMMA PlainCallInv ==
  ASSUME IInv, NEW t \in Tasks, PlainCall(t)
  PROVE  IInv'
<1> DEFINE n == Len(made')
<1>1. /\ t \in Alive /\ ~Waits(t) /\ Len(made) < MaxCalls
      /\ Makes(t, FALSE) /\ Store(t)
      /\ UNCHANGED life \/ \E u \in Tasks : Starts(t, u)
      /\ UNCHANGED <<pc, late, ready, taken, events, waiting, sent, requests,
                     interrupted>>
  BY DEF PlainCall, Runs, mainVars, listener
<1>2. Newest(t, FALSE)
  BY <1>1, MakesNewest DEF IInv, TypeOK
<1>3. Recorded' = Recorded
  BY <1>1, SameRecorded
<1>4. /\ DOMAIN made \subseteq Calls
      /\ \A k \in DOMAIN made : made[k].task \in Tasks
  BY DomainMade DEF IInv
<1>5. /\ life' \in [Tasks -> {"to come", "alive", "ended"}]
      /\ \A u \in Tasks : life[u] # "to come" => life'[u] = life[u]
      /\ life[t] = "alive" /\ life'[t] = "alive"
  BY <1>1 DEF IInv, TypeOK, Starts, Alive
<1>6. \/ /\ t \in Threads /\ Attached
         /\ Cardinality(ring) < Capacity
         /\ ring' = ring \cup {n} /\ dropped' = dropped
      \/ /\ t \in Threads /\ Attached
         /\ ring' = ring /\ dropped' = dropped \cup {n}
      \/ /\ ~(t \in Threads /\ Attached)
         /\ ring' = ring /\ dropped' = dropped
  BY <1>1 DEF Store
<1>7. TypeOK'
  <2>1. Cardinality(ring') <= Capacity
    <3>1. ring \in SUBSET Calls /\ n \in Calls
      BY <1>2 DEF IInv, TypeOK, Newest
    <3>2. /\ Cardinality(ring \cup {n}) <= Cardinality(ring) + 1
          /\ Cardinality(ring) \in Nat /\ Cardinality(ring \cup {n}) \in Nat
      BY <3>1, Grows, CallsFinite
    <3>3. Cardinality(ring) <= Capacity
      BY DEF IInv, TypeOK
    <3>4. Cardinality(ring) < Capacity => Cardinality(ring \cup {n}) <= Capacity
      BY <3>2, BoundsAssumption
    <3> QED
      BY <1>6, <3>3, <3>4
  <2>2. ring' \subseteq Calls /\ dropped' \subseteq Calls
    BY <1>2, <1>6 DEF IInv, TypeOK, Newest
  <2> QED
    BY <1>1, <1>2, <1>5, <2>1, <2>2 DEF IInv, TypeOK, Newest
<1>8. MadeInv'
  BY <1>1, <1>2, <1>3, <1>4, <1>5, <1>6 DEF IInv, MadeInv, Newest
<1>9. RingInv'
  BY <1>1, <1>2, <1>3, <1>6 DEF IInv, MadeInv, RingInv, Newest, Watching
<1>10. WaitInv'
  <2>1. \A k \in waiting : k \in DOMAIN made /\ made[k].task # t
    BY <1>1 DEF IInv, MadeInv, Waits
  <2>2. \A j \in Recorded : j \in DOMAIN made
    BY DEF IInv, MadeInv
  <2> SUFFICES ASSUME NEW k \in waiting
               PROVE  /\ made'[k].restricted /\ life'[made'[k].task] = "alive"
                      /\ \A j \in DOMAIN made' :
                           made'[j].task = made'[k].task => j <= k
                      /\ k \notin sent =>
                           /\ k \notin Recorded
                           /\ \A j \in Recorded : made'[j].restricted => j < k
    BY <1>1, <1>3 DEF WaitInv
  <2>3. made'[k] = made[k] /\ made[k].task \in Tasks
    BY <1>2, <1>4, <2>1 DEF Newest
  <2>4. made'[k].restricted /\ life'[made'[k].task] = "alive"
    BY <1>5, <2>3 DEF IInv, WaitInv
  <2>5. \A j \in DOMAIN made' : made'[j].task = made'[k].task => j <= k
    BY <1>2, <2>1, <2>3 DEF IInv, WaitInv, Newest
  <2>6. k \notin sent => /\ k \notin Recorded
                        /\ \A j \in Recorded : made'[j].restricted => j < k
    BY <1>2, <2>2 DEF IInv, WaitInv, Newest
  <2> QED
    BY <2>4, <2>5, <2>6
<1>11. LoopInv' /\ RequestsInv'
  BY <1>1, <1>3 DEF IInv, LoopInv, RequestsInv, Pending
<1>12. NothingLost'
  BY <1>2, <1>3, <1>6 DEF IInv, NothingLost, Newest, Watching
<1>13. LoggedBeforeDenied'
  <2>1. \A k \in DOMAIN made :
          made[k].task \in Alive' => made[k].task \in Alive
    BY <1>4, <1>5 DEF IInv, MadeInv, Alive
  <2> QED
    BY <1>1, <1>2, <1>3, <2>1 DEF IInv, LoggedBeforeDenied, Newest
<1> QED
  BY <1>7, <1>8, <1>9, <1>10, <1>11, <1>12, <1>13 DEF IInv

LEMMA RestrictedCallInv ==
  ASSUME IInv, NEW t \in Tasks, RestrictedCall(t)
  PROVE  IInv'
<1> DEFINE n == Len(made')
<1>1. /\ t \in Alive /\ ~Waits(t) /\ Len(made) < MaxCalls
      /\ Makes(t, TRUE) /\ waiting' = waiting \cup {n}
      /\ requests' = requests + 1
      /\ UNCHANGED <<pc, late, ready, taken, events, ring, sent, life, dropped,
                     interrupted>>
  BY DEF RestrictedCall, Runs, mainVars
<1>2. Newest(t, TRUE)
  BY <1>1, MakesNewest DEF IInv, TypeOK
<1>3. Recorded' = Recorded
  BY <1>1, SameRecorded
<1>4. life[t] = "alive" /\ requests \in Nat
  BY <1>1 DEF IInv, TypeOK, Alive
<1>5. \A j \in Recorded \cup waiting \cup ring \cup sent : j \in DOMAIN made
  BY DEF IInv, TypeOK, MadeInv
<1>6. TypeOK'
  <2>1. requests' \in Nat
    BY <1>1, <1>4
  <2> QED
    BY <1>1, <1>2, <2>1 DEF IInv, TypeOK, Newest
<1>7. MadeInv'
  BY <1>1, <1>2, <1>3, <1>4 DEF IInv, MadeInv, Newest
<1>8. RingInv'
  BY <1>1, <1>2, <1>3, <1>5 DEF IInv, RingInv, Newest
<1>9. WaitInv'
  <2>1. \A k \in waiting : made[k].task # t
    BY <1>1 DEF Waits
  <2> SUFFICES ASSUME NEW k \in waiting \cup {n}
               PROVE  /\ made'[k].restricted /\ life[made'[k].task] = "alive"
                      /\ \A j \in DOMAIN made' :
                           made'[j].task = made'[k].task => j <= k
                      /\ k \notin sent =>
                           /\ k \notin Recorded
                           /\ \A j \in Recorded : made'[j].restricted => j < k
    BY <1>1, <1>3 DEF WaitInv
  <2>2. CASE k \in waiting
    BY <1>2, <1>5, <2>1, <2>2 DEF IInv, WaitInv, Newest
  <2>3. CASE k = n
    <3>1. \A j \in DOMAIN made' : j <= n
      <4>1. n \in Nat /\ \A j \in DOMAIN made : j \in Nat
        BY <1>2, CallsAreNumbers, DomainMade DEF IInv, Newest
      <4>2. /\ \A j \in DOMAIN made' : j \in DOMAIN made \/ j = n
            /\ \A j \in DOMAIN made : j < n
        BY <1>2 DEF Newest
      <4> HIDE DEF n
      <4> QED
        BY ONLY <4>1, <4>2
    <3> QED
      BY <1>2, <1>4, <1>5, <2>3, <3>1 DEF Newest
  <2> QED
    BY <2>2, <2>3
<1>10. LoopInv'
  BY <1>1, <1>3 DEF IInv, LoopInv
<1>11. RequestsInv'
  <2>1. Pending' = Pending \cup {n} /\ Pending \in SUBSET Calls /\ n \in Calls
    BY <1>1, <1>2, <1>5 DEF Pending, IInv, TypeOK, Newest
  <2>2. /\ Cardinality(Pending') <= Cardinality(Pending) + 1
        /\ Cardinality(Pending) \in Nat
    BY <2>1, Grows, CallsFinite
  <2>3. Cardinality(Pending') \in Nat
    <3>1. Pending \cup {n} \in SUBSET Calls
      BY <2>1
    <3> QED
      BY <2>1, <3>1, CallsFinite
  <2>4. Cardinality(Pending) <= requests
    BY DEF IInv, RequestsInv
  <2>5. Cardinality(Pending') <= requests' /\ requests' > 0
    BY <1>1, <1>4, <2>2, <2>3, <2>4
  <2> QED
    BY <2>5 DEF RequestsInv
<1>12. NothingLost'
  BY <1>1, <1>2, <1>3 DEF IInv, NothingLost, Newest
<1>13. LoggedBeforeDenied'
  BY <1>1, <1>2, <1>3 DEF IInv, LoggedBeforeDenied, Alive, Newest
<1> QED
  BY <1>6, <1>7, <1>8, <1>9, <1>10, <1>11, <1>12, <1>13 DEF IInv

----------------------------------------------------------------------------
LEMMA StepInv ==
  ASSUME IInv, [Next]_vars
  PROVE  IInv'
<1>1. CASE TaskNext
  BY <1>1, PlainCallInv, RestrictedCallInv, InterruptInv, ExitInv DEF TaskNext
<1>2. CASE MainNext
  BY <1>2, IsRunningInv, PollRingInv, PollNotifyInv, ConsumeInv, ReceiveInv,
     AnswerInv, StopInv, DetachInv, KillInv DEF MainNext
<1>3. CASE UNCHANGED vars
  <2>1. UNCHANGED <<pc, late, ready, taken, events, ring, waiting, sent,
                    requests, life, made, dropped, interrupted>>
    BY <1>3 DEF vars, mainVars, listener, taskVars
  <2>2. TypeOK'
    BY <2>1 DEF IInv, TypeOK
  <2>3. LoopInv' /\ RequestsInv'
    BY <2>1, SameRecorded DEF IInv, LoopInv, RequestsInv, Pending
  <2> QED
    BY <2>1, <2>2, <2>3, ControlStep
<1> QED
  BY <1>1, <1>2, <1>3, TimePassesInv DEF Next, Over

(* IInv is inductive and holds in every reachable state. *)
THEOREM Invariance == Spec => []IInv
  BY InitInv, StepInv, PTL DEF Spec

(* The variables of the tracer, the ring buffer and the listener keep      *)
(* their types; handle_syscall never overfills the ring buffer.            *)
THEOREM TypeCorrect == Spec => []TypeOK
<1>1. IInv => TypeOK
  BY DEF IInv
<1> QED
  BY Invariance, <1>1, PTL

(* pollmethod and stop lose no call that handle_syscall stored before stop
   found the ring buffer empty; what is stored later, until the program is
   detached, is lost. *)
THEOREM StoredIsRecorded == Spec => []NothingLost
<1>1. IInv => NothingLost
  BY DEF IInv
<1> QED
  BY Invariance, <1>1, PTL

(* handleSeccompNotification records a blocked call before it answers. *)
THEOREM LogThenDeny == Spec => []LoggedBeforeDenied
<1>1. IInv => LoggedBeforeDenied
  BY DEF IInv
<1> QED
  BY Invariance, <1>1, PTL

(* When poll reported a notification, RECV in handleSeccompNotification    *)
(* returns, whatever became of the notification meanwhile.                 *)
THEOREM ReceiveReturns == Spec => []ReceiveNeverBlocks
<1>1. IInv => ReceiveNeverBlocks
  BY DEF IInv, LoopInv, RequestsInv, ReceiveNeverBlocks
<1> QED
  BY Invariance, <1>1, PTL

----------------------------------------------------------------------------
(* Observer implements EventLog. *)

LEMMA InitRecord == Init => Record!Init
  BY DEF Init, Record!Init

LEMMA MakesMade ==
  ASSUME NEW t \in Tasks, NEW restricted \in BOOLEAN, Makes(t, restricted),
         events' = events
  PROVE  Record!Made
<1> DEFINE c == [task |-> t, restricted |-> restricted, watched |-> Watching]
<1>1. c \in Record!Call
  BY DEF Record!Call, Watching, Attached
<1> QED
  BY <1>1 DEF Makes, Record!Made

LEMMA HandleEventEnters ==
  ASSUME IInv, HandleEvent, pc # "free", made' = made
  PROVE  Record!Entered
<1>1. PICK k \in ring : Log(k, 0)
  BY DEF HandleEvent
<1>2. /\ k \in DOMAIN made /\ k \notin Record!Recorded
      /\ ~made[k].restricted /\ made[k].watched /\ made[k].task \in Threads
      /\ \A j \in Record!Recorded : ~made[j].restricted => j < k
  BY DEF IInv, MadeInv, RingInv, Recorded
<1>3. Record!MayEnter(k)
  BY <1>2 DEF Record!MayEnter
<1> QED
  BY <1>1, <1>2, <1>3 DEF Record!Entered, Log

LEMMA TakeEnters ==
  ASSUME IInv, NEW k \in Pending, Take(k), made' = made
  PROVE  Record!Entered
<1>1. Log(k, 1)
  BY DEF Take
<1>2. /\ k \in DOMAIN made /\ k \notin Record!Recorded
      /\ made[k].restricted
      /\ \A j \in DOMAIN made : made[j].task = made[k].task => j <= k
      /\ \A j \in Record!Recorded : made[j].restricted => j < k
  BY DEF IInv, MadeInv, WaitInv, Recorded, Pending
<1>3. Record!MayEnter(k)
  BY <1>2 DEF Record!MayEnter
<1> QED
  BY <1>1, <1>2, <1>3 DEF Record!Entered, Log

LEMMA StepRecord ==
  ASSUME IInv, [Next]_vars
  PROVE  [Record!Next]_<<made, events>>
<1>1. ASSUME NEW t \in Tasks, PlainCall(t) \/ RestrictedCall(t)
      PROVE  Record!Made
  <2>1. events' = events /\ \E r \in BOOLEAN : Makes(t, r)
    BY <1>1 DEF PlainCall, RestrictedCall, mainVars
  <2> QED
    BY <2>1, MakesMade
<1>2. ASSUME NEW t \in Tasks, Interrupt(t) \/ Exit(t)
      PROVE  UNCHANGED <<made, events>>
  BY <1>2 DEF Interrupt, Exit, mainVars
<1>3. CASE Consume \/ Stop
  <2>1. made' = made /\ (HandleEvent \/ events' = events) /\ pc # "free"
    BY <1>3 DEF Consume, Stop, taskVars
  <2> QED
    BY <2>1, HandleEventEnters DEF Record!Next
<1>4. CASE Receive
  <2>1. made' = made /\ (events' = events \/ \E k \in Pending : Take(k))
    BY <1>4 DEF Receive, taskVars
  <2> QED
    BY <2>1, TakeEnters DEF Record!Next
<1>5. CASE TimePasses \/ IsRunning \/ PollRing \/ PollNotify \/ Answer \/ Detach
           \/ Kill
  BY <1>5 DEF TimePasses, IsRunning, PollRing, PollNotify, Answer, Detach, Kill,
     taskVars
<1>6. CASE UNCHANGED vars
  BY <1>6 DEF vars, mainVars, taskVars
<1> QED
  BY <1>1, <1>2, <1>3, <1>4, <1>5, <1>6
     DEF Next, TaskNext, MainNext, Over, Record!Next

(* The vector of Tracer is a record as EventLog promises it. *)
THEOREM KeepsRecord == Spec => RecordKept
  BY InitRecord, StepRecord, Invariance, PTL DEF Spec, RecordKept, Record!Spec

(* In the vector only blocked calls overtake calls of the same task: what  *)
(* EventLog promises, and with it every order pollmethod reads in.         *)
THEOREM OvertakingInVector == Spec => []OnlyBlockedOvertake
<1>1. Record!Spec => []Record!OnlyBlockedOvertake
  BY Record!Overtaking
<1> QED
  BY <1>1, KeepsRecord, PTL DEF RecordKept, OnlyBlockedOvertake

----------------------------------------------------------------------------
(* Once the time is up *)

LEMMA StepsLeftFacts ==
  ASSUME IInv
  PROVE  /\ ring \in SUBSET Calls /\ Cardinality(ring) \in Nat
         /\ Len(made) \in Nat /\ Len(made) <= MaxCalls /\ MaxCalls \in Nat
         /\ ToTheEnd[pc] \in 0..9 /\ StepsLeft \in Nat
<1>1. /\ ring \in SUBSET Calls /\ made \in Seq(Call)
      /\ Len(made) <= MaxCalls /\ MaxCalls \in Nat
      /\ pc \in {"isRunning", "ring", "notify", "consume", "recv", "send",
                 "flush", "free", "stopped", "killed"}
  BY BoundsAssumption, Zenon DEF IInv, TypeOK
<1>2. Len(made) \in Nat
  BY <1>1
<1>3. Cardinality(ring) \in Nat
  BY <1>1, CallsFinite
<1>4. ToTheEnd[pc] \in 0..9
  BY <1>1 DEF ToTheEnd
<1>5. StepsLeft \in Nat
  BY <1>1, <1>2, <1>3, <1>4 DEF StepsLeft
<1> QED
  BY <1>1, <1>2, <1>3, <1>4, <1>5, Zenon

LEMMA StepsLeftNumber == IInv => StepsLeft \in Nat
  BY StepsLeftFacts

(* A record that is consumed *)
LEMMA HandleEventCounts ==
  ASSUME IInv, HandleEvent
  PROVE  Cardinality(ring') <= Cardinality(ring) - 1
<1>1. PICK k \in ring : ring' = ring \ {k}
  BY DEF HandleEvent
<1>2. IsFiniteSet(ring) /\ Cardinality(ring) \in Nat
  BY StepsLeftFacts, CallsFinite
<1>3. Cardinality(ring \ {k}) = Cardinality(ring) - 1
  BY <1>2, FS_RemoveElement
<1> QED
  BY <1>1, <1>2, <1>3

(* A step of main. *)
LEMMA MainCounts ==
  ASSUME IInv, late, MainNext
  PROVE  StepsLeft' < StepsLeft
<1>1. made' = made
  BY DEF MainNext, IsRunning, PollRing, PollNotify, Consume, Receive, Answer,
         Stop, Detach, Kill, taskVars
<1>2. ASSUME ring' = ring, ToTheEnd[pc'] < ToTheEnd[pc], ToTheEnd[pc'] \in Nat
      PROVE  StepsLeft' < StepsLeft
  BY <1>1, <1>2, StepsLeftFacts DEF StepsLeft
<1>3. ASSUME HandleEvent, pc' = pc, IInv'
      PROVE  StepsLeft' < StepsLeft
  <2>1. Cardinality(ring') <= Cardinality(ring) - 1 /\ Cardinality(ring') \in Nat
    BY <1>3, HandleEventCounts, CallsFinite DEF IInv, TypeOK
  <2>2. /\ Cardinality(ring) \in Nat /\ Len(made) \in Nat /\ MaxCalls \in Nat
        /\ ToTheEnd[pc] \in 0..9 /\ ToTheEnd[pc'] = ToTheEnd[pc]
    BY <1>3, StepsLeftFacts
  <2> QED
    BY ONLY <1>1, <2>1, <2>2 DEF StepsLeft
<1>4. CASE IsRunning
  BY <1>2, <1>4 DEF IsRunning, LoopIsOver, ToTheEnd
<1>5. CASE PollRing \/ PollNotify
  <2>1. ring' = ring
    BY <1>5 DEF PollRing, PollNotify
  <2>2. \/ pc = "ring" /\ pc' \in {"notify", "consume"}
        \/ pc = "notify" /\ pc' = "consume"
    BY <1>5 DEF PollRing, PollNotify
  <2>3. ToTheEnd[pc'] < ToTheEnd[pc] /\ ToTheEnd[pc'] \in Nat
    BY <2>2 DEF ToTheEnd
  <2> QED
    BY <1>2, <2>1, <2>3
<1>6. CASE Consume
  <2>1. CASE HandleEvent /\ pc' = pc
    BY <1>3, <1>6, <2>1, StepInv DEF Next, MainNext
  <2>2. CASE pc' = AfterConsume /\ UNCHANGED <<events, ring>>
    BY <1>2, <1>6, <2>2 DEF Consume, AfterConsume, ToTheEnd
  <2> QED
    BY <1>6, <2>1, <2>2 DEF Consume
<1>7. CASE Receive
  BY <1>2, <1>7 DEF Receive, ToTheEnd
<1>8. CASE Answer
  BY <1>2, <1>8 DEF Answer, ToTheEnd
<1>9. CASE Stop
  <2>1. CASE HandleEvent /\ pc' = pc
    BY <1>3, <1>9, <2>1, StepInv DEF Next, MainNext
  <2>2. CASE pc' = "free" /\ UNCHANGED <<events, ring>>
    BY <1>2, <1>9, <2>2 DEF Stop, ToTheEnd
  <2> QED
    BY <1>9, <2>1, <2>2 DEF Stop
<1>10. CASE Kill
  BY <1>2, <1>10 DEF Kill, ToTheEnd
<1>11. CASE Detach
  <2>1. /\ pc = "free" /\ pc' = "stopped" /\ ring' = {}
        /\ ToTheEnd["stopped"] = 1 /\ ToTheEnd["free"] = 2
    BY <1>11 DEF Detach, ToTheEnd
  <2>2. Cardinality(ring') = 0
    BY <2>1, FS_EmptySet
  <2> QED
    BY <1>1, <2>1, <2>2, StepsLeftFacts DEF StepsLeft
<1> QED
  BY <1>4, <1>5, <1>6, <1>7, <1>8, <1>9, <1>10, <1>11 DEF MainNext

(* A step of a task: a call that is stored makes one step more for main, and
   there is one call less to come. *)
LEMMA TaskCounts ==
  ASSUME IInv, IInv', TaskNext
  PROVE  mainVars' = mainVars /\ StepsLeft' <= StepsLeft
<1>1. mainVars' = mainVars /\ pc' = pc
  BY DEF TaskNext, PlainCall, RestrictedCall, Interrupt, Exit, mainVars
<1>2. /\ Cardinality(ring') \in Nat /\ made' \in Seq(Call)
      /\ Len(made') <= MaxCalls /\ made \in Seq(Call)
  <2>1. /\ ring' \in SUBSET Calls /\ made' \in Seq(Call)
        /\ Len(made') <= MaxCalls /\ made \in Seq(Call)
    BY Zenon DEF IInv, TypeOK
  <2> QED
    BY <2>1, CallsFinite
<1>3. PICK t \in Tasks :
        PlainCall(t) \/ RestrictedCall(t) \/ Interrupt(t) \/ Exit(t)
  BY DEF TaskNext
<1>4. CASE Interrupt(t) \/ Exit(t)
  <2>1. ring' = ring /\ made' = made
    BY <1>4 DEF Interrupt, Exit
  <2> QED
    BY <1>1, <2>1, StepsLeftFacts DEF StepsLeft
<1>5. CASE PlainCall(t) \/ RestrictedCall(t)
  <2>1. Len(made') = Len(made) + 1
    <3>1. PICK r \in BOOLEAN : Makes(t, r)
      BY <1>5, Zenon DEF PlainCall, RestrictedCall
    <3> QED
      BY <1>2, <3>1 DEF Makes
  <2>2. ring' = ring \/ ring' = ring \cup {Len(made')}
    BY <1>5 DEF PlainCall, RestrictedCall, Store
  <2>3. Len(made') \in Calls
    BY <1>2, <2>1, StepsLeftFacts DEF Calls
  <2>4. Cardinality(ring') <= Cardinality(ring) + 1
    BY <2>2, <2>3, Grows, StepsLeftFacts
  <2>5. /\ Cardinality(ring) \in Nat /\ Len(made) \in Nat /\ MaxCalls \in Nat
        /\ ToTheEnd[pc] \in 0..9 /\ ToTheEnd[pc'] = ToTheEnd[pc]
    BY <1>1, StepsLeftFacts
  <2>6. StepsLeft' <= StepsLeft
    <3> USE DEF StepsLeft
    <3> QED
      BY ONLY <1>2, <2>1, <2>4, <2>5
  <2> QED
    BY <1>1, <2>6
<1> QED
  BY <1>3, <1>4, <1>5

(* After timeoutTime the loop of main.cpp, pollmethod and stop run out, by a
   step for each record and one round: no task can keep them busy but by
   calls that are recorded. *)
THEOREM TimeLimitIsPressed == Spec => TimeLimitPressed
<1>0. IInv' => (StepsLeft \in Nat)'
  BY StepsLeftNumber, PTL
<1>1. ASSUME IInv, IInv', [Next]_vars, late
      PROVE  /\ StepsLeft' \in Nat /\ StepsLeft' <= StepsLeft
             /\ mainVars' # mainVars => StepsLeft' < StepsLeft
  <2>1. StepsLeft \in Nat
    BY <1>1, StepsLeftFacts
  <2>2. StepsLeft' \in Nat
    BY <1>0, <1>1
  <2>3. CASE MainNext
    BY <1>1, <2>1, <2>2, <2>3, MainCounts
  <2>4. CASE TaskNext
    BY <1>1, <2>2, <2>4, TaskCounts
  <2>5. CASE UNCHANGED vars
    <3>1. StepsLeft' = StepsLeft /\ mainVars' = mainVars
      BY <2>5 DEF vars, mainVars, taskVars, StepsLeft
    <3> QED
      BY <2>1, <2>2, <3>1
  <2>6. ~TimePasses
    BY <1>1 DEF TimePasses
  <2> QED
    BY <1>1, <2>3, <2>4, <2>5, <2>6 DEF Next, Over
<1>2. IInv /\ IInv' /\ [Next]_vars
        => [late => /\ StepsLeft' \in Nat /\ StepsLeft' <= StepsLeft
                    /\ mainVars' # mainVars => StepsLeft' < StepsLeft]_vars
  BY <1>1
<1> QED
  BY Invariance, <1>2, PTL DEF Spec, TimeLimitPressed

----------------------------------------------------------------------------
(* A restricted call comes to its turn *)

(* How TurnsLeft adds up: c calls and d steps of the round to go, r records,
   n of m calls made. *)
LEMMA TenTimes ==
  ASSUME NEW c \in Nat, NEW d \in Nat, NEW r \in Nat,
         NEW m \in Nat, NEW n \in Nat
  PROVE  /\ n <= m => 10 * c + d + r + (m - n) \in Nat
         /\ \A b, e, q, o \in Nat :
              /\ b <= c /\ e <= d /\ q <= r + (o - n)
              => 10 * b + e + q + (m - o) <= 10 * c + d + r + (m - n)
         /\ \A b, e, q \in Nat :
              b <= c /\ e <= d /\ q <= r /\ (e < d \/ q < r)
              => 10 * b + e + q + (m - n) < 10 * c + d + r + (m - n)
  OBVIOUS

LEMMA TurnsLeftFacts ==
  ASSUME IInv, NEW k
  PROVE  /\ Ahead(k) \in SUBSET Calls /\ Cardinality(Ahead(k)) \in Nat
         /\ Pending \in SUBSET Calls
         /\ ToRecv[pc] \in 0..8 /\ TurnsLeft(k) \in Nat
<1>1. Pending \in SUBSET Calls /\ Ahead(k) \in SUBSET Calls
  BY DEF IInv, TypeOK, Pending, Ahead
<1>2. Cardinality(Ahead(k)) \in Nat
  BY <1>1, CallsFinite
<1>3. ToRecv[pc] \in 0..8
  <2>1. pc \in {"isRunning", "ring", "notify", "consume", "recv", "send",
               "flush", "free", "stopped", "killed"}
    BY Zenon DEF IInv, TypeOK
  <2> QED
    BY <2>1 DEF ToRecv
<1>4. TurnsLeft(k) \in Nat
  <2>1. /\ Cardinality(ring) \in Nat /\ Len(made) \in Nat
        /\ Len(made) <= MaxCalls /\ MaxCalls \in Nat
    BY StepsLeftFacts
  <2>2. ToRecv[pc] \in Nat
    BY <1>3
  <2> QED
    BY ONLY <1>2, <2>1, <2>2, TenTimes DEF TurnsLeft
<1> QED
  BY <1>1, <1>2, <1>3, <1>4, Zenon

(* A step that adds no call before k. *)
LEMMA NoneBefore ==
  ASSUME IInv, NEW k, Ahead(k)' \subseteq Ahead(k)
  PROVE  /\ Cardinality(Ahead(k)') <= Cardinality(Ahead(k))
         /\ Cardinality(Ahead(k)') \in Nat
  BY TurnsLeftFacts, Shrinks, CallsFinite

(* Steps that end waits add none. *)
LEMMA StillWaitAhead ==
  ASSUME NEW calls \in SUBSET waiting, StillWait(calls), NEW k
  PROVE  Ahead(k)' \subseteq Ahead(k)
  BY DEF StillWait, Ahead, Pending

LEMMA EndsAhead ==
  ASSUME NEW tasks, Ends(tasks), NEW k
  PROVE  Ahead(k)' \subseteq Ahead(k)
<1>1. PICK calls \in SUBSET waiting : StillWait(calls)
  BY DEF Ends
<1> QED
  BY <1>1, StillWaitAhead

(* A step of main, but for the one that takes a call. *)
LEMMA RoundGoesOn ==
  ASSUME IInv, NEW k, made' = made, ring' = ring,
         Ahead(k)' \subseteq Ahead(k),
         (ToRecv[pc])' \in Nat, (ToRecv[pc])' < ToRecv[pc]
  PROVE  TurnsLeft(k)' < TurnsLeft(k)
<1>1. /\ Cardinality(Ahead(k)') <= Cardinality(Ahead(k))
      /\ Cardinality(Ahead(k)') \in Nat /\ Cardinality(Ahead(k)) \in Nat
      /\ ToRecv[pc] \in 0..8
  BY NoneBefore, TurnsLeftFacts
<1>2. Cardinality(ring) \in Nat /\ Len(made) \in Nat /\ MaxCalls \in Nat
  BY StepsLeftFacts
<1>3. made' = made /\ ring' = ring
      /\ (ToRecv[pc])' \in Nat /\ (ToRecv[pc])' < ToRecv[pc]
  OBVIOUS
<1>4. ToRecv[pc] \in Nat
  BY <1>1
<1> QED
  BY ONLY <1>1, <1>2, <1>3, <1>4, TenTimes DEF TurnsLeft

(* A record is consumed, by pollmethod or stop. *)
LEMMA ConsumeTurns ==
  ASSUME IInv, IInv', HandleEvent, UNCHANGED <<pc, ready, listener, made>>,
         NEW k
  PROVE  TurnsLeft(k)' < TurnsLeft(k)
<1>1. Cardinality(ring') <= Cardinality(ring) - 1 /\ Cardinality(ring') \in Nat
  BY HandleEventCounts, CallsFinite DEF IInv, TypeOK
<1>2. Ahead(k)' = Ahead(k) /\ (ToRecv[pc])' = ToRecv[pc]
  BY DEF Ahead, Pending, ToRecv, listener
<1>3. /\ Cardinality(ring) \in Nat /\ Len(made) \in Nat /\ MaxCalls \in Nat
      /\ Cardinality(Ahead(k)) \in Nat /\ ToRecv[pc] \in 0..8
      /\ made' = made
  BY StepsLeftFacts, TurnsLeftFacts
<1>4. ToRecv[pc] \in Nat /\ Cardinality(ring') < Cardinality(ring)
  BY ONLY <1>1, <1>3
<1> QED
  BY ONLY <1>1, <1>2, <1>3, <1>4, TenTimes DEF TurnsLeft

(* RECV takes the oldest, which is k or goes before it. *)
LEMMA ReceiveTurns ==
  ASSUME IInv, Receive, NEW k \in Pending
  PROVE  TurnsLeft(k)' < TurnsLeft(k)
<1>1. PICK j \in Pending : IsOldest(j, Pending) /\ pc' = "send" /\ Take(j)
  BY DEF Receive
<1>2. /\ pc = "recv" /\ made' = made /\ ring' = ring /\ waiting' = waiting
      /\ sent' = sent \cup {j}
  BY <1>1 DEF Receive, Take, taskVars
<1>3. j \in Ahead(k) /\ Ahead(k)' = Ahead(k) \ {j}
  BY <1>1, <1>2 DEF Ahead, Pending, IsOldest
<1>4. Cardinality(Ahead(k)') = Cardinality(Ahead(k)) - 1
  BY <1>3, TurnsLeftFacts, CallsFinite, FS_RemoveElement
<1>5. ToRecv[pc] = 2 /\ (ToRecv[pc])' = 8
  BY <1>1, <1>2 DEF ToRecv
<1> QED
  BY <1>2, <1>4, <1>5, TurnsLeftFacts, StepsLeftFacts DEF TurnsLeft

(* A step of main. *)
LEMMA MainTurns ==
  ASSUME IInv, IInv', MainNext, ~PollFails, NEW k \in Pending
  PROVE  TurnsLeft(k)' < TurnsLeft(k)
<1>1. ASSUME UNCHANGED <<waiting, sent>>
      PROVE  Ahead(k)' \subseteq Ahead(k)
  BY <1>1 DEF Ahead, Pending
<1>2. CASE IsRunning
  <2>1. (ToRecv[pc])' \in Nat /\ (ToRecv[pc])' < ToRecv[pc]
    BY <1>2 DEF IsRunning, ToRecv
  <2> QED
    BY <1>1, <1>2, <2>1, RoundGoesOn DEF IsRunning, listener, taskVars
<1>3. CASE PollRing
  <2>1. (ToRecv[pc])' \in Nat /\ (ToRecv[pc])' < ToRecv[pc]
    BY <1>3 DEF PollRing, ToRecv
  <2> QED
    BY <1>1, <1>3, <2>1, RoundGoesOn DEF PollRing, listener, taskVars
<1>4. CASE PollNotify
  <2>1. pc = "notify" /\ pc' = "consume" /\ "notify" \in ready'
    BY <1>4 DEF PollNotify
  <2>2. (ToRecv[pc])' \in Nat /\ (ToRecv[pc])' < ToRecv[pc]
    BY <2>1 DEF ToRecv
  <2> QED
    BY <1>1, <1>4, <2>2, RoundGoesOn DEF PollNotify, listener, taskVars
<1>5. CASE Consume
  <2>1. CASE HandleEvent /\ pc' = pc
    BY <1>5, <2>1, ConsumeTurns DEF Consume, taskVars
  <2>2. CASE pc' = AfterConsume /\ UNCHANGED <<events, ring>>
    <3>1. pc = "consume" /\ ready' = ready
      BY <1>5 DEF Consume
    <3>2. (ToRecv[pc])' \in Nat /\ (ToRecv[pc])' < ToRecv[pc]
      BY <2>2, <3>1 DEF AfterConsume, ToRecv
    <3> QED
      BY <1>1, <1>5, <2>2, <3>2, RoundGoesOn DEF Consume, listener, taskVars
  <2> QED
    BY <1>5, <2>1, <2>2 DEF Consume
<1>6. CASE Receive
  BY <1>6, ReceiveTurns
<1>7. CASE Answer
  <2>1. Ahead(k)' \subseteq Ahead(k)
    BY <1>7, StillWaitAhead DEF Answer
  <2>2. (ToRecv[pc])' \in Nat /\ (ToRecv[pc])' < ToRecv[pc]
    BY <1>7 DEF Answer, ToRecv
  <2> QED
    BY <1>7, <2>1, <2>2, RoundGoesOn DEF Answer, taskVars
<1>8. CASE Stop
  <2>1. CASE HandleEvent /\ pc' = pc
    BY <1>8, <2>1, ConsumeTurns DEF Stop, taskVars
  <2>2. CASE pc' = "free" /\ UNCHANGED <<events, ring>>
    <3>1. (ToRecv[pc])' \in Nat /\ (ToRecv[pc])' < ToRecv[pc]
      BY <1>8, <2>2 DEF Stop, ToRecv
    <3> QED
      BY <1>1, <1>8, <2>2, <3>1, RoundGoesOn DEF Stop, listener, taskVars
  <2> QED
    BY <1>8, <2>1, <2>2 DEF Stop
<1>9. CASE Kill
  <2>1. Ahead(k)' \subseteq Ahead(k)
    BY <1>9, EndsAhead DEF Kill
  <2>2. (ToRecv[pc])' \in Nat /\ (ToRecv[pc])' < ToRecv[pc]
    BY <1>9 DEF Kill, ToRecv
  <2> QED
    BY <1>9, <2>1, <2>2, RoundGoesOn DEF Kill
<1>10. CASE Detach
  <2>1. /\ pc = "free" /\ pc' = "stopped" /\ ring' = {} /\ made' = made
        /\ UNCHANGED <<waiting, sent>>
    BY <1>10 DEF Detach, listener, taskVars
  <2>2. ToRecv[pc] = 2 /\ (ToRecv[pc])' = 1 /\ Cardinality(ring') = 0
    BY <2>1, FS_EmptySet DEF ToRecv
  <2>3. /\ Cardinality(Ahead(k)') <= Cardinality(Ahead(k))
        /\ Cardinality(Ahead(k)') \in Nat /\ Cardinality(Ahead(k)) \in Nat
    BY <1>1, <2>1, NoneBefore, TurnsLeftFacts
  <2>4. Cardinality(ring) \in Nat /\ Len(made) \in Nat /\ MaxCalls \in Nat
    BY StepsLeftFacts
  <2> QED
    BY ONLY <2>1, <2>2, <2>3, <2>4, TenTimes DEF TurnsLeft
<1> QED
  BY <1>2, <1>3, <1>4, <1>5, <1>6, <1>7, <1>8, <1>9, <1>10 DEF MainNext

(* A call that is made later than k does not go before it. *)
LEMMA TaskTurns ==
  ASSUME IInv, IInv', TaskNext, NEW k \in Pending
  PROVE  UNCHANGED mainVars /\ TurnsLeft(k)' <= TurnsLeft(k)
<1>1. UNCHANGED mainVars /\ (ToRecv[pc])' = ToRecv[pc]
  BY DEF TaskNext, PlainCall, RestrictedCall, Interrupt, Exit, mainVars, ToRecv
<1>2. /\ Cardinality(ring') \in Nat
      /\ made' \in Seq(Call) /\ Len(made') <= MaxCalls
      /\ made \in Seq(Call)
  <2>1. /\ ring' \in SUBSET Calls /\ made' \in Seq(Call)
        /\ Len(made') <= MaxCalls /\ made \in Seq(Call)
    BY Zenon DEF IInv, TypeOK
  <2> QED
    BY <2>1, CallsFinite
<1>3. /\ Cardinality(ring) \in Nat /\ Len(made) \in Nat /\ MaxCalls \in Nat
      /\ Cardinality(Ahead(k)) \in Nat /\ ToRecv[pc] \in Nat
  <2>1. ToRecv[pc] \in 0..8
    BY TurnsLeftFacts
  <2> QED
    BY <2>1, StepsLeftFacts, TurnsLeftFacts
<1>4. ASSUME Ahead(k)' \subseteq Ahead(k), Len(made') \in Nat,
             Cardinality(ring') <= Cardinality(ring) + (Len(made') - Len(made))
      PROVE  TurnsLeft(k)' <= TurnsLeft(k)
  <2>1. /\ Cardinality(Ahead(k)') <= Cardinality(Ahead(k))
        /\ Cardinality(Ahead(k)') \in Nat
    BY <1>4, NoneBefore
  <2> QED
    BY ONLY <1>1, <1>2, <1>3, <1>4, <2>1, TenTimes DEF TurnsLeft
<1>5. PICK t \in Tasks :
        PlainCall(t) \/ RestrictedCall(t) \/ Interrupt(t) \/ Exit(t)
  BY DEF TaskNext
<1>6. CASE Interrupt(t) \/ Exit(t)
  <2>1. ring' = ring /\ made' = made
    BY <1>6 DEF Interrupt, Exit
  <2>2. Ahead(k)' \subseteq Ahead(k)
    BY <1>6, StillWaitAhead, EndsAhead DEF Interrupt, Exit
  <2>3. /\ Len(made') \in Nat
        /\ Cardinality(ring') <= Cardinality(ring) + (Len(made') - Len(made))
    BY ONLY <1>3, <2>1
  <2> QED
    BY <1>1, <1>4, <2>2, <2>3
<1>7. CASE PlainCall(t) \/ RestrictedCall(t)
  <2>1. PICK r \in BOOLEAN : Makes(t, r)
    BY <1>7, Zenon DEF PlainCall, RestrictedCall
  <2>2. Len(made') = Len(made) + 1
    BY <1>2, <2>1 DEF Makes
  <2>3. Len(made') \in Calls
    BY <1>2, <1>3, <2>2 DEF Calls
  <2>4. ring' = ring \/ ring' = ring \cup {Len(made')}
    BY <1>7 DEF PlainCall, RestrictedCall, Store
  <2>5. Cardinality(ring') <= Cardinality(ring) + 1
    BY <1>3, <2>3, <2>4, Grows, StepsLeftFacts
  <2>6. Pending \subseteq 1 .. Len(made)
    BY DomainMade DEF IInv, MadeInv, Pending
  <2>7. Pending' \subseteq Pending \cup {Len(made')}
    BY <1>7 DEF PlainCall, RestrictedCall, Pending, listener
  <2>8. Ahead(k)' \subseteq Ahead(k)
    <3>1. ~(Len(made') <= k)
      BY <1>3, <2>2, <2>6
    <3>2. Ahead(k)' = {j \in Pending' : j <= k}
      BY DEF Ahead
    <3> QED
      BY ONLY <2>7, <3>1, <3>2 DEF Ahead
  <2>9. /\ Len(made') \in Nat
        /\ Cardinality(ring') <= Cardinality(ring) + (Len(made') - Len(made))
    BY ONLY <1>2, <1>3, <2>2, <2>5
  <2> QED
    BY <1>1, <1>4, <2>8, <2>9
<1> QED
  BY <1>5, <1>6, <1>7

(* The rounds of main's loop come to every call that waits for RECV: no task
   keeps another waiting but by calls that were made before or are recorded. *)
THEOREM TurnAlwaysComes == Spec => TurnComes
<1> DEFINE Nearer(k) ==
             /\ TurnsLeft(k)' \in Nat /\ TurnsLeft(k)' <= TurnsLeft(k)
             /\ <<pc, ready, taken, events>>' # <<pc, ready, taken, events>>
                  => TurnsLeft(k)' < TurnsLeft(k)
<1>0. IInv => \A k : TurnsLeft(k) \in Nat
  BY TurnsLeftFacts
<1>1. IInv' => (\A k : TurnsLeft(k) \in Nat)'
  BY <1>0, PTL
<1>2. ASSUME IInv, IInv', [Next]_vars, ~PollFails, NEW k \in Pending
      PROVE  Nearer(k)
  <2>1. TurnsLeft(k) \in Nat /\ TurnsLeft(k)' \in Nat
    BY <1>0, <1>1, <1>2
  <2>2. CASE MainNext
    BY <1>2, <2>1, <2>2, MainTurns
  <2>3. CASE TaskNext
    BY <1>2, <2>1, <2>3, TaskTurns DEF mainVars
  <2>4. CASE TimePasses \/ UNCHANGED vars
    <3>1. /\ UNCHANGED <<pc, ready, taken, events>>
          /\ TurnsLeft(k)' = TurnsLeft(k)
      BY <2>4 DEF TimePasses, vars, mainVars, listener, taskVars, TurnsLeft,
                  Ahead, Pending, ToRecv
    <3> QED
      BY <2>1, <3>1
  <2> QED
    BY <1>2, <2>2, <2>3, <2>4 DEF Next, Over
<1>3. IInv /\ IInv' /\ [Next]_vars
        => [\A k \in Pending : ~PollFails /\ k \in Pending' => Nearer(k)]_vars
  BY <1>2
<1> QED
  BY Invariance, <1>3, PTL DEF Spec, TurnComes

============================================================================
