------------------------------ MODULE Observer ------------------------------
(***************************************************************************)
(* What fragarach records of a started target: the BPF program that stores *)
(* the calls of the target in a ring buffer (tracer.bpf.c), the seccomp    *)
(* listener through which the restricted calls of every task wait for an   *)
(* answer, and the loop of main.cpp with Tracer::pollmethod, which reads   *)
(* from the two, one after the other, into one vector.                     *)
(*                                                                         *)
(* A call is known by its place among the calls made.  Ring buffer and     *)
(* listener are queues in that order, so they are sets of calls here.  The *)
(* tracer was started without a failure: Session has what happens          *)
(* otherwise.                                                              *)
(***************************************************************************)
EXTENDS Naturals, Sequences, FiniteSets

CONSTANTS
  Threads,     \* the threads the target may have, its first among them
  First,
  Descendants, \* tasks of the processes the target may start
  Capacity,    \* the records that fit into the ring buffer
  PollFails,   \* whether poll may fail
  MaxCalls,    \* bounds of the model: the calls that are made,
  MaxSignals   \*   the calls that a signal interrupts

Tasks == Threads \cup Descendants

ASSUME TasksAssumption == First \in Threads
ASSUME BoundsAssumption ==
  Capacity \in Nat /\ MaxCalls \in Nat /\ MaxSignals \in Nat
ASSUME PollAssumption == PollFails \in BOOLEAN

VARIABLES
  pc,          \* control point of main
  late,        \* the time limit has passed
  ready,       \* poll's answer: the descriptors with POLLIN in revents
  taken,       \* the call of the notification RECV returned, 0 for none
  events,      \* Tracer::events
  ring,        \* the calls stored in the ring buffer and not yet consumed
  waiting,     \* the listener's queue: the calls that wait for an answer,
  sent,        \*   those of them that RECV has taken,
  requests,    \*   and the semaphore on which RECV waits
  life,        \* whether a task is still to come, alive or ended
  made,        \* history: all calls made, in their order
  dropped,     \* history: the calls that found the ring buffer full
  interrupted  \* history: the calls a signal interrupted in their wait

mainVars == <<pc, late, ready, taken, events>>
taskVars == <<life, made, dropped, interrupted>>
listener == <<waiting, sent, requests>>
vars     == <<mainVars, ring, listener, taskVars>>

Calls == 1 .. MaxCalls

Call  == [task : Tasks, restricted : BOOLEAN, watched : BOOLEAN]
Event == [call : Calls, blocked : {0, 1}]

(* Type correctness, and the bound of the ring buffer. *)
TypeOK ==
  /\ pc \in {"isRunning", "ring", "notify", "consume", "recv", "send",
             "flush", "free", "stopped", "killed"}
  /\ late \in BOOLEAN
  /\ ready \subseteq {"ring", "notify"}
  /\ taken \in Calls \cup {0}
  /\ events \in Seq(Event)
  /\ ring \subseteq Calls /\ Cardinality(ring) <= Capacity
  /\ waiting \subseteq Calls /\ sent \subseteq waiting
  /\ requests \in Nat
  /\ life \in [Tasks -> {"to come", "alive", "ended"}]
  /\ made \in Seq(Call) /\ Len(made) <= MaxCalls
  /\ dropped \subseteq Calls /\ interrupted \subseteq Calls

(* main enters its loop; the child has one thread *)
Init ==
  /\ pc = "isRunning" /\ late = FALSE /\ ready = {} /\ taken = 0
  /\ events = <<>> /\ ring = {}
  /\ waiting = {} /\ sent = {} /\ requests = 0
  /\ life = [t \in Tasks |-> IF t = First THEN "alive" ELSE "to come"]
  /\ made = <<>> /\ dropped = {} /\ interrupted = {}

----------------------------------------------------------------------------
(* The tasks in the sandbox *)

(* from Tracer::start to the end of Tracer::stop *)
Attached == pc \notin {"stopped", "killed"}

(* until stop has found the ring buffer empty *)
Watching == Attached /\ pc # "free"

Alive    == {t \in Tasks : life[t] = "alive"}
Pending  == waiting \ sent
Waits(t) == \E k \in waiting : made[k].task = t
Runs(t)  == t \in Alive /\ ~Waits(t) /\ Len(made) < MaxCalls

Makes(t, restricted) ==
  made' = Append(made, [task |-> t, restricted |-> restricted,
                        watched |-> Watching])

(* handle_syscall: the record of the call made last, if there is room.  A  *)
(* faulty variant: it is written without a look at what reserve returned.  *)
StoreUnchecked(t) ==
  /\ ring' = ring \cup IF t \in Threads /\ Attached THEN {Len(made')} ELSE {}
  /\ UNCHANGED dropped
Store(t) ==
  IF ~(t \in Threads /\ Attached)
    THEN UNCHANGED <<ring, dropped>>
    ELSE IF Cardinality(ring) < Capacity
      THEN ring' = ring \cup {Len(made')} /\ UNCHANGED dropped
      ELSE dropped' = dropped \cup {Len(made')} /\ UNCHANGED ring

(* a thread may start threads and processes, a process only processes *)
Starts(t, u) ==
  /\ life[u] = "to come" /\ (u \in Threads => t \in Threads)
  /\ life' = [life EXCEPT ![u] = "alive"]

(* A call the filter allows: the tracepoint is reached, the call returns,  *)
(* perhaps with a new task.                                                *)
PlainCall(t) ==
  /\ Runs(t)
  /\ Makes(t, FALSE) /\ Store(t)
  /\ UNCHANGED life \/ \E u \in Tasks : Starts(t, u)
  /\ UNCHANGED <<mainVars, listener, interrupted>>

(* A call of the filter's list: seccomp comes before the tracepoint, which *)
(* a denied call never reaches.                                            *)
RestrictedCall(t) ==
  /\ Runs(t)
  /\ Makes(t, TRUE)
  /\ waiting' = waiting \cup {Len(made')}
  /\ requests' = requests + 1
  /\ UNCHANGED <<mainVars, ring, sent, life, dropped, interrupted>>

(* The calls whose wait goes on *)
StillWait(calls) == waiting' = calls /\ sent' = sent \cap calls

(* A signal ends the wait.  The task then runs the handler, and makes the  *)
(* call anew or does without: either way what follows are further calls.   *)
Interrupt(t) ==
  \E k \in waiting :
    /\ made[k].task = t
    /\ Cardinality(interrupted) < MaxSignals
    /\ StillWait(waiting \ {k})
    /\ interrupted' = interrupted \cup {k}
    /\ UNCHANGED <<mainVars, ring, requests, life, made, dropped>>

(* These tasks end, and with the last thread of the target all: it is the  *)
(* first process of its PID namespace.                                     *)
Ends(tasks) ==
  LET left == IF Alive \cap Threads \subseteq tasks THEN {} ELSE Alive \ tasks
  IN  /\ life' = [t \in Tasks |-> IF t \in Alive \ left THEN "ended"
                                                       ELSE life[t]]
      /\ StillWait({k \in waiting : made[k].task \in left})

Exit(t) ==
  /\ t \in Alive
  /\ Ends({t}) \/ (t \in Threads /\ Ends(Threads))
  /\ UNCHANGED <<mainVars, ring, requests, made, dropped, interrupted>>

TaskNext ==
  \E t \in Tasks : PlainCall(t) \/ RestrictedCall(t) \/ Interrupt(t) \/ Exit(t)

----------------------------------------------------------------------------
(* main's loop and the tracer *)

TimePasses ==
  /\ ~late /\ Watching /\ pc # "flush"
  /\ late' = TRUE
  /\ UNCHANGED <<pc, ready, taken, events, ring, listener, taskVars>>

(* The loop's two conditions.  A faulty variant: the limit is forgotten. *)
LoopIsOverAtExit == Alive = {}
LoopIsOver == Alive = {} \/ late

IsRunning ==
  /\ pc = "isRunning"
  /\ pc' = IF LoopIsOver THEN "flush" ELSE "ring"
  /\ UNCHANGED <<late, ready, taken, events, ring, listener, taskVars>>

(* The kernel looks at the descriptors in the order of the array, waits    *)
(* for at most 100ms and tries again.  When poll fails, revents is never   *)
(* written: it is what the stack held.                                     *)
PollRing ==
  /\ pc = "ring"
  /\ \/ pc' = "notify" /\ ready' = IF ring # {} THEN {"ring"} ELSE {}
     \/ PollFails /\ pc' = "consume" /\ ready' \in SUBSET {"ring", "notify"}
  /\ UNCHANGED <<late, taken, events, ring, listener, taskVars>>

PollNotify ==
  /\ pc = "notify" /\ pc' = "consume"
  /\ ready' = IF Pending # {} THEN ready \cup {"notify"} ELSE ready
  /\ UNCHANGED <<late, taken, events, ring, listener, taskVars>>

IsOldest(k, calls) == k \in calls /\ \A j \in calls : k <= j

Log(k, flag) == events' = Append(events, [call |-> k, blocked |-> flag])

(* handleEvent, of the oldest record.  A faulty variant: of any. *)
HandleSomeEvent ==
  \E k \in ring : Log(k, 0) /\ ring' = ring \ {k}
HandleEvent ==
  \E k \in ring : IsOldest(k, ring) /\ Log(k, 0) /\ ring' = ring \ {k}

(* What pollmethod does next.  Faulty variants: revents is not tested; the *)
(* listener is looked at only when the ring buffer was empty.              *)
AfterConsumeUntested == "recv"
AfterConsumeElse ==
  IF "notify" \in ready /\ "ring" \notin ready THEN "recv" ELSE "isRunning"
AfterConsume == IF "notify" \in ready THEN "recv" ELSE "isRunning"

(* ring_buffer__consume goes on until it finds the ring buffer empty.  The *)
(* calls are bounded here, so it does: Session has the target that never   *)
(* lets it.                                                                *)
Consume ==
  /\ pc = "consume"
  /\ IF "ring" \in ready /\ ring # {}
       THEN HandleEvent /\ UNCHANGED pc
       ELSE pc' = AfterConsume /\ UNCHANGED <<events, ring>>
  /\ UNCHANGED <<late, ready, taken, listener, taskVars>>

(* RECV takes the oldest notification, and handleSeccompNotification       *)
(* records its call.  A faulty variant: only calls of the target are       *)
(* recorded, as in handle_syscall.                                         *)
TakeTargets(k) ==
  /\ taken' = k /\ sent' = sent \cup {k}
  /\ IF made[k].task \in Threads THEN Log(k, 1) ELSE UNCHANGED events
Take(k) == taken' = k /\ sent' = sent \cup {k} /\ Log(k, 1)

(* RECV finds none when the wait was ended since poll looked. *)
Receive ==
  /\ pc = "recv" /\ requests > 0
  /\ requests' = requests - 1
  /\ \/ Pending = {} /\ pc' = "isRunning" /\ UNCHANGED <<taken, events, sent>>
     \/ \E k \in Pending : IsOldest(k, Pending) /\ pc' = "send" /\ Take(k)
  /\ UNCHANGED <<late, ready, ring, waiting, taskVars>>

(* SEND ends the wait with EPERM, unless it has ended meanwhile.  Faulty   *)
(* variants: the response has no id; pollmethod polls again before it      *)
(* returns.                                                                *)
AnswerNobody ==
  /\ pc = "send" /\ pc' = "isRunning"
  /\ taken' = 0
  /\ UNCHANGED <<late, ready, events, ring, listener, taskVars>>
AnswerAndPoll ==
  /\ pc = "send" /\ pc' = "ring"
  /\ taken' = 0
  /\ StillWait(waiting \ {taken})
  /\ UNCHANGED <<late, ready, events, ring, requests, taskVars>>
Answer ==
  /\ pc = "send" /\ pc' = "isRunning"
  /\ taken' = 0
  /\ StillWait(waiting \ {taken})
  /\ UNCHANGED <<late, ready, events, ring, requests, taskVars>>

(* Tracer::stop consumes what is left.  A faulty variant: it does not. *)
StopAtOnce ==
  /\ pc = "flush" /\ pc' = "free"
  /\ ring' = {}
  /\ UNCHANGED <<late, ready, taken, events, listener, taskVars>>
Stop ==
  /\ pc = "flush"
  /\ IF ring # {} THEN HandleEvent /\ UNCHANGED pc
                  ELSE pc' = "free" /\ UNCHANGED <<events, ring>>
  /\ UNCHANGED <<late, ready, taken, listener, taskVars>>

(* It frees its side of the ring buffer, and only then the BPF program is  *)
(* detached: what that has stored in between is gone.                      *)
Detach ==
  /\ pc = "free" /\ pc' = "stopped"
  /\ ring' = {}
  /\ UNCHANGED <<late, ready, taken, events, listener, taskVars>>

(* Sandbox::cleanup: the target's end is that of its PID namespace *)
Kill ==
  /\ pc = "stopped" /\ pc' = "killed"
  /\ Ends(Tasks)
  /\ UNCHANGED <<late, ready, taken, events, ring, requests, made, dropped,
                 interrupted>>

MainNext ==
  \/ IsRunning \/ PollRing \/ PollNotify \/ Consume
  \/ Receive \/ Answer \/ Stop \/ Detach \/ Kill

(* main goes on to build the graph *)
Over == pc = "killed" /\ UNCHANGED vars

Next == TaskNext \/ TimePasses \/ MainNext \/ Over

Spec == Init /\ [][Next]_vars

(* main is scheduled; of the tasks, and of the time, nothing is assumed *)
FairSpec == Spec /\ WF_vars(MainNext)

----------------------------------------------------------------------------
(* Safety *)

Record == INSTANCE EventLog WITH
            Threads <- Threads, Tasks <- Tasks, made <- made, events <- events

Recorded == Record!Recorded

(* The vector of Tracer is a record as EventLog promises it: pollmethod,   *)
(* handleEvent and handleSeccompNotification enter every call at most      *)
(* once, rightly flagged, and let only blocked calls overtake.             *)
RecordKept == Record!Spec

(* In the record the calls of one task are in their order, but for blocked *)
(* calls that overtake calls made before them: poll looks at the ring      *)
(* buffer first, and at the listener when more calls have been made.       *)
OnlyBlockedOvertake == Record!OnlyBlockedOvertake

(* A call of the target that found room in the ring buffer is recorded or  *)
(* still there, across every poll and consume, if it was made before stop  *)
(* found the buffer empty: that gets what arrived after the last poll.     *)
NothingLost ==
  \A k \in DOMAIN made :
    /\ made[k].watched /\ ~made[k].restricted /\ made[k].task \in Threads
    /\ k \notin dropped
    => k \in Recorded \cup ring

(* A restricted call is in the record before its task can go on, whatever  *)
(* else calls, ends or is interrupted, and whatever poll's answer is worth *)
(* by the time handleSeccompNotification acts on it.                       *)
LoggedBeforeDenied ==
  \A k \in DOMAIN made :
    made[k].restricted /\ made[k].task \in Alive /\ k \notin interrupted
      => k \in Recorded \cup waiting

(* RECV never waits when poll reported a notification, although the wait   *)
(* may have ended since: the loop, and with it the time limit, would hang. *)
ReceiveNeverBlocks == pc = "recv" /\ ~PollFails => requests > 0

(* The steps main has left when it sees that the time is up: at most one   *)
(* for each record and a last round.                                       *)
ToTheEnd == [ring |-> 9, notify |-> 8, consume |-> 7, recv |-> 6, send |-> 5,
             isRunning |-> 4, flush |-> 3, free |-> 2, stopped |-> 1,
             killed |-> 0]

StepsLeft == Cardinality(ring) + (MaxCalls - Len(made)) + ToTheEnd[pc]

(* Once the time is up, every step of main brings the end of the target    *)
(* nearer, and no task can put it off but by calls that are recorded: not  *)
(* by ending, by signals, or by more calls than pollmethod answers.        *)
TimeLimitPressed ==
  [][late => /\ StepsLeft' \in Nat /\ StepsLeft' <= StepsLeft
             /\ mainVars' # mainVars => StepsLeft' < StepsLeft]_vars

(* The same for a call that waits for RECV: ten steps for each call whose   *)
(* turn comes first, and what is left of the round.  A round that began    *)
(* before the call waited may end without a look at the listener.          *)
ToRecv == [send |-> 8, isRunning |-> 6, ring |-> 5, notify |-> 4, recv |-> 2,
           consume |-> IF "notify" \in ready THEN 3 ELSE 7,
           flush |-> 3, free |-> 2, stopped |-> 1, killed |-> 0]

Ahead(k) == {j \in Pending : j <= k}

TurnsLeft(k) ==
  10 * Cardinality(Ahead(k)) + ToRecv[pc]
    + Cardinality(ring) + (MaxCalls - Len(made))

(* A restricted call comes to its turn: while it waits, every step of main *)
(* brings it nearer, and no other task can delay it but by calls that are  *)
(* recorded before it; blocked calls that come later are answered later.   *)
TurnComes ==
  [][\A k \in Pending : ~PollFails /\ k \in Pending' =>
       /\ TurnsLeft(k)' \in Nat /\ TurnsLeft(k)' <= TurnsLeft(k)
       /\ <<pc, ready, taken, events>>' # <<pc, ready, taken, events>>
            => TurnsLeft(k)' < TurnsLeft(k)]_vars

----------------------------------------------------------------------------
(* Liveness *)

(* Every task that waits for the answer to a restricted call gets it or is *)
(* ended, long before any time limit: a round of main's loop handles one   *)
(* notification, and more may come.                                        *)
WaitEnds == \A t \in Tasks : Waits(t) ~> ~Waits(t)

(* When the time is up, the loop comes back to see it and ends the target: *)
(* main.cpp: "Sandbox timed out, killing child...".                        *)
LoopEnds == late ~> pc = "killed"

----------------------------------------------------------------------------
(* What the documentation says *)

(* README.md: "directed transitions between consecutive syscalls", between *)
(* neighbours in the record: in pollmethod, of a target with one thread.   *)
NeighboursInOrder ==
  \A j \in 2 .. Len(events) : events[j - 1].call < events[j].call

============================================================================
