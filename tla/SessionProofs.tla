--------------------------- MODULE SessionProofs ---------------------------
(***************************************************************************)
(* Proofs about Session, for every time limit and every set of calls that  *)
(* may fail.  All of them rest on one inductive invariant, IInv: at each   *)
(* pair of control points it says which pipe ends each process holds, what *)
(* the pipes can contain, and how far the child can be.                    *)
(***************************************************************************)
EXTENDS Session, TLAPS

BeforeClone == {"setup", "reset", "copy", "clone"}
BeforeGo == BeforeClone \cup {"close", "cgroup", "readfd", "getfd", "attach",
                              "go"}

(* The descriptors of main, a function of where it is. *)
MainFds ==
  IF ~PipesMade THEN {}
  ELSE IF main \in {"clone", "close"} THEN Ends
  ELSE IF main \in {"cgroup", "readfd"} THEN {"sync.w", "seccomp.r"}
  ELSE IF main \in {"getfd", "attach", "go"} THEN {"sync.w"}
  ELSE {}

(* The descriptors of the child, a function of where it is. *)
ChildFds ==
  IF child = "start" THEN Ends
  ELSE IF child \in {"mount", "sendfd"} THEN {"sync.r", "seccomp.w"}
  ELSE IF child = "await" THEN {"sync.r"}
  ELSE {}

FdsInv == fds["main"] = MainFds /\ fds["child"] = ChildFds

(* How far the child is when main is at a given point. *)
ProgressInv ==
  /\ childPID = "-1" <=> child = "none"
  /\ main \in BeforeClone \cup {"hung"} => child = "none"
  /\ main \in BeforeClone => PipesMade
  /\ main = "hung" => ~PipesMade
  /\ ~PipesMade => child = "none"
  /\ child = "none" /\ PipesMade
       => \/ main \in BeforeGo \cup {"dead"}
          \/ main = "exit" /\ "setup" \in failed
  /\ main \in BeforeGo => child \notin {"exec", "target", "reaped"}
  /\ main \in {"rmdir", "report", "exit"} => child \in {"none", "reaped"}

(* What the pipes carry. *)
DataInv ==
  /\ "sync" \in data => main \notin BeforeGo
  /\ "seccomp" \in data => child \notin {"none", "start", "mount", "sendfd"}
  /\ main \in {"close", "cgroup", "readfd"} =>
       /\ child = "await" => "seccomp" \in data
       /\ "seccomp" \in data => child = "await"

TracerInv ==
  /\ main \in BeforeGo \ {"go"} => ~tracer.attached /\ ~tracer.ring
  /\ main \in {"go", "stop", "flush"} \cup LoopPoints
       => tracer.attached \/ Failed({"load", "attach"})
  /\ main \in AfterLoop \ {"stop", "flush"} => ~tracer.attached
  /\ main \in BeforeGo \ {"getfd", "attach", "go"} => tracer.notify = "unset"
  /\ main = "getfd" =>
       \/ tracer.notify = "number" /\ child = "await"
       \/ tracer.notify = "unset" /\ child \in {"none", "zombie"}
  /\ main \in {"attach", "go"} \cup LoopPoints \cup AfterLoop =>
       \/ tracer.notify = "own"
       \/ Failed({"getfd"})
       \/ child \in {"none", "zombie", "reaped"}

CgroupInv ==
  /\ main \in BeforeClone => cgroup.written = 0 /\ ~cgroup.dir
  /\ main = "close" => cgroup.written = 0
  /\ main = "cgroup" => cgroup.written < CgroupFiles
  /\ main \in {"report", "exit"} => ~cgroup.dir
  /\ /\ child # "none" /\ main \notin {"close", "cgroup"}
     /\ ~Failed({"cgroup", "killed"})
    => cgroup.written = CgroupFiles

KillInv ==
  /\ main \in BeforeGo \cup LoopPoints \cup {"stop", "flush", "hung"}
       => killed = {}
  /\ "killed" \notin failed /\ main = "dead" => killed = {}
  /\ pidOwner = "other" => "reuse" \in failed
  /\ ChildAlive \/ child = "zombie" => pidOwner = "child"
  /\ main = "wait" /\ ChildAlive => "child" \in killed
  /\ main \in {"stop", "flush", "kill"} /\ ChildAlive => elapsed = Timeout
  /\ KillHitsOnlyChild

UpperInv ==
  /\ main = "copy" => upper \subseteq {"deep"}
  /\ main = "clone" => upper \ {"deep"} = {"target"}
  /\ child # "none" => "target" \in upper
  /\ NoLeftovers

IInv ==
  /\ TypeOK
  /\ FdsInv /\ ProgressInv /\ DataInv
  /\ TracerInv /\ CgroupInv /\ KillInv /\ UpperInv

----------------------------------------------------------------------------
(* Initially the invariant holds. *)
LEMMA InitInv == Init => IInv
  BY TimeoutAssumption DEF Init, IInv, TypeOK, FdsInv, MainFds, ChildFds,
     ProgressInv, DataInv, TracerInv, CgroupInv, KillInv, UpperInv,
     NoLeftovers, KillHitsOnlyChild, PipesMade, Failed, BeforeClone, BeforeGo,
     ChildAlive, LoopPoints, AfterLoop, MainPoints, ChildPoints, Ends,
     CgroupFiles, Contents

(* When fragarach dies, the new values of what dies with it are typed. *)
LEMMA MainDiesTyped ==
  ASSUME TypeOK, MainDies
  PROVE  /\ main' \in MainPoints
         /\ fds' \in [{"main", "child"} -> SUBSET Ends]
         /\ tracer' \in [attached : BOOLEAN, ring : BOOLEAN,
                         notify : {"unset", "number", "own", "invalid"}]
  BY DEF TypeOK, MainDies, MainPoints, Ends

(* Every step keeps the types.  That no fifth cgroup file is written is
   needed, so the lemma starts from IInv. *)
LEMMA TypeOKStep == IInv /\ [Next]_vars => TypeOK'
<1> SUFFICES ASSUME IInv, [Next]_vars PROVE TypeOK'
    OBVIOUS
<1> USE TimeoutAssumption, FaultsAssumption DEF IInv, TypeOK, CgroupInv, Ends,
      CgroupFiles, MainPoints, ChildPoints, LoopPoints, AfterLoop, BeforeClone,
      BeforeGo, ChildAlive, Fails, Failed, Outrun, Detach, MainDies,
      ChildExits, CollectZombie,
      Contents, ChildCloses, LaunchCloses
<1>1. CASE Setup
  BY <1>1 DEF Setup
<1>2. CASE ResetOverlay
  BY <1>2 DEF ResetOverlay
<1>3. CASE CopyTarget
  <2>1. upper' \in {upper, upper \cup {"target"}}
    BY <1>3 DEF CopyTarget
  <2> QED
    BY <1>3, <2>1 DEF CopyTarget
<1>4. CASE Clone
  BY <1>4 DEF Clone
<1>5. CASE CloseChildEnds
  BY <1>5 DEF CloseChildEnds
<1>6. CASE ConfigureCgroup
  BY <1>6 DEF ConfigureCgroup
<1>7. CASE ReadNotifyFd
  BY <1>7 DEF ReadNotifyFd
<1>8. CASE GetNotifyFd
  BY <1>8 DEF GetNotifyFd
<1>9. CASE AttachTracer
  BY <1>9 DEF AttachTracer
<1>10. CASE SendStartSignal
  <2>1. CASE PipesMade /\ NoneHolds("sync.r")
    <3>1. MainDies /\ UNCHANGED data
      BY <1>10, <2>1 DEF SendStartSignal
    <3> QED
      BY ONLY <1>10, <3>1, IInv, MainDiesTyped DEF SendStartSignal, IInv,
      TypeOK
  <2>2. CASE ~(PipesMade /\ NoneHolds("sync.r"))
    <3>1. /\ main' = "isRunning"
          /\ fds' = [fds EXCEPT !["main"] = @ \ {"sync.w"}]
          /\ data' \in {data \cup {"sync"}, data}
          /\ UNCHANGED tracer
      BY <1>10, <2>2 DEF SendStartSignal
    <3> QED
      BY <1>10, <3>1 DEF SendStartSignal
  <2> QED
    BY <2>1, <2>2
<1>11. CASE IsRunning
  BY <1>11 DEF IsRunning
<1>12. CASE CheckTimeout
  BY <1>12 DEF CheckTimeout
<1>13. CASE Poll
  <2>1. CASE ~MainDies
    BY <1>13, <2>1 DEF Poll, PollFails, MainDies
  <2>2. CASE MainDies
    <3>1. UNCHANGED <<child, childPID, pidOwner, data, cgroup, upper, elapsed,
                      killed>> /\ failed' \subseteq Faults
      BY <1>13 DEF Poll, PollFails
    <3> QED
      BY ONLY <2>2, <3>1, IInv, MainDiesTyped DEF IInv, TypeOK
  <2> QED
    BY <2>1, <2>2
<1>14. CASE StopTracer
  BY <1>14 DEF StopTracer
<1>15. CASE KillChild
  BY <1>15 DEF KillChild
<1>16. CASE ReapChild
  BY <1>16 DEF ReapChild
<1>17. CASE RemoveCgroup
  BY <1>17 DEF RemoveCgroup
<1>18. CASE Report
  BY <1>18 DEF Report
<1>19. CASE ChildCloseEnds
  BY <1>19 DEF ChildCloseEnds
<1>20. CASE ChildIsolates
  BY <1>20 DEF ChildIsolates
<1>21. CASE SendNotifyFd
  BY <1>21 DEF SendNotifyFd
<1>22. CASE AwaitStart
  BY <1>22 DEF AwaitStart
<1>23. CASE ExecTarget
  BY <1>23 DEF ExecTarget
<1>24. CASE TargetWrites
  BY <1>24 DEF TargetWrites
<1>25. CASE TargetExits
  BY <1>25 DEF TargetExits
<1>26. CASE KilledChildDies
  BY <1>26 DEF KilledChildDies
<1>27. CASE Tick
  BY <1>27 DEF Tick
<1>28. CASE MainKilled
  BY <1>28 DEF MainKilled
<1>29. CASE NumberReused
  BY <1>29 DEF NumberReused
<1>30. CASE Over
  BY <1>30 DEF Over, vars
<1>31. CASE UNCHANGED vars
  BY <1>31 DEF vars
<1>32. CASE ConsumeRest \/ TargetPauses \/ ReceiveReturns
  BY <1>32 DEF ConsumeRest, TargetPauses, ConsumeReturns, ReceiveReturns
<1> QED
  BY ONLY [Next]_vars, <1>1, <1>2, <1>3, <1>4, <1>5, <1>6, <1>7, <1>8, <1>9,
      <1>10, <1>11, <1>12, <1>13, <1>14, <1>15, <1>16, <1>17, <1>18, <1>19,
      <1>20, <1>21, <1>22, <1>23, <1>24, <1>25, <1>26, <1>27, <1>28, <1>29,
      <1>30, <1>31, <1>32
     DEF Next, MainNext, ChildNext

(* Every step leaves each process with the descriptors its place says. *)
LEMMA FdsInvStep == IInv /\ [Next]_vars => FdsInv'
<1> SUFFICES ASSUME IInv, [Next]_vars PROVE FdsInv'
    OBVIOUS
<1> USE TimeoutAssumption, FaultsAssumption DEF IInv, TypeOK, FdsInv, MainFds,
      ChildFds, Ends, PipesMade, ProgressInv, ChildCloses, LaunchCloses,
      MainPoints, ChildPoints, LoopPoints, AfterLoop, BeforeClone, BeforeGo,
      ChildAlive, Fails, Failed, Outrun, Detach, MainDies, ChildExits,
      CollectZombie
<1>1. CASE CopyTarget
  BY <1>1 DEF CopyTarget
<1>2. CASE Clone
  BY <1>2 DEF Clone
<1>3. CASE CloseChildEnds
  BY <1>3 DEF CloseChildEnds
<1>4. CASE ReadNotifyFd
  <2>1. CASE PipesMade
    <3>1. /\ main = "readfd" /\ main' = "getfd"
          /\ fds' = [fds EXCEPT !["main"] = @ \ {"seccomp.r"}]
          /\ UNCHANGED <<child, failed>>
      BY <1>4, <2>1 DEF ReadNotifyFd
    <3>2. fds["main"] = {"sync.w", "seccomp.r"} /\ fds["child"] = ChildFds
      BY <3>1, <2>1
    <3> QED
      BY ONLY <2>1, <3>1, <3>2, TypeOK DEF FdsInv, MainFds, ChildFds, PipesMade,
         TypeOK
  <2>2. CASE ~PipesMade
    BY <1>4, <2>2 DEF ReadNotifyFd
  <2> QED
    BY <2>1, <2>2
<1>5. CASE SendStartSignal
  <2>1. CASE PipesMade /\ NoneHolds("sync.r")
    <3>1. MainDies
      BY <1>5, <2>1 DEF SendStartSignal
    <3> QED
      BY <1>5, <3>1 DEF SendStartSignal
  <2>2. CASE ~(PipesMade /\ NoneHolds("sync.r"))
    <3>1. /\ main' = "isRunning"
          /\ fds' = [fds EXCEPT !["main"] = @ \ {"sync.w"}]
      BY <1>5, <2>2 DEF SendStartSignal
    <3> QED
      BY <1>5, <3>1 DEF SendStartSignal
  <2> QED
    BY <2>1, <2>2
<1>6. CASE Poll
  BY <1>6 DEF Poll, PollFails
<1>7. CASE Report
  BY <1>7 DEF Report
<1>8. CASE ChildCloseEnds
  BY <1>8 DEF ChildCloseEnds
<1>9. CASE ChildIsolates
  BY <1>9 DEF ChildIsolates
<1>10. CASE SendNotifyFd
  BY <1>10 DEF SendNotifyFd
<1>11. CASE AwaitStart
  BY <1>11 DEF AwaitStart
<1>12. CASE ExecTarget
  BY <1>12 DEF ExecTarget
<1>13. CASE TargetExits
  BY <1>13 DEF TargetExits
<1>14. CASE KilledChildDies
  BY <1>14 DEF KilledChildDies
<1>15. CASE MainKilled
  BY <1>15 DEF MainKilled
<1>16. CASE Setup \/ ResetOverlay \/ ConfigureCgroup \/ GetNotifyFd
          \/ AttachTracer \/ IsRunning
  BY <1>16 DEF Setup, ResetOverlay, ConfigureCgroup, GetNotifyFd, AttachTracer,
      IsRunning
<1>17. CASE CheckTimeout \/ StopTracer \/ KillChild \/ ReapChild
          \/ RemoveCgroup \/ TargetWrites
  BY <1>17 DEF CheckTimeout, StopTracer, KillChild, ReapChild, RemoveCgroup,
      TargetWrites
<1>18. CASE Tick \/ NumberReused \/ Over
  BY <1>18 DEF Tick, NumberReused, Over, vars
<1>19. CASE UNCHANGED vars
  BY <1>19 DEF vars
<1>20. CASE ConsumeRest \/ TargetPauses \/ ReceiveReturns
  BY <1>20 DEF ConsumeRest, TargetPauses, ConsumeReturns, ReceiveReturns
<1> QED
  BY ONLY [Next]_vars, <1>1, <1>2, <1>3, <1>4, <1>5, <1>6, <1>7, <1>8, <1>9,
      <1>10, <1>11, <1>12, <1>13, <1>14, <1>15, <1>16, <1>17, <1>18, <1>19,
      <1>20
     DEF Next, MainNext, ChildNext

(* Every step keeps the two processes in step: the reads block as long as
   their pipe is empty and its writer held. *)
LEMMA ProgressInvStep == IInv /\ [Next]_vars => ProgressInv'
<1> SUFFICES ASSUME IInv, [Next]_vars PROVE ProgressInv'
    OBVIOUS
<1> USE TimeoutAssumption, FaultsAssumption DEF IInv, TypeOK, FdsInv, MainFds,
      ChildFds, Ends, PipesMade, NoneHolds, ProgressInv, DataInv,
      StartReadable, NumberReadable, MainPoints, ChildPoints, LoopPoints,
      AfterLoop, BeforeClone, BeforeGo, ChildAlive, Fails, Failed, Outrun,
      Detach, MainDies,
      ChildExits, CollectZombie
<1>1. CASE CopyTarget
  BY <1>1 DEF CopyTarget
<1>2. CASE Clone
  BY <1>2 DEF Clone
<1>3. CASE ReadNotifyFd
  BY <1>3 DEF ReadNotifyFd
<1>4. CASE SendStartSignal
  BY <1>4 DEF SendStartSignal
<1>5. CASE IsRunning
  BY <1>5 DEF IsRunning
<1>6. CASE ReapChild
  BY <1>6 DEF ReapChild
<1>7. CASE AwaitStart
  BY <1>7 DEF AwaitStart
<1>8. CASE Setup \/ ResetOverlay \/ CloseChildEnds \/ ConfigureCgroup
          \/ GetNotifyFd \/ AttachTracer
  BY <1>8 DEF Setup, ResetOverlay, CloseChildEnds, ConfigureCgroup,
      GetNotifyFd, AttachTracer
<1>9. CASE CheckTimeout \/ Poll \/ StopTracer \/ KillChild \/ RemoveCgroup
          \/ Report
  BY <1>9 DEF CheckTimeout, Poll, PollFails, StopTracer,
      KillChild, RemoveCgroup, Report
<1>10. CASE ChildCloseEnds \/ ChildIsolates \/ SendNotifyFd \/ ExecTarget
          \/ TargetWrites \/ TargetExits
  BY <1>10 DEF ChildCloseEnds, ChildIsolates, SendNotifyFd, ExecTarget,
      TargetWrites, TargetExits
<1>11. CASE KilledChildDies \/ Tick \/ MainKilled \/ NumberReused \/ Over
  BY <1>11 DEF KilledChildDies, Tick, MainKilled, NumberReused, Over, vars
<1>12. CASE UNCHANGED vars
  BY <1>12 DEF vars
<1>13. CASE ConsumeRest \/ TargetPauses \/ ReceiveReturns
  BY <1>13 DEF ConsumeRest, TargetPauses, ConsumeReturns, ReceiveReturns
<1> QED
  BY ONLY [Next]_vars, <1>1, <1>2, <1>3, <1>4, <1>5, <1>6, <1>7, <1>8, <1>9,
      <1>10, <1>11, <1>12, <1>13
     DEF Next, MainNext, ChildNext

(* Every step keeps what the pipes carry. *)
LEMMA DataInvStep == IInv /\ [Next]_vars => DataInv'
<1> SUFFICES ASSUME IInv, [Next]_vars PROVE DataInv'
    OBVIOUS
<1> USE TimeoutAssumption, FaultsAssumption DEF IInv, TypeOK, FdsInv, MainFds,
      ChildFds, Ends, PipesMade, NoneHolds, ProgressInv, DataInv,
      NumberReadable, KillInv, MainPoints, ChildPoints, LoopPoints, AfterLoop,
      BeforeClone, BeforeGo, ChildAlive, Fails, Failed, Outrun, Detach,
      MainDies, ChildExits,
      CollectZombie
<1>1. CASE Clone
  BY <1>1 DEF Clone
<1>2. CASE CloseChildEnds
  BY <1>2 DEF CloseChildEnds
<1>3. CASE ReadNotifyFd
  BY <1>3 DEF ReadNotifyFd
<1>4. CASE SendStartSignal
  BY <1>4 DEF SendStartSignal
<1>5. CASE ChildIsolates
  BY <1>5 DEF ChildIsolates
<1>6. CASE SendNotifyFd
  BY <1>6 DEF SendNotifyFd
<1>7. CASE AwaitStart
  BY <1>7 DEF AwaitStart, StartReadable
<1>8. CASE KilledChildDies
  BY <1>8 DEF KilledChildDies
<1>9. CASE Setup \/ ResetOverlay \/ CopyTarget \/ ConfigureCgroup
          \/ GetNotifyFd \/ AttachTracer
  BY <1>9 DEF Setup, ResetOverlay, CopyTarget, ConfigureCgroup, GetNotifyFd,
      AttachTracer
<1>10. CASE IsRunning \/ CheckTimeout \/ Poll \/ StopTracer \/ KillChild
          \/ ReapChild
  BY <1>10 DEF IsRunning, CheckTimeout, Poll, PollFails, StopTracer,
      KillChild, ReapChild
<1>11. CASE RemoveCgroup \/ Report \/ ChildCloseEnds \/ ExecTarget
          \/ TargetWrites \/ TargetExits
  BY <1>11 DEF RemoveCgroup, Report, ChildCloseEnds, ExecTarget, TargetWrites,
      TargetExits
<1>12. CASE Tick \/ MainKilled \/ NumberReused \/ Over
  BY <1>12 DEF Tick, MainKilled, NumberReused, Over, vars
<1>13. CASE UNCHANGED vars
  BY <1>13 DEF vars
<1>14. CASE ConsumeRest \/ TargetPauses \/ ReceiveReturns
  BY <1>14 DEF ConsumeRest, TargetPauses, ConsumeReturns, ReceiveReturns
<1> QED
  BY ONLY [Next]_vars, <1>1, <1>2, <1>3, <1>4, <1>5, <1>6, <1>7, <1>8, <1>9,
      <1>10, <1>11, <1>12, <1>13, <1>14
     DEF Next, MainNext, ChildNext

(* Every step keeps what is known of the tracer. *)
LEMMA TracerInvStep == IInv /\ [Next]_vars => TracerInv'
<1> SUFFICES ASSUME IInv, [Next]_vars PROVE TracerInv'
    OBVIOUS
<1> USE TimeoutAssumption, FaultsAssumption DEF IInv, TypeOK, FdsInv, MainFds,
      ChildFds, Ends, PipesMade, NoneHolds, ProgressInv, DataInv,
      NumberReadable, HoldsListener, KillInv, TracerInv, MainPoints,
      ChildPoints, LoopPoints, AfterLoop, BeforeClone, BeforeGo, ChildAlive,
      Fails, Failed, Outrun, Detach, MainDies, ChildExits, CollectZombie
<1>1. CASE ReadNotifyFd
  BY <1>1 DEF ReadNotifyFd
<1>2. CASE GetNotifyFd
  BY <1>2 DEF GetNotifyFd
<1>3. CASE AttachTracer
  BY <1>3 DEF AttachTracer
<1>4. CASE SendStartSignal
  BY <1>4 DEF SendStartSignal
<1>5. CASE Poll
  BY <1>5 DEF Poll, PollFails
<1>6. CASE StopTracer
  BY <1>6 DEF StopTracer
<1>7. CASE ChildIsolates
  BY <1>7 DEF ChildIsolates
<1>8. CASE SendNotifyFd
  BY <1>8 DEF SendNotifyFd
<1>9. CASE AwaitStart
  BY <1>9 DEF AwaitStart, StartReadable
<1>10. CASE KilledChildDies
  BY <1>10 DEF KilledChildDies
<1>11. CASE MainKilled
  BY <1>11 DEF MainKilled
<1>12. CASE Setup \/ ResetOverlay \/ CopyTarget \/ Clone \/ CloseChildEnds
          \/ ConfigureCgroup
  BY <1>12 DEF Setup, ResetOverlay, CopyTarget, Clone, CloseChildEnds,
      ConfigureCgroup
<1>13. CASE IsRunning \/ CheckTimeout \/ KillChild \/ ReapChild \/ RemoveCgroup
           \/ Report
  BY <1>13 DEF IsRunning, CheckTimeout, KillChild, ReapChild, RemoveCgroup,
      Report
<1>14. CASE ChildCloseEnds \/ ExecTarget \/ TargetWrites \/ TargetExits \/ Tick
           \/ NumberReused
  BY <1>14 DEF ChildCloseEnds, ExecTarget, TargetWrites, TargetExits, Tick,
      NumberReused
<1>15. CASE Over
  BY <1>15 DEF Over, vars
<1>16. CASE UNCHANGED vars
  BY <1>16 DEF vars
<1>17. CASE ConsumeRest \/ TargetPauses \/ ReceiveReturns
  BY <1>17 DEF ConsumeRest, TargetPauses, ConsumeReturns, ReceiveReturns
<1> QED
  BY ONLY [Next]_vars, <1>1, <1>2, <1>3, <1>4, <1>5, <1>6, <1>7, <1>8, <1>9,
      <1>10, <1>11, <1>12, <1>13, <1>14, <1>15, <1>16, <1>17
     DEF Next, MainNext, ChildNext

(* Every step keeps what is known of the cgroup. *)
LEMMA CgroupInvStep == IInv /\ [Next]_vars => CgroupInv'
<1> SUFFICES ASSUME IInv, [Next]_vars PROVE CgroupInv'
    OBVIOUS
<1> USE TimeoutAssumption, FaultsAssumption DEF IInv, TypeOK, CgroupInv,
      ProgressInv, CgroupFiles, MainPoints, ChildPoints, LoopPoints, AfterLoop,
      BeforeClone, BeforeGo, ChildAlive, Fails, Failed, Outrun, Detach,
      MainDies, ChildExits,
      CollectZombie
<1>1. CASE CopyTarget
  BY <1>1 DEF CopyTarget
<1>2. CASE Clone
  BY <1>2 DEF Clone
<1>3. CASE CloseChildEnds
  BY <1>3 DEF CloseChildEnds
<1>4. CASE ConfigureCgroup
  BY <1>4 DEF ConfigureCgroup
<1>5. CASE RemoveCgroup
  BY <1>5 DEF RemoveCgroup
<1>6. CASE MainKilled
  BY <1>6 DEF MainKilled
<1>7. CASE Setup \/ ResetOverlay \/ ReadNotifyFd \/ GetNotifyFd \/ AttachTracer
           \/ SendStartSignal
  BY <1>7 DEF Setup, ResetOverlay, ReadNotifyFd, GetNotifyFd, AttachTracer,
      SendStartSignal
<1>8. CASE IsRunning \/ CheckTimeout \/ Poll \/ StopTracer \/ KillChild
          \/ ReapChild
  BY <1>8 DEF IsRunning, CheckTimeout, Poll, PollFails, StopTracer,
      KillChild, ReapChild
<1>9. CASE Report \/ ChildCloseEnds \/ ChildIsolates \/ SendNotifyFd
          \/ AwaitStart \/ ExecTarget
  BY <1>9 DEF Report, ChildCloseEnds, ChildIsolates, SendNotifyFd, AwaitStart,
      ExecTarget
<1>10. CASE TargetWrites \/ TargetExits \/ KilledChildDies \/ Tick
          \/ NumberReused \/ Over
  BY <1>10 DEF TargetWrites, TargetExits, KilledChildDies, Tick, NumberReused,
      Over, vars
<1>11. CASE UNCHANGED vars
  BY <1>11 DEF vars
<1>12. CASE ConsumeRest \/ TargetPauses \/ ReceiveReturns
  BY <1>12 DEF ConsumeRest, TargetPauses, ConsumeReturns, ReceiveReturns
<1> QED
  BY ONLY [Next]_vars, <1>1, <1>2, <1>3, <1>4, <1>5, <1>6, <1>7, <1>8, <1>9,
      <1>10, <1>11, <1>12
     DEF Next, MainNext, ChildNext

(* Every step keeps what is known of the kill.  A failed clone leaves no
   reader for the start signal, so main does not reach KillChild. *)
LEMMA KillInvStep == IInv /\ [Next]_vars => KillInv'
<1> SUFFICES ASSUME IInv, [Next]_vars PROVE KillInv'
    OBVIOUS
<1> USE TimeoutAssumption, FaultsAssumption DEF IInv, TypeOK, KillInv,
      KillHitsOnlyChild, FdsInv, MainFds, ChildFds, PipesMade, NoneHolds,
      ProgressInv, TimeIsUp, MainPoints, ChildPoints, LoopPoints, AfterLoop,
      BeforeClone, BeforeGo, ChildAlive, Fails, Failed, Outrun, Detach,
      MainDies, ChildExits,
      CollectZombie
<1>1. CASE CopyTarget
  BY <1>1 DEF CopyTarget
<1>2. CASE Clone
  BY <1>2 DEF Clone
<1>3. CASE SendStartSignal
  BY <1>3 DEF SendStartSignal
<1>4. CASE IsRunning
  BY <1>4 DEF IsRunning
<1>5. CASE CheckTimeout
  BY <1>5 DEF CheckTimeout
<1>6. CASE Poll
  BY <1>6 DEF Poll, PollFails
<1>7. CASE KillChild
  BY <1>7 DEF KillChild
<1>8. CASE MainKilled
  BY <1>8 DEF MainKilled
<1>9. CASE Tick
  BY <1>9 DEF Tick
<1>10. CASE NumberReused
  BY <1>10 DEF NumberReused
<1>11. CASE Setup \/ ResetOverlay \/ CloseChildEnds \/ ConfigureCgroup
          \/ ReadNotifyFd \/ GetNotifyFd
  BY <1>11 DEF Setup, ResetOverlay, CloseChildEnds, ConfigureCgroup,
      ReadNotifyFd, GetNotifyFd
<1>12. CASE AttachTracer \/ StopTracer \/ ReapChild \/ RemoveCgroup \/ Report
           \/ ChildCloseEnds
  BY <1>12 DEF AttachTracer, StopTracer, ReapChild, RemoveCgroup, Report,
      ChildCloseEnds
<1>13. CASE ChildIsolates \/ SendNotifyFd \/ AwaitStart \/ ExecTarget
          \/ TargetWrites \/ TargetExits
  BY <1>13 DEF ChildIsolates, SendNotifyFd, AwaitStart, ExecTarget,
      TargetWrites, TargetExits
<1>14. CASE KilledChildDies \/ Over
  BY <1>14 DEF KilledChildDies, Over, vars
<1>15. CASE UNCHANGED vars
  BY <1>15 DEF vars
<1>16. CASE ConsumeRest \/ TargetPauses \/ ReceiveReturns
  BY <1>16 DEF ConsumeRest, TargetPauses, ConsumeReturns, ReceiveReturns
<1> QED
  BY ONLY [Next]_vars, <1>1, <1>2, <1>3, <1>4, <1>5, <1>6, <1>7, <1>8, <1>9,
      <1>10, <1>11, <1>12, <1>13, <1>14, <1>15, <1>16
     DEF Next, MainNext, ChildNext

(* Every step keeps what is known of the upper directory. *)
LEMMA UpperInvStep == IInv /\ [Next]_vars => UpperInv'
<1> SUFFICES ASSUME IInv, [Next]_vars PROVE UpperInv'
    OBVIOUS
<1> USE TimeoutAssumption, FaultsAssumption DEF IInv, TypeOK, UpperInv,
      NoLeftovers, Contents, ProgressInv, MainPoints, ChildPoints, LoopPoints,
      AfterLoop,
      BeforeClone, BeforeGo, ChildAlive, Fails, Failed, Outrun, Detach,
      MainDies, ChildExits,
      CollectZombie
<1>1. CASE ResetOverlay
  BY <1>1 DEF ResetOverlay
<1>2. CASE CopyTarget
  <2>1. upper \subseteq {"deep"} /\ child = "none" /\ child' = "none"
    BY <1>2 DEF CopyTarget
  <2>2. main' = "clone" => upper' = upper \cup {"target"}
    BY <1>2 DEF CopyTarget
  <2>3. main' \in {"clone", "readfd"}
    BY <1>2 DEF CopyTarget
  <2> QED
    BY ONLY <2>1, <2>2, <2>3 DEF UpperInv, NoLeftovers
<1>3. CASE Clone
  <2>1. upper \ {"deep"} = {"target"} /\ UNCHANGED upper /\ main' = "close"
    BY <1>3 DEF Clone
  <2> QED
    BY ONLY <2>1 DEF UpperInv, NoLeftovers
<1>4. CASE SendStartSignal
  BY <1>4 DEF SendStartSignal
<1>5. CASE ExecTarget
  BY <1>5 DEF ExecTarget
<1>6. CASE TargetWrites
  BY <1>6 DEF TargetWrites
<1>7. CASE Setup \/ CloseChildEnds \/ ConfigureCgroup \/ ReadNotifyFd
          \/ GetNotifyFd \/ AttachTracer
  BY <1>7 DEF Setup, CloseChildEnds, ConfigureCgroup, ReadNotifyFd,
      GetNotifyFd, AttachTracer
<1>8. CASE IsRunning \/ CheckTimeout \/ Poll \/ StopTracer \/ KillChild
          \/ ReapChild
  BY <1>8 DEF IsRunning, CheckTimeout, Poll, PollFails, StopTracer,
      KillChild, ReapChild
<1>9. CASE RemoveCgroup \/ Report \/ ChildCloseEnds \/ ChildIsolates
          \/ SendNotifyFd \/ AwaitStart
  BY <1>9 DEF RemoveCgroup, Report, ChildCloseEnds, ChildIsolates,
      SendNotifyFd, AwaitStart
<1>10. CASE TargetExits \/ KilledChildDies \/ Tick \/ MainKilled
          \/ NumberReused \/ Over
  BY <1>10 DEF TargetExits, KilledChildDies, Tick, MainKilled, NumberReused,
      Over, vars
<1>11. CASE UNCHANGED vars
  BY <1>11 DEF vars
<1>12. CASE ConsumeRest \/ TargetPauses \/ ReceiveReturns
  BY <1>12 DEF ConsumeRest, TargetPauses, ConsumeReturns, ReceiveReturns
<1> QED
  BY ONLY [Next]_vars, <1>1, <1>2, <1>3, <1>4, <1>5, <1>6, <1>7, <1>8, <1>9,
      <1>10, <1>11, <1>12
     DEF Next, MainNext, ChildNext

(* IInv is inductive. *)
LEMMA StepInv == IInv /\ [Next]_vars => IInv'
  BY TypeOKStep, FdsInvStep, ProgressInvStep, DataInvStep, TracerInvStep,
     CgroupInvStep, KillInvStep, UpperInvStep DEF IInv

(* IInv holds in every reachable state of main, launch, start, cleanup and
   childFunction, whatever calls fail. *)
THEOREM Invariance == Spec => []IInv
  BY InitInv, StepInv, PTL DEF Spec

(* The variables of main, Sandbox, Tracer and the child keep their types;
   launch never writes more than the four files of the cgroup. *)
THEOREM TypeCorrect == Spec => []TypeOK
<1>1. IInv => TypeOK
  BY DEF IInv
<1> QED
  BY Invariance, <1>1, PTL

(* Whatever the limit and whatever else fails, the target runs under the
   attached BPF program from its first instruction to Tracer::stop. *)
THEOREM TracedThroughout == Spec => []TracedWhileRunning
<1>1. IInv => TracedWhileRunning
  BY DEF IInv, TracedWhileRunning, TargetStarted, TypeOK, ProgressInv,
      TracerInv, MainPoints, LoopPoints, AfterLoop, BeforeClone, BeforeGo,
      Failed
<1> QED
  BY Invariance, <1>1, PTL

(* Once childFunction may call execve, Tracer::start has made main's own
   copy of the seccomp listener. *)
THEOREM ListenerCopied == Spec => []ListenerHandedOver
<1>1. IInv => ListenerHandedOver
  BY DEF IInv, ListenerHandedOver, TargetStarted, TypeOK, ProgressInv,
      TracerInv, MainPoints, LoopPoints, AfterLoop, BeforeClone, BeforeGo,
      Failed
<1> QED
  BY Invariance, <1>1, PTL

(* launch has completed the cgroup before childFunction can call execve. *)
THEOREM ConfinedFirst == Spec => []ConfinedBeforeExec
<1>1. IInv => ConfinedBeforeExec
  BY DEF IInv, ConfinedBeforeExec, TargetStarted, ProgressInv, CgroupInv,
      BeforeGo, Failed
<1> QED
  BY Invariance, <1>1, PTL

(* Whatever else fails, childFunction does not come to execve before launch
   and Tracer::start are through. *)
THEOREM TargetIsHeld == Spec => []HeldUntilReady
  BY TracedThroughout, ListenerCopied, ConfinedFirst, PTL DEF HeldUntilReady

(* The target finds itself in the upper directory and, of earlier targets,
   nothing but what rmRF cannot delete: launch calls resetOverlay before
   cpy, although cleanup does not. *)
THEOREM CleanStart == Spec => []NoLeftovers
<1>1. IInv => NoLeftovers
  BY DEF IInv, UpperInv
<1> QED
  BY Invariance, <1>1, PTL

(* main's loop leaves a living child only when timeoutTime is reached. *)
THEOREM CutOnlyByTimeout == Spec => []LiveChildCutByTimeout
<1>1. IInv => LiveChildCutByTimeout
  BY DEF IInv, LiveChildCutByTimeout, KillInv
<1> QED
  BY Invariance, <1>1, PTL

(* cleanup kills the child and nothing else, unless cpy failed or the
   number was given away. *)
THEOREM KillIsAimed == Spec => []KillHitsOnlyChild
<1>1. IInv => KillHitsOnlyChild
  BY DEF IInv, KillInv
<1> QED
  BY Invariance, <1>1, PTL

(* The two pipes and cleanup cannot get main and the child to wait for one
   another, or for a process that has ended: at each read the end that the
   other still has to write, or to close, is with a process that is on its
   way to do so. *)
THEOREM NoWaitInVain == Spec => []NobodyWaitsInVain
<1>1. ASSUME IInv, MainBlocked
      PROVE  \/ child \in {"start", "mount", "sendfd"}
             \/ main = "wait" /\ "child" \in killed
  <2>1. CASE main = "readfd" /\ PipesMade /\ ~NumberReadable
    <3>1. /\ "seccomp" \notin data
          /\ \E p \in {"main", "child"} : "seccomp.w" \in fds[p]
      BY <2>1 DEF NumberReadable, NoneHolds
    <3>2. "seccomp.w" \notin fds["main"]
      BY <1>1, <2>1 DEF IInv, FdsInv, MainFds
    <3>3. "seccomp.w" \in ChildFds
      BY <1>1, <3>1, <3>2 DEF IInv, FdsInv
    <3> QED
      BY <3>3 DEF ChildFds
  <2>2. CASE main = "wait" /\ ChildAlive
    BY <1>1, <2>2 DEF IInv, KillInv
  <2> QED
    BY <1>1, <2>1, <2>2 DEF MainBlocked
<1>2. ASSUME IInv, ChildBlocked
      PROVE  main \notin {"exit", "dead", "hung", "recv"} /\ ~MainBlocked
  <2>1. \E p \in {"main", "child"} : "sync.w" \in fds[p]
    BY <1>2 DEF ChildBlocked, StartReadable, NoneHolds
  <2>2. "sync.w" \in MainFds
    BY <1>2, <2>1 DEF ChildBlocked, IInv, FdsInv, ChildFds
  <2>3. main \in {"clone", "close", "cgroup", "readfd", "getfd", "attach", "go"}
    BY <2>2 DEF MainFds, Ends
  <2>4. main = "readfd" => NumberReadable
    BY <1>2 DEF ChildBlocked, NumberReadable, IInv, DataInv
  <2> QED
    BY <2>3, <2>4 DEF MainBlocked
<1>3. IInv => NobodyWaitsInVain
  BY <1>1, <1>2 DEF NobodyWaitsInVain
<1> QED
  BY Invariance, <1>3, PTL

(* After cleanup a main that returns leaves no child, no cgroup directory
   and no BPF program. *)
THEOREM NothingLeft == Spec => []NothingLeftBehind
<1>1. IInv => NothingLeftBehind
  BY DEF IInv, NothingLeftBehind, ProgressInv, TracerInv, CgroupInv, AfterLoop
<1> QED
  BY Invariance, <1>1, PTL

----------------------------------------------------------------------------
(* Session implements Analysis. *)

LEMMA InitRefines == Init => Run!Init
  BY DEF Init, Run!Init, Progress, Program, LoopPoints, AfterLoop,
     TargetStarted

(* Every step of main, of the child or of the kernel is a step of the
   abstract run, or none: main passes to its loop in SendStartSignal alone,
   before which ProgressInv keeps the child from execve. *)
LEMMA StepRefines ==
  ASSUME IInv, IInv', [Next]_vars
  PROVE  [Run!Next]_<<Progress, Program>>
<1> USE DEF Run!Next, Run!Create, Run!Release, Run!Finish, Run!Watch,
      Run!WindUp, Run!Return, Run!BreakOff, Progress, Program, LoopPoints,
      AfterLoop, TargetStarted
<1>1. CASE Setup
  BY <1>1 DEF Setup, IInv, ProgressInv, BeforeClone
<1>2. CASE ResetOverlay \/ CopyTarget \/ CloseChildEnds \/ ConfigureCgroup
          \/ GetNotifyFd \/ AttachTracer
  BY <1>2 DEF ResetOverlay, CopyTarget, CloseChildEnds, ConfigureCgroup,
      GetNotifyFd, AttachTracer
<1>3. CASE Clone
  BY <1>3 DEF Clone, IInv, ProgressInv, BeforeClone
<1>4. CASE ReadNotifyFd
  BY <1>4 DEF ReadNotifyFd
<1>5. CASE SendStartSignal
  BY <1>5 DEF SendStartSignal, MainDies
<1>6. CASE IsRunning \/ ReapChild
  BY <1>6 DEF IsRunning, ReapChild, CollectZombie
<1>7. CASE CheckTimeout \/ StopTracer \/ KillChild \/ RemoveCgroup
          \/ ConsumeRest \/ TargetPauses \/ ReceiveReturns
  BY <1>7 DEF CheckTimeout, StopTracer, KillChild, RemoveCgroup, ConsumeRest,
      TargetPauses, ConsumeReturns, ReceiveReturns
<1>8. CASE Poll
  BY <1>8 DEF Poll, PollFails, MainDies
<1>9. CASE Report
  BY <1>9 DEF Report, IInv, ProgressInv
<1>10. CASE ChildCloseEnds \/ ChildIsolates \/ SendNotifyFd
  BY <1>10 DEF ChildCloseEnds, ChildIsolates, SendNotifyFd, ChildExits
<1>11. CASE AwaitStart
  <2>1. main' = main /\ child = "await" /\ child' = "exec"
    BY <1>11 DEF AwaitStart
  <2>2. main \in MainPoints /\ main \notin BeforeGo
    BY <2>1 DEF IInv, TypeOK, ProgressInv
  <2> QED
    BY <2>1, <2>2 DEF MainPoints, BeforeGo, BeforeClone
<1>12. CASE ExecTarget \/ TargetWrites \/ TargetExits
  BY <1>12 DEF ExecTarget, TargetWrites, TargetExits, ChildExits
<1>13. CASE KilledChildDies
  BY <1>13 DEF KilledChildDies, ChildExits, ChildAlive, IInv, TypeOK,
      ChildPoints
<1>14. CASE Tick \/ NumberReused \/ Over \/ UNCHANGED vars
  BY <1>14 DEF Tick, NumberReused, Over, vars
<1>15. CASE MainKilled
  BY <1>15 DEF MainKilled, MainDies
<1> QED
  BY ONLY [Next]_vars, <1>1, <1>2, <1>3, <1>4, <1>5, <1>6, <1>7, <1>8, <1>9,
      <1>10, <1>11, <1>12, <1>13, <1>14, <1>15
     DEF Next, MainNext, ChildNext

(* A run, whatever fails in it, is one that Analysis describes: main, launch
   and start hold the program back, and no program outlives a main that
   returns. *)
THEOREM RunRefined == Spec => RunKept
<1>1. IInv /\ IInv' /\ [Next]_vars => [Run!Next]_<<Progress, Program>>
  BY StepRefines
<1> QED
  BY InitRefines, Invariance, <1>1, PTL DEF Spec, RunKept, Run!Spec

----------------------------------------------------------------------------
(* Session implements Preparation. *)

(* Every step is one of Preparation's or none: ProgressInv keeps a target
   from running before main has passed the copy, UpperInv from running
   without it; once there is a child the stage is what it is. *)
LEMMA StageSteps ==
  ASSUME IInv, [Next]_vars
  PROVE  [Prepared!Next]_<<Stage, upper, child = "target">>
<1> DEFINE Quiet == UNCHANGED <<Stage, upper, child = "target">>
           Left  == /\ child # "target" /\ UNCHANGED <<upper, child = "target">>
                    /\ Stage' = "left"
           Ended == /\ child = "target" /\ child' # "target"
                    /\ UNCHANGED <<Stage, upper>>
<1>1. ASSUME Quiet \/ Left \/ Ended
      PROVE  [Prepared!Next]_<<Stage, upper, child = "target">>
  BY <1>1 DEF Prepared!Next, Prepared!Leave, Prepared!End
<1>2. CASE Setup
  BY <1>1, <1>2 DEF Setup, Stage, IInv, ProgressInv, BeforeClone
<1>3. CASE ResetOverlay
  <2>1. child = "none" /\ child' = "none" /\ Stage = "begun"
        /\ Stage' = "emptied" /\ upper' = upper \cap {"deep"}
    BY <1>3 DEF ResetOverlay, Stage, IInv, ProgressInv, BeforeClone
  <2> QED
    BY <2>1 DEF Prepared!Next, Prepared!Emptied
<1>4. CASE CopyTarget
  <2>1. /\ PipesMade /\ child = "none" /\ child' = "none" /\ Stage = "emptied"
    BY <1>4 DEF CopyTarget, Stage, IInv, ProgressInv, BeforeClone
  <2>2. CASE main' = "clone"
    <3>1. Stage' = "copied" /\ upper' = upper \cup {"target"}
      BY <1>4, <2>1, <2>2 DEF CopyTarget, Stage, PipesMade
    <3> QED
      BY <2>1, <3>1 DEF Prepared!Next, Prepared!Copied
  <2>3. CASE main' # "clone"
    <3>1. Stage' = "failed" /\ upper' \in {upper, upper \cup {"target"}}
      BY <1>4, <2>1, <2>3 DEF CopyTarget, Stage, PipesMade, Fails
    <3> QED
      BY <2>1, <3>1 DEF Prepared!Next, Prepared!GiveUp
  <2> QED
    BY <2>2, <2>3
<1>5. CASE Clone
  <2>1. main = "clone" /\ main' = "close" /\ child = "none" /\ UNCHANGED upper
        /\ child' \in {"start", "none"} /\ PipesMade
        /\ failed' \subseteq failed \cup {"clone"}
    BY <1>5 DEF Clone, Fails, IInv, ProgressInv, BeforeClone
  <2> QED
    BY <1>1, <2>1 DEF Stage, PipesMade
<1>6. CASE CloseChildEnds \/ ConfigureCgroup \/ ReadNotifyFd \/ GetNotifyFd
           \/ AttachTracer
  BY <1>1, <1>6 DEF CloseChildEnds, ConfigureCgroup, ReadNotifyFd, GetNotifyFd,
     AttachTracer, Stage, PipesMade, Fails
<1>7. CASE SendStartSignal
  BY <1>1, <1>7 DEF SendStartSignal, MainDies, Stage, PipesMade
<1>8. CASE IsRunning \/ ReapChild
  BY <1>1, <1>8 DEF IsRunning, ReapChild, CollectZombie, Stage, PipesMade
<1>9. CASE CheckTimeout \/ KillChild \/ RemoveCgroup \/ Report
  BY <1>1, <1>9 DEF CheckTimeout, KillChild, RemoveCgroup, Report, Stage,
     PipesMade
<1>10. CASE Poll
  BY <1>1, <1>10 DEF Poll, PollFails, Outrun, MainDies, Fails, Stage, PipesMade
<1>11. CASE StopTracer \/ ConsumeRest \/ TargetPauses \/ ReceiveReturns
  BY <1>1, <1>11 DEF StopTracer, Outrun, ConsumeRest, TargetPauses,
     ConsumeReturns, ReceiveReturns, Fails, Stage, PipesMade
<1>12. CASE ChildCloseEnds \/ ChildIsolates \/ SendNotifyFd \/ AwaitStart
  BY <1>1, <1>12 DEF ChildCloseEnds, ChildIsolates, SendNotifyFd, AwaitStart,
     ChildExits, Stage
<1>13. CASE ExecTarget
  <2>1. CASE child' = "target"
    <3>1. /\ Stage = "copied" /\ Stage' = "copied" /\ UNCHANGED upper
          /\ "target" \in upper /\ child # "target"
      BY <1>13, <2>1 DEF ExecTarget, Stage, IInv, UpperInv
    <3> QED
      BY <2>1, <3>1 DEF Prepared!Next, Prepared!Run
  <2>2. CASE child' # "target"
    BY <1>1, <1>13, <2>2 DEF ExecTarget, ChildExits, Stage
  <2> QED
    BY <2>1, <2>2
<1>14. CASE TargetWrites
  <2>1. /\ child = "target" /\ child' = child /\ UNCHANGED <<main, failed>>
        /\ \E left \in SUBSET (Prepared!Contents \ {"target"}) :
              upper' = upper \cup left
    BY <1>14 DEF TargetWrites, Prepared!Contents
  <2>2. UNCHANGED Stage
    BY <2>1 DEF Stage
  <2> QED
    BY <2>1, <2>2 DEF Prepared!Next, Prepared!TargetWrites
<1>15. CASE TargetExits \/ KilledChildDies
  BY <1>1, <1>15 DEF TargetExits, KilledChildDies, ChildExits, ChildAlive,
     Stage
<1>16. CASE Tick \/ NumberReused \/ Over \/ UNCHANGED vars
  BY <1>1, <1>16 DEF Tick, NumberReused, Fails, Over, vars, Stage, PipesMade
<1>17. CASE MainKilled
  BY <1>1, <1>17 DEF MainKilled, MainDies, Stage
<1> QED
  BY ONLY [Next]_vars, <1>2, <1>3, <1>4, <1>5, <1>6, <1>7, <1>8, <1>9, <1>10,
      <1>11, <1>12, <1>13, <1>14, <1>15, <1>16, <1>17
     DEF Next, MainNext, ChildNext

(* In every run, whatever fails and whenever fragarach dies, a target runs
   only from an upper directory that was emptied and then given its copy,
   and nothing else writes there after the copy. *)
THEOREM UpperRefined == Spec => UpperPrepared
<1>1. Init => Prepared!Init
  BY DEF Init, Prepared!Init, Prepared!Contents, Contents, Stage
<1>2. IInv /\ [Next]_vars
        => [Prepared!Next]_<<Stage, upper, child = "target">>
  BY StageSteps
<1> QED
  BY <1>1, <1>2, Invariance, PTL DEF Spec, UpperPrepared, Prepared!Spec

============================================================================
