------------------------------ MODULE Session ------------------------------
(***************************************************************************)
(* One run of fragarach: the main process (main.cpp, Sandbox::launch,      *)
(* Tracer::start, Sandbox::cleanup) and the process it clones              *)
(* (childFunction in sandbox.cpp), which hand over through two pipes: the  *)
(* child sends the number of its seccomp listener on seccompPipe and waits *)
(* on syncPipe until the tracer is attached.                               *)
(*                                                                         *)
(* Any call that can fail may fail here, and main ignores what launch and  *)
(* start return, exactly as main.cpp does.  What the tracer records is in  *)
(* module Observer; here it is only attached or not.                       *)
(***************************************************************************)
EXTENDS Naturals

CONSTANTS Timeout,   \* Sandbox::timeoutTime, in ticks of the model's clock
          Faults     \* the calls that may fail in the behaviours considered

Calls == {"setup", "copy", "clone", "cgroup", "mount", "getfd",
          "load", "attach", "ringbuf", "poll", "exec",
          "outrun",  \* the target stores records faster than they are read
          "killed",  \* fragarach itself is killed from outside
          "reuse"}   \* the kernel gives a freed process number away

ASSUME TimeoutAssumption == Timeout \in Nat \ {0}
ASSUME FaultsAssumption  == Faults \subseteq Calls

VARIABLES
  main,      \* control point of the fragarach process
  child,     \* control point of the cloned process
  childPID,  \* Sandbox::childPID: "-1", or "pid" once clone returned a number
  pidOwner,  \* the process that number denotes in the kernel
  fds,       \* the pipe ends each of the two processes holds open
  data,      \* the pipes that hold unread bytes
  tracer,    \* BPF program attached, ring buffer made, kernelNotifyFd
  cgroup,    \* the cgroup: its directory, how many of its files are written
  upper,     \* what the overlay's upper directory holds
  elapsed,   \* time since the loop in main began, capped at Timeout
  killed,    \* history: what the SIGKILL of cleanup hit
  failed     \* history: the calls that failed

vars == <<main, child, childPID, pidOwner, fds, data, tracer, cgroup, upper,
          elapsed, killed, failed>>

Ends == {"sync.r", "sync.w", "seccomp.r", "seccomp.w"}

LoopPoints  == {"isRunning", "timeout", "poll", "consume", "recv"}
AfterLoop   == {"stop", "flush", "kill", "wait", "rmdir", "report", "exit"}
MainPoints  == {"setup", "reset", "copy", "clone", "close", "cgroup", "readfd",
                "getfd", "attach", "go", "hung", "dead"}
               \cup LoopPoints \cup AfterLoop
ChildPoints == {"none", "start", "mount", "sendfd", "await", "exec", "target",
                "zombie", "reaped"}

(* memory.max, pids.max, cgroup.procs, cpu.max: written in this order *)
CgroupFiles == 4

(* What upper may hold: the copy of the target, trees that rmRF cannot     *)
(* delete (module Files says which), and anything else a target left.      *)
Contents == {"target", "deep", "files"}

(* Type correctness of the whole state. *)
TypeOK ==
  /\ main \in MainPoints
  /\ child \in ChildPoints
  /\ childPID \in {"-1", "pid"}
  /\ pidOwner \in {"nobody", "child", "other"}
  /\ fds \in [{"main", "child"} -> SUBSET Ends]
  /\ data \subseteq {"sync", "seccomp"}
  /\ tracer \in [attached : BOOLEAN, ring : BOOLEAN,
                 notify : {"unset", "number", "own", "invalid"}]
  /\ cgroup \in [dir : BOOLEAN, written : 0 .. CgroupFiles]
  /\ upper \subseteq Contents
  /\ elapsed \in 0 .. Timeout
  /\ killed \subseteq {"child", "other", "everyone"}
  /\ failed \subseteq Faults

(* upper starts with what an earlier run left: cleanup does not reset it *)
Init ==
  /\ main = "setup" /\ child = "none"
  /\ childPID = "-1" /\ pidOwner = "nobody"
  /\ fds = [p \in {"main", "child"} |-> {}] /\ data = {}
  /\ tracer = [attached |-> FALSE, ring |-> FALSE, notify |-> "unset"]
  /\ cgroup = [dir |-> FALSE, written |-> 0]
  /\ upper \in SUBSET Contents
  /\ elapsed = 0
  /\ killed = {} /\ failed = {}

----------------------------------------------------------------------------
(* The kernel's part. *)

Fails(c) == c \in Faults /\ failed' = failed \cup {c}

ChildAlive == child \notin {"none", "zombie", "reaped"}

(* pipe() is reached only when cpy succeeded; otherwise the four int of    *)
(* syncPipe and seccompPipe are never initialised.                         *)
PipesMade == "copy" \notin failed

NoneHolds(e) == \A p \in {"main", "child"} : e \notin fds[p]

(* The child holds its seccomp listener from seccomp_load to execve, where *)
(* the descriptor is close-on-exec.                                        *)
HoldsListener == child \in {"sendfd", "await", "exec"}

(* fragarach is gone: its descriptors are closed, the BPF program with them *)
MainDies ==
  /\ main' = "dead"
  /\ fds' = [fds EXCEPT !["main"] = {}]
  /\ tracer' = [attached |-> FALSE, ring |-> FALSE, notify |-> "invalid"]

ChildExits ==
  /\ child' = "zombie"
  /\ fds' = [fds EXCEPT !["child"] = {}]

----------------------------------------------------------------------------
(* The fragarach process: Sandbox::launch *)

(* main up to the Sandbox constructor: arguments, setup(), access() *)
Setup ==
  /\ main = "setup"
  /\ \/ main' = "reset" /\ UNCHANGED failed
     \/ main' = "exit" /\ Fails("setup")
  /\ UNCHANGED <<child, childPID, pidOwner, fds, data, tracer, cgroup, upper,
                 elapsed, killed>>

(* A faulty variant: the files of the last run stay. *)
ResetOverlayKeeps ==
  /\ main = "reset" /\ main' = "copy"
  /\ UNCHANGED <<child, childPID, pidOwner, fds, data, tracer, cgroup, upper,
                 elapsed, killed, failed>>

(* rmRF, which leaves what it cannot reach, and mkdir *)
ResetOverlay ==
  /\ main = "reset" /\ main' = "copy"
  /\ upper' = upper \cap {"deep"}
  /\ UNCHANGED <<child, childPID, pidOwner, fds, data, tracer, cgroup,
                 elapsed, killed, failed>>

(* cpy creates the destination before it can fail; launch then returns false *)
CopyTarget ==
  /\ main = "copy"
  /\ \/ /\ main' = "clone" /\ upper' = upper \cup {"target"}
        /\ fds' = [fds EXCEPT !["main"] = Ends]
        /\ UNCHANGED failed
     \/ /\ Fails("copy") /\ main' = "readfd"
        /\ upper' \in {upper, upper \cup {"target"}}
        /\ UNCHANGED fds
  /\ UNCHANGED <<child, childPID, pidOwner, data, tracer, cgroup, elapsed,
                 killed>>

(* clone without CLONE_FILES: the child gets copies of the descriptors *)
Clone ==
  /\ main = "clone" /\ main' = "close"
  /\ \/ /\ child' = "start" /\ childPID' = "pid" /\ pidOwner' = "child"
        /\ fds' = [fds EXCEPT !["child"] = fds["main"]]
        /\ UNCHANGED failed
     \/ Fails("clone") /\ UNCHANGED <<child, childPID, pidOwner, fds>>
  /\ UNCHANGED <<data, tracer, cgroup, upper, elapsed, killed>>

(* The ends launch closes.  Faulty variants: one of the two is forgotten. *)
LaunchClosesOnlyItsReader == {"sync.r"}
LaunchClosesOnlyItsWriter == {"seccomp.w"}
LaunchCloses == {"sync.r", "seccomp.w"}

(* launch closes the child's ends before it looks at what clone returned *)
CloseChildEnds ==
  /\ main = "close"
  /\ fds' = [fds EXCEPT !["main"] = @ \ LaunchCloses]
  /\ IF childPID = "-1"
       THEN main' = "readfd" /\ UNCHANGED cgroup
       ELSE main' = "cgroup" /\ cgroup' = [cgroup EXCEPT !.dir = TRUE]
  /\ UNCHANGED <<child, childPID, pidOwner, data, tracer, upper, elapsed,
                 killed, failed>>

(* A faulty variant: one more file is written after the last. *)
ConfigureCgroupOnceMore ==
  /\ main = "cgroup"
  /\ cgroup' = [cgroup EXCEPT !.written = @ + 1]
  /\ main' = IF cgroup.written = CgroupFiles THEN "readfd" ELSE "cgroup"
  /\ UNCHANGED <<child, childPID, pidOwner, fds, data, tracer, upper, elapsed,
                 killed, failed>>

(* One file of the cgroup; the first that cannot be opened ends launch. *)
ConfigureCgroup ==
  /\ main = "cgroup"
  /\ \/ /\ cgroup' = [cgroup EXCEPT !.written = @ + 1]
        /\ main' = IF cgroup'.written = CgroupFiles THEN "readfd" ELSE "cgroup"
        /\ UNCHANGED failed
     \/ Fails("cgroup") /\ main' = "readfd" /\ UNCHANGED cgroup
  /\ UNCHANGED <<child, childPID, pidOwner, fds, data, tracer, upper, elapsed,
                 killed>>

----------------------------------------------------------------------------
(* The fragarach process: Tracer::start *)

(* read() returns with the child's number, or at end of file *)
NumberReadableAtOnce == TRUE \* a faulty variant: the read does not block
NumberReadable == "seccomp" \in data \/ NoneHolds("seccomp.w")

(* Without a pipe the descriptor is an uninitialised int: the read fails,  *)
(* or hangs on whatever descriptor the value happens to denote.            *)
ReadNotifyFd ==
  /\ main = "readfd"
  /\ IF PipesMade
       THEN /\ NumberReadable
            /\ main' = "getfd"
            /\ fds' = [fds EXCEPT !["main"] = @ \ {"seccomp.r"}]
            /\ data' = data \ {"seccomp"}
            /\ tracer' = IF "seccomp" \in data
                           THEN [tracer EXCEPT !.notify = "number"]
                           ELSE tracer
       ELSE main' \in {"getfd", "hung"} /\ UNCHANGED <<fds, data, tracer>>
  /\ UNCHANGED <<child, childPID, pidOwner, cgroup, upper, elapsed, killed,
                 failed>>

(* pidfd_open and pidfd_getfd, whose results are not looked at *)
GetNotifyFd ==
  /\ main = "getfd" /\ main' = "attach"
  /\ \/ /\ tracer' = [tracer EXCEPT !.notify =
                        IF @ = "number" /\ HoldsListener THEN "own"
                                                         ELSE "invalid"]
        /\ UNCHANGED failed
     \/ Fails("getfd") /\ tracer' = [tracer EXCEPT !.notify = "invalid"]
  /\ UNCHANGED <<child, childPID, pidOwner, fds, data, cgroup, upper, elapsed,
                 killed>>

(* load the skeleton, attach it, make the ring buffer; false on the first  *)
(* that fails, and main carries on all the same                            *)
AttachTracer ==
  /\ main = "attach" /\ main' = "go"
  /\ \/ /\ tracer' = [tracer EXCEPT !.attached = TRUE, !.ring = TRUE]
        /\ UNCHANGED failed
     \/ (Fails("load") \/ Fails("attach")) /\ UNCHANGED tracer
     \/ Fails("ringbuf") /\ tracer' = [tracer EXCEPT !.attached = TRUE]
  /\ UNCHANGED <<child, childPID, pidOwner, fds, data, cgroup, upper, elapsed,
                 killed>>

----------------------------------------------------------------------------
(* The fragarach process: main's loop and Sandbox::cleanup *)

(* A write to a pipe nobody reads raises SIGPIPE, which main leaves at its *)
(* default; to an uninitialised descriptor it just fails.                  *)
SendStartSignal ==
  /\ main = "go"
  /\ IF PipesMade /\ NoneHolds("sync.r")
       THEN MainDies /\ UNCHANGED data
       ELSE /\ main' = "isRunning"
            /\ fds' = [fds EXCEPT !["main"] = @ \ {"sync.w"}]
            /\ data' = IF PipesMade THEN data \cup {"sync"} ELSE data
            /\ UNCHANGED tracer
  /\ UNCHANGED <<child, childPID, pidOwner, cgroup, upper, elapsed, killed,
                 failed>>

(* waitpid on an ended child frees its number *)
CollectZombie ==
  IF child = "zombie" THEN child' = "reaped" /\ pidOwner' = "nobody"
                      ELSE UNCHANGED <<child, pidOwner>>

(* A faulty variant: waitpid without WNOHANG. *)
IsRunningBlocks ==
  /\ main = "isRunning" /\ ~ChildAlive
  /\ main' = "stop"
  /\ CollectZombie
  /\ UNCHANGED <<childPID, fds, data, tracer, cgroup, upper, elapsed, killed,
                 failed>>

(* waitpid(childPID, WNOHANG): an ended child is collected here; without a *)
(* child the call fails (ECHILD)                                           *)
IsRunning ==
  /\ main = "isRunning"
  /\ main' = IF ChildAlive THEN "timeout" ELSE "stop"
  /\ CollectZombie
  /\ UNCHANGED <<childPID, fds, data, tracer, cgroup, upper, elapsed, killed,
                 failed>>

(* The loop's limit.  A faulty variant: one tick early. *)
TimeIsNearlyUp == elapsed + 1 >= Timeout
TimeIsUp == elapsed >= Timeout

CheckTimeout ==
  /\ main = "timeout"
  /\ main' = IF TimeIsUp THEN "stop" ELSE "poll"
  /\ UNCHANGED <<child, childPID, pidOwner, fds, data, tracer, cgroup, upper,
                 elapsed, killed, failed>>

(* ring_buffer__consume returns when it finds no new record: not before a  *)
(* target that stores them faster than they are read makes a pause or ends *)
Outrun == child = "target" /\ tracer.ring /\ Fails("outrun")

(* A poll that fails leaves revents unwritten: perhaps handleSeccompNotifi-*)
(* cation is called all the same.  Then RECV waits on the listener, or     *)
(* fails at once if kernelNotifyFd is none.                                *)
PollFails ==
  /\ tracer.ring /\ Fails("poll")
  /\ \/ main' = "isRunning"
     \/ main' = "recv" /\ tracer.notify = "own"

(* pollmethod and the sleep after it; rb is dereferenced without a test *)
Poll ==
  /\ main = "poll"
  /\ \/ tracer.ring /\ main' = "isRunning" /\ UNCHANGED <<fds, tracer, failed>>
     \/ Outrun /\ main' = "consume" /\ UNCHANGED <<fds, tracer>>
     \/ PollFails /\ UNCHANGED <<fds, tracer>>
     \/ ~tracer.ring /\ MainDies /\ UNCHANGED failed
  /\ UNCHANGED <<child, childPID, pidOwner, data, cgroup, upper, elapsed,
                 killed>>

(* RECV returns when a task of the sandbox makes a restricted call, or when *)
(* the kernel wakes it otherwise; nothing says that either ever happens.   *)
ReceiveReturns ==
  /\ main = "recv" /\ main' = "isRunning"
  /\ UNCHANGED <<child, childPID, pidOwner, fds, data, tracer, cgroup, upper,
                 elapsed, killed, failed>>

Detach == tracer' = [tracer EXCEPT !.attached = FALSE, !.ring = FALSE]

(* Tracer::stop, which consumes once more; kernelNotifyFd stays open *)
StopTracer ==
  /\ main = "stop"
  /\ \/ main' = "kill" /\ Detach /\ UNCHANGED failed
     \/ Outrun /\ main' = "flush" /\ UNCHANGED tracer
  /\ UNCHANGED <<child, childPID, pidOwner, fds, data, cgroup, upper, elapsed,
                 killed>>

(* the ring buffer is empty at last *)
ConsumeReturns ==
  /\ \/ main = "consume" /\ main' = "isRunning" /\ UNCHANGED tracer
     \/ main = "flush" /\ main' = "kill" /\ Detach
  /\ UNCHANGED <<child, childPID, pidOwner, fds, data, cgroup, upper, elapsed,
                 killed, failed>>

ConsumeRest  == child # "target" /\ ConsumeReturns
TargetPauses == child = "target" /\ ConsumeReturns

(* kill(childPID, SIGKILL): the number -1 denotes every process there is,  *)
(* and a number that was given away denotes its new owner                  *)
KillChild ==
  /\ main = "kill" /\ main' = "wait"
  /\ killed' = IF childPID = "-1" THEN killed \cup {"everyone"}
               ELSE killed \cup ({pidOwner} \ {"nobody"})
  /\ UNCHANGED <<child, childPID, pidOwner, fds, data, tracer, cgroup, upper,
                 elapsed, failed>>

(* A faulty variant: the second waitpid does not wait either. *)
ReapChildAtOnce ==
  /\ main = "wait" /\ main' = "rmdir"
  /\ CollectZombie
  /\ UNCHANGED <<childPID, fds, data, tracer, cgroup, upper, elapsed, killed,
                 failed>>

(* waitpid(childPID, 0): blocks until the child ended; fails (ECHILD) when *)
(* the loop collected it or there never was one                            *)
ReapChild ==
  /\ main = "wait" /\ ~ChildAlive
  /\ main' = "rmdir"
  /\ CollectZombie
  /\ UNCHANGED <<childPID, fds, data, tracer, cgroup, upper, elapsed, killed,
                 failed>>

(* rmdir fails on a cgroup that still has a process in it *)
RemoveCgroup ==
  /\ main = "rmdir" /\ main' = "report"
  /\ cgroup' = [cgroup EXCEPT !.dir = @ /\ ChildAlive]
  /\ UNCHANGED <<child, childPID, pidOwner, fds, data, tracer, upper, elapsed,
                 killed, failed>>

(* graph, then verdict or JSON file; the process ends on every path *)
Report ==
  /\ main = "report" /\ main' = "exit"
  /\ fds' = [fds EXCEPT !["main"] = {}]
  /\ UNCHANGED <<child, childPID, pidOwner, data, tracer, cgroup, upper,
                 elapsed, killed, failed>>

----------------------------------------------------------------------------
(* The cloned process: childFunction, then the target *)

(* The ends the child closes.  A faulty variant: its writer stays open. *)
ChildClosesOnlyItsReader == {"seccomp.r"}
ChildCloses == {"seccomp.r", "sync.w"}

ChildCloseEnds ==
  /\ child = "start" /\ child' = "mount"
  /\ fds' = [fds EXCEPT !["child"] = @ \ ChildCloses]
  /\ UNCHANGED <<main, childPID, pidOwner, data, tracer, cgroup, upper,
                 elapsed, killed, failed>>

(* mounts, pivot_root, access, cap_clear, seccomp_load; most failures return *)
ChildIsolates ==
  /\ child = "mount"
  /\ \/ child' = "sendfd" /\ UNCHANGED <<fds, failed>>
     \/ ChildExits /\ Fails("mount")
  /\ UNCHANGED <<main, childPID, pidOwner, data, tracer, cgroup, upper,
                 elapsed, killed>>

(* As the first process of its PID namespace the child ignores SIGPIPE: a  *)
(* write that nobody can read is lost.                                     *)
SendNotifyFd ==
  /\ child = "sendfd" /\ child' = "await"
  /\ data' = IF NoneHolds("seccomp.r") THEN data ELSE data \cup {"seccomp"}
  /\ fds' = [fds EXCEPT !["child"] = @ \ {"seccomp.w"}]
  /\ UNCHANGED <<main, childPID, pidOwner, tracer, cgroup, upper, elapsed,
                 killed, failed>>

(* What ends read(syncPipe[0]).  A faulty variant: it does not block. *)
StartsAtOnce == TRUE
StartReadable == "sync" \in data \/ NoneHolds("sync.w")

(* the result of the read is not looked at *)
AwaitStart ==
  /\ child = "await" /\ StartReadable
  /\ child' = "exec"
  /\ data' = data \ {"sync"}
  /\ fds' = [fds EXCEPT !["child"] = @ \ {"sync.r"}]
  /\ UNCHANGED <<main, childPID, pidOwner, tracer, cgroup, upper, elapsed,
                 killed, failed>>

(* system("ls"), execve *)
ExecTarget ==
  /\ child = "exec"
  /\ \/ child' = "target" /\ UNCHANGED <<fds, failed>>
     \/ ChildExits /\ Fails("exec")
  /\ UNCHANGED <<main, childPID, pidOwner, data, tracer, cgroup, upper,
                 elapsed, killed>>

TargetWrites ==
  /\ child = "target"
  /\ \E left \in {"files", "deep"} : upper' = upper \cup {left}
  /\ UNCHANGED <<main, child, childPID, pidOwner, fds, data, tracer, cgroup,
                 elapsed, killed, failed>>

TargetExits ==
  /\ child = "target" /\ ChildExits
  /\ UNCHANGED <<main, childPID, pidOwner, data, tracer, cgroup, upper,
                 elapsed, killed, failed>>

KilledChildDies ==
  /\ killed \cap {"child", "everyone"} # {} /\ ChildAlive
  /\ ChildExits
  /\ UNCHANGED <<main, childPID, pidOwner, data, tracer, cgroup, upper,
                 elapsed, killed, failed>>

----------------------------------------------------------------------------
(* The surroundings: time, a signal to fragarach, other processes *)

Tick ==
  /\ main \in LoopPoints /\ elapsed < Timeout
  /\ elapsed' = elapsed + 1
  /\ UNCHANGED <<main, child, childPID, pidOwner, fds, data, tracer, cgroup,
                 upper, killed, failed>>

MainKilled ==
  /\ main \notin {"exit", "dead"}
  /\ Fails("killed") /\ MainDies
  /\ UNCHANGED <<child, childPID, pidOwner, data, cgroup, upper, elapsed,
                 killed>>

NumberReused ==
  /\ child = "reaped" /\ pidOwner = "nobody"
  /\ Fails("reuse") /\ pidOwner' = "other"
  /\ UNCHANGED <<main, child, childPID, fds, data, tracer, cgroup, upper,
                 elapsed, killed>>

(* The behaviour may stop only here: nothing is left running. *)
Over ==
  /\ main \in {"exit", "dead", "hung"} /\ ~ChildAlive
  /\ UNCHANGED vars

MainNext ==
  \/ Setup \/ ResetOverlay \/ CopyTarget \/ Clone \/ CloseChildEnds
  \/ ConfigureCgroup \/ ReadNotifyFd \/ GetNotifyFd \/ AttachTracer
  \/ SendStartSignal \/ IsRunning \/ CheckTimeout \/ Poll \/ StopTracer
  \/ ConsumeRest \/ KillChild \/ ReapChild \/ RemoveCgroup \/ Report

ChildNext ==
  \/ ChildCloseEnds \/ ChildIsolates \/ SendNotifyFd \/ AwaitStart
  \/ ExecTarget

Next ==
  \/ MainNext \/ ChildNext
  \/ TargetWrites \/ TargetExits \/ TargetPauses \/ ReceiveReturns
  \/ KilledChildDies \/ Tick \/ MainKilled \/ NumberReused \/ Over

(* Both processes are scheduled, time passes, SIGKILL is delivered; that   *)
(* the target ever ends, or anything fails, is not assumed.                *)
Fairness ==
  /\ WF_vars(MainNext) /\ WF_vars(ChildNext)
  /\ WF_vars(Tick) /\ WF_vars(KilledChildDies)

Spec == Init /\ [][Next]_vars

FairSpec == Spec /\ Fairness

----------------------------------------------------------------------------
(* Safety *)

TargetStarted == child \in {"exec", "target"}

Failed(S) == \E c \in S : c \in failed

(* When the target may run, the BPF program is attached until main stops   *)
(* the tracer: the handover through syncPipe in launch, start and main     *)
(* holds the child back long enough, if attaching works and main lives.    *)
TracedWhileRunning ==
  /\ TargetStarted /\ ~Failed({"load", "attach"})
  /\ main \notin AfterLoop \cup {"dead"}
  => tracer.attached

(* When the target may run, main holds a copy of its seccomp listener:     *)
(* start copies it while the child, waiting on syncPipe, still has it, and *)
(* execve closes the child's own.                                          *)
ListenerHandedOver ==
  TargetStarted /\ ~Failed({"getfd"}) /\ main # "dead"
    => tracer.notify = "own"

(* The target never runs before all four cgroup files are written, if      *)
(* none of them fails and main is not killed on the way.                   *)
ConfinedBeforeExec ==
  TargetStarted /\ ~Failed({"cgroup", "killed"}) => cgroup.written = CgroupFiles

(* What the two pipes are for: the target is held back until it is traced, *)
(* its restricted calls can be answered, and its limits are set.           *)
HeldUntilReady ==
  TracedWhileRunning /\ ListenerHandedOver /\ ConfinedBeforeExec

(* The target finds its own copy and, of earlier runs, nothing but trees   *)
(* that rmRF cannot delete, whatever fails and wherever that run ended:    *)
(* cleanup leaves the upper directory as it is, launch resets it first.    *)
NoLeftovers ==
  child \notin {"none", "target", "zombie", "reaped"}
    => upper \ {"deep"} = {"target"}

(* main leaves its loop with the child alive only when the time is up.     *)
LiveChildCutByTimeout ==
  main \in {"stop", "flush", "kill"} /\ ChildAlive => elapsed = Timeout

(* The SIGKILL of cleanup hits the child and nothing else, unless cpy      *)
(* failed (the number is -1) or the number was given away after isRunning  *)
(* collected the child.  A failed clone is harmless only because main then *)
(* dies of SIGPIPE before it gets to cleanup.                              *)
KillHitsOnlyChild == ~Failed({"copy", "reuse"}) => killed \subseteq {"child"}

(* When main returns, the child is collected, the cgroup directory is gone *)
(* and the tracer detached, whatever failed on the way.                    *)
NothingLeftBehind ==
  main = "exit" => /\ child \in {"none", "reaped"}
                   /\ ~cgroup.dir
                   /\ ~tracer.attached

(* Neither process waits for what can no longer come.  main, in the read   *)
(* of seccompPipe or in the waitpid of cleanup, waits for a child that is  *)
(* still on its way to the write or that the SIGKILL has hit; the child,   *)
(* in the read of syncPipe, for a main that does not itself wait, not even *)
(* in RECV, where it can wait in vain after a poll that failed.            *)
MainBlocked ==
  \/ main = "readfd" /\ PipesMade /\ ~NumberReadable
  \/ main = "wait" /\ ChildAlive

ChildBlocked == child = "await" /\ ~StartReadable

NobodyWaitsInVain ==
  /\ MainBlocked => \/ child \in {"start", "mount", "sendfd"}
                    \/ main = "wait" /\ "child" \in killed
  /\ ChildBlocked => /\ main \notin {"exit", "dead", "hung", "recv"}
                     /\ ~MainBlocked

----------------------------------------------------------------------------
(* The abstract run that main and the child implement *)

Progress ==
  CASE main \in LoopPoints         -> "watching"
    [] main = "exit"                -> "done"
    [] main \in AfterLoop \ {"exit"} -> "ending"
    [] main \in {"dead", "hung"}  -> "broken off"
    [] OTHER                      -> "preparing"

Program ==
  CASE child = "none"                 -> "absent"
    [] TargetStarted                  -> "running"
    [] child \in {"zombie", "reaped"} -> "over"
    [] OTHER                          -> "held"

Run == INSTANCE Analysis WITH analysis <- Progress, program <- Program

(* Whatever fails, launch and start hold the program back until main is at *)
(* its loop, and main returns only when the program is over.               *)
RunKept == Run!Spec

(* What module Files takes apart; a child goes on when main is dead *)
Stage ==
  IF child # "none" THEN "copied"
  ELSE CASE main \in {"setup", "reset"} -> "begun"
         [] main = "copy"              -> "emptied"
         [] main \in {"exit", "dead"}  -> "left"
         [] OTHER -> IF PipesMade THEN "copied" ELSE "failed"

Prepared == INSTANCE Preparation WITH
              stage <- Stage, holds <- upper, running <- child = "target"

(* The target runs, and writes, only in an upper directory that was        *)
(* emptied in this run and given its copy after that, whatever fails and   *)
(* whenever fragarach dies.                                                *)
UpperPrepared == Prepared!Spec

----------------------------------------------------------------------------
(* Liveness *)

(* main never waits for ever, in the two pipe reads or in waitpid: it ends *)
(* on its own or by a signal, or hangs on an uninitialised descriptor, or  *)
(* a target that neither ends nor pauses keeps it in ring_buffer__consume, *)
(* or it stays in RECV, which a poll that failed did not keep it from.     *)
MainEnds ==
  \/ <>(main \in {"exit", "dead", "hung"})
  \/ <>[](main \in {"consume", "flush"} /\ child = "target")
  \/ <>[](main = "recv" /\ "poll" \in failed)

(* A target that would run for ever is ended by the time limit, if the     *)
(* tracer could be started, fragarach is not killed, poll does not fail,   *)
(* and consume returns.                                                    *)
TargetEndedByTimeout ==
  child = "target"
    ~> \/ ~ChildAlive
       \/ Failed({"load", "attach", "ringbuf", "poll", "killed", "outrun"})

(* A child waiting on syncPipe does not stay there when fragarach dies:    *)
(* nobody but main holds the write end, so it reads end of file.           *)
OrphanIsReleased == main = "dead" /\ child = "await" ~> child # "await"

----------------------------------------------------------------------------
(* What the documentation says of every run *)

(* sandbox.cpp: "kill child".  In cleanup.                                 *)
CleanupKillsChild == killed \subseteq {"child"}

(* main.cpp: "Sandbox timed out, killing child...": a target does not      *)
(* outlive the time limit while fragarach is not killed from outside.      *)
TimeLimitHolds == child = "target" ~> (~ChildAlive \/ Failed({"killed"}))

============================================================================
