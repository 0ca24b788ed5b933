------------------------------- MODULE Mounts -------------------------------
(***************************************************************************)
(* The overlay of fragarach over several runs: the directory upper that    *)
(* every run empties and fills (Sandbox::resetOverlay, cpy in launch), and *)
(* the mounts by which a child (childFunction) makes an overlay of it its  *)
(* root.  Where / is shared, as systemd sets it, what the child mounts     *)
(* before it makes its mounts private appears on the host as well, and in  *)
(* the namespace of every other child that has not come as far.            *)
(*                                                                         *)
(* One run follows the other.  Only when fragarach ends without its        *)
(* clean-up does a child live on beside the next run.  A copy that fails   *)
(* is in module Session.                                                   *)
(***************************************************************************)
EXTENDS Naturals, Sequences

CONSTANT MaxRuns \* bound of the model: how often fragarach is started

ASSUME MaxRunsAssumption == MaxRuns \in Nat

Runs == 1 .. MaxRuns

VARIABLES
  main,       \* control point of fragarach, in its latest run
  run,        \*   and the number of that run
  child,      \* control point of the child of each run
  sharedRoot, \* whether / is a shared mount on the host
  host,       \* what is mounted on the directory merged, on the host:
              \*   the overlays, by their runs, the topmost last
  peers,      \* the children that share the propagation of the host
  own,        \* what is mounted there for the other children
  root,       \* a child's root: a run's overlay, or 0, the bare directory
  current,    \* the directory that is upper now: they are numbered
  upper,      \* what each of them holds: whose binary, whose files
  uses,       \* the directory that is the upper layer of a run's overlay
  image,      \* the run whose binary a child executes
  deep,       \* history: the runs whose target left a tree too deep to be
              \*   deleted (module Files),
  abandoned   \* and whether fragarach ended without its clean-up

mainVars == <<main, run>>
mountVars == <<host, peers, own, root, uses>>
vars == <<mainVars, child, sharedRoot, mountVars, current, upper, image, deep,
          abandoned>>

Directories == 0 .. MaxRuns

(* Type correctness: as many directories as runs, and the one at the start; *)
(* on a host whose / is private, no child shares its propagation.           *)
TypeOK ==
  /\ main \in {"idle", "empty", "renew", "copy", "clone", "loop"}
  /\ run \in 0 .. MaxRuns
  /\ child \in [Runs -> {"none", "umount", "overlay", "private", "pivot",
                         "proc", "access", "exec", "target", "ended"}]
  /\ sharedRoot \in BOOLEAN
  /\ host \in Seq(Runs) /\ own \in [Runs -> Seq(Runs)]
  /\ peers \subseteq IF sharedRoot THEN Runs ELSE {}
  /\ root \in [Runs -> Runs \cup {0}]
  /\ current \in Directories
  /\ upper \in [Directories -> [target : Runs \cup {0}, files : SUBSET Runs]]
  /\ uses \in [Runs -> Directories]
  /\ image \in [Runs -> Runs \cup {0}]
  /\ deep \subseteq Runs
  /\ abandoned \in BOOLEAN

Empty == [target |-> 0, files |-> {}]

(* after installation: nothing has run *)
Init ==
  /\ main = "idle" /\ run = 0
  /\ child = [r \in Runs |-> "none"]
  /\ sharedRoot \in BOOLEAN
  /\ host = <<>> /\ peers = {} /\ own = [r \in Runs |-> <<>>]
  /\ root = [r \in Runs |-> 0]
  /\ current = 0
  /\ upper = [d \in Directories |-> Empty]
  /\ uses = [r \in Runs |-> 0]
  /\ image = [r \in Runs |-> 0]
  /\ deep = {} /\ abandoned = FALSE

----------------------------------------------------------------------------
(* Mounts on the directory merged, as the kernel keeps them *)

Alive(r) == child[r] \notin {"none", "ended"}

Seen(r) == IF r \in peers THEN host ELSE own[r]

(* A change in one namespace of a peer group is a change in all of them. *)
Mounted(r, stack) ==
  IF r \in peers
    THEN host' = stack /\ UNCHANGED own
    ELSE own' = [own EXCEPT ![r] = stack] /\ UNCHANGED host

Top(stack) == IF stack = <<>> THEN 0 ELSE stack[Len(stack)]

Without(stack) ==
  IF stack = <<>> THEN stack ELSE SubSeq(stack, 1, Len(stack) - 1)

----------------------------------------------------------------------------
(* fragarach *)

Start ==
  /\ main = "idle" /\ run < MaxRuns
  /\ main' = "empty" /\ run' = run + 1
  /\ UNCHANGED <<child, sharedRoot, mountVars, current, upper, image, deep,
                 abandoned>>

(* rmRF deletes what it finds in upper, but for the trees that are too     *)
(* deep.  A faulty variant: it deletes nothing.                            *)
EmptyNothing ==
  /\ main = "empty" /\ main' = "renew"
  /\ UNCHANGED <<run, child, sharedRoot, mountVars, current, upper, image,
                 deep, abandoned>>
EmptyUpper ==
  /\ main = "empty" /\ main' = "renew"
  /\ upper' = [upper EXCEPT ![current] =
                 [target |-> 0, files |-> @.files \cap deep]]
  /\ UNCHANGED <<run, child, sharedRoot, mountVars, current, image, deep,
                 abandoned>>

(* rmRF deletes the directory itself, unless it still holds something, or  *)
(* does again, and mkdirP makes a new one; what an overlay uses is the old *)
(* one.                                                                    *)
RenewUpper ==
  /\ main = "renew" /\ main' = "copy"
  /\ current' = IF upper[current] = Empty THEN run ELSE current
  /\ UNCHANGED <<run, child, sharedRoot, mountVars, upper, image, deep,
                 abandoned>>

CopyTarget ==
  /\ main = "copy" /\ main' = "clone"
  /\ upper' = [upper EXCEPT ![current].target = run]
  /\ UNCHANGED <<run, child, sharedRoot, mountVars, current, image, deep,
                 abandoned>>

(* CLONE_NEWNS: a copy of the host's mounts, in the same peer groups.  A   *)
(* faulty variant: without the flag the child has the host's mounts.       *)
CloneInHost ==
  /\ main = "clone" /\ main' = "loop"
  /\ child' = [child EXCEPT ![run] = "umount"]
  /\ peers' = peers \cup {run}
  /\ UNCHANGED <<run, sharedRoot, host, own, root, current, upper, uses, image,
                 deep, abandoned>>
Clone ==
  /\ main = "clone" /\ main' = "loop"
  /\ child' = [child EXCEPT ![run] = "umount"]
  /\ own' = [own EXCEPT ![run] = host]
  /\ peers' = IF sharedRoot THEN peers \cup {run} ELSE peers
  /\ UNCHANGED <<run, sharedRoot, host, root, current, upper, uses, image,
                 deep, abandoned>>

(* cleanup waits for the end of the child; it unmounts and deletes nothing. *)
(* A faulty variant: it does not wait.                                      *)
CleanupAtOnce ==
  /\ main = "loop" /\ main' = "idle"
  /\ UNCHANGED <<run, child, sharedRoot, mountVars, current, upper, image,
                 deep, abandoned>>
Cleanup ==
  /\ main = "loop" /\ ~Alive(run) /\ main' = "idle"
  /\ UNCHANGED <<run, child, sharedRoot, mountVars, current, upper, image,
                 deep, abandoned>>

(* A signal from outside, or one that fragarach raises itself *)
Abandon ==
  /\ main # "idle" /\ main' = "idle"
  /\ abandoned' = TRUE
  /\ UNCHANGED <<run, child, sharedRoot, mountVars, current, upper, image,
                 deep>>

----------------------------------------------------------------------------
(* The child of run r *)

(* umount2 of what an earlier run left.  A faulty variant: it is missing. *)
UnmountNothing(r) ==
  /\ child[r] = "umount" /\ child' = [child EXCEPT ![r] = "overlay"]
  /\ UNCHANGED <<mainVars, sharedRoot, mountVars, current, upper, image, deep,
                 abandoned>>
Unmount(r) ==
  /\ child[r] = "umount" /\ child' = [child EXCEPT ![r] = "overlay"]
  /\ Mounted(r, Without(Seen(r)))
  /\ UNCHANGED <<mainVars, sharedRoot, peers, root, current, upper, uses,
                 image, deep, abandoned>>

MountOverlay(r) ==
  /\ child[r] = "overlay" /\ child' = [child EXCEPT ![r] = "private"]
  /\ Mounted(r, Append(Seen(r), r))
  /\ uses' = [uses EXCEPT ![r] = current]
  /\ UNCHANGED <<mainVars, sharedRoot, peers, root, current, upper, image,
                 deep, abandoned>>

MakePrivate(r) ==
  /\ child[r] = "private" /\ child' = [child EXCEPT ![r] = "pivot"]
  /\ own' = [own EXCEPT ![r] = Seen(r)] /\ peers' = peers \ {r}
  /\ UNCHANGED <<mainVars, sharedRoot, host, root, current, upper, uses, image,
                 deep, abandoned>>

(* merged is bound onto itself, entered and made the root: whatever is on  *)
(* top there by now                                                        *)
PivotRoot(r) ==
  /\ child[r] = "pivot" /\ child' = [child EXCEPT ![r] = "proc"]
  /\ root' = [root EXCEPT ![r] = Top(own[r])]
  /\ UNCHANGED <<mainVars, sharedRoot, host, peers, own, current, upper, uses,
                 image, deep, abandoned>>

Ended(r) ==
  /\ child' = [child EXCEPT ![r] = "ended"]
  /\ peers' = peers \ {r} /\ own' = [own EXCEPT ![r] = <<>>]
  /\ UNCHANGED <<host, root, uses>>

(* The bare directory merged has no proc to mount on.  A faulty variant:   *)
(* that the mount fails is not looked at, as with umount2.                 *)
HasProcOrGoesOn(r) == TRUE
HasProc(r) == root[r] # 0
MountProc(r) ==
  /\ child[r] = "proc" /\ HasProc(r)
  /\ child' = [child EXCEPT ![r] = "access"]
  /\ UNCHANGED <<mainVars, sharedRoot, mountVars, current, upper, image, deep,
                 abandoned>>

(* What a child finds at /target: a directory that was replaced is empty. *)
Target(r) == upper[uses[root[r]]].target

AccessTarget(r) ==
  /\ child[r] = "access" /\ Target(r) # 0
  /\ child' = [child EXCEPT ![r] = "exec"]
  /\ UNCHANGED <<mainVars, sharedRoot, mountVars, current, upper, image, deep,
                 abandoned>>

(* when the start signal is there, or fragarach is gone *)
ExecTarget(r) ==
  /\ child[r] = "exec" /\ Target(r) # 0
  /\ child' = [child EXCEPT ![r] = "target"]
  /\ image' = [image EXCEPT ![r] = Target(r)]
  /\ UNCHANGED <<mainVars, sharedRoot, mountVars, current, upper, deep,
                 abandoned>>

(* A write goes to the upper layer; nothing is created in a directory that *)
(* was deleted.                                                            *)
TargetWrites(r) ==
  /\ child[r] = "target" /\ uses[root[r]] = current
  /\ upper' = [upper EXCEPT ![current].files = @ \cup {r}]
  /\ deep' \in {deep, deep \cup {r}}
  /\ UNCHANGED <<mainVars, child, sharedRoot, mountVars, current, image,
                 abandoned>>

(* A call of childFunction that fails, the target's end, or SIGKILL *)
End(r) ==
  /\ Alive(r) /\ Ended(r)
  /\ UNCHANGED <<mainVars, sharedRoot, current, upper, image, deep, abandoned>>

Over ==
  /\ main = "idle" /\ run = MaxRuns /\ \A r \in Runs : ~Alive(r)
  /\ UNCHANGED vars

MainNext ==
  \/ Start \/ EmptyUpper \/ RenewUpper \/ CopyTarget \/ Clone
  \/ Cleanup \/ Abandon

ChildNext(r) ==
  \/ Unmount(r) \/ MountOverlay(r) \/ MakePrivate(r) \/ PivotRoot(r)
  \/ MountProc(r) \/ AccessTarget(r) \/ ExecTarget(r) \/ TargetWrites(r)
  \/ End(r)

Next == MainNext \/ (\E r \in Runs : ChildNext(r)) \/ Over

Spec == Init /\ [][Next]_vars

----------------------------------------------------------------------------
(* Safety *)

Confined(r) == child[r] \in {"access", "exec", "target"}

(* No child comes to execve in the bare directory of the host, although    *)
(* another child's umount2 may take its overlay away before it made its    *)
(* mounts private: there is no proc to mount on then.                      *)
RootIsOverlay == \A r \in Runs : Confined(r) => root[r] # 0

(* While every run is cleaned up, a child's root is the overlay its own    *)
(* childFunction mounted, also over what an earlier run left on the host.  *)
RootIsOwn == ~abandoned => \A r \in Runs : Confined(r) => root[r] = r

(* While every run is cleaned up, a child executes its own run's binary    *)
(* and finds nothing in its root that another target wrote, but for trees  *)
(* too deep to be deleted, although only the next launch resets the        *)
(* overlay, and the host may still have the last one mounted when it does. *)
NothingOfOthers ==
  ~abandoned => \A r \in Runs : Confined(r) =>
    /\ image[r] \in {0, r} /\ Target(r) = r
    /\ upper[uses[root[r]]].files \subseteq {r} \cup deep

(* On a host whose / is private, no mount of childFunction shows outside.  *)
PrivateHostUntouched == ~sharedRoot => host = <<>>

(* On the others overlays do stay, but they do not pile up: umount2 in the *)
(* next child takes away what the last run left.                           *)
NoPile == ~abandoned => Len(host) <= 1

(* What the host sees of the mounts of any number of runs *)
HostKept == PrivateHostUntouched /\ NoPile

----------------------------------------------------------------------------
(* What a comment says *)

(* sandbox.cpp: "gives child its own mount table, system's mount table is  *)
(* untouched", of the clone in launch.                                     *)
HostUntouched == host = <<>>

============================================================================
