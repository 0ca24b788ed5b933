---------------------------- MODULE MountsProofs ----------------------------
(***************************************************************************)
(* Proofs about Mounts, for any number of runs: what is a child's root,    *)
(* what it finds there, and what stays on the host.                        *)
(***************************************************************************)
EXTENDS Mounts, TLAPS

----------------------------------------------------------------------------
(* The inductive invariant. *)

(* Who shares the host's propagation has not made its mounts private. *)
PeersInv == \A r \in peers : child[r] \in {"umount", "overlay", "private"}

(* A run has its child from clone on, none before. *)
RunInv ==
  /\ main # "idle" => run \in Runs
  /\ \A r \in Runs :
       r > run \/ (r = run /\ main \in {"empty", "renew", "copy", "clone"})
         => child[r] = "none"
  /\ \A r \in Runs : child[r] \notin {"target", "ended"} => image[r] = 0

(* A directory that is upper no longer was empty when it was deleted. *)
DirectoriesInv == \A d \in Directories \ {current} : upper[d] = Empty

(* While every run is cleaned up, only the latest has a child that lives,  *)
(* and that child is as far as this: *)
StacksInv ==
  ~abandoned =>
    /\ \A r \in Runs : Alive(r) => r = run /\ main = "loop"
    /\ Len(host) <= 1
    /\ \A r \in Runs :
         /\ child[r] = "umount" => Len(Seen(r)) <= 1
         /\ child[r] = "overlay" => Seen(r) = <<>>
         /\ child[r] = "private" => Seen(r) = <<r>>
         /\ child[r] = "pivot" => own[r] = <<r>>
         /\ child[r] = "proc" \/ Confined(r) => root[r] = r

(* What the latest run's upper layer holds. *)
UpperInv ==
  ~abandoned =>
    /\ main \in {"renew", "copy", "clone"}
         => upper[current].files \subseteq deep
    /\ main = "clone" => upper[current].target = run
    /\ \A r \in Runs :
         /\ Alive(r) => /\ upper[current].target = r
                        /\ upper[current].files \subseteq {r} \cup deep
         /\ child[r] \in {"private", "pivot", "proc"} \/ Confined(r)
              => uses[r] = current
         /\ child[r] = "target" => image[r] = r

IInv ==
  /\ TypeOK /\ PeersInv /\ RunInv /\ DirectoriesInv
  /\ RootIsOverlay /\ PrivateHostUntouched
  /\ StacksInv /\ UpperInv

----------------------------------------------------------------------------
(* Stacks of mounts. *)

(* Without takes one mount off, Append puts one on. *)
LEMMA StackFacts ==
  ASSUME NEW stack \in Seq(Runs)
  PROVE  /\ Without(stack) \in Seq(Runs)
         /\ Len(stack) <= 1 => Without(stack) = <<>>
         /\ Top(stack) \in Runs \cup {0}
         /\ \A r \in Runs : /\ Append(stack, r) \in Seq(Runs)
                            /\ stack = <<r>> => Top(stack) = r
                            /\ stack = <<>> => Append(stack, r) = <<r>>
<1>1. Without(stack) \in Seq(Runs)
  BY DEF Without
<1>2. Len(stack) <= 1 => Without(stack) = <<>>
  BY DEF Without
<1>3. Top(stack) \in Runs \cup {0}
  BY DEF Top
<1>4. ASSUME NEW r \in Runs
      PROVE  /\ Append(stack, r) \in Seq(Runs)
             /\ stack = <<r>> => Top(stack) = r
             /\ stack = <<>> => Append(stack, r) = <<r>>
  <2>1. Append(stack, r) \in Seq(Runs)
    OBVIOUS
  <2>2. ASSUME stack = <<r>>
        PROVE  Top(stack) = r
    <3>1. stack # <<>> /\ Len(stack) = 1 /\ stack[1] = r
      BY <2>2
    <3> QED
      BY <3>1 DEF Top
  <2>3. stack = <<>> => Append(stack, r) = <<r>>
    OBVIOUS
  <2> QED
    BY <2>1, <2>2, <2>3
<1> QED
  BY <1>1, <1>2, <1>3, <1>4

(* What a child sees is a stack of overlays. *)
LEMMA SeenTyped ==
  ASSUME TypeOK, NEW r \in Runs
  PROVE  Seen(r) \in Seq(Runs)
  BY DEF TypeOK, Seen

----------------------------------------------------------------------------
(* The invariant holds at the start, and every step keeps its parts. *)

LEMMA InitInv == Init => IInv
<1> SUFFICES ASSUME Init PROVE IInv
    OBVIOUS
<1>1. TypeOK
  <2>1. /\ upper \in [Directories
                     -> [target : Runs \cup {0}, files : SUBSET Runs]]
        /\ uses \in [Runs -> Directories] /\ current \in Directories
    BY MaxRunsAssumption DEF Init, Directories, Empty
  <2>2. /\ deep \subseteq Runs /\ abandoned \in BOOLEAN
        /\ image \in [Runs -> Runs \cup {0}]
        /\ peers \subseteq IF sharedRoot THEN Runs ELSE {}
    BY DEF Init
  <2> QED
    BY <2>1, <2>2, MaxRunsAssumption DEF Init, TypeOK, Runs
<1>2. /\ PeersInv /\ RunInv /\ DirectoriesInv /\ RootIsOverlay
      /\ PrivateHostUntouched
  BY DEF Init, PeersInv, RunInv, DirectoriesInv, RootIsOverlay,
         PrivateHostUntouched, Confined
<1>3. StacksInv /\ UpperInv
  BY DEF Init, StacksInv, UpperInv, Alive, Confined
<1> QED
  BY <1>1, <1>2, <1>3 DEF IInv

(* Every step keeps the types. *)
LEMMA TypeOKStep == IInv /\ [Next]_vars => TypeOK'
<1> SUFFICES ASSUME IInv, [Next]_vars PROVE TypeOK'
    OBVIOUS
<1> USE MaxRunsAssumption DEF IInv, TypeOK, RunInv, PeersInv, Runs,
      Directories, Empty, mainVars, mountVars, Mounted, Ended
<1>1. CASE Start
  BY <1>1 DEF Start
<1>2. CASE EmptyUpper
  BY <1>2 DEF EmptyUpper
<1>3. CASE RenewUpper
  BY <1>3 DEF RenewUpper
<1>4. CASE CopyTarget
  <2>1. upper[current] \in [target : Runs \cup {0}, files : SUBSET Runs]
    OBVIOUS
  <2>2. [upper[current] EXCEPT !.target = run]
          \in [target : Runs \cup {0}, files : SUBSET Runs]
    BY <1>4, <2>1 DEF CopyTarget
  <2>3. upper' = [upper EXCEPT ![current] = [@ EXCEPT !.target = run]]
    BY <1>4 DEF CopyTarget
  <2>4. upper' \in [Directories -> [target : Runs \cup {0}, files : SUBSET Runs]]
    BY ONLY TypeOK, <2>2, <2>3 DEF TypeOK
  <2> QED
    BY <1>4, <2>4 DEF CopyTarget
<1>5. CASE Clone
  BY <1>5 DEF Clone
<1>6. CASE Cleanup
  BY <1>6 DEF Cleanup
<1>7. CASE Abandon
  BY <1>7 DEF Abandon
<1>8. ASSUME NEW r \in Runs, Unmount(r)
      PROVE  TypeOK'
  <2>1. Seen(r) \in Seq(Runs)
    BY SeenTyped
  <2>2. Without(Seen(r)) \in Seq(Runs)
    BY ONLY <2>1, StackFacts, r \in Runs
  <2>3. host' \in Seq(Runs) /\ own' \in [Runs -> Seq(Runs)]
    BY ONLY TypeOK, <1>8, <2>2 DEF TypeOK, Unmount, Mounted
  <2> QED
    BY <1>8, <2>3 DEF Unmount
<1>9. ASSUME NEW r \in Runs, MountOverlay(r)
      PROVE  TypeOK'
  <2>1. Seen(r) \in Seq(Runs)
    BY SeenTyped
  <2>2. Append(Seen(r), r) \in Seq(Runs)
    BY ONLY <2>1, StackFacts, r \in Runs
  <2>3. host' \in Seq(Runs) /\ own' \in [Runs -> Seq(Runs)]
    BY ONLY TypeOK, <1>9, <2>2 DEF TypeOK, MountOverlay, Mounted
  <2> QED
    BY <1>9, <2>3 DEF MountOverlay
<1>10. ASSUME NEW r \in Runs, MakePrivate(r)
      PROVE  TypeOK'
  <2>1. Seen(r) \in Seq(Runs)
    BY SeenTyped
  <2> QED
    BY <1>10, <2>1, StackFacts DEF MakePrivate
<1>11. ASSUME NEW r \in Runs, PivotRoot(r)
      PROVE  TypeOK'
  BY <1>11, StackFacts DEF PivotRoot
<1>12. ASSUME NEW r \in Runs, MountProc(r)
      PROVE  TypeOK'
  BY <1>12 DEF MountProc
<1>13. ASSUME NEW r \in Runs, AccessTarget(r)
      PROVE  TypeOK'
  BY <1>13 DEF AccessTarget
<1>14. ASSUME NEW r \in Runs, ExecTarget(r)
      PROVE  TypeOK'
  <2>1. root[r] \in Runs
    BY <1>14 DEF ExecTarget, RootIsOverlay, Confined
  <2>2. upper[uses[root[r]]].target \in Runs \cup {0}
    BY <2>1
  <2> QED
    BY <1>14, <2>2 DEF ExecTarget, Target
<1>15. ASSUME NEW r \in Runs, TargetWrites(r)
      PROVE  TypeOK'
  <2>1. upper[current] \in [target : Runs \cup {0}, files : SUBSET Runs]
    OBVIOUS
  <2>2. [upper[current] EXCEPT !.files = @ \cup {r}]
          \in [target : Runs \cup {0}, files : SUBSET Runs]
    BY <2>1
  <2>3. upper' = [upper EXCEPT ![current] =
                         [@ EXCEPT !.files = upper[current].files \cup {r}]]
    BY <1>15 DEF TargetWrites
  <2>4. upper' \in [Directories -> [target : Runs \cup {0}, files : SUBSET Runs]]
    BY ONLY TypeOK, <2>2, <2>3 DEF TypeOK
  <2> QED
    BY <1>15, <2>4 DEF TargetWrites
<1>16. ASSUME NEW r \in Runs, End(r)
      PROVE  TypeOK'
  BY <1>16 DEF End
<1>17. CASE Over \/ UNCHANGED vars
  BY <1>17 DEF Over, vars, mainVars, mountVars
<1> QED
  BY <1>1, <1>2, <1>3, <1>4, <1>5, <1>6, <1>7, <1>8, <1>9, <1>10, <1>11,
     <1>12, <1>13, <1>14, <1>15, <1>16, <1>17
     DEF Next, MainNext, ChildNext

(* Every step keeps who shares the host's propagation. *)
LEMMA PeersInvStep == IInv /\ [Next]_vars => PeersInv'
<1> SUFFICES ASSUME IInv, [Next]_vars PROVE PeersInv'
    OBVIOUS
<1> USE MaxRunsAssumption DEF IInv, TypeOK, PeersInv, RunInv, Alive, mainVars,
      mountVars, Mounted, Ended
<1>1. CASE Start
  BY <1>1 DEF Start
<1>2. CASE EmptyUpper
  BY <1>2 DEF EmptyUpper
<1>3. CASE RenewUpper
  BY <1>3 DEF RenewUpper
<1>4. CASE CopyTarget
  BY <1>4 DEF CopyTarget
<1>5. CASE Clone
  BY <1>5 DEF Clone
<1>6. CASE Cleanup
  BY <1>6 DEF Cleanup
<1>7. CASE Abandon
  BY <1>7 DEF Abandon
<1>8. ASSUME NEW r \in Runs, Unmount(r)
      PROVE  PeersInv'
  BY <1>8 DEF Unmount
<1>9. ASSUME NEW r \in Runs, MountOverlay(r)
      PROVE  PeersInv'
  BY <1>9 DEF MountOverlay
<1>10. ASSUME NEW r \in Runs, MakePrivate(r)
      PROVE  PeersInv'
  BY <1>10 DEF MakePrivate
<1>11. ASSUME NEW r \in Runs, PivotRoot(r)
      PROVE  PeersInv'
  BY <1>11 DEF PivotRoot
<1>12. ASSUME NEW r \in Runs, MountProc(r)
      PROVE  PeersInv'
  BY <1>12 DEF MountProc
<1>13. ASSUME NEW r \in Runs, AccessTarget(r)
      PROVE  PeersInv'
  BY <1>13 DEF AccessTarget
<1>14. ASSUME NEW r \in Runs, ExecTarget(r)
      PROVE  PeersInv'
  BY <1>14 DEF ExecTarget
<1>15. ASSUME NEW r \in Runs, TargetWrites(r)
      PROVE  PeersInv'
  BY <1>15 DEF TargetWrites
<1>16. ASSUME NEW r \in Runs, End(r)
      PROVE  PeersInv'
  BY <1>16 DEF End
<1>17. CASE Over \/ UNCHANGED vars
  BY <1>17 DEF Over, vars, mainVars, mountVars
<1> QED
  BY <1>1, <1>2, <1>3, <1>4, <1>5, <1>6, <1>7, <1>8, <1>9, <1>10, <1>11,
     <1>12, <1>13, <1>14, <1>15, <1>16, <1>17
     DEF Next, MainNext, ChildNext

(* Every step keeps which runs have a child. *)
LEMMA RunInvStep == IInv /\ [Next]_vars => RunInv'
<1> SUFFICES ASSUME IInv, [Next]_vars PROVE RunInv'
    OBVIOUS
<1> USE MaxRunsAssumption DEF IInv, TypeOK, RunInv, Runs, Alive, mainVars,
      mountVars, Mounted, Ended
<1>1. CASE Start
  BY <1>1 DEF Start
<1>2. CASE EmptyUpper
  BY <1>2 DEF EmptyUpper
<1>3. CASE RenewUpper
  BY <1>3 DEF RenewUpper
<1>4. CASE CopyTarget
  BY <1>4 DEF CopyTarget
<1>5. CASE Clone
  BY <1>5 DEF Clone
<1>6. CASE Cleanup
  BY <1>6 DEF Cleanup
<1>7. CASE Abandon
  BY <1>7 DEF Abandon
<1>8. ASSUME NEW r \in Runs, Unmount(r)
      PROVE  RunInv'
  BY <1>8 DEF Unmount
<1>9. ASSUME NEW r \in Runs, MountOverlay(r)
      PROVE  RunInv'
  BY <1>9 DEF MountOverlay
<1>10. ASSUME NEW r \in Runs, MakePrivate(r)
      PROVE  RunInv'
  BY <1>10 DEF MakePrivate
<1>11. ASSUME NEW r \in Runs, PivotRoot(r)
      PROVE  RunInv'
  BY <1>11 DEF PivotRoot
<1>12. ASSUME NEW r \in Runs, MountProc(r)
      PROVE  RunInv'
  BY <1>12 DEF MountProc
<1>13. ASSUME NEW r \in Runs, AccessTarget(r)
      PROVE  RunInv'
  BY <1>13 DEF AccessTarget
<1>14. ASSUME NEW r \in Runs, ExecTarget(r)
      PROVE  RunInv'
  BY <1>14 DEF ExecTarget
<1>15. ASSUME NEW r \in Runs, TargetWrites(r)
      PROVE  RunInv'
  BY <1>15 DEF TargetWrites
<1>16. ASSUME NEW r \in Runs, End(r)
      PROVE  RunInv'
  BY <1>16 DEF End
<1>17. CASE Over \/ UNCHANGED vars
  BY <1>17 DEF Over, vars, mainVars, mountVars
<1> QED
  BY <1>1, <1>2, <1>3, <1>4, <1>5, <1>6, <1>7, <1>8, <1>9, <1>10, <1>11,
     <1>12, <1>13, <1>14, <1>15, <1>16, <1>17
     DEF Next, MainNext, ChildNext

(* Every step keeps the deleted directories empty. *)
LEMMA DirectoriesInvStep == IInv /\ [Next]_vars => DirectoriesInv'
<1> SUFFICES ASSUME IInv, [Next]_vars PROVE DirectoriesInv'
    OBVIOUS
<1> USE MaxRunsAssumption DEF IInv, TypeOK, RunInv, DirectoriesInv,
      Directories, Runs, Empty, mainVars, mountVars, Mounted, Ended
<1>1. CASE Start
  BY <1>1 DEF Start
<1>2. CASE EmptyUpper
  BY <1>2 DEF EmptyUpper
<1>3. CASE RenewUpper
  BY <1>3 DEF RenewUpper
<1>4. CASE CopyTarget
  BY <1>4 DEF CopyTarget
<1>5. CASE Clone
  BY <1>5 DEF Clone
<1>6. CASE Cleanup
  BY <1>6 DEF Cleanup
<1>7. CASE Abandon
  BY <1>7 DEF Abandon
<1>8. ASSUME NEW r \in Runs, Unmount(r)
      PROVE  DirectoriesInv'
  BY <1>8 DEF Unmount
<1>9. ASSUME NEW r \in Runs, MountOverlay(r)
      PROVE  DirectoriesInv'
  BY <1>9 DEF MountOverlay
<1>10. ASSUME NEW r \in Runs, MakePrivate(r)
      PROVE  DirectoriesInv'
  BY <1>10 DEF MakePrivate
<1>11. ASSUME NEW r \in Runs, PivotRoot(r)
      PROVE  DirectoriesInv'
  BY <1>11 DEF PivotRoot
<1>12. ASSUME NEW r \in Runs, MountProc(r)
      PROVE  DirectoriesInv'
  BY <1>12 DEF MountProc
<1>13. ASSUME NEW r \in Runs, AccessTarget(r)
      PROVE  DirectoriesInv'
  BY <1>13 DEF AccessTarget
<1>14. ASSUME NEW r \in Runs, ExecTarget(r)
      PROVE  DirectoriesInv'
  BY <1>14 DEF ExecTarget
<1>15. ASSUME NEW r \in Runs, TargetWrites(r)
      PROVE  DirectoriesInv'
  BY <1>15 DEF TargetWrites
<1>16. ASSUME NEW r \in Runs, End(r)
      PROVE  DirectoriesInv'
  BY <1>16 DEF End
<1>17. CASE Over \/ UNCHANGED vars
  BY <1>17 DEF Over, vars, mainVars, mountVars
<1> QED
  BY <1>1, <1>2, <1>3, <1>4, <1>5, <1>6, <1>7, <1>8, <1>9, <1>10, <1>11,
     <1>12, <1>13, <1>14, <1>15, <1>16, <1>17
     DEF Next, MainNext, ChildNext

(* Every step keeps the children off the bare directory. *)
LEMMA RootStep == IInv /\ [Next]_vars => RootIsOverlay'
<1> SUFFICES ASSUME IInv, [Next]_vars PROVE RootIsOverlay'
    OBVIOUS
<1> USE MaxRunsAssumption DEF IInv, TypeOK, RunInv, RootIsOverlay, Confined,
      HasProc, mainVars, mountVars, Mounted, Ended
<1>1. CASE Start
  BY <1>1 DEF Start
<1>2. CASE EmptyUpper
  BY <1>2 DEF EmptyUpper
<1>3. CASE RenewUpper
  BY <1>3 DEF RenewUpper
<1>4. CASE CopyTarget
  BY <1>4 DEF CopyTarget
<1>5. CASE Clone
  BY <1>5 DEF Clone
<1>6. CASE Cleanup
  BY <1>6 DEF Cleanup
<1>7. CASE Abandon
  BY <1>7 DEF Abandon
<1>8. ASSUME NEW r \in Runs, Unmount(r)
      PROVE  RootIsOverlay'
  BY <1>8 DEF Unmount
<1>9. ASSUME NEW r \in Runs, MountOverlay(r)
      PROVE  RootIsOverlay'
  BY <1>9 DEF MountOverlay
<1>10. ASSUME NEW r \in Runs, MakePrivate(r)
      PROVE  RootIsOverlay'
  BY <1>10 DEF MakePrivate
<1>11. ASSUME NEW r \in Runs, PivotRoot(r)
      PROVE  RootIsOverlay'
  BY <1>11 DEF PivotRoot
<1>12. ASSUME NEW r \in Runs, MountProc(r)
      PROVE  RootIsOverlay'
  BY <1>12 DEF MountProc
<1>13. ASSUME NEW r \in Runs, AccessTarget(r)
      PROVE  RootIsOverlay'
  BY <1>13 DEF AccessTarget
<1>14. ASSUME NEW r \in Runs, ExecTarget(r)
      PROVE  RootIsOverlay'
  BY <1>14 DEF ExecTarget
<1>15. ASSUME NEW r \in Runs, TargetWrites(r)
      PROVE  RootIsOverlay'
  BY <1>15 DEF TargetWrites
<1>16. ASSUME NEW r \in Runs, End(r)
      PROVE  RootIsOverlay'
  BY <1>16 DEF End
<1>17. CASE Over \/ UNCHANGED vars
  BY <1>17 DEF Over, vars, mainVars, mountVars
<1> QED
  BY <1>1, <1>2, <1>3, <1>4, <1>5, <1>6, <1>7, <1>8, <1>9, <1>10, <1>11,
     <1>12, <1>13, <1>14, <1>15, <1>16, <1>17
     DEF Next, MainNext, ChildNext

(* Every step keeps a private host as it is. *)
LEMMA HostStep == IInv /\ [Next]_vars => PrivateHostUntouched'
<1> SUFFICES ASSUME IInv, [Next]_vars PROVE PrivateHostUntouched'
    OBVIOUS
<1> USE MaxRunsAssumption DEF IInv, TypeOK, PrivateHostUntouched, mainVars,
      mountVars, Mounted, Ended
<1>1. CASE Start
  BY <1>1 DEF Start
<1>2. CASE EmptyUpper
  BY <1>2 DEF EmptyUpper
<1>3. CASE RenewUpper
  BY <1>3 DEF RenewUpper
<1>4. CASE CopyTarget
  BY <1>4 DEF CopyTarget
<1>5. CASE Clone
  BY <1>5 DEF Clone
<1>6. CASE Cleanup
  BY <1>6 DEF Cleanup
<1>7. CASE Abandon
  BY <1>7 DEF Abandon
<1>8. ASSUME NEW r \in Runs, Unmount(r)
      PROVE  PrivateHostUntouched'
  BY <1>8 DEF Unmount
<1>9. ASSUME NEW r \in Runs, MountOverlay(r)
      PROVE  PrivateHostUntouched'
  BY <1>9 DEF MountOverlay
<1>10. ASSUME NEW r \in Runs, MakePrivate(r)
      PROVE  PrivateHostUntouched'
  BY <1>10 DEF MakePrivate
<1>11. ASSUME NEW r \in Runs, PivotRoot(r)
      PROVE  PrivateHostUntouched'
  BY <1>11 DEF PivotRoot
<1>12. ASSUME NEW r \in Runs, MountProc(r)
      PROVE  PrivateHostUntouched'
  BY <1>12 DEF MountProc
<1>13. ASSUME NEW r \in Runs, AccessTarget(r)
      PROVE  PrivateHostUntouched'
  BY <1>13 DEF AccessTarget
<1>14. ASSUME NEW r \in Runs, ExecTarget(r)
      PROVE  PrivateHostUntouched'
  BY <1>14 DEF ExecTarget
<1>15. ASSUME NEW r \in Runs, TargetWrites(r)
      PROVE  PrivateHostUntouched'
  BY <1>15 DEF TargetWrites
<1>16. ASSUME NEW r \in Runs, End(r)
      PROVE  PrivateHostUntouched'
  BY <1>16 DEF End
<1>17. CASE Over \/ UNCHANGED vars
  BY <1>17 DEF Over, vars, mainVars, mountVars
<1> QED
  BY <1>1, <1>2, <1>3, <1>4, <1>5, <1>6, <1>7, <1>8, <1>9, <1>10, <1>11,
     <1>12, <1>13, <1>14, <1>15, <1>16, <1>17
     DEF Next, MainNext, ChildNext

(* Every step keeps what is mounted where. *)
LEMMA StacksInvStep == IInv /\ [Next]_vars => StacksInv'
<1> SUFFICES ASSUME IInv, [Next]_vars PROVE StacksInv'
    OBVIOUS
<1> USE MaxRunsAssumption DEF IInv, TypeOK, RunInv, PeersInv,
      PrivateHostUntouched, StacksInv, Seen, Alive, Confined, HasProc, Runs,
      mainVars, mountVars, Mounted, Ended
<1>1. CASE Start
  BY <1>1 DEF Start
<1>2. CASE EmptyUpper
  BY <1>2 DEF EmptyUpper
<1>3. CASE RenewUpper
  BY <1>3 DEF RenewUpper
<1>4. CASE CopyTarget
  BY <1>4 DEF CopyTarget
<1>5. CASE Clone
  BY <1>5 DEF Clone
<1>6. CASE Cleanup
  BY <1>6 DEF Cleanup
<1>7. CASE Abandon
  BY <1>7 DEF Abandon
<1>8. ASSUME NEW r \in Runs, Unmount(r)
      PROVE  StacksInv'
  <2> SUFFICES ASSUME ~abandoned PROVE StacksInv'
    BY <1>8 DEF Unmount
  <2>1. r = run /\ main = "loop" /\ \A s \in Runs \ {r} : ~Alive(s)
    BY <1>8 DEF Unmount
  <2>2. Seen(r) \in Seq(Runs)
    BY SeenTyped
  <2>3. Without(Seen(r)) = <<>>
    BY ONLY StacksInv, ~abandoned, <1>8, <2>2, r \in Runs, StackFacts
       DEF StacksInv, Unmount
  <2>4. /\ Seen(r)' = <<>>
        /\ host' = IF r \in peers THEN <<>> ELSE host
    BY ONLY TypeOK, <1>8, <2>3 DEF TypeOK, Unmount, Mounted, Seen
  <2>5. Len(host') <= 1
    BY ONLY StacksInv, ~abandoned, <2>4 DEF StacksInv
  <2>6. child' = [child EXCEPT ![r] = "overlay"]
    BY <1>8 DEF Unmount
  <2>7. UNCHANGED <<main, run, root, abandoned>>
    BY <1>8 DEF Unmount
  <2> QED
    BY ONLY TypeOK, ~abandoned, r \in Runs, <2>1, <2>4, <2>5, <2>6, <2>7
       DEF TypeOK, StacksInv, Alive, Confined
<1>9. ASSUME NEW r \in Runs, MountOverlay(r)
      PROVE  StacksInv'
  <2> SUFFICES ASSUME ~abandoned PROVE StacksInv'
    BY <1>9 DEF MountOverlay
  <2>1. r = run /\ main = "loop" /\ \A s \in Runs \ {r} : ~Alive(s)
    BY <1>9 DEF MountOverlay
  <2>2. Seen(r) \in Seq(Runs)
    BY SeenTyped
  <2>3. Append(Seen(r), r) = <<r>>
    BY ONLY StacksInv, ~abandoned, <1>9, <2>2, r \in Runs, StackFacts
       DEF StacksInv, MountOverlay
  <2>4. /\ Seen(r)' = <<r>>
        /\ host' = IF r \in peers THEN <<r>> ELSE host
    BY ONLY TypeOK, <1>9, <2>3 DEF TypeOK, MountOverlay, Mounted, Seen
  <2>5. Len(host') <= 1
    BY ONLY StacksInv, ~abandoned, <2>4 DEF StacksInv
  <2>6. child' = [child EXCEPT ![r] = "private"]
    BY <1>9 DEF MountOverlay
  <2>7. UNCHANGED <<main, run, root, abandoned>>
    BY <1>9 DEF MountOverlay
  <2> QED
    BY ONLY TypeOK, ~abandoned, r \in Runs, <2>1, <2>4, <2>5, <2>6, <2>7
       DEF TypeOK, StacksInv, Alive, Confined
<1>10. ASSUME NEW r \in Runs, MakePrivate(r)
      PROVE  StacksInv'
  BY <1>10 DEF MakePrivate
<1>11. ASSUME NEW r \in Runs, PivotRoot(r)
      PROVE  StacksInv'
  <2> SUFFICES ASSUME ~abandoned PROVE StacksInv'
    BY <1>11 DEF PivotRoot
  <2>1. own[r] \in Seq(Runs) /\ own[r] = <<r>>
    BY <1>11 DEF PivotRoot
  <2>2. Top(own[r]) = r
    BY ONLY <2>1, r \in Runs, StackFacts
  <2> QED
    BY <1>11, <2>2 DEF PivotRoot
<1>12. ASSUME NEW r \in Runs, MountProc(r)
      PROVE  StacksInv'
  BY <1>12 DEF MountProc
<1>13. ASSUME NEW r \in Runs, AccessTarget(r)
      PROVE  StacksInv'
  BY <1>13 DEF AccessTarget
<1>14. ASSUME NEW r \in Runs, ExecTarget(r)
      PROVE  StacksInv'
  BY <1>14 DEF ExecTarget
<1>15. ASSUME NEW r \in Runs, TargetWrites(r)
      PROVE  StacksInv'
  BY <1>15 DEF TargetWrites
<1>16. ASSUME NEW r \in Runs, End(r)
      PROVE  StacksInv'
  BY <1>16 DEF End
<1>17. CASE Over \/ UNCHANGED vars
  BY <1>17 DEF Over, vars, mainVars, mountVars
<1> QED
  BY <1>1, <1>2, <1>3, <1>4, <1>5, <1>6, <1>7, <1>8, <1>9, <1>10, <1>11,
     <1>12, <1>13, <1>14, <1>15, <1>16, <1>17
     DEF Next, MainNext, ChildNext

(* Every step keeps what the upper layer holds. *)
LEMMA UpperInvStep == IInv /\ [Next]_vars => UpperInv'
<1> SUFFICES ASSUME IInv, [Next]_vars PROVE UpperInv'
    OBVIOUS
<1> USE MaxRunsAssumption DEF IInv, TypeOK, RunInv, DirectoriesInv, StacksInv,
      UpperInv, Alive, Confined, Target, Runs, Directories, mainVars,
      mountVars, Mounted, Ended
<1>1. CASE Start
  BY <1>1 DEF Start
<1>2. CASE EmptyUpper
  BY <1>2 DEF EmptyUpper
<1>3. CASE RenewUpper
  BY <1>3 DEF RenewUpper
<1>4. CASE CopyTarget
  <2> SUFFICES ASSUME ~abandoned PROVE UpperInv'
    BY <1>4 DEF CopyTarget
  <2>1. upper[current].files \subseteq deep /\ \A r \in Runs : ~Alive(r)
    BY <1>4 DEF CopyTarget
  <2>2. /\ upper'[current].target = run
        /\ upper'[current].files = upper[current].files
    <3>1. current \in DOMAIN upper
      OBVIOUS
    <3>2. upper'[current] = [upper[current] EXCEPT !.target = run]
      BY ONLY <1>4, <3>1 DEF CopyTarget
    <3>3. upper[current] \in [target : Runs \cup {0}, files : SUBSET Runs]
      BY <3>1
    <3> QED
      BY ONLY <3>2, <3>3
  <2>3. main' = "clone" /\ UNCHANGED <<run, child, current, image, uses, deep>>
    BY <1>4 DEF CopyTarget
  <2> QED
    BY ONLY <2>1, <2>2, <2>3 DEF UpperInv, Alive, Confined
<1>5. CASE Clone
  BY <1>5 DEF Clone
<1>6. CASE Cleanup
  BY <1>6 DEF Cleanup
<1>7. CASE Abandon
  BY <1>7 DEF Abandon
<1>8. ASSUME NEW r \in Runs, Unmount(r)
      PROVE  UpperInv'
  BY <1>8 DEF Unmount
<1>9. ASSUME NEW r \in Runs, MountOverlay(r)
      PROVE  UpperInv'
  BY <1>9 DEF MountOverlay
<1>10. ASSUME NEW r \in Runs, MakePrivate(r)
      PROVE  UpperInv'
  BY <1>10 DEF MakePrivate
<1>11. ASSUME NEW r \in Runs, PivotRoot(r)
      PROVE  UpperInv'
  BY <1>11 DEF PivotRoot
<1>12. ASSUME NEW r \in Runs, MountProc(r)
      PROVE  UpperInv'
  BY <1>12 DEF MountProc
<1>13. ASSUME NEW r \in Runs, AccessTarget(r)
      PROVE  UpperInv'
  BY <1>13 DEF AccessTarget
<1>14. ASSUME NEW r \in Runs, ExecTarget(r)
      PROVE  UpperInv'
  BY <1>14 DEF ExecTarget
<1>15. ASSUME NEW r \in Runs, TargetWrites(r)
      PROVE  UpperInv'
  <2> SUFFICES ASSUME ~abandoned PROVE UpperInv'
    BY <1>15 DEF TargetWrites
  <2>1. r = run /\ main = "loop" /\ \A s \in Runs \ {r} : ~Alive(s)
    BY ONLY StacksInv, ~abandoned, r \in Runs, <1>15
       DEF StacksInv, Alive, TargetWrites
  <2>2. /\ upper[current].target = r
        /\ upper[current].files \subseteq {r} \cup deep
        /\ deep \subseteq deep' /\ uses[r] = current /\ image[r] = r
    BY <1>15 DEF TargetWrites
  <2>3. /\ upper'[current].target = r
        /\ upper'[current].files = upper[current].files \cup {r}
    BY ONLY TypeOK, <1>15, <2>2 DEF TypeOK, TargetWrites
  <2>4. UNCHANGED <<main, run, child, current, image, uses>>
    BY <1>15 DEF TargetWrites
  <2> QED
    BY ONLY <2>1, <2>2, <2>3, <2>4 DEF UpperInv, Alive, Confined
<1>16. ASSUME NEW r \in Runs, End(r)
      PROVE  UpperInv'
  BY <1>16 DEF End
<1>17. CASE Over \/ UNCHANGED vars
  BY <1>17 DEF Over, vars, mainVars, mountVars
<1> QED
  BY <1>1, <1>2, <1>3, <1>4, <1>5, <1>6, <1>7, <1>8, <1>9, <1>10, <1>11,
     <1>12, <1>13, <1>14, <1>15, <1>16, <1>17
     DEF Next, MainNext, ChildNext

(* IInv is inductive. *)
LEMMA StepInv == IInv /\ [Next]_vars => IInv'
  BY TypeOKStep, PeersInvStep, RunInvStep, DirectoriesInvStep, RootStep,
     HostStep, StacksInvStep, UpperInvStep DEF IInv

(* IInv holds in every reachable state, however many runs there are and
   whichever of them fragarach abandons. *)
THEOREM Invariance == Spec => []IInv
  BY InitInv, StepInv, PTL DEF Spec

(* The variables keep their types; on a host whose / is private no child
   shares its propagation. *)
THEOREM TypeCorrect == Spec => []TypeOK
<1>1. IInv => TypeOK
  BY DEF IInv
<1> QED
  BY Invariance, <1>1, PTL

(* childFunction never comes to execve with the bare directory merged as
   root, whatever other children unmount. *)
THEOREM NeverBareRoot == Spec => []RootIsOverlay
<1>1. IInv => RootIsOverlay
  BY DEF IInv
<1> QED
  BY Invariance, <1>1, PTL

(* While every run is cleaned up, childFunction makes the overlay it has
   mounted itself the root. *)
THEOREM OwnRoot == Spec => []RootIsOwn
<1>1. IInv => RootIsOwn
  BY DEF IInv, StacksInv, RootIsOwn
<1> QED
  BY Invariance, <1>1, PTL

(* While every run is cleaned up, the target is the one launch copied and
   sees no file of another but in trees that rmRF cannot delete:
   resetOverlay comes between any two runs. *)
THEOREM CleanRoot == Spec => []NothingOfOthers
<1>1. IInv => NothingOfOthers
  <2> SUFFICES ASSUME IInv, ~abandoned, NEW r \in Runs, Confined(r)
               PROVE  /\ image[r] \in {0, r} /\ Target(r) = r
                      /\ upper[uses[root[r]]].files \subseteq {r} \cup deep
    BY DEF NothingOfOthers
  <2>1. Alive(r) /\ root[r] = r /\ uses[r] = current
    BY DEF IInv, StacksInv, UpperInv, Alive, Confined
  <2>2. /\ upper[current].target = r
        /\ upper[current].files \subseteq {r} \cup deep
    BY <2>1 DEF IInv, UpperInv
  <2>3. image[r] \in {0, r}
    BY DEF IInv, RunInv, UpperInv, Confined
  <2> QED
    BY <2>1, <2>2, <2>3 DEF Target
<1> QED
  BY Invariance, <1>1, PTL

(* On a host whose / is private, the mounts of childFunction stay with it. *)
THEOREM HostSpared == Spec => []PrivateHostUntouched
<1>1. IInv => PrivateHostUntouched
  BY DEF IInv
<1> QED
  BY Invariance, <1>1, PTL

(* While every run is cleaned up, the host never shows two overlays: the
   umount2 of childFunction takes the last one away. *)
THEOREM NoOverlaysPile == Spec => []NoPile
<1>1. IInv => NoPile
  BY DEF IInv, StacksInv, NoPile
<1> QED
  BY Invariance, <1>1, PTL

(* What childFunction mounts shows on the host at most as the one overlay of
   the last run, and only where / is shared. *)
THEOREM HostIsKept == Spec => []HostKept
  BY HostSpared, NoOverlaysPile, PTL DEF HostKept

============================================================================
