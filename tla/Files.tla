------------------------------- MODULE Files -------------------------------
(***************************************************************************)
(* How launch prepares the upper directory: rmRF deletes what an earlier   *)
(* target left there, mkdirP makes the directory anew, and cpy copies the  *)
(* binary to it (helper_functions.cpp, as resetOverlay and launch use it). *)
(*                                                                         *)
(* What a target may leave is any tree of directories, files and links,    *)
(* also one that is too deep: for the descriptors there are, or for the    *)
(* length of a path.  A call whose path is too long fails; for any other   *)
(* reason unlink fails on directories only, and rmdir only on what is not  *)
(* empty.  Links lead out of the overlay, to the directory Home and to the *)
(* file Kept in it.  The binary is known by the places of its bytes: 1, 2, *)
(* ..., Size.                                                              *)
(***************************************************************************)
EXTENDS Integers, Sequences, FiniteSets

CONSTANTS
  MaxThings,  \* things in the tree that a target left
  TooLong,    \*   and those of them whose path is longer than PATH_MAX
  MaxOpen,    \* descriptors for directories that are open inside each other
  Size,       \* bytes of the binary
  BufferSize  \* of cpy: 4096

ASSUME BoundsAssumption ==
  MaxThings \in Nat \ {0} /\ MaxOpen \in Nat \ {0}
ASSUME SizeAssumption == Size \in Nat /\ BufferSize \in Nat \ {0}

Things  == 1..MaxThings
Target  == 1                 \* the name of this one is target
Upper   == 0
Kept    == MaxThings + 1
Nodes   == 0..(MaxThings + 1)
Overlay == -1                \* where upper is
Home    == -2                \* where Kept is
Gone    == -3

(* target is in upper itself, the path of which is short. *)
ASSUME TooLongAssumption == TooLong \subseteq Things \ {Target}

VARIABLES
  at,       \* the control point
  kind,     \* what each node is,
  parent,   \*   and in which directory
  stack,    \* calls of rmRF, the innermost first: the node the path names,
            \*   and the entries readdir has not returned
  streams,  \* directories opened and not closed
  opened,   \* file1 and file2, while they are open
  to,       \* the node of file2
  offset,   \* bytes of file1 that were read
  buffer,   \*   the last of them
  ptr, bytesread, exitcode,
  dest      \* what was written to file2

treeVars == <<kind, parent, stack, streams>>
copyVars == <<opened, to, offset, buffer, ptr, bytesread, exitcode, dest>>
vars     == <<at, treeVars, copyVars>>

Kinds == {"none", "dir", "file", "filelink", "dirlink"}

(* Type correctness; read and write stay within the buffer. *)
TypeOK ==
  /\ at \in {"reset", "remove", "mkdir", "open", "read", "write", "close",
             "copied", "failed"}
  /\ kind \in [Nodes -> Kinds]
  /\ parent \in [Nodes -> Nodes \cup {Overlay, Home, Gone}]
  /\ stack \in Seq([node : Nodes, left : SUBSET Nodes])
  /\ streams \in Nat /\ streams <= MaxOpen
  /\ opened \subseteq {"from", "to"}
  /\ to \in Nodes \cup {Gone}
  /\ offset \in 0..Size
  /\ buffer \in Seq(1..Size) /\ Len(buffer) <= BufferSize
  /\ ptr \in Nat /\ bytesread \in Nat /\ ptr + bytesread <= Len(buffer)
  /\ exitcode \in {0, 1}
  /\ dest \in Seq(1..Size)

----------------------------------------------------------------------------
Absent == [kind |-> "none", parent |-> Gone]
Places == {Absent} \cup [kind : Kinds \ {"none"}, parent : 0..(MaxThings - 1)]

(* Any tree below upper, numbered from the top.  In the first run there is *)
(* no upper.                                                               *)
Init ==
  /\ at = "reset"
  /\ \E tree \in [Things -> Places],
        upper \in {Absent, [kind |-> "dir", parent |-> Overlay]} :
       LET place(n) == IF n \in Things THEN tree[n]
                       ELSE IF n = Upper THEN upper
                       ELSE [kind |-> "file", parent |-> Home]
       IN  /\ kind = [n \in Nodes |-> place(n).kind]
           /\ parent = [n \in Nodes |-> place(n).parent]
  /\ \A t \in Things : kind[t] # "none" =>
       /\ parent[t] < t /\ kind[parent[t]] = "dir"
       /\ parent[t] \in TooLong => t \in TooLong
       /\ t = Target => parent[t] = Upper
  /\ stack = <<>> /\ streams = 0
  /\ opened = {} /\ to = Gone /\ dest = <<>>
  /\ offset = 0 /\ buffer = <<>> /\ ptr = 0 /\ bytesread = 0 /\ exitcode = 0

Entries(d) == {t \in Nodes : parent[t] = d}

Remove(t) ==
  /\ kind' = [kind EXCEPT ![t] = "none"]
  /\ parent' = [parent EXCEPT ![t] = Gone]

----------------------------------------------------------------------------
(* rmRF *)

(* opendir goes through a link *)
Listed(t) == IF kind[t] = "dirlink" THEN Home ELSE t

(* It fails without a descriptor, or when the path is too long. *)
CanOpen(t) ==
  kind[t] \in {"dir", "dirlink"} /\ t \notin TooLong /\ streams < MaxOpen

(* The beginning of a call, up to the loop *)
Opendir(t, calls) ==
  /\ streams' = streams + 1
  /\ stack' = <<[node |-> t, left |-> Entries(Listed(t))]>> \o calls

RemoveUpper ==
  /\ at = "reset"
  /\ IF CanOpen(Upper)
       THEN at' = "remove" /\ Opendir(Upper, stack)
       ELSE at' = "mkdir" /\ UNCHANGED <<stack, streams>>
  /\ UNCHANGED <<kind, parent, copyVars>>

(* S_ISDIR of what lstat says.  A faulty variant: of what stat says. *)
IsDirectoryOfStat(t) == kind[t] \in {"dir", "dirlink"}
IsDirectory(t) == kind[t] = "dir"

(* An iteration: readdir returns one of the entries left.  What is no      *)
(* directory is unlinked; rmRF of a directory that cannot be opened tries  *)
(* to unlink it, which is refused, and returns.  With a path that is too   *)
(* long lstat fails, whose result nobody looks at: st holds what was on    *)
(* the stack, and either way the calls that follow fail as well.           *)
NextEntry ==
  /\ at = "remove"
  /\ \E t \in Head(stack).left :
       LET calls == <<[Head(stack) EXCEPT !.left = @ \ {t}]>> \o Tail(stack)
       IN  \/ /\ t \notin TooLong /\ ~IsDirectory(t) /\ Remove(t)
              /\ stack' = calls /\ UNCHANGED streams
           \/ /\ IsDirectory(t) /\ CanOpen(t)
              /\ Opendir(t, calls) /\ UNCHANGED <<kind, parent>>
           \/ /\ t \in TooLong \/ (IsDirectory(t) /\ ~CanOpen(t))
              /\ stack' = calls /\ UNCHANGED <<kind, parent, streams>>
  /\ UNCHANGED <<at, copyVars>>

(* rmdir takes empty directories only, and no links.  A faulty variant: it *)
(* is left to the caller.                                                  *)
RmdirNothing(t) == UNCHANGED <<kind, parent>>
Rmdir(t) ==
  IF kind[t] = "dir" /\ Entries(t) = {}
    THEN Remove(t) ELSE UNCHANGED <<kind, parent>>

EndOfDirectory ==
  /\ at = "remove" /\ Head(stack).left = {}
  /\ streams' = streams - 1 /\ Rmdir(Head(stack).node)
  /\ stack' = Tail(stack)
  /\ at' = IF Tail(stack) = <<>> THEN "mkdir" ELSE "remove"
  /\ UNCHANGED copyVars

(* mkdirP: every mkdir of a directory that is there fails, to no harm *)
MkdirP ==
  /\ at = "mkdir" /\ at' = "open"
  /\ kind' = [kind EXCEPT ![Upper] = "dir"]
  /\ parent' = [parent EXCEPT ![Upper] = Overlay]
  /\ UNCHANGED <<stack, streams, copyVars>>

----------------------------------------------------------------------------
(* cpy *)

(* open goes through a link *)
Followed(t) == IF kind[t] = "filelink" THEN Kept ELSE t

(* Both files are opened, whatever becomes of the first; file2 is created  *)
(* or emptied, unless a directory has its name.                            *)
OpenFiles ==
  /\ at = "open"
  /\ \E o \in SUBSET {"from", "to"} :
       /\ opened' = o
       /\ IF o = {"from", "to"} THEN at' = "read"  /\ exitcode' = 0
                                ELSE at' = "close" /\ exitcode' = 1
       /\ \/ "to" \notin o /\ UNCHANGED <<kind, parent, to>>
          \/ /\ "to" \in o /\ kind[Target] \notin {"dir", "dirlink"}
             /\ to' = Followed(Target)
             /\ kind' = [kind EXCEPT ![Followed(Target)] = "file"]
             /\ parent' = [parent EXCEPT ![Target] = Upper]
  /\ UNCHANGED <<stack, streams, offset, buffer, ptr, bytesread, dest>>

(* What read may ask for.  A faulty variant: one byte too much. *)
RoomAndOne == BufferSize + 1
Room == BufferSize

(* read gives some bytes, or 0 at the end of the file.  An interrupted     *)
(* call changes nothing and is made again.                                 *)
Got(n) ==
  /\ n <= Room /\ offset + n <= Size
  /\ n = 0 => offset = Size

(* A faulty variant: 0 is not looked at. *)
NoEnd(n) == FALSE
IsEnd(n) == n = 0

Read ==
  /\ at = "read"
  /\ \E n \in 0..Size :
       /\ Got(n)
       /\ at' = IF IsEnd(n) THEN "close" ELSE "write"
       /\ buffer' = [i \in 1..n |-> offset + i]
       /\ offset' = offset + n /\ bytesread' = n /\ ptr' = 0
  /\ UNCHANGED <<treeVars, opened, to, exitcode, dest>>

(* Faulty variants: the rest of the buffer is taken from its beginning;    *)
(* what was written still counts as unwritten.                             *)
AdvanceNot(k) == ptr' = ptr /\ bytesread' = bytesread - k
AdvanceOnly(k) == ptr' = ptr + k /\ bytesread' = bytesread
Advance(k) == ptr' = ptr + k /\ bytesread' = bytesread - k

(* write takes some of the bytes *)
Write ==
  /\ at = "write" /\ bytesread > 0
  /\ \E k \in 1..bytesread :
       /\ dest' = dest \o SubSeq(buffer, ptr + 1, ptr + k)
       /\ Advance(k)
  /\ UNCHANGED <<at, treeVars, opened, to, offset, buffer, exitcode>>

BufferWritten ==
  /\ at = "write" /\ bytesread = 0 /\ at' = "read"
  /\ UNCHANGED <<treeVars, copyVars>>

(* Any other error ends both loops. *)
CopyError ==
  /\ at = "read" \/ (at = "write" /\ bytesread > 0)
  /\ at' = "close" /\ exitcode' = 1
  /\ UNCHANGED <<treeVars, opened, to, offset, buffer, ptr, bytesread, dest>>

(* A faulty variant: the return after open closes nothing. *)
CloseBoth == opened' = IF opened = {"from", "to"} THEN {} ELSE opened
CloseOpened == opened' = {}

CloseFiles ==
  /\ at = "close"
  /\ CloseOpened
  /\ at' = IF exitcode = 0 THEN "copied" ELSE "failed"
  /\ UNCHANGED <<treeVars, to, offset, buffer, ptr, bytesread, exitcode, dest>>

----------------------------------------------------------------------------
Progress ==
  \/ RemoveUpper \/ NextEntry \/ EndOfDirectory \/ MkdirP
  \/ OpenFiles \/ Read \/ Write \/ BufferWritten \/ CloseFiles

Next == Progress \/ CopyError

Spec == Init /\ [][Next]_vars

(* the calls return, and are not interrupted for ever *)
FairSpec == Spec /\ WF_vars(Progress)

----------------------------------------------------------------------------
(* Safety *)

(* README.md, "Symlink safety": nothing outside of the overlay is deleted  *)
(* or written, although cpy follows a link called target; rmRF has always  *)
(* unlinked it.                                                            *)
OutsideSpared == parent[Kept] = Home /\ to # Kept

(* A thing and the directories it is in, below upper: what is in every set *)
(* that has t and, with each thing, the directory of it.                   *)
Around(p, t) ==
  {u \in Things : \A S \in SUBSET Things :
     t \in S /\ (\A v \in S : p[v] \in Things => p[v] \in S) => u \in S}

Above(t) == Around(parent, t)

(* Out of the reach of rmRF: a directory inside so many that there is no   *)
(* descriptor for it, or anything with a path that is too long             *)
TooDeep(d) ==
  \/ kind[d] = "dir" /\ Cardinality(Above(d)) >= MaxOpen
  \/ kind[d] # "none" /\ d \in TooLong

NearTooDeep(t) ==
  \E d \in Things : TooDeep(d) /\ (d \in Above(t) \/ t \in Above(d))

(* After resetOverlay nothing is left in upper but what is too deep, with  *)
(* all it holds, and the directories around it: only depth keeps rmRF from *)
(* its work, in whatever order readdir lists a tree and however wide it    *)
(* is, although no result of lstat, unlink and rmdir is heeded.            *)
OnlyTooDeepLeft ==
  at = "open" => \A t \in Things : kind[t] # "none" => NearTooDeep(t)

(* With short reads and short writes, cpy writes the bytes of the binary   *)
(* in their order; if it returns 0 it has written them all.                *)
CopyFaithful ==
  /\ \A i \in 1..Len(dest) : dest[i] = i
  /\ at = "copied" => Len(dest) = Size

(* When launch goes on, rmRF and cpy have closed what they opened,         *)
(* whichever call failed.                                                  *)
DescriptorsReturned ==
  at \in {"copied", "failed"} => opened = {} /\ streams = 0

----------------------------------------------------------------------------
(* What rmRF, mkdirP and cpy come to, as Session sees them *)

Stage ==
  CASE at \in {"reset", "remove", "mkdir"}       -> "begun"
    [] at \in {"open", "read", "write", "close"} -> "emptied"
    [] at \in {"copied", "failed"}               -> at

Holds ==
  {x \in {"target", "deep", "files"} :
     CASE x = "target" -> kind[Target] \notin {"none", "dir"}
       [] x = "deep"   -> \E d \in Things : TooDeep(d)
       [] x = "files"  -> \E t \in Things :
            /\ kind[t] # "none" /\ ~NearTooDeep(t)
            /\ t = Target => kind[t] = "dir"}

(* No target runs meanwhile. *)
Prepared ==
  INSTANCE Preparation WITH stage <- Stage, holds <- Holds, running <- FALSE

(* The two recursions and loops come to what Session takes for single      *)
(* steps: rmRF brings nothing in, and once mkdirP has made the directory   *)
(* only trees that are too deep are left in it, so no file in the target's *)
(* place; cpy that returns 0 has put its copy there, and cpy that fails    *)
(* has brought in nothing else.                                            *)
UpperPrepared == Prepared!Spec

(* What rmRF will still unlink or be called for, or is in such a thing: it *)
(* is left in one of the calls, or something around it is.                 *)
Waiting(s, t) == \E i \in 1..Len(s) : \E u \in Above(t) : u \in s[i].left

(* A bound on the steps to the end: each entry costs at most a readdir and *)
(* a rmdir, each byte at most a read, a write and the return to read.      *)
ThingsLeft == Cardinality({t \in Things : Waiting(stack, t)})
BytesLeft  == Size - offset

StepsLeft ==
  CASE at = "reset"  -> 3 * Size + 2 * MaxThings + 7
    [] at = "remove" -> 3 * Size + 2 * ThingsLeft + Len(stack) + 5
    [] at = "mkdir"  -> 3 * Size + 5
    [] at = "open"   -> 3 * Size + 4
    [] at = "read"   -> 3 * BytesLeft + 2
    [] at = "write"  -> 3 * BytesLeft + bytesread + 3
    [] at = "close"  -> 1
    [] at \in {"copied", "failed"} -> 0

(* Every step comes nearer to the end, by a bound that is known before the *)
(* first: no tree, though links lead out of it, and no way to divide reads *)
(* and writes keeps launch longer than 2 steps for each entry and 3 for    *)
(* each byte.                                                              *)
EveryStepCounts ==
  [][StepsLeft' \in Nat /\ StepsLeft' < StepsLeft]_vars

----------------------------------------------------------------------------
(* Liveness *)

(* launch comes to the end of resetOverlay and cpy. *)
PrepareEnds == <>(at \in {"copied", "failed"})

============================================================================
