# Fragarach: specifications and proofs

Fragarach runs an unknown Linux binary in a sandbox, records its system calls,
turns the record into a graph, and lets a graph neural network say whether the
binary is malicious. This directory holds TLA+ modules of it, configurations
that check small instances with TLC, and proofs for TLAPS. Paths such as
`main.cpp:110` are relative to `src/src/` of the repository (`src/README.md`
and `src/autorun.sh` are at its top).

    tlc -config MCSession.cfg MCSession        one run
    tlapm SessionProofs.tla                    one module of proofs

## 1. The system

| component | state it keeps | operations | talks to |
|---|---|---|---|
| **session control**: `main.cpp`, `sandbox/`, `Tracer::start`, `Tracer::stop` | `childPID`, `syncPipe`, `seccompPipe`, limits; `skel`, `rb`, `kernelNotifyFd`; the cgroup directory; the overlay's upper directory | `launch`, `start`, the start signal, the loop with `isRunning` and the time limit, `stop`, `cleanup` | the child, by two pipes, by `pidfd_getfd`, `waitpid` and `kill` |
| **the child**: `childFunction` | its copies of the pipe ends, its seccomp listener | isolate, load the filter, send the listener's number, wait, `execve` | session control |
| **observation**: `ebpf/tracer.bpf.c`, `Tracer::pollmethod`, `handleEvent`, `handleSeccompNotification` | ring buffer, listener's queue, `revents`, the vector `events` | store a record, poll, consume, receive, log, answer, drain at the end | threads and processes of the target; the graph reads `events` |
| **syscall graph**: `syscall_graph/` | maps `nodes`, `edges`, `syscVertex`; the exported arrays | `build`, `cooExport`, `tojson` | reads `events`, feeds inference and the JSON files |
| **file-system isolation**: first half of `childFunction`, `resetOverlay` | mounts, mount propagation, upper, work and merged directories | overlay, remount private, bind, `pivot_root`, `proc` | every later run, by the shared directories |
| **helpers**: `helper_functions.cpp` | the recursion of `rmRF` with its open directories; the two files, buffer and pointers of `cpy` | `mkdirP`, `rmRF`, `cpy`; `run` has no caller | session control |
| **verdict**: `inference/` | the model | tensors from the graph, `predict` | the graph, the model file |
| **data set and training**: `autorun.sh`, the end of `main.cpp`, `GNN/train.py` | the samples, `raw/*.json`, the cached `processed/data.pt`, `model_scripted.pt` | collect, process, train, export | the JSON files, the model file |
| **installation and build**: `install.sh`, `CMakeLists.txt` | `/opt/fragarach` | empties it and puts the model there | data set, verdict |
| vendored `json.hpp` | - | - | - |

What is hard about each, and what makes it correct:

* **Session control.** Two processes run concurrently from `clone` on, and every
  call can fail; `main` ignores what `launch` and `start` return
  (`main.cpp:107`, `main.cpp:110`). Correct means: the target does not run before
  the limits are written, the listener is copied and the tracer attached; neither
  process waits for ever for the other, also when the other dies; the time limit
  ends the target; clean-up kills the child, nothing but the child, and leaves
  nothing behind.
* **Observation.** A target's tasks make calls while one thread of Fragarach
  reads two kernel queues in turn. Notifications disappear when a task is killed
  or interrupted, the ring buffer may be full, and `poll`'s answer may be out of
  date. Correct means: nothing that was stored is lost or recorded twice, a
  denied call is logged first, the reader never hangs, every waiting task is
  answered, and the order of the vector is what the graph takes it for.
* **Syscall graph.** Sequential, with boundaries: no event, one event, syscall
  numbers that wrap as `int`. Correct means: whoever reads the exported arrays
  gets back the transitions with their counts, and the calls with their flags.
* **File-system isolation.** The order of the mounts decides what the host sees,
  and directories survive a run. Correct means: nothing of a run shows outside
  of it or in the next run.
* **Helpers.** Trees made by a hostile program: deep, wide, full of links; short and
  interrupted reads and writes; calls that fail half-way. Correct means: the copy is the
  binary, the deletion deletes all it can and nothing outside, descriptors come back.
* **Verdict, data set, training.** Three programs share files, each may be killed while
  it writes one, names collide, a cache is never renewed, some graphs are more than the
  model takes. Correct means: what was collected is there with its label, and a verdict
  comes from a whole model that was trained to the end.

`PROJECT.json` lists the hazards line by line, with the properties that cover them.

## 2. The modules

| module | what it is |
|---|---|
| `Analysis` | what one run promises, whatever fails (abstract) |
| `Session` | one run of Fragarach: both processes, pipes, failures, time limit, clean-up |
| `Preparation` | what becomes of the overlay's upper directory before and while the target runs (abstract) |
| `SessionProofs` | its inductive invariant, the safety properties, and that it implements `Analysis` and `Preparation` |
| `EventLog` | what the record promises, however it is made (abstract), with one theorem |
| `Observer` | BPF program, ring buffer, listener, polling loop, the tasks of the target |
| `ObserverProofs` | its inductive invariant, the safety properties, that it implements `EventLog`, and the bounds on what `main` has left to do |
| `Mounts` | the overlay over several runs: the upper directory, the child's mounts, their propagation |
| `MountsProofs` | its inductive invariant, and the safety properties as theorems |
| `SyscallGraph` | `build` and `cooExport`, one action per iteration |
| `SyscallGraphProofs` | that the exported arrays decode to the event list |
| `Files` | `rmRF` on any tree, `mkdirP`, and the loops of `cpy` |
| `FilesProofs` | its inductive invariant (calls of `rmRF`, state of the copy) and the safety properties |
| `FilesDepth` | that `rmRF` leaves nothing but what is out of its reach, how many steps it and `cpy` take, and that `Files` implements `Preparation` |
| `Dataset` | `autorun.sh`, the files of `raw`, `train.py`, the model file, the verdict |
| `DatasetProofs` | its inductive invariant, and the safety properties as theorems |
| `MCSession`, `MCObserver`, `MCMounts`, `MCSyscallGraph`, `MCFiles`, `MCDataset` | instances for TLC |

The modules meet at these points. `Session` has what `Observer`, `Mounts` and `Files`
take apart as single steps: `Poll` and `StopTracer`, `ChildIsolates`, `ResetOverlay`
and `CopyTarget`. The outcomes are meant to be those of the finer module. For `ResetOverlay`
and `CopyTarget` `Preparation`, which both modules implement, says what they have in
common, and that is checked and proved; for the others it is by reading: that `poll`
fails and RECV then waits (`PollFails`), that `consume` does not end (`Outrun`), that the
child fails before `execve`. `SyscallGraph` takes any
list of events, hence also one that `Observer` made. `Dataset` takes a run of Fragarach as
`Analyse`: it may give a graph of its sample, an empty graph (where `Session` has no
child), or none.

### Session and Analysis

`main` and `child` are the control points of the two processes; each action is one
step of the code that the other process can tell from the next. `launch` is
`ResetOverlay`, `CopyTarget`, `Clone`, `CloseChildEnds`, `ConfigureCgroup` (once for
each of four files); `Tracer::start` is `ReadNotifyFd`, `GetNotifyFd`,
`AttachTracer`; then `SendStartSignal`, the loop `IsRunning`, `CheckTimeout`,
`Poll`, and `StopTracer`, `KillChild`, `ReapChild`, `RemoveCgroup`, `Report`. The
child is `ChildCloseEnds`, `ChildIsolates`, `SendNotifyFd`, `AwaitStart`,
`ExecTarget`.

* Pipes are modelled by the ends each process holds (`fds`) and by whether bytes are
  unread (`data`); a read returns on data or when nobody holds the write end, a write
  to a pipe nobody reads kills `main` (SIGPIPE) and is lost in the child, which as
  the first process of its PID namespace ignores the default action.
* A call that may fail does so when its name is in the constant `Faults`; the
  history `failed` remembers it, so that a property can say under which failures it
  holds. `"killed"` is the end of Fragarach by a signal, `"reuse"` that the kernel
  gives a freed process number to somebody else.
* Undefined behaviour: after a failed `cpy` the pipes were never made and
  `read(seccompPipe[0])` uses an uninitialised `int`. It returns at once or hangs
  (`main = "hung"`), both are allowed.
* The mounts, `pivot_root`, the capabilities and `seccomp_load` are one step that
  succeeds or ends the child. What a signal from outside does to the child is left out.
* `upper` is what the directory holds: the copy, trees that `rmRF` cannot delete
  (`"deep"`, for the reasons that `Files` gives), other files. `ResetOverlay` leaves the
  second and nothing else; a target may write both.
* `poll`'s result is not looked at. When it fails, `revents` is unwritten: nothing is read,
  or the ring buffer is, or RECV is called and waits (`main = "recv"`), from which it
  returns when a call happens to come (`ReceiveReturns`), or never. `MainEnds` and
  `TargetEndedByTimeout` have that exception.
* `ring_buffer__consume` returns when it finds no new record. A target that stores them
  faster than they are read (`Outrun`) keeps `main` in `"consume"`, away from the time
  limit, or in `"flush"`, the call in `Tracer::stop`, until it ends (`ConsumeRest`) or
  pauses (`TargetPauses`).

`Analysis` is a run as its user sees it: the program is held back while the run is being
prepared, then watched, and is over when Fragarach returns; a run may be broken off at
any moment, and only then can a program stay behind. `Session` maps `main` to `Progress`
and the child to `Program` and implements it (`RunKept`) with every call failing.

`Preparation` is the upper directory alone, and whether a target runs from it: the
directory is emptied (of an earlier target only trees that are too deep may stay, and no
file in the place of the copy), then the copy is begun and complete or given up; a target
runs only after a complete copy, and only while it runs does anything else write. Fragarach
may go at any moment: before there is a child no target will run then, and a child that is
there goes on from its complete copy. `Session` maps its
control points to the stages, `upper` to what is there and the child's `"target"` to
`running` (`UpperPrepared`); `Files`, where nothing runs, maps the tree and the places in
`rmRF`, `mkdirP` and `cpy` to the same stages.

### Observer and EventLog

Threads of the target and processes it starts (`Descendants`) make calls; a call is known
by its place in the history `made`. An allowed call of the target reaches the tracepoint
(`Store`); a call of the filter's list waits at the listener (`RestrictedCall`) until it
is answered, a signal comes, or the task ends. `main`'s round is `IsRunning`, `PollRing`,
`PollNotify` (the kernel looks at one descriptor after the other), `Consume` (one record
at a time, until the buffer is empty), `Receive`, `Answer`; after the loop `Stop` drains
the ring buffer record by record and frees it when it finds none, `Detach` takes the
program off, and `Kill` ends the target. Between the two the program still stores calls
that nobody reads any more: `watched` marks the calls made before, which are those that
`NothingLost` speaks of. The listener keeps a semaphore (`requests`) beside its queue, as
the kernel does: `RECV` waits on the semaphore and fails when it then finds no
notification.

Ring buffer and queue are sets of calls, because a call's place already orders them.
Time stamps and process numbers are not modelled. A failed `poll` leaves `revents`
unwritten: every value is allowed (`PollFails`).

`EventLog` says what such a record is worth: calls enter it at most once and rightly
flagged, allowed calls in their order, denied calls in theirs and before their task
makes another call. `Observer` implements it (`RecordKept`).

### Mounts

Fragarach is started again and again; `run` is the latest run, and each run has its child.
`EmptyUpper` and `RenewUpper` are `resetOverlay`: `rmRF` deletes what the directory holds,
but for what is too deep for it (`deep` has the runs whose target left such a tree), and
then the directory, which fails when something is left or was written in between; `mkdirP`
makes a new one. So `NothingOfOthers` lets a target find those trees of an earlier one,
and nothing else of it. Directories are numbered, because an overlay goes on using the one
it was mounted with. The child is `Unmount`, `MountOverlay`, `MakePrivate`, `PivotRoot`
(bind, `chdir`, `pivot_root`), `MountProc`, `AccessTarget`, `ExecTarget`; a call that
fails is its end (`End`), only what `umount2` returns is not looked at.

What is mounted on `merged` is a stack of overlays. `sharedRoot` says whether `/` is
shared on the host, which the installation does not set: systemd makes it shared, a
kernel without it private. Where it is shared, a new mount namespace is in the host's
peer group until its mounts are made private, so what its child mounts and unmounts
until then happens on the host and in every other such namespace (`peers`, `Mounted`).

Fragarach may end without its clean-up (`Abandon`): a signal, or SIGPIPE, or the null
`rb` of `Session`. Ctrl-C is such a case, since the child, as the first process of its
PID namespace, ignores SIGINT. Its child then lives on beside the next run. That two
runs are started at a time is not modelled, nor a copy that fails (`Session` and `Files`
have it).

### SyscallGraph

The event list is a constant of the behaviour. `CountTransition` is an iteration of
the loop in `build`, `LastEvent` the line after it, `NumberVertex`, `ExportEdge` and
`ExportNode` the iterations of the loops that follow. `std::map` is a function with a
finite domain, visited in the order of its keys. `Half` is half the range of the
words: the keys are unsigned, the export is `int` (`ToInt`), so key `Half` comes back
as `-Half`. In C++ `Half` is 2^31, and counts are small against the width of a word
(the bound is the length of the list).

### Files

The tree an earlier target left is any tree: `Init` takes every kind of thing at every
place, a link to a directory outside (`Home`) and to a file in it (`Kept`) among them, and
also no `upper` at all, as in the first run. `stack` holds the calls of `rmRF`:
`RemoveUpper` and `NextEntry` open directories, `EndOfDirectory` is `closedir` and
`rmdir`. The order of `readdir` is free. A tree is out of `rmRF`'s reach in two ways.
`MaxOpen` is the descriptors for directories open inside each other: beyond it `opendir`
fails, and `unlink`, which then takes its place, is refused for a directory. `TooLong` is
the things whose path is longer than the kernel takes, which an earlier target made by
`chdir` and short names: for these `lstat`, `opendir`, `unlink` and `rmdir` all fail. The
code does not look at what `lstat` returns and reads an unwritten `st`; whichever way that
sends it, the next calls fail too, so the thing stays, be it a file in a directory that
could be opened. `opendir` and `open` go through links, as the kernel's do, so it is a
property and no assumption that nothing outside is touched.

A byte of the binary is known by its place. `OpenFiles` opens either file, both or none;
`Read` gives any number of bytes that fit the buffer, 0 only at the end; `Write` takes any
part of what is left of it; `CopyError` is any other error of either, also a `write` that
returns 0. An interrupted call is made again and changes nothing.

### Dataset

A graph is its sample's name, its label, and what training can make of it: `plain`, `odd`
(a syscall number outside of the embedding's 500 rows), `empty` (a target that was never
traced), `cut` (no JSON, or not all of it). `Open` empties the file of that name and
`WriteGraph` writes it; `LoseGraph` is a run that dies between. `Process` and `SaveCache`
are what `InMemoryDataset` does only when there is no `data.pt`; `Learn` is all the
epochs; `Trace` and `SaveModel` are the export. `KillTraining` may come between any two.
`BatchOfOne` is arithmetic on the number of graphs: four fifths are for the training, in
batches of `BatchSize`, and a batch of one graph makes `y.squeeze()` a number and the loss
fail. `Kinds` says which samples can be odd (`Unusual`). What the traced model makes of a
graph with no nodes is LibTorch's, so both answers are allowed.

## 3. What TLC checks

| run | bounds | what it shows |
|---|---|---|
| `session` (`MCSession.cfg`) | every call may fail, `Timeout = 2` | the handover and the clean-up, with every combination of failures, a failing `poll` among them; that neither process waits for ever but in the cases named, or for what cannot come; implements `Analysis` and `Preparation` |
| `observer` (`MCObserver.cfg`) | 2 threads, 1 process, buffer of 2, 4 calls, 1 interrupted, `poll` may fail | the record: nothing lost, logged before denied, order; implements `EventLog` |
| `observer_live` (`MCObserverLive.cfg`) | the same with 3 calls, `poll` does not fail | waiting tasks are answered, RECV does not wait, the loop ends; and the bounds on the steps until then |
| `mounts` (`MCMounts.cfg`) | 3 runs, each may be abandoned, each target may leave a tree too deep, `/` shared or private | what becomes a child's root, what it finds there, what stays on the host |
| `graph` (`MCSyscallGraph.cfg`) | all lists of up to 4 events, words of 2 bits | the exported arrays decode to the list |
| `files` (`MCFiles.cfg`) | all trees of up to 5 things, one of which may have too long a path, 3 directories open at a time; 5 bytes, buffer of 3 | what deletion leaves, that it stays inside, that the copy is the binary, that descriptors come back, that every step counts; implements `Preparation` |
| `dataset` (`MCDataset.cfg`) | 4 samples with 3 names, batches of 2 | what collecting leaves in `raw`, which model gives a verdict, when a training succeeds |

Why the bounds are enough. `session`: two ticks let the limit pass before, while and after
the target runs; there is one child, and each failure happens once in the code.
`observer`: two records fill the buffer and a third is dropped; with four calls two tasks
can wait while a third stores; one interrupted call suffices for a notification that is
gone when it is received. In this run deadlock is not an error: after a failed `poll` the
loop may really wait for ever. `observer_live` has three calls because liveness is dear,
and three already make a task wait behind another. `mounts`: a child that was left over,
the next run, and one after it, which finds what both left; interference is between two
children. `graph`: four events give repeated edges, self loops, a vertex that is only
last, and flags that change; two bits give numbers on both sides of the sign. `files`:
with three open directories, `upper` included, a directory three levels down is too deep,
and five things let it have siblings, content and a tree beside it that can be deleted;
the thing with the long path is numbered last, so that it may be in any of the others, of
any kind; five bytes are a full buffer and one that is not, each of which can be written
in parts. `dataset`: one name is in both directories and one more in each, so a graph can
be overwritten; three graphs give a batch of two, two give a batch of one, one gives none;
only one of the names is unusual, so the first training can succeed or fail. `graph` and
`files` stop when the export, or the copy, is done, hence no deadlock check. What no bound
can show, the theorems do.

Fairness. `Session`: `WF(MainNext)`, `WF(ChildNext)` - both processes are scheduled and no
step of either is a spin; `WF(Tick)` - time passes; `WF(KilledChildDies)` - SIGKILL is
delivered. Nothing is assumed of the target (it may run for ever, and it need not pause
when it outruns the reader, nor make the call that RECV waits for: `TargetPauses` and
`ReceiveReturns` are not fair, and `MainEnds` has these exceptions), of failures, of
signals. `Observer`: `WF(MainNext)`; nothing of the tasks or of the clock, so `WaitEnds`
does not lean on the time limit. `Files`: `WF(Progress)` - system calls return, and are
not interrupted for ever. `Dataset`: `WF(TrainNext)` - a training that runs goes on;
nobody has to start one, and it may be killed.

Each property of these runs is violated by a small change of the code's model: the
"faulty variant" that stands before the definition it changes, and that nothing but
`PROJECT.json` uses.

### Where code and documentation disagree

| run | documentation | what the code does |
|---|---|---|
| `session_no_child` | `sandbox.cpp:378`: "kill child" | without a child, `kill(-1, SIGKILL)` |
| `session_time_limit` | `main.cpp:129`: "Sandbox timed out, killing child..." | after a failed `start`, `pollmethod` uses a null `rb`, and the target outlives `main` |
| `observer_order` | `README.md:28`: edges are "directed transitions between consecutive syscalls" | a blocked call made between `poll`'s two looks is recorded before calls that precede it |
| `mounts_host` | `sandbox.cpp:111`: "system's mount table is untouched" | where `/` is shared, the overlay appears on the host, and stays after the run |
| `dataset_stale` | `README.md:118`: "The script loads graphs from `/opt/fragarach/raw/`" | every training after the first learns from `processed/data.pt`, the graphs of the first |

Seen in the models, without a run of their own: the start signal is written whatever
`start` returned, so the tracer is not always "fully attached before the binary begins
execution" (`README.md:19`; `TracedWhileRunning`, a part of `HeldUntilReady`, has the
exception); the child "will hang until syncPipe[0] is written to" (`sandbox.cpp:363`), but
end of file ends the read too, and the target starts unwatched when Fragarach is killed
(`OrphanIsReleased`); a blocked call that waits when the time limit passes is neither
denied nor logged (`README.md:17`; `LoggedBeforeDenied` speaks of those that were denied);
a cgroup file that cannot be opened leaves the target without limits (`README.md:15`;
`ConfinedBeforeExec` has the exception); `isRunning` frees the number that `cleanup` kills
(`KillHitsOnlyChild` has the exception); the upper layer is not discarded after the run
but before the next (`README.md:14`, `sandbox.cpp:383`; `NoLeftovers` says what does
hold); a full ring buffer drops calls silently (`README.md:22`; `NothingLost` has the
exception); `Tracer::stop` says "consume any remaining events" (`tracer.cpp:150`), but the
target runs on and the program is detached after the buffer was freed, so calls stored in
between are never read (`Detach`; the exception is `watched` in `NothingLost`); when
`poll` fails, `revents` is read unwritten and RECV may wait for ever, so that the time
limit never comes (`MainEnds`, `TargetEndedByTimeout`); a tree too deep for `rmRF` stays
for the next target to see (`NoLeftovers`, `NothingOfOthers`, `OnlyTooDeepLeft`), and when
it is called `target`, `cpy` fails; when the last batch has one graph, training fails, and
again each time it is started (`FirstTrainingLearns` has the exception); a `data.pt` that
was cut short has to be deleted by hand. `README.md:137` puts samples in
`/opt/fragarach/benign/`, `autorun.sh:4` takes them from `/opt/fragarach/samples/benign/`;
`install.sh:7` deletes both.

## 4. What is proved

The theorems hold for every value of the constants, under the modules' assumptions
only: `Timeout` is a positive natural number and `Faults` a set of the calls named in
`Session`; `First` is a thread and the bounds are natural numbers in `Observer`;
`MaxRuns` is a natural number in `Mounts`; `Half` is a positive natural number and the
event lists are finite sequences of events in `SyscallGraph`; `MaxThings`, `MaxOpen` and
`BufferSize` are positive natural numbers, `Size` is a natural number and `TooLong` is a set
of things but not the copy itself in `Files`; the
names are finitely many, `Unusual` is a set of them, and `BatchSize` is a positive natural
number in `Dataset`. Every safety property of the passing runs is a theorem, every action
property is, and the four refinements are (`Session` of `Analysis` and `Preparation`,
`Files` of `Preparation`, `Observer` of `EventLog`).

* **Session.** `IInv` conjoins, beside the types: which pipe ends each process holds at
  each point (`FdsInv`); how far one process can be while the other is at a given point
  (`ProgressInv`: the child passes `await` only with the start signal or when `main` is
  dead, and so on); which pipe can have data; what `tracer`, `cgroup` and `upper` are at
  each point; what `kill` can have hit. No safety property is inductive by itself: that
  the tracer is attached while the target runs follows only from who can hold the write
  end of `syncPipe`, which follows from the places of both processes. One lemma for each
  part says that every step keeps it, with one step per action. From it follows, step by
  step, that `Session` implements `Analysis` (`RunRefined`): that a return finds the
  program over needs the second `waitpid`, that a release finds the run watched or broken
  off needs `ProgressInv`. `Preparation` is implemented for the same reasons
  (`UpperRefined`): a target that writes has passed `execve`, which is behind the copy,
  also when `main` went in between. That neither process waits in vain (`NoWaitInVain`) is
  `FdsInv` read the other way: who still holds the write end, where that process is, and
  that a `main` that waits in `waitpid` has sent the SIGKILL to the child's own number.
* **EventLog.** By the rules of the record, of one task only denied calls overtake,
  and only allowed ones (`Overtaking`).
* **Observer.** `IInv` says what each queue may hold, that the calls recorded and the
  calls still in the ring buffer are disjoint and ordered, that the same is true of
  the calls denied and those that wait, that the semaphore counts at least the
  notifications not taken, and what `main` knows at each point. From it the safety
  properties, and step by step that `Observer` implements `EventLog` (`KeepsRecord`);
  the order of the vector is then `EventLog`'s own theorem carried over
  (`OvertakingInVector`). Two theorems are about how long it takes, by numbers that every
  step of `main` brings down and no step of a task raises. When the time is up, the number
  is the records in the buffer, the calls that may still come, and a last round
  (`TimeLimitIsPressed`). For a call that waits, it is ten for each call that waits before
  it or is it, what is left of the round, the records and the calls to come
  (`TurnAlwaysComes`): that a later call never goes first is `WaitInv`'s order of the
  queue, and that a round with a waiting call reaches RECV is what `LoopInv` says of
  `poll`'s answer.
* **SyscallGraph.** `IInv` ties each map to the part of the list read so far, by the
  sets of places where a transition or a flag occurs, and each array to the keys
  visited so far. At the end this is the decoding (`ExportDecodesEdges`,
  `ExportDecodesNodes`, `ExportWellFormed`, together `ExportIsFaithful`).

* **Mounts.** `IInv` says who can still share the host's propagation, that directories
  that were replaced are empty, and, while no run is abandoned, that only the latest run
  has a living child, what is mounted at each of its steps, and what the upper layer
  holds. That the root is an overlay at all (`NeverBareRoot`) needs none of this and
  holds for abandoned runs as well; what the overlay shows (`CleanRoot`, `OwnRoot`) holds
  only while every run is cleaned up, and the run `mounts` would find it violated without
  that condition.
* **Files.** For the deletion, `IInv` says that the calls of `rmRF` are on directories of
  the overlay, the outermost on `upper`, so that a listed entry is never one of `Home`,
  and that there is one open stream per call; and that what is named `target`
  when `cpy` opens it is no link, because every entry of `upper` was either unlinked or is
  a directory (`OutsideIsSpared`). For the copy, that what was written, followed by what
  is left in the buffer, is the part of the binary that was read (`CopyIsFaithful`).
  `FilesDepth` adds what `rmRF` leaves (`LeavesOnlyTooDeep`): the things around a thing are
  the least set closed under `parent`, so no recursion is needed, and that every thing is
  below `upper` follows from the well-foundedness of the subsets of a finite set. While
  `rmRF` runs, whatever is in the tree is waiting in one of its calls, is the directory of
  one, or is around or in something out of its reach (`DoneInv`). That a directory which
  cannot be emptied holds such a thing needs the chain of calls (`Chain`): each is for a
  directory in that of the next, and none was entered that still waits. That a directory
  which is left for want of a descriptor is too deep, and one that was opened is not, is a
  bijection between the calls and the directories around it. The same facts bound the work
  (`PrepareIsBounded`): what is waiting in the calls loses an entry with each iteration
  and gains none, because what a directory holds was waiting since the directory was, so
  `rmRF`, `mkdirP` and `cpy` take at most two steps for each entry, three for each byte,
  and seven. From `DoneInv` it follows, too, that they come to what `Session` takes them for
  (`UpperRefined`): `rmRF` only takes away, leaves nothing but what is out of its reach, and
  when `cpy` opens `target` there is at most a directory in its place, so that a copy that
  succeeds is the only file there.
* **Dataset.** While autorun is on, every sample it is through with has its graph in
  `raw`, unless it was missed or a malicious namesake came after it; that this can only be
  a malicious one rests on the order, that no benign sample is left once the malicious
  ones begin (`CollectedAll`). A model that is whole or being written has the graphs of a
  data set that passed `Readable` and `CanLearn`, which carries over from `data.pt` at
  each step of a training (`VerdictIsSound`).

Only model-checked: liveness (`MainEnds`, `TargetEndedByTimeout`, `OrphanIsReleased`,
`WaitEnds`, `LoopEnds`, `PrepareEnds`, `FirstTrainingLearns`), because the prover has no
ENABLED; and the violations above, which are counterexamples. Of most of these liveness
properties the part that is safety is proved, so that what rests on TLC's small instances
is that a step is possible and, being fair, taken:

| liveness, checked | what is proved of it |
|---|---|
| `PrepareEnds` | `PrepareIsBounded`: every step brings the end nearer |
| `LoopEnds` | `TimeLimitIsPressed`: so does every step of `main` once the time is up; `ReceiveReturns`: the only call that could wait does not |
| `WaitEnds` | `TurnAlwaysComes` and `ReceiveReturns`, until RECV takes the call; SEND is the next step |
| `MainEnds`, `OrphanIsReleased` | `NoWaitInVain`: no state in which one process waits for what cannot come |

`TargetEndedByTimeout` needs the clock and `FirstTrainingLearns` that nobody kills the
training; neither has such a part that would say more than its actions do.

## 5. What is not modelled

* `json.hpp` is third-party code, 24765 of the repository's 26084 lines; one object is
  written with it. The share of lines the modules stand for is small for that reason;
  of the project's own code, nearly all that changes state is modelled.
* The tensor arithmetic and the learning are PyTorch's and LibTorch's; only what makes them
  fail is modelled. Installing packages and the build description have no state that the
  program reads. `run` and `is_fd_open` of the helpers change nothing: the first has no
  caller, the second only prints.
* Two runs of Fragarach at a time, which share `/opt/fragarach` and the cgroup's name:
  nothing in the code supports it.
* A process that writes to the upper directory while `rmRF` deletes it is in `Mounts`
  (`TargetWrites` of a child that was left over) and not in `Files`.
* Other reasons for `lstat`, `unlink`, `rmdir` or `opendir` to fail in `rmRF`, which runs as
  root on a local file system: an input/output error, or a file with the immutable attribute
  (what an overlay is asked to set it on is, on present kernels, not so marked in the upper
  directory itself). A file they apply to would stay like those whose path is too long.
  The overlay's `work` directory, which no target sees, is not followed either.
* What a left-over child does to the run after it is in `Mounts` as far as the root is
  concerned (`RootIsOverlay`); what that run finds in its overlay is claimed only while
  every run is cleaned up.
* What the kernel promises is taken as documented: pipes, `waitpid`, PID namespaces,
  seccomp notifications, BPF ring buffers. Memory order within the ring buffer is not
  looked into.
* A target that writes to the ring buffer faster than `consume` reads it is in `Session`
  (`Outrun` keeps `main` from its time limit); in `Observer` the number of calls made is
  bounded, so that there each `consume` ends.
* Time stamps and process numbers of events: nothing reads them but the listing that
  `main` prints.
* The composition of `Session` with `Observer`, `Mounts` and `Files` in one state space. The
  steps they take apart are atomic in `Session`. That the outcomes are the same is a
  theorem for `Files`, since both modules implement `Preparation`; for `Observer` and
  `Mounts` it is by reading, and what a record holds after a run with failures is known
  from each module, not from a joint one.
