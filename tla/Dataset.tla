------------------------------ MODULE Dataset ------------------------------
(***************************************************************************)
(* From samples to verdicts: autorun.sh and single calls of fragarach fill *)
(* the directory raw with graphs (the end of main.cpp), train.py makes the *)
(* data set data.pt and the model of them, and fragarach without a label   *)
(* asks the model (inference.cpp).  One of these runs at a time, and each  *)
(* may be killed; the installation sets everything back.                   *)
(*                                                                         *)
(* A graph is known by the sample it comes from and by what the training   *)
(* can make of it.  Files are the graphs in them; a file that is opened    *)
(* and not yet written, or was left so, is "cut".                          *)
(***************************************************************************)
EXTENDS Integers, FiniteSets

CONSTANTS
  Benign, Malware, \* the names of the files in the two samples directories
  Unusual,   \* those that may make a call whose number the embedding lacks
  BatchSize  \* of the loaders of train.py: 32

Names == Benign \cup Malware

ASSUME SamplesAssumption == IsFiniteSet(Names) /\ Unusual \subseteq Names
ASSUME BatchAssumption   == BatchSize \in Nat \ {0}

VARIABLES
  at,     \* the control point of what is running
  auto,   \* whether fragarach is called by autorun.sh,
  todo,   \*   and the samples it still has to call it with
  inHand, \* the graph fragarach has made, if any
  raw,    \* the files of the directory raw
  cache,  \* processed/data.pt
  model,  \* model_scripted.pt; the one that is installed has no graphs
  missed, \* history: samples of this autorun without a whole file,
  broken  \*   and whether this training was cut short

files == <<raw, cache, model>>
vars  == <<at, auto, todo, inHand, files, missed, broken>>

Samples == [name : Benign, label : {0}] \cup [name : Malware, label : {1}]
Graph   == [name : Names, label : {-1, 0, 1},
            kind : {"plain", "odd", "empty", "cut"}]

TrainPoints == {"process", "cache", "learn", "export", "exported"}

(* Type correctness; a name has one file at most. *)
TypeOK ==
  /\ at \in {"idle", "collect", "write", "infer", "verdict"} \cup TrainPoints
  /\ auto \in BOOLEAN
  /\ todo \subseteq Samples
  /\ inHand \subseteq Graph
  /\ raw \subseteq Graph
  /\ \A f, g \in raw : f.name = g.name => f = g
  /\ cache \in [state : {"none", "cut", "whole"}, graphs : SUBSET Graph]
  /\ model \in [state : {"cut", "whole"}, graphs : SUBSET Graph,
                device : {"cpu", "cuda"}]
  /\ missed \subseteq Samples
  /\ broken \in BOOLEAN

NoCache   == [state |-> "none", graphs |-> {}]
Installed == [state |-> "whole", graphs |-> {}, device |-> "cpu"]

Init ==
  /\ at = "idle" /\ auto = FALSE /\ todo = {} /\ inHand = {}
  /\ raw = {} /\ cache = NoCache /\ model = Installed
  /\ missed = {} /\ broken = FALSE

(* install.sh deletes /opt/fragarach, data set and samples included, and   *)
(* copies the model there; the samples are put back.                       *)
Install ==
  /\ at = "idle"
  /\ raw' = {} /\ cache' = NoCache /\ model' = Installed
  /\ UNCHANGED <<at, auto, todo, inHand, missed, broken>>

----------------------------------------------------------------------------
(* Collecting: autorun.sh and the end of main *)

StartAutorun ==
  /\ at = "idle" /\ at' = "collect"
  /\ auto' = TRUE /\ todo' = Samples /\ missed' = {}
  /\ UNCHANGED <<inHand, files, broken>>

AfterRun == IF auto THEN "collect" ELSE "idle"

(* The samples autorun may turn to.  A faulty variant: in any order. *)
UpNextAny == todo
UpNext == {s \in todo : s.label = 1 => \A t \in todo : t.label = 1}

(* The one file of a sample's name, whatever its directory and label.  A   *)
(* faulty variant: the older file of that name is kept as well.            *)
PutBeside(g) == raw' = raw \cup {g}
Put(g) == raw' = {f \in raw : f.name # g.name} \cup {g}

GraphOf(s, k) == [name |-> s.name, label |-> s.label, kind |-> k]

(* fragarach opens the file, which empties it, with this graph in hand *)
Open(s, k) ==
  /\ at' = "write"
  /\ inHand' = {GraphOf(s, k)} /\ Put(GraphOf(s, "cut"))

(* What a sample's calls may give: system("ls") alone gives edges *)
Kinds(s) == IF s.name \in Unusual THEN {"plain", "odd"} ELSE {"plain"}

(* Of autorun (done is the sample) or by hand (nothing is).  The run may   *)
(* end without a graph.  When the copy fails, cleanup's kill(-1) ends      *)
(* autorun with everything else, and the graph is empty: see Session.      *)
Analyse(s, done) ==
  \/ /\ \E k \in Kinds(s) : Open(s, k)
     /\ todo' = todo \ done
     /\ UNCHANGED <<auto, missed>>
  \/ /\ at' = AfterRun /\ todo' = todo \ done /\ missed' = missed \cup done
     /\ UNCHANGED <<auto, inHand, raw>>
  \/ /\ Open(s, "empty")
     /\ auto' = FALSE /\ todo' = {}
     /\ UNCHANGED missed

AnalyseSample ==
  /\ \/ at = "collect" /\ \E s \in UpNext : Analyse(s, {s})
     \/ at = "idle" /\ \E s \in Samples : Analyse(s, {})
  /\ UNCHANGED <<cache, model, broken>>

WriteGraph ==
  /\ at = "write" /\ at' = AfterRun
  /\ \E g \in inHand : Put(g)
  /\ inHand' = {}
  /\ UNCHANGED <<auto, todo, cache, model, missed, broken>>

(* fragarach is killed, or the disk is full: autorun does not look *)
LoseGraph ==
  /\ at = "write" /\ at' = AfterRun
  /\ missed' = missed \cup {s \in Samples : \E g \in inHand :
                              s = [name |-> g.name, label |-> g.label]}
  /\ inHand' = {}
  /\ UNCHANGED <<auto, todo, files, broken>>

EndAutorun ==
  /\ at = "collect" /\ todo = {} /\ at' = "idle"
  /\ auto' = FALSE
  /\ UNCHANGED <<todo, inHand, files, missed, broken>>

----------------------------------------------------------------------------
(* Training: train.py *)

(* SyscallDataset: process() is called only when there is no data.pt, and  *)
(* one that was not completely written is never made again                 *)
StartTraining ==
  /\ at = "idle"
  /\ at' = CASE cache.state = "none"  -> "process"
             [] cache.state = "whole" -> "learn"
             [] OTHER                 -> "idle"
  /\ broken' = FALSE
  /\ UNCHANGED <<auto, todo, inHand, files, missed>>

(* A file that is cut is no JSON, and no graphs cannot be put together.    *)
(* What comes of it is saved as it is.                                     *)
Readable(graphs) == graphs # {} /\ \A g \in graphs : g.kind # "cut"

Process ==
  /\ at = "process"
  /\ IF Readable(raw)
       THEN at' = "cache" /\ cache' = [cache EXCEPT !.state = "cut"]
       ELSE at' = "idle" /\ UNCHANGED cache
  /\ UNCHANGED <<auto, todo, inHand, raw, model, missed, broken>>

(* A faulty variant: the graphs of one class are taken for the data set. *)
SaveMalwareOnly ==
  /\ at = "cache" /\ at' = "learn"
  /\ cache' = [state |-> "whole", graphs |-> {g \in raw : g.label = 1}]
  /\ UNCHANGED <<auto, todo, inHand, raw, model, missed, broken>>
SaveCache ==
  /\ at = "cache" /\ at' = "learn"
  /\ cache' = [state |-> "whole", graphs |-> raw]
  /\ UNCHANGED <<auto, todo, inHand, raw, model, missed, broken>>

(* int(0.8 * n) of n graphs are for the training. *)
TrainSize(n) == (4 * n) \div 5

(* y.squeeze() of a batch with one graph has no dimension, and the loss    *)
(* fails; a loader that shuffles needs a graph; a number that the          *)
(* embedding lacks fails in the training as in the evaluation.             *)
BatchOfOne(n) == TrainSize(n) % BatchSize = 1 % BatchSize
CanLearn(graphs) ==
  /\ TrainSize(Cardinality(graphs)) > 0
  /\ ~BatchOfOne(Cardinality(graphs))
  /\ \A g \in graphs : g.kind # "odd"

(* The 100 epochs.  They fail as well when the shuffling puts an empty     *)
(* graph last in a batch: pooling then gives a row too few.                *)
Learn ==
  /\ at = "learn"
  /\ \/ CanLearn(cache.graphs) /\ at' = "export"
     \/ /\ ~CanLearn(cache.graphs)
           \/ \E g \in cache.graphs : g.kind = "empty"
        /\ at' = "idle"
  /\ UNCHANGED <<auto, todo, inHand, files, missed, broken>>

(* trace the model on the device it was trained on, and open the file; a   *)
(* failure is only printed                                                 *)
Trace ==
  /\ at = "export"
  /\ \/ /\ at' = "exported" /\ UNCHANGED broken
        /\ \E d \in {"cpu", "cuda"} :
             model' = [state |-> "cut", graphs |-> cache.graphs, device |-> d]
     \/ at' = "idle" /\ broken' = TRUE /\ UNCHANGED model
  /\ UNCHANGED <<auto, todo, inHand, raw, cache, missed>>

SaveModel ==
  /\ at = "exported" /\ at' = "idle"
  /\ model' = [model EXCEPT !.state = "whole"]
  /\ UNCHANGED <<auto, todo, inHand, raw, cache, missed, broken>>

KillTraining ==
  /\ at \in TrainPoints /\ at' = "idle"
  /\ broken' = TRUE
  /\ UNCHANGED <<auto, todo, inHand, files, missed>>

----------------------------------------------------------------------------
(* The verdict: fragarach without a label *)

AnalyseUnknown ==
  /\ at = "idle" /\ at' = "infer"
  /\ \E n \in Names, k \in {"plain", "odd", "empty"} :
       inHand' = {[name |-> n, label |-> -1, kind |-> k]}
  /\ UNCHANGED <<auto, todo, files, missed, broken>>

(* LibTorch is the CPU build: it cannot load what was saved on a GPU.      *)
(* A faulty variant: what load throws is not looked into.                  *)
LoadsAnything == TRUE
Loads == model.state = "whole" /\ model.device = "cpu"

(* The constructor of Inference and predict: exit(1) on any exception.     *)
(* What the traced model makes of no nodes is not known.                   *)
Predict ==
  /\ at = "infer" /\ inHand' = {}
  /\ \/ at' = "verdict" /\ Loads /\ \A g \in inHand : g.kind # "odd"
     \/ at' = "idle" /\ (Loads => \A g \in inHand : g.kind # "plain")
  /\ UNCHANGED <<auto, todo, files, missed, broken>>

TellVerdict ==
  /\ at = "verdict" /\ at' = "idle"
  /\ UNCHANGED <<auto, todo, inHand, files, missed, broken>>

----------------------------------------------------------------------------
TrainNext == Process \/ SaveCache \/ Learn \/ Trace \/ SaveModel

Next ==
  \/ Install \/ StartAutorun \/ AnalyseSample \/ WriteGraph \/ LoseGraph
  \/ EndAutorun \/ StartTraining \/ TrainNext \/ KillTraining
  \/ AnalyseUnknown \/ Predict \/ TellVerdict

Spec == Init /\ [][Next]_vars

(* a training that was started goes on *)
FairSpec == Spec /\ WF_vars(TrainNext)

----------------------------------------------------------------------------
(* Safety *)

(* When autorun is through, every sample whose run came to its end has its *)
(* graph in raw with its label, but for a benign one of which there is a   *)
(* malicious namesake: autorun.sh comes to that later, and main.cpp calls  *)
(* the file by the last part of the path only.                             *)
CollectionComplete ==
  at = "collect" /\ todo = {} =>
    \A s \in Samples \ missed :
      \/ \E g \in raw : /\ g.name = s.name /\ g.label = s.label
                        /\ g.kind # "cut"
      \/ s.label = 0 /\ s.name \in Malware

(* A verdict is given only by the installed model or by one that went      *)
(* through all epochs, on graphs each of which the embedding takes, was    *)
(* completely saved, and can be loaded without a GPU: whenever train.py,   *)
(* fragarach or autorun.sh was killed before.                              *)
VerdictOfWholeModel ==
  at = "verdict" =>
    /\ model.state = "whole" /\ model.device = "cpu"
    /\ model.graphs # {} => CanLearn(model.graphs) /\ Readable(model.graphs)

----------------------------------------------------------------------------
(* Liveness *)

Sound(graphs) ==
  /\ Readable(graphs) /\ CanLearn(graphs)
  /\ \A g \in graphs : g.kind # "empty"

(* The first training after the installation, with graphs none of which is *)
(* cut, empty or odd, and as many that no batch has only one, exports a    *)
(* model of all of them: process, the loaders and the loop of train.py.    *)
FirstTrainingLearns ==
  at = "process" /\ Sound(raw)
    ~> broken \/ (model.state = "whole" /\ model.graphs = raw)

----------------------------------------------------------------------------
(* What the documentation says *)

(* README.md: "The script loads graphs from /opt/fragarach/raw/", of every *)
(* training, by SyscallDataset.                                            *)
TrainsOnRaw == at = "learn" => cache.graphs = raw

============================================================================
