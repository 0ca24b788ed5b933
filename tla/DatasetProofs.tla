--------------------------- MODULE DatasetProofs ---------------------------
(***************************************************************************)
(* Proofs about Dataset, for any samples and any batch size: what autorun  *)
(* leaves in the directory raw, and which model gives a verdict.           *)
(***************************************************************************)
EXTENDS Dataset, TLAPS

----------------------------------------------------------------------------
(* The inductive invariant. *)

(* Between opening a file and writing it fragarach holds one whole graph. *)
HandInv ==
  at = "write" => \E s \in Samples, k \in {"plain", "odd", "empty"} :
                    inHand = {GraphOf(s, k)}

InHand(s) == at = "write" /\ \E g \in inHand : g.name = s.name
                                            /\ g.label = s.label

(* The file of a sample is whole, or will be replaced by its namesake's *)
Written(s) ==
  \/ \E g \in raw : /\ g.name = s.name /\ g.label = s.label
                    /\ g.kind # "cut"
  \/ s.label = 0 /\ s.name \in Malware

(* Malicious samples come after all others, and what autorun has dealt     *)
(* with is written.                                                        *)
CollectInv ==
  /\ at = "collect" => auto
  /\ auto =>
       /\ at \in {"collect", "write"}
       /\ \A s, t \in Samples :
            s.label = 0 /\ t.label = 1 /\ (s \in todo \/ InHand(s))
              => t \in todo
       /\ \A s \in Samples \ (todo \cup missed) : InHand(s) \/ Written(s)

(* What train.py knows at each of its steps, and what a model was made of *)
ModelInv ==
  /\ cache.state = "whole" => Readable(cache.graphs)
  /\ at = "cache" => Readable(raw)
  /\ at \in {"learn", "export"} => cache.state = "whole"
  /\ at = "export" => CanLearn(cache.graphs)
  /\ model.graphs # {} => CanLearn(model.graphs) /\ Readable(model.graphs)
  /\ at = "verdict" => model.state = "whole" /\ model.device = "cpu"

IInv == TypeOK /\ HandInv /\ CollectInv /\ ModelInv

----------------------------------------------------------------------------
(* Samples and graphs. *)

LEMMA SampleFacts ==
  ASSUME NEW s \in Samples
  PROVE  /\ s.name \in Names /\ s.label \in {0, 1}
         /\ s = [name |-> s.name, label |-> s.label]
         /\ s.label = 1 => s.name \in Malware
         /\ \A t \in Samples : t.name = s.name /\ t.label = s.label => t = s
  BY DEF Samples, Names

LEMMA GraphFacts ==
  ASSUME NEW s \in Samples, NEW k \in {"plain", "odd", "empty", "cut"}
  PROVE  /\ GraphOf(s, k) \in Graph
         /\ GraphOf(s, k).name = s.name /\ GraphOf(s, k).label = s.label
         /\ GraphOf(s, k).kind = k
  BY SampleFacts DEF GraphOf, Graph

(* Putting a file keeps one file of each name. *)
LEMMA PutFacts ==
  ASSUME raw \subseteq Graph, \A f, g \in raw : f.name = g.name => f = g,
         NEW h \in Graph, Put(h)
  PROVE  /\ raw' \subseteq Graph
         /\ \A f, g \in raw' : f.name = g.name => f = g
  BY DEF Put

----------------------------------------------------------------------------
(* Initial states and steps. *)

LEMMA InitInv == Init => IInv
<1> SUFFICES ASSUME Init PROVE IInv
  OBVIOUS
<1>1. TypeOK
  BY DEF Init, TypeOK, NoCache, Installed, TrainPoints
<1>2. HandInv /\ CollectInv
  BY DEF Init, HandInv, CollectInv
<1>3. ModelInv
  BY DEF Init, ModelInv, NoCache, Installed
<1> QED
  BY <1>1, <1>2, <1>3 DEF IInv

LEMMA AnalyseCases ==
  ASSUME TypeOK, NEW s \in Samples, NEW done \in SUBSET Samples,
         Analyse(s, done)
  PROVE  \/ \E k \in {"plain", "odd", "empty"} :
              /\ Open(s, k) /\ missed' = missed
              /\ \/ todo' = todo \ done /\ auto' = auto
                 \/ todo' = {} /\ auto' = FALSE
         \/ /\ at' = AfterRun /\ todo' = todo \ done
            /\ missed' = missed \cup done
            /\ UNCHANGED <<auto, inHand, raw>>
<1>1. Kinds(s) \subseteq {"plain", "odd", "empty"}
  BY DEF Kinds
<1> QED
  BY <1>1 DEF Analyse

(* Every step keeps the types: files are replaced by graphs only. *)
LEMMA TypeStep == IInv /\ [Next]_vars => TypeOK'
<1> SUFFICES ASSUME IInv, [Next]_vars PROVE TypeOK'
  OBVIOUS
<1> USE DEF TrainPoints
<1>0. TypeOK /\ HandInv
  BY DEF IInv
<1>1. ASSUME Install PROVE TypeOK'
  BY <1>0, <1>1 DEF TypeOK, Install, NoCache, Installed
<1>2. ASSUME StartAutorun PROVE TypeOK'
  BY <1>0, <1>2 DEF TypeOK, StartAutorun, files
<1>3. ASSUME AnalyseSample PROVE TypeOK'
  <2>1. PICK s \in Samples, done \in SUBSET Samples : Analyse(s, done)
    <3>1. UpNext \subseteq Samples
      BY <1>0 DEF UpNext, TypeOK
    <3> QED
      BY <1>3, <3>1 DEF AnalyseSample
  <2>2. CASE \E k \in {"plain", "odd", "empty"} :
               /\ Open(s, k) /\ missed' = missed
               /\ \/ todo' = todo \ done /\ auto' = auto
                  \/ todo' = {} /\ auto' = FALSE
    <3>1. PICK k \in {"plain", "odd", "empty"} : Open(s, k)
      BY <2>2
    <3>2. GraphOf(s, "cut") \in Graph /\ GraphOf(s, k) \in Graph
      BY GraphFacts
    <3>3. /\ raw' \subseteq Graph
          /\ \A f, g \in raw' : f.name = g.name => f = g
      BY <1>0, <3>1, <3>2, PutFacts DEF Open, TypeOK
    <3>4. /\ at' = "write" /\ inHand' \subseteq Graph
          /\ auto' \in BOOLEAN /\ todo' \subseteq Samples
          /\ missed' \subseteq Samples
      BY <1>0, <2>2, <3>1, <3>2 DEF Open, TypeOK
    <3> QED
      BY <1>0, <1>3, <3>3, <3>4 DEF TypeOK, AnalyseSample
  <2>3. CASE /\ at' = AfterRun /\ todo' = todo \ done
             /\ missed' = missed \cup done
             /\ UNCHANGED <<auto, inHand, raw>>
    BY <1>0, <1>3, <2>3 DEF TypeOK, AnalyseSample, AfterRun
  <2> QED
    BY <1>0, <2>1, <2>2, <2>3, AnalyseCases
<1>4. ASSUME WriteGraph PROVE TypeOK'
  <2>1. PICK h \in inHand : Put(h)
    BY <1>4 DEF WriteGraph
  <2>2. /\ raw' \subseteq Graph
        /\ \A f, g \in raw' : f.name = g.name => f = g
    BY <1>0, <2>1, PutFacts DEF TypeOK
  <2> QED
    BY <1>0, <1>4, <2>2 DEF TypeOK, WriteGraph, AfterRun
<1>5. ASSUME LoseGraph PROVE TypeOK'
  BY <1>0, <1>5 DEF TypeOK, LoseGraph, AfterRun, files
<1>6. ASSUME EndAutorun PROVE TypeOK'
  BY <1>0, <1>6 DEF TypeOK, EndAutorun, files
<1>7. ASSUME StartTraining PROVE TypeOK'
  BY <1>0, <1>7 DEF TypeOK, StartTraining, files
<1>8. ASSUME TrainNext PROVE TypeOK'
  <2>1. ASSUME Process PROVE TypeOK'
    BY <1>0, <2>1 DEF TypeOK, Process
  <2>2. ASSUME SaveCache PROVE TypeOK'
    BY <1>0, <2>2 DEF TypeOK, SaveCache
  <2>3. ASSUME Learn PROVE TypeOK'
    BY <1>0, <2>3 DEF TypeOK, Learn, files
  <2>4. ASSUME Trace PROVE TypeOK'
    <3>1. cache.graphs \in SUBSET Graph
      BY <1>0 DEF TypeOK
    <3>2. model' = model \/ \E d \in {"cpu", "cuda"} :
             model' = [state |-> "cut", graphs |-> cache.graphs, device |-> d]
      BY <2>4 DEF Trace
    <3>3. model' \in [state : {"cut", "whole"}, graphs : SUBSET Graph,
                      device : {"cpu", "cuda"}]
      BY <1>0, <3>1, <3>2 DEF TypeOK
    <3> QED
      BY <1>0, <2>4, <3>3 DEF TypeOK, Trace
  <2>5. ASSUME SaveModel PROVE TypeOK'
    BY <1>0, <2>5 DEF TypeOK, SaveModel
  <2> QED
    BY <1>8, <2>1, <2>2, <2>3, <2>4, <2>5 DEF TrainNext
<1>9. ASSUME KillTraining PROVE TypeOK'
  BY <1>0, <1>9 DEF TypeOK, KillTraining, files
<1>10. ASSUME AnalyseUnknown PROVE TypeOK'
  <2>1. inHand' \subseteq Graph
    BY <1>10 DEF AnalyseUnknown, Graph
  <2> QED
    BY <1>0, <1>10, <2>1 DEF TypeOK, AnalyseUnknown, files
<1>11. ASSUME Predict \/ TellVerdict PROVE TypeOK'
  BY <1>0, <1>11 DEF TypeOK, Predict, TellVerdict, files
<1>12. ASSUME UNCHANGED vars PROVE TypeOK'
  BY <1>0, <1>12 DEF TypeOK, vars, files
<1> QED
  BY <1>1, <1>2, <1>3, <1>4, <1>5, <1>6, <1>7, <1>8, <1>9, <1>10, <1>11,
     <1>12 DEF Next

(* Only opening and writing a file touch the graph in hand. *)
LEMMA HandStep == IInv /\ [Next]_vars => HandInv'
<1> SUFFICES ASSUME IInv, [Next]_vars, at' = "write"
             PROVE  \E s \in Samples, k \in {"plain", "odd", "empty"} :
                      inHand' = {GraphOf(s, k)}
  BY DEF HandInv
<1>0. TypeOK /\ HandInv
  BY DEF IInv
<1>1. ASSUME AnalyseSample
      PROVE  \E s \in Samples, k \in {"plain", "odd", "empty"} :
               inHand' = {GraphOf(s, k)}
  <2>1. PICK s \in Samples, done \in SUBSET Samples : Analyse(s, done)
    <3>1. UpNext \subseteq Samples
      BY <1>0 DEF UpNext, TypeOK
    <3> QED
      BY <1>1, <3>1 DEF AnalyseSample
  <2>2. \E k \in {"plain", "odd", "empty"} : Open(s, k)
    BY <1>0, <2>1, AnalyseCases DEF AfterRun
  <2> QED
    BY <2>2 DEF Open
<1>2. ASSUME UNCHANGED vars
      PROVE  \E s \in Samples, k \in {"plain", "odd", "empty"} :
               inHand' = {GraphOf(s, k)}
  BY <1>0, <1>2 DEF HandInv, vars
<1>3. ASSUME Install
      PROVE  FALSE
  BY <1>3 DEF Install
<1>4. ASSUME StartAutorun \/ WriteGraph \/ LoseGraph \/ EndAutorun
             \/ StartTraining \/ KillTraining \/ AnalyseUnknown \/ Predict
             \/ TellVerdict
      PROVE  FALSE
  BY <1>4 DEF StartAutorun, WriteGraph, LoseGraph, EndAutorun, StartTraining,
              KillTraining, AnalyseUnknown, Predict, TellVerdict, AfterRun
<1>5. ASSUME TrainNext PROVE FALSE
  BY <1>5 DEF TrainNext, Process, SaveCache, Learn, Trace, SaveModel
<1> QED
  BY <1>1, <1>2, <1>3, <1>4, <1>5 DEF Next

(* Autorun turns to a sample: what it has dealt with stays written. *)
LEMMA CollectAnalyse ==
  ASSUME IInv, auto, at = "collect", NEW s \in UpNext, Analyse(s, {s})
  PROVE  CollectInv'
<1>0. /\ TypeOK /\ CollectInv /\ s \in todo /\ s \in Samples
      /\ \A t \in Samples : ~InHand(t)
  BY DEF IInv, UpNext, InHand, TypeOK
<1>1. CASE \E k \in {"plain", "odd", "empty"} :
             /\ Open(s, k) /\ missed' = missed
             /\ \/ todo' = todo \ {s} /\ auto' = auto
                \/ todo' = {} /\ auto' = FALSE
  <2>1. CASE auto' = FALSE
    BY <1>1, <2>1 DEF CollectInv, Open
  <2>2. CASE todo' = todo \ {s} /\ auto' = auto
    <3>1. PICK k \in {"plain", "odd", "empty"} :
            /\ at' = "write" /\ inHand' = {GraphOf(s, k)}
            /\ Put(GraphOf(s, "cut")) /\ missed' = missed
      BY <1>1 DEF Open
    <3>2. \A t \in Samples : InHand(t)' <=> t = s
      BY <1>0, <3>1, GraphFacts, SampleFacts DEF InHand
    <3>3. ASSUME NEW t \in Samples, NEW u \in Samples, t.label = 0,
                 u.label = 1, t \in todo' \/ InHand(t)'
          PROVE  u \in todo'
      <4>1. t \in todo
        BY <1>0, <2>2, <3>2, <3>3
      <4>2. u \in todo
        BY <1>0, <3>3, <4>1 DEF CollectInv
      <4>3. u # s
        BY <1>0, <3>3, <4>1 DEF UpNext
      <4> QED
        BY <2>2, <4>2, <4>3
    <3>4. ASSUME NEW t \in Samples, t \notin todo', t \notin missed', t # s
          PROVE  Written(t)'
      <4>1. t \notin todo /\ Written(t)
        BY <1>0, <2>2, <3>1, <3>4 DEF CollectInv
      <4>2. CASE t.label = 0 /\ t.name \in Malware
        BY <4>2 DEF Written
      <4>3. CASE \E g \in raw : /\ g.name = t.name /\ g.label = t.label
                               /\ g.kind # "cut"
        <5>1. CASE t.name # s.name
          <6>1. GraphOf(s, "cut").name = s.name
            BY <1>0, GraphFacts
          <6> QED
            BY <3>1, <4>3, <5>1, <6>1 DEF Written, Put
        <5>2. CASE t.name = s.name
          <6>1. t.label # s.label
            BY <1>0, <3>4, <5>2, SampleFacts
          <6>2. s.label = 1
            BY <1>0, <4>1, <6>1, SampleFacts DEF CollectInv
          <6> QED
            BY <1>0, <5>2, <6>1, <6>2, SampleFacts DEF Written
        <5> QED
          BY <5>1, <5>2
      <4> QED
        BY <4>1, <4>2, <4>3 DEF Written
    <3> QED
      BY <1>0, <3>1, <3>2, <3>3, <3>4 DEF CollectInv
  <2> QED
    BY <1>1, <2>1, <2>2
<1>2. CASE /\ at' = AfterRun /\ todo' = todo \ {s}
           /\ missed' = missed \cup {s}
           /\ UNCHANGED <<auto, inHand, raw>>
  <2>1. at' = "collect" /\ \A t \in Samples : ~InHand(t)'
    BY <1>2 DEF AfterRun, InHand
  <2>2. \A t, u \in Samples :
          t.label = 0 /\ u.label = 1 /\ t \in todo' => u \in todo'
    BY <1>0, <1>2 DEF CollectInv, UpNext
  <2>3. \A t \in Samples \ (todo' \cup missed') : Written(t)'
    BY <1>0, <1>2 DEF CollectInv, Written
  <2> QED
    BY <1>2, <2>1, <2>2, <2>3 DEF CollectInv
<1> QED
  BY <1>0, <1>1, <1>2, AnalyseCases

(* The graph in hand is written: it takes the place of the file that was   *)
(* opened, and of no other that autorun still needs.                       *)
LEMMA CollectWrite ==
  ASSUME IInv, WriteGraph
  PROVE  CollectInv'
<1>0. TypeOK /\ HandInv /\ CollectInv /\ at = "write"
  BY DEF IInv, WriteGraph
<1>1. CASE ~auto
  BY <1>1 DEF WriteGraph, CollectInv, AfterRun
<1>2. CASE auto
  <2>1. PICK s \in Samples, k \in {"plain", "odd", "empty"} :
          inHand = {GraphOf(s, k)}
    BY <1>0 DEF HandInv
  <2>2. /\ Put(GraphOf(s, k)) /\ at' = "collect" /\ auto' = auto
        /\ todo' = todo /\ missed' = missed
    BY <1>2, <2>1 DEF WriteGraph, AfterRun
  <2>3. \A t \in Samples : InHand(t) <=> t = s
    BY <1>0, <2>1, GraphFacts, SampleFacts DEF InHand
  <2>4. \A t \in Samples : ~InHand(t)'
    BY <2>2 DEF InHand
  <2>5. ASSUME NEW t \in Samples \ (todo' \cup missed')
        PROVE  Written(t)'
    <3>0. t \in Samples /\ t \notin todo /\ t \notin missed
      BY <2>2, <2>5
    <3>1. CASE t = s
      BY <2>2, <3>1, GraphFacts DEF Written, Put
    <3>2. CASE t # s
      <4>1. Written(t)
        BY <1>0, <1>2, <2>3, <3>0, <3>2 DEF CollectInv
      <4>2. CASE t.label = 0 /\ t.name \in Malware
        BY <4>2 DEF Written
      <4>3. CASE \E g \in raw : /\ g.name = t.name /\ g.label = t.label
                               /\ g.kind # "cut"
        <5>1. CASE t.name # s.name
          BY <2>2, <4>3, <5>1, GraphFacts DEF Written, Put
        <5>2. CASE t.name = s.name
          <6>1. t.label # s.label
            BY <3>0, <3>2, <5>2, SampleFacts
          <6>2. s.label = 1
            BY <1>0, <1>2, <2>3, <3>0, <6>1, SampleFacts DEF CollectInv
          <6> QED
            BY <3>0, <5>2, <6>1, <6>2, SampleFacts DEF Written
        <5> QED
          BY <5>1, <5>2
      <4> QED
        BY <4>1, <4>2, <4>3 DEF Written
    <3> QED
      BY <3>1, <3>2
  <2>6. \A t, u \in Samples :
          t.label = 0 /\ u.label = 1 /\ t \in todo' => u \in todo'
    BY <1>0, <1>2, <2>2 DEF CollectInv
  <2>7. \A t \in Samples \ (todo' \cup missed') : Written(t)'
    BY <2>5
  <2>8. \A t, u \in Samples :
          t.label = 0 /\ u.label = 1 /\ (t \in todo' \/ InHand(t)')
            => u \in todo'
    BY <2>2, <2>4, <2>6
  <2> QED
    BY <1>2, <2>2, <2>7, <2>8 DEF CollectInv
<1> QED
  BY <1>1, <1>2

(* The graph in hand is lost: its sample is among those that were missed. *)
LEMMA CollectLose ==
  ASSUME IInv, LoseGraph
  PROVE  CollectInv'
<1>0. TypeOK /\ CollectInv /\ at = "write" /\ UNCHANGED <<auto, todo, raw>>
  BY DEF IInv, LoseGraph, files
<1>1. CASE ~auto
  BY <1>0, <1>1 DEF LoseGraph, CollectInv, AfterRun
<1>2. CASE auto
  <2>1. at' = "collect" /\ \A t \in Samples : ~InHand(t)'
    BY <1>2 DEF LoseGraph, AfterRun, InHand
  <2>2. missed \subseteq missed' /\ \A t \in Samples : InHand(t) => t \in missed'
    BY <1>0, SampleFacts DEF LoseGraph, InHand
  <2>3. \A t \in Samples \ (todo' \cup missed') : Written(t)'
    BY <1>0, <1>2, <2>2 DEF CollectInv, Written
  <2>4. \A t, u \in Samples :
          t.label = 0 /\ u.label = 1 /\ t \in todo' => u \in todo'
    BY <1>0, <1>2 DEF CollectInv
  <2> QED
    BY <1>0, <1>2, <2>1, <2>3, <2>4 DEF CollectInv
<1> QED
  BY <1>1, <1>2

LEMMA CollectStep == IInv /\ [Next]_vars => CollectInv'
<1> SUFFICES ASSUME IInv, [Next]_vars PROVE CollectInv'
  OBVIOUS
<1>0. TypeOK /\ CollectInv
  BY DEF IInv
<1>1. ASSUME AnalyseSample PROVE CollectInv'
  <2>1. CASE at = "collect"
    <3>1. PICK s \in UpNext : Analyse(s, {s})
      BY <1>1, <2>1 DEF AnalyseSample
    <3>2. auto
      BY <1>0, <2>1 DEF CollectInv
    <3> QED
      BY <2>1, <3>1, <3>2, CollectAnalyse
  <2>2. CASE at = "idle" /\ \E s \in Samples : Analyse(s, {})
    <3>1. ~auto
      BY <1>0, <2>2 DEF CollectInv, TypeOK
    <3>2. PICK s \in Samples : Analyse(s, {})
      BY <2>2
    <3>3. ~auto' /\ at' # "collect"
      BY <3>1, <3>2 DEF Analyse, Open, AfterRun
    <3> QED
      BY <3>3 DEF CollectInv
  <2> QED
    BY <1>1, <2>1, <2>2 DEF AnalyseSample
<1>2. ASSUME WriteGraph \/ LoseGraph PROVE CollectInv'
  BY <1>2, CollectWrite, CollectLose
<1>3. ASSUME StartAutorun PROVE CollectInv'
  BY <1>3 DEF StartAutorun, CollectInv, InHand
<1>4. ASSUME at \notin {"collect", "write"}, at' \notin {"collect", "write"},
             UNCHANGED auto
      PROVE  CollectInv'
  BY <1>0, <1>4 DEF CollectInv
<1>5. ASSUME EndAutorun PROVE CollectInv'
  BY <1>5 DEF EndAutorun, CollectInv
<1>6. ASSUME Install \/ StartTraining \/ KillTraining \/ AnalyseUnknown
             \/ Predict \/ TellVerdict
      PROVE  CollectInv'
  BY <1>4, <1>6 DEF Install, StartTraining, KillTraining, AnalyseUnknown,
                    Predict, TellVerdict, TrainPoints
<1>7. ASSUME TrainNext PROVE CollectInv'
  BY <1>4, <1>7 DEF TrainNext, Process, SaveCache, Learn, Trace, SaveModel
<1>8. ASSUME UNCHANGED vars PROVE CollectInv'
  BY <1>0, <1>8 DEF CollectInv, InHand, Written, vars, files
<1> QED
  BY <1>1, <1>2, <1>3, <1>5, <1>6, <1>7, <1>8 DEF Next

(* The model is made of a whole cache, and only after all epochs. *)
LEMMA ModelStep == IInv /\ [Next]_vars => ModelInv'
<1> SUFFICES ASSUME IInv, [Next]_vars PROVE ModelInv'
  OBVIOUS
<1>0. TypeOK /\ ModelInv
  BY DEF IInv
<1>1. ASSUME Install PROVE ModelInv'
  BY <1>0, <1>1 DEF ModelInv, Install, NoCache, Installed
<1>2. ASSUME UNCHANGED <<cache, model>>,
             at' \notin {"cache", "learn", "export", "verdict"}
      PROVE  ModelInv'
  BY <1>0, <1>2 DEF ModelInv
<1>3. ASSUME AnalyseSample PROVE ModelInv'
  <2>1. \E s \in Samples, done \in SUBSET Samples : Analyse(s, done)
    <3>1. UpNext \subseteq Samples
      BY <1>0 DEF UpNext, TypeOK
    <3> QED
      BY <1>3, <3>1 DEF AnalyseSample
  <2>2. at' \in {"write", "collect", "idle"}
    BY <2>1 DEF Analyse, Open, AfterRun
  <2> QED
    BY <1>2, <1>3, <2>2 DEF AnalyseSample
<1>4. ASSUME StartAutorun \/ WriteGraph \/ LoseGraph \/ EndAutorun
             \/ KillTraining \/ AnalyseUnknown \/ TellVerdict
      PROVE  ModelInv'
  BY <1>2, <1>4 DEF StartAutorun, WriteGraph, LoseGraph, EndAutorun,
     KillTraining, AnalyseUnknown, TellVerdict, AfterRun, files
<1>5. ASSUME StartTraining PROVE ModelInv'
  BY <1>0, <1>5 DEF ModelInv, StartTraining, files
<1>6. ASSUME TrainNext PROVE ModelInv'
  <2>1. ASSUME Process PROVE ModelInv'
    BY <1>0, <2>1 DEF ModelInv, Process, TypeOK
  <2>2. ASSUME SaveCache PROVE ModelInv'
    BY <1>0, <2>2 DEF ModelInv, SaveCache
  <2>3. ASSUME Learn PROVE ModelInv'
    BY <1>0, <2>3 DEF ModelInv, Learn, files
  <2>4. ASSUME Trace PROVE ModelInv'
    BY <1>0, <2>4 DEF ModelInv, Trace
  <2>5. ASSUME SaveModel PROVE ModelInv'
    BY <1>0, <2>5 DEF ModelInv, SaveModel, TypeOK
  <2> QED
    BY <1>6, <2>1, <2>2, <2>3, <2>4, <2>5 DEF TrainNext
<1>7. ASSUME Predict PROVE ModelInv'
  BY <1>0, <1>7 DEF ModelInv, Predict, Loads, files
<1>8. ASSUME UNCHANGED vars PROVE ModelInv'
  BY <1>0, <1>8 DEF ModelInv, vars, files
<1> QED
  BY <1>1, <1>3, <1>4, <1>5, <1>6, <1>7, <1>8 DEF Next

----------------------------------------------------------------------------
(* The theorems. *)

(* The inductive invariant holds of every behaviour of autorun.sh,
   fragarach and train.py. *)
THEOREM Invariance == Spec => []IInv
<1>1. Init => IInv
  BY InitInv
<1>2. IInv /\ [Next]_vars => IInv'
  BY TypeStep, HandStep, CollectStep, ModelStep DEF IInv
<1> QED
  BY <1>1, <1>2, PTL DEF Spec

(* The variables keep their types, and raw has one file of each name. *)
THEOREM TypeCorrect == Spec => []TypeOK
<1>1. IInv => TypeOK
  BY DEF IInv
<1> QED
  BY Invariance, <1>1, PTL

(* At the end of autorun.sh every sample whose run came to its end has its
   graph in raw, but for benign ones with a malicious namesake. *)
THEOREM CollectedAll == Spec => []CollectionComplete
<1>1. IInv => CollectionComplete
  BY DEF IInv, CollectInv, CollectionComplete, InHand, Written
<1> QED
  BY Invariance, <1>1, PTL

(* Inference never gives a verdict with a model that is cut short, that
   cannot be loaded, or that was exported without all epochs. *)
THEOREM VerdictIsSound == Spec => []VerdictOfWholeModel
<1>1. IInv => VerdictOfWholeModel
  BY DEF IInv, ModelInv, VerdictOfWholeModel
<1> QED
  BY Invariance, <1>1, PTL

============================================================================
