-------------------------- MODULE FineTuningProofs --------------------------
(***************************************************************************)
(* Proofs about FineTuning, for any documents, any validation records, any *)
(* number of training steps and checkpoints, and any number of crashes.    *)
(***************************************************************************)
EXTENDS FineTuning, SequenceTheorems, WellFoundedInduction, TLAPS

-----------------------------------------------------------------------------
(* What the CHOOSEs of the model find *)

\* A non-empty set of naturals has a least element.
LEMMA LeastExists ==
    ASSUME NEW S \in SUBSET Nat, S # {}
    PROVE  \E i \in S : \A j \in S : i <= j
<1> DEFINE R == OpToRel(<, Nat)
<1>1. IsWellFoundedOn(R, Nat)
  BY NatLessThanWellFounded
<1>2. \A x, y \in Nat : <<x, y>> \in R <=> x < y
  BY DEF OpToRel
<1> HIDE DEF R
<1>3. PICK i \in S : \A j \in S : ~(<<j, i>> \in R)
  BY <1>1, WFMin
<1>4. ASSUME NEW j \in S PROVE i <= j
  <2>1. ~(j < i)
    BY <1>2, <1>3
  <2> QED BY <2>1
<1> QED BY <1>4

\* Among checkpoints there is one with the most steps.
LEMMA NewestIsThere ==
    ASSUME ckpts \subseteq Checkpoints, ckpts # {}
    PROVE  Newest \in ckpts
<1>1. \A c \in ckpts : c.step \in Nat /\ c.step <= Steps
  BY FineTuningAssumption DEF Checkpoints
<1> DEFINE S == {Steps - c.step : c \in ckpts}
<1>2. S \in SUBSET Nat /\ S # {}
  BY <1>1, FineTuningAssumption
<1>3. PICK i \in S : \A j \in S : i <= j
  BY <1>2, LeastExists
<1>4. PICK c \in ckpts : i = Steps - c.step
  BY <1>3
<1>5. \A d \in ckpts : d.step <= c.step
  <2> TAKE d \in ckpts
  <2>1. Steps - c.step <= Steps - d.step
    BY <1>3, <1>4
  <2> QED BY <1>1, <2>1, FineTuningAssumption
<1> QED BY <1>5 DEF Newest

\* An evaluation that is not complete has a next example.
LEMMA NextPendingIsThere ==
    ASSUME NEW S, val \in Seq(S), Pending # {}
    PROVE  NextPending \in Pending /\ NextPending \in DOMAIN val
<1>1. Pending \in SUBSET Nat /\ Pending \subseteq DOMAIN val
  BY LenProperties DEF Pending
<1>2. PICK i \in Pending : \A j \in Pending : i <= j
  BY <1>1, LeastExists
<1> QED BY <1>1, <1>2 DEF NextPending

\* The beginning of a sequence is one of the same elements.
LEMMA PrefixesTyped ==
    ASSUME NEW S, NEW s \in Seq(S)
    PROVE  Prefixes(s) \subseteq Seq(S)
BY SubSeqProperties, LenProperties DEF Prefixes

\* What is written of an example has the type of a prediction.
LEMMA PredictionTyped ==
    ASSUME NEW s \in Seq(Docs), NEW i \in DOMAIN s
    PROVE  /\ Prediction(s, i) \in Predictions /\ Prediction(s, i).index = i
           /\ Prediction(s, i) \in AllPredictions(s)
           /\ Prediction(s, i) \notin {Absent, Torn}
<1>1. i \in Nat \ {0} /\ s[i] \in Docs
  BY LenProperties, ElementOfSeq
<1>2. Prediction(s, i) \in Predictions /\ Prediction(s, i).index = i
  BY <1>1 DEF Prediction, Predictions
<1> QED BY <1>2, MarksAssumption DEF AllPredictions

\* Who evaluates does not train.
LEMMA Disjoint == Pipeline \cap Evaluator = {} /\ "idle" \notin Pipeline \cup Evaluator
BY DEF Pipeline, Evaluator

-----------------------------------------------------------------------------
(* Types *)

PCs == {"idle"} \cup Pipeline \cup Evaluator

\* What memory holds when no command runs.
LEMMA NothingTyped == NoSplit \in Splits /\ NoFit \in Fits /\ {} \subseteq Predictions
<1>1. <<>> \in Seq(Docs)
  OBVIOUS
<1>2. NoSplit \in Splits
  BY <1>1 DEF NoSplit, Splits
<1>3. NoFit \in Fits
  BY FineTuningAssumption DEF NoFit, Fits
<1> QED BY <1>2, <1>3

LEMMA InitTyped == Init => SftTypeOK
<1> SUFFICES ASSUME Init PROVE SftTypeOK
  OBVIOUS
<1>1. preds \in [items : SUBSET Predictions, tail : Predictions \cup {Absent, Torn}]
  BY DEF Init, NoPredictions
<1>2. crashes \in 0..MaxCrashes
  BY FineTuningAssumption DEF Init
<1>3. cache \in [train : (SUBSET Docs) \cup {Absent, Torn}, val : Seq(Docs) \cup {Absent, Torn}]
  BY DEF Init
<1>4. split \in Splits /\ fit \in Fits /\ scored \subseteq Predictions
  BY NothingTyped DEF Init
<1>5. /\ caching \in BOOLEAN /\ db \subseteq Docs /\ pc = "idle" /\ train = Absent /\ val = Absent
      /\ ckpts = {} /\ adapter = Absent /\ result = FALSE /\ gguf = Absent
      /\ manifest = Absent /\ report = Absent
  BY DEF Init
<1> QED BY <1>1, <1>2, <1>3, <1>4, <1>5 DEF SftTypeOK

LEMMA StopTyped ==
    ASSUME SftTypeOK, Stop
    PROVE  /\ split' \in Splits /\ fit' \in Fits /\ scored' \subseteq Predictions
           /\ pc' = "idle" /\ caching' = caching /\ db' = db /\ crashes' = crashes
BY NothingTyped DEF Stop, Goto

LEMMA RaiseTyped ==
    ASSUME SftTypeOK, Raise
    PROVE  SftTypeOK'
<1>1. /\ split' \in Splits /\ fit' \in Fits /\ scored' \subseteq Predictions
      /\ pc' = "idle" /\ caching' = caching /\ db' = db /\ crashes' = crashes
  BY StopTyped DEF Raise
<1>2. UNCHANGED <<train, val, cache, ckpts, adapter, result, gguf, manifest, preds, report>>
  BY DEF Raise, dataset, training, evaluation
<1> QED BY <1>1, <1>2 DEF SftTypeOK

LEMMA DatasetTyped ==
    ASSUME SftTypeOK, BuildSplit \/ WriteTrain \/ WriteVal
    PROVE  SftTypeOK'
<1>1. CASE BuildSplit /\ db = {}
  BY <1>1, RaiseTyped DEF BuildSplit
<1>2. CASE BuildSplit /\ db # {}
  <2>1. HeldOut[db] \in Seq(db) /\ db \subseteq Docs
    BY FineTuningAssumption DEF SftTypeOK
  <2>2. HeldOut[db] \in Seq(Docs)
    BY <2>1
  <2>3. split' \in Splits
    BY <1>2, <2>1, <2>2 DEF BuildSplit, Splits
  <2> QED BY <1>2, <2>3 DEF BuildSplit, Goto, SftTypeOK, dataset, training, evaluation, Pipeline
<1>3. CASE WriteTrain
  <2>1. split.train \in SUBSET Docs
    BY DEF SftTypeOK, Splits
  <2> QED BY <1>3, <2>1 DEF WriteTrain, Goto, SftTypeOK, memory, training, evaluation, Pipeline
<1>4. CASE WriteVal
  <2>1. split.val \in Seq(Docs)
    BY DEF SftTypeOK, Splits
  <2> QED BY <1>4, <2>1 DEF WriteVal, Goto, SftTypeOK, memory, training, evaluation, Pipeline
<1> QED BY <1>1, <1>2, <1>3, <1>4

LEMMA TokenizeTyped ==
    ASSUME SftTypeOK, TokenizeTrain \/ TokenizeVal
    PROVE  SftTypeOK'
<1>1. split.train \in SUBSET Docs /\ split.val \in Seq(Docs) /\ split \in Splits
  BY DEF SftTypeOK, Splits
<1>2. CASE TokenizeTrain
  <2>1. CASE cache.train = Torn
    BY <1>2, <2>1, RaiseTyped DEF TokenizeTrain, Tokenize
  <2>2. CASE cache.train = Absent /\ cache.train # Torn
    <3>1. cache' = [cache EXCEPT !.train = split.train] /\ split' = split
      BY <1>2, <2>2 DEF TokenizeTrain, Tokenize
    <3>2. cache' \in [train : (SUBSET Docs) \cup {Absent, Torn}, val : Seq(Docs) \cup {Absent, Torn}]
      BY <1>1, <3>1 DEF SftTypeOK
    <3> QED BY <1>2, <2>2, <3>1, <3>2
            DEF TokenizeTrain, Tokenize, Goto, SftTypeOK, training, evaluation, Pipeline
  <2>3. CASE cache.train # Absent /\ cache.train # Torn
    <3>1. cache' = cache /\ split' = [split EXCEPT !.train = cache.train]
      BY <1>2, <2>3 DEF TokenizeTrain, Tokenize
    <3>2. cache.train \in SUBSET Docs
      BY <2>3 DEF SftTypeOK
    <3>3. split' \in Splits
      BY <1>1, <3>1, <3>2 DEF Splits
    <3> QED BY <1>2, <2>3, <3>1, <3>3
            DEF TokenizeTrain, Tokenize, Goto, SftTypeOK, training, evaluation, Pipeline
  <2> QED BY <2>1, <2>2, <2>3
<1>3. CASE TokenizeVal
  <2>1. CASE cache.val = Torn
    BY <1>3, <2>1, RaiseTyped DEF TokenizeVal, Tokenize
  <2>2. CASE cache.val = Absent /\ cache.val # Torn
    <3>1. cache' = [cache EXCEPT !.val = split.val] /\ split' = split
      BY <1>3, <2>2 DEF TokenizeVal, Tokenize
    <3>2. cache' \in [train : (SUBSET Docs) \cup {Absent, Torn}, val : Seq(Docs) \cup {Absent, Torn}]
      BY <1>1, <3>1 DEF SftTypeOK
    <3> QED BY <1>3, <2>2, <3>1, <3>2
            DEF TokenizeVal, Tokenize, Goto, SftTypeOK, training, evaluation, Pipeline
  <2>3. CASE cache.val # Absent /\ cache.val # Torn
    <3>1. cache' = cache /\ split' = [split EXCEPT !.val = cache.val]
      BY <1>3, <2>3 DEF TokenizeVal, Tokenize
    <3>2. cache.val \in Seq(Docs)
      BY <2>3 DEF SftTypeOK
    <3>3. split' \in Splits
      BY <1>1, <3>1, <3>2 DEF Splits
    <3> QED BY <1>3, <2>3, <3>1, <3>3
            DEF TokenizeVal, Tokenize, Goto, SftTypeOK, training, evaluation, Pipeline
  <2> QED BY <2>1, <2>2, <2>3
<1> QED BY <1>2, <1>3

LEMMA LoadTyped ==
    ASSUME SftTypeOK, StartPipeline \/ LoadCompletedResult \/ LoadData \/ TokenizeUncached
    PROVE  SftTypeOK'
<1>1. CASE StartPipeline
  <2>1. pc' \in {"build", "completed"}
    BY <1>1 DEF StartPipeline, Goto
  <2> QED BY <1>1, <2>1
          DEF StartPipeline, Goto, SftTypeOK, memory, dataset, training, evaluation, Pipeline
<1>2. CASE LoadCompletedResult
  BY <1>2 DEF LoadCompletedResult, Goto, SftTypeOK, memory, dataset, training, evaluation, Pipeline
<1>3. CASE LoadData
  <2>1. CASE train \in {Absent, Torn, {}} \/ val \in {Absent, Torn, <<>>}
    BY <1>3, <2>1, RaiseTyped DEF LoadData
  <2>2. CASE ~(train \in {Absent, Torn, {}} \/ val \in {Absent, Torn, <<>>})
    <3>1. train \in SUBSET Docs /\ val \in Seq(Docs)
      BY <2>2 DEF SftTypeOK
    <3>2. split' \in Splits
      BY <1>3, <2>2, <3>1 DEF LoadData, Splits
    <3> QED BY <1>3, <2>2, <3>2
            DEF LoadData, Goto, SftTypeOK, dataset, training, evaluation, Pipeline
  <2> QED BY <2>1, <2>2
<1>4. CASE TokenizeUncached
  BY <1>4 DEF TokenizeUncached, Goto, SftTypeOK, memory, dataset, training, evaluation, Pipeline
<1> QED BY <1>1, <1>2, <1>3, <1>4

LEMMA TrainTyped ==
    ASSUME SftTypeOK,
           Resume \/ TrainStep \/ EndTraining \/ SaveModel \/ PersistResult \/ Export
    PROVE  SftTypeOK'
<1>1. CASE Resume
  <2>1. CASE ckpts # {} /\ Newest.docs = Torn
    BY <1>1, <2>1, RaiseTyped DEF Resume
  <2>2. CASE ~(ckpts # {} /\ Newest.docs = Torn)
    <3>1. fit' \in Fits
      <4>1. CASE ckpts = {}
        BY <1>1, <2>2, <4>1, NothingTyped DEF Resume
      <4>2. CASE ckpts # {}
        <5>1. Newest \in Checkpoints /\ Newest.docs # Torn
          BY <2>2, <4>2, NewestIsThere DEF SftTypeOK
        <5>2. Newest \in Fits
          BY <5>1, FineTuningAssumption DEF Checkpoints, Fits
        <5> QED BY <1>1, <2>2, <4>2, <5>2 DEF Resume
      <4> QED BY <4>1, <4>2
    <3> QED BY <1>1, <2>2, <3>1
            DEF Resume, Goto, SftTypeOK, dataset, training, evaluation, Pipeline
  <2> QED BY <2>1, <2>2
<1>2. CASE TrainStep
  <2>1. /\ split.train \in SUBSET Docs /\ fit.docs \in SUBSET Docs
        /\ fit.step + 1 \in 1..Steps
    BY <1>2, FineTuningAssumption DEF TrainStep, StepsLeft, SftTypeOK, Splits, Fits
  <2>2. fit' = [step |-> fit.step + 1, docs |-> fit.docs \cup split.train]
    BY <1>2 DEF TrainStep
  <2>3. fit' \in Fits /\ fit' \in Checkpoints
    BY <2>1, <2>2, FineTuningAssumption DEF Fits, Checkpoints
  <2>4. ckpts' \subseteq Checkpoints
    BY <1>2, <2>3 DEF TrainStep, SftTypeOK
  <2> QED BY <1>2, <2>3, <2>4 DEF TrainStep, Goto, SftTypeOK, dataset, evaluation, Pipeline
<1>3. CASE EndTraining
  BY <1>3 DEF EndTraining, Goto, SftTypeOK, memory, dataset, training, evaluation, Pipeline
<1>4. CASE SaveModel
  BY <1>4 DEF SaveModel, Goto, SftTypeOK, memory, dataset, evaluation, Pipeline
<1>5. CASE PersistResult
  BY <1>5 DEF PersistResult, Goto, SftTypeOK, memory, dataset, evaluation, Pipeline
<1>6. CASE Export
  BY <1>6, StopTyped DEF Export, SftTypeOK, dataset, evaluation
<1> QED BY <1>1, <1>2, <1>3, <1>4, <1>5, <1>6

LEMMA RestoredTyped ==
    ASSUME SftTypeOK
    PROVE  Restored \subseteq Predictions
BY DEF SftTypeOK, Restored

LEMMA EvaluatorTyped ==
    ASSUME SftTypeOK, EvaluatesManifest, EvaluatorStep
    PROVE  SftTypeOK'
<1>1. CASE StartEvaluation
  <2>1. CASE manifest = Absent /\ manifest' = [val |-> val, adapter |-> adapter, status |-> "running"]
    <3>1. val \in Seq(Docs) \cup {Torn} /\ adapter \in Fits \cup {Torn}
      BY <1>1 DEF StartEvaluation, SftTypeOK
    <3>2. manifest' \in Manifests
      BY <2>1, <3>1 DEF Manifests
    <3> QED BY <1>1, <3>2, RestoredTyped
            DEF StartEvaluation, Goto, SftTypeOK, dataset, training, Evaluator
  <2>2. CASE UNCHANGED manifest
    BY <1>1, <2>2, RestoredTyped DEF StartEvaluation, Goto, SftTypeOK, dataset, training, Evaluator
  <2> QED BY <1>1, <2>1, <2>2 DEF StartEvaluation
<1>2. CASE LoadRecords
  <2>1. CASE val = Torn
    BY <1>2, <2>1, RaiseTyped DEF LoadRecords
  <2>2. CASE val # Torn
    BY <1>2, <2>2 DEF LoadRecords, Goto, SftTypeOK, dataset, training, evaluation, Evaluator
  <2> QED BY <2>1, <2>2
<1>3. CASE Generate
  <2>1. CASE Raise
    BY <2>1, RaiseTyped
  <2>2. CASE ~Raise
    <3> DEFINE p == Prediction(val, NextPending)
    <3>1. val \in Seq(Docs)
      BY <1>3, MarksAssumption DEF Generate, EvaluatesManifest, Evaluator, SftTypeOK, Manifests
    <3>2. p \in Predictions
      BY <1>3, <3>1, NextPendingIsThere, PredictionTyped DEF Generate
    <3>3. preds' = AppendPrediction(p) /\ scored' = scored \cup {p}
      BY <1>3, <2>2 DEF Generate
    <3> HIDE DEF p
    <3>4. preds' \in [items : SUBSET Predictions, tail : Predictions \cup {Absent, Torn}]
      BY <3>2, <3>3 DEF AppendPrediction, SftTypeOK
    <3> QED BY <1>3, <2>2, <3>2, <3>3, <3>4
            DEF Generate, Goto, SftTypeOK, dataset, training, Evaluator
  <2> QED BY <2>1, <2>2
<1>4. CASE ScoreRecords
  BY <1>4 DEF ScoreRecords, Goto, SftTypeOK, memory, dataset, training, evaluation, Evaluator
<1>5. CASE WriteReport
  BY <1>5 DEF WriteReport, Goto, SftTypeOK, memory, dataset, training, Evaluator
<1>6. CASE CompleteManifest
  <2>1. manifest \in Manifests
    BY <1>6 DEF CompleteManifest, EvaluatesManifest, Evaluator, SftTypeOK
  <2>2. manifest' \in Manifests
    BY <1>6, <2>1 DEF CompleteManifest, Manifests
  <2> QED BY <1>6, <2>2, StopTyped DEF CompleteManifest, SftTypeOK, dataset, training
<1> QED BY <1>1, <1>2, <1>3, <1>4, <1>5, <1>6 DEF EvaluatorStep

LEMMA CrashTyped ==
    ASSUME SftTypeOK, EvaluatesManifest, CrashBetween \/ CrashInAWrite
    PROVE  SftTypeOK'
<1>1. /\ split' \in Splits /\ fit' \in Fits /\ scored' \subseteq Predictions
      /\ pc' = "idle" /\ caching' = caching /\ db' = db /\ crashes' \in 0..MaxCrashes
  <2>1. Crash
    BY DEF CrashBetween, CrashInAWrite
  <2>2. crashes' \in 0..MaxCrashes
    BY <2>1, FineTuningAssumption DEF Crash, SftTypeOK
  <2> QED BY <2>1, <2>2, NothingTyped DEF Crash
<1>2. CASE CrashBetween
  BY <1>1, <1>2 DEF CrashBetween, SftTypeOK, dataset, training, evaluation
<1>3. CASE CutsDataset
  <2>1. split.train \in SUBSET Docs /\ split.val \in Seq(Docs)
    BY DEF SftTypeOK, Splits
  <2>2. Prefixes(split.val) \subseteq Seq(Docs)
    BY <2>1, PrefixesTyped
  <2>3. UNCHANGED <<ckpts, adapter, result, gguf, manifest, preds, report>>
    BY <1>3 DEF CutsDataset, training, evaluation
  <2>4. /\ train' \in (SUBSET Docs) \cup {Absent, Torn}
        /\ val' \in Seq(Docs) \cup {Absent, Torn}
    BY <1>3, <2>1, <2>2 DEF CutsDataset, SftTypeOK
  <2>5. cache' \in [train : (SUBSET Docs) \cup {Absent, Torn}, val : Seq(Docs) \cup {Absent, Torn}]
    BY <1>3 DEF CutsDataset, SftTypeOK
  <2> QED BY <1>1, <2>3, <2>4, <2>5 DEF SftTypeOK
<1>4. CASE CutsTraining
  <2>1. UNCHANGED <<train, val, cache, result, manifest, preds, report>>
    BY <1>4 DEF CutsTraining, dataset, evaluation
  <2>2. ckpts' \subseteq Checkpoints
    <3>1. CASE ckpts' = ckpts
      BY <3>1 DEF SftTypeOK
    <3>2. CASE StepsLeft /\ ckpts' = ckpts \cup {[step |-> fit.step + 1, docs |-> Torn]}
      <4>1. fit.step + 1 \in 1..Steps
        BY <3>2, FineTuningAssumption DEF StepsLeft, SftTypeOK, Fits
      <4>2. [step |-> fit.step + 1, docs |-> Torn] \in Checkpoints
        BY <4>1 DEF Checkpoints
      <4> QED BY <3>2, <4>2 DEF SftTypeOK
    <3> QED BY <1>4, <3>1, <3>2 DEF CutsTraining
  <2>3. adapter' \in Fits \cup {Absent, Torn} /\ gguf' \in Fits \cup {Absent, Torn}
    BY <1>4 DEF CutsTraining, SftTypeOK
  <2> QED BY <1>1, <2>1, <2>2, <2>3 DEF SftTypeOK
<1>5. CASE CutsEvaluation
  <2>1. UNCHANGED <<train, val, cache, ckpts, adapter, result, gguf, manifest>>
    BY <1>5 DEF CutsEvaluation, dataset, training
  <2>2. report' \in (SUBSET Predictions) \cup {Absent, Torn}
    BY <1>5 DEF CutsEvaluation, SftTypeOK
  <2>3. preds' \in [items : SUBSET Predictions, tail : Predictions \cup {Absent, Torn}]
    <3>1. CASE preds' = preds
      BY <3>1 DEF SftTypeOK
    <3>2. CASE pc = "generate" /\ Pending # {}
      <4>1. val \in Seq(Docs)
        BY <3>2, MarksAssumption DEF EvaluatesManifest, Evaluator, SftTypeOK, Manifests
      <4>2. Prediction(val, NextPending) \in Predictions
        BY <3>2, <4>1, NextPendingIsThere, PredictionTyped
      <4>3. PICK cut \in {Torn, Prediction(val, NextPending)} :
                   preds' = [preds EXCEPT !.tail = IF @ = Absent THEN cut ELSE Torn]
        BY <1>5, <3>2 DEF CutsEvaluation
      <4>4. cut \in Predictions \cup {Torn}
        BY <4>2
      <4> QED BY <4>3, <4>4 DEF SftTypeOK
    <3> QED BY <1>5, <3>1, <3>2 DEF CutsEvaluation
  <2> QED BY <1>1, <2>1, <2>2, <2>3 DEF SftTypeOK
<1> QED BY <1>2, <1>3, <1>4, <1>5 DEF CrashInAWrite

LEMMA AcceptTyped ==
    ASSUME SftTypeOK, NEW d \in Docs, AcceptDocument(d)
    PROVE  SftTypeOK'
BY DEF AcceptDocument, SftTypeOK, memory, dataset, training, evaluation

-----------------------------------------------------------------------------
(* Training *)

\* What is said of the pipeline's files, its checkpoints and its results.
TrainingInv ==
    /\ ResumeKeepsDataset /\ CheckpointsShareData /\ SavesBeforeResult
    /\ ExportIsTheReusableAdapter

\* When no pipeline runs only the files count.
LEMMA QuietTraining ==
    ASSUME TrainingInv, pc' \notin Pipeline, UNCHANGED <<caching, dataset, training>>
    PROVE  TrainingInv'
<1>1. pc' \notin {"build", "writeTrain", "writeVal", "load", "tokTrain", "tokVal", "resume", "fit",
                  "save", "persist", "export"}
  BY DEF Pipeline
<1>2. UNCHANGED <<caching, train, val, cache, ckpts, adapter, result, gguf>>
  BY DEF dataset, training
<1>3. Data' = Data
  BY <1>2 DEF Data
<1>4. \A c \in ckpts : c.docs \in {Torn, Data}
  BY DEF TrainingInv, CheckpointsShareData
<1>5. caching /\ ckpts # {} => cache.train # Absent
  BY DEF TrainingInv, CheckpointsShareData
<1>6. ResumeKeepsDataset' /\ SavesBeforeResult'
  BY <1>1 DEF ResumeKeepsDataset, SavesBeforeResult
<1>7. CheckpointsShareData'
  BY <1>1, <1>2, <1>3, <1>4, <1>5 DEF CheckpointsShareData
<1>8. ExportIsTheReusableAdapter'
  BY <1>1, <1>2 DEF TrainingInv, ExportIsTheReusableAdapter
<1> QED BY <1>6, <1>7, <1>8 DEF TrainingInv

LEMMA RaiseTraining ==
    ASSUME TrainingInv, Raise
    PROVE  TrainingInv'
BY QuietTraining, Disjoint DEF Raise, Stop, Goto

LEMMA StartTraining ==
    ASSUME SftTypeOK, TrainingInv, StartPipeline \/ LoadCompletedResult \/ TokenizeUncached
    PROVE  TrainingInv'
<1>1. UNCHANGED <<caching, split, fit, train, val, cache, ckpts, adapter, result, gguf>>
  BY DEF StartPipeline, LoadCompletedResult, TokenizeUncached, Goto, memory, dataset, training
<1>2. Data' = Data
  BY <1>1 DEF Data
<1>3. CASE StartPipeline
  <2>1. pc' \in {"build", "completed"} /\ (pc' = "build" => ckpts = {})
    BY <1>3 DEF StartPipeline, ResumesDataset, Goto
  <2> QED BY <1>1, <1>2, <2>1
          DEF TrainingInv, ResumeKeepsDataset, CheckpointsShareData, SavesBeforeResult,
              ExportIsTheReusableAdapter
<1>4. CASE LoadCompletedResult
  <2>1. (pc' = "export" /\ result) \/ (pc' = "load" /\ ~result)
    BY <1>4 DEF LoadCompletedResult, Reusable, Goto, TrainingInv, ExportIsTheReusableAdapter, SftTypeOK
  <2> QED BY <1>1, <1>2, <2>1
          DEF TrainingInv, ResumeKeepsDataset, CheckpointsShareData, SavesBeforeResult,
              ExportIsTheReusableAdapter
<1>5. CASE TokenizeUncached
  <2>1. pc = "tokTrain" /\ pc' = "resume" /\ ~caching
    BY <1>5 DEF TokenizeUncached, Goto
  <2> QED BY <1>1, <1>2, <2>1
          DEF TrainingInv, ResumeKeepsDataset, CheckpointsShareData, SavesBeforeResult,
              ExportIsTheReusableAdapter
<1> QED BY <1>3, <1>4, <1>5

LEMMA DatasetTraining ==
    ASSUME SftTypeOK, TrainingInv, BuildSplit \/ WriteTrain \/ WriteVal \/ LoadData
    PROVE  TrainingInv'
<1>1. CASE Raise
  BY <1>1, RaiseTraining
<1>2. CASE BuildSplit /\ ~Raise
  <2>1. /\ pc = "build" /\ pc' = "writeTrain"
        /\ UNCHANGED <<caching, fit, train, val, cache, ckpts, adapter, result, gguf>>
    BY <1>2 DEF BuildSplit, Goto, dataset, training
  <2> QED BY <2>1 DEF TrainingInv, ResumeKeepsDataset, CheckpointsShareData, SavesBeforeResult,
              ExportIsTheReusableAdapter, Data
<1>3. CASE WriteTrain
  <2>1. /\ pc = "writeTrain" /\ pc' = "writeVal"
        /\ UNCHANGED <<caching, split, fit, val, cache, ckpts, adapter, result, gguf>>
    BY <1>3 DEF WriteTrain, Goto, memory, training
  <2> QED BY <2>1 DEF TrainingInv, ResumeKeepsDataset, CheckpointsShareData, SavesBeforeResult,
              ExportIsTheReusableAdapter
<1>4. CASE WriteVal
  <2>1. /\ pc = "writeVal" /\ pc' = "completed"
        /\ UNCHANGED <<caching, split, fit, train, cache, ckpts, adapter, result, gguf>>
    BY <1>4 DEF WriteVal, Goto, memory, training
  <2> QED BY <2>1 DEF TrainingInv, ResumeKeepsDataset, CheckpointsShareData, SavesBeforeResult,
              ExportIsTheReusableAdapter
<1>5. CASE LoadData /\ ~Raise
  <2>1. /\ pc = "load" /\ pc' = "tokTrain" /\ split'.train = train
        /\ UNCHANGED <<caching, fit, train, val, cache, ckpts, adapter, result, gguf>>
    BY <1>5 DEF LoadData, Goto, dataset, training
  <2> QED BY <2>1 DEF TrainingInv, ResumeKeepsDataset, CheckpointsShareData, SavesBeforeResult,
              ExportIsTheReusableAdapter, Data
<1> QED BY <1>1, <1>2, <1>3, <1>4, <1>5

LEMMA TokenizeTraining ==
    ASSUME SftTypeOK, TrainingInv, TokenizeTrain \/ TokenizeVal
    PROVE  TrainingInv'
<1>1. CASE Raise
  BY <1>1, RaiseTraining
<1>2. CASE TokenizeTrain /\ ~Raise
  <2>1. /\ pc = "tokTrain" /\ pc' = "tokVal" /\ caching
        /\ UNCHANGED <<caching, fit, train, val, ckpts, adapter, result, gguf>>
    BY <1>2 DEF TokenizeTrain, Tokenize, Goto, training
  <2>2. /\ split'.train = cache'.train /\ cache'.train # Absent
        /\ cache.train # Absent => cache' = cache
    <3>1. split.train \in SUBSET Docs /\ split \in Splits
      BY DEF SftTypeOK, Splits
    <3>2. CASE cache.train = Absent
      BY <1>2, <3>1, <3>2, MarksAssumption DEF TokenizeTrain, Tokenize, SftTypeOK
    <3>3. CASE cache.train # Absent
      BY <1>2, <3>1, <3>3 DEF TokenizeTrain, Tokenize, Splits
    <3> QED BY <3>2, <3>3
  <2>3. ckpts # {} => Data' = Data
    BY <2>1, <2>2 DEF TrainingInv, CheckpointsShareData, Data
  <2>4. CheckpointsShareData'
    BY <2>1, <2>2, <2>3 DEF TrainingInv, CheckpointsShareData, Data
  <2> QED BY <2>1, <2>4 DEF TrainingInv, ResumeKeepsDataset, SavesBeforeResult,
              ExportIsTheReusableAdapter
<1>3. CASE TokenizeVal /\ ~Raise
  <2>1. /\ pc = "tokVal" /\ pc' = "resume" /\ caching
        /\ UNCHANGED <<caching, fit, train, val, ckpts, adapter, result, gguf>>
    BY <1>3 DEF TokenizeVal, Tokenize, Goto, training
  <2>2. split'.train = split.train /\ cache'.train = cache.train
    BY <1>3 DEF TokenizeVal, Tokenize, SftTypeOK, Splits
  <2>3. CheckpointsShareData'
    BY <2>1, <2>2 DEF TrainingInv, CheckpointsShareData, Data
  <2> QED BY <2>1, <2>3 DEF TrainingInv, ResumeKeepsDataset, SavesBeforeResult,
              ExportIsTheReusableAdapter
<1> QED BY <1>1, <1>2, <1>3

LEMMA TrainTraining ==
    ASSUME SftTypeOK, TrainingInv,
           Resume \/ TrainStep \/ EndTraining \/ SaveModel \/ PersistResult \/ Export
    PROVE  TrainingInv'
<1>1. CASE Raise
  BY <1>1, RaiseTraining
<1>2. CASE Resume /\ ~Raise
  <2>1. /\ pc = "resume" /\ pc' = "fit"
        /\ UNCHANGED <<caching, split, train, val, cache, ckpts, adapter, result, gguf>>
    BY <1>2 DEF Resume, Goto, dataset, training
  <2>2. fit'.docs \in {{}, split.train}
    <3>1. CASE ckpts = {}
      <4>1. fit' = NoFit
        BY <1>2, <3>1 DEF Resume
      <4> QED BY <4>1 DEF NoFit
    <3>2. CASE ckpts # {}
      <4>1. fit' = Newest /\ Newest.docs # Torn
        BY <1>2, <3>2 DEF Resume
      <4>2. Newest \in ckpts
        BY <3>2, NewestIsThere DEF SftTypeOK
      <4>3. Newest.docs = Data /\ split.train = Data
        BY <2>1, <4>1, <4>2 DEF TrainingInv, CheckpointsShareData
      <4> QED BY <4>1, <4>3
    <3> QED BY <3>1, <3>2
  <2>3. CheckpointsShareData'
    BY <2>1 DEF TrainingInv, CheckpointsShareData, Data
  <2> QED BY <2>1, <2>2, <2>3 DEF TrainingInv, ResumeKeepsDataset, SavesBeforeResult,
              ExportIsTheReusableAdapter
<1>3. CASE TrainStep
  <2>1. /\ pc = "fit" /\ pc' = "fit"
        /\ UNCHANGED <<caching, split, train, val, cache, adapter, result, gguf>>
    BY <1>3 DEF TrainStep, Goto, dataset
  <2>2. fit'.docs = split.train /\ split.train = Data
    BY <1>3, <2>1 DEF TrainStep, TrainingInv, ResumeKeepsDataset, CheckpointsShareData
  <2>3. \A c \in ckpts' : c \in ckpts \/ c = fit'
    BY <1>3 DEF TrainStep
  <2>4. CheckpointsShareData'
    <3>1. Data' = Data
      BY <2>1 DEF Data
    <3> QED BY <2>1, <2>2, <2>3, <3>1 DEF TrainingInv, CheckpointsShareData
  <2> QED BY <2>1, <2>2, <2>4 DEF TrainingInv, ResumeKeepsDataset, SavesBeforeResult,
              ExportIsTheReusableAdapter
<1>4. CASE EndTraining
  <2>1. /\ pc = "fit" /\ pc' = "save"
        /\ UNCHANGED <<caching, split, fit, train, val, cache, ckpts, adapter, result, gguf>>
    BY <1>4 DEF EndTraining, Goto, memory, dataset, training
  <2> QED BY <2>1 DEF TrainingInv, ResumeKeepsDataset, CheckpointsShareData, SavesBeforeResult,
              ExportIsTheReusableAdapter, Data
<1>5. CASE SaveModel
  <2>1. /\ pc = "save" /\ pc' = "persist" /\ adapter' = fit /\ fit \in Fits
        /\ UNCHANGED <<caching, split, fit, train, val, cache, ckpts, result, gguf>>
    BY <1>5 DEF SaveModel, Goto, memory, dataset, SftTypeOK
  <2>2. ~result
    BY <2>1 DEF TrainingInv, SavesBeforeResult
  <2> QED BY <2>1, <2>2 DEF TrainingInv, ResumeKeepsDataset, CheckpointsShareData, SavesBeforeResult,
              ExportIsTheReusableAdapter, Data
<1>6. CASE PersistResult
  <2>1. /\ pc = "persist" /\ pc' = "export" /\ result' = TRUE
        /\ UNCHANGED <<caching, split, fit, train, val, cache, ckpts, adapter, gguf>>
    BY <1>6 DEF PersistResult, Goto, memory, dataset
  <2>2. adapter \notin {Absent, Torn}
    BY <2>1, MarksAssumption DEF TrainingInv, SavesBeforeResult
  <2> QED BY <2>1, <2>2 DEF TrainingInv, ResumeKeepsDataset, CheckpointsShareData, SavesBeforeResult,
              ExportIsTheReusableAdapter, Data
<1>7. CASE Export
  <2>1. /\ pc = "export" /\ pc' = "idle" /\ gguf' = adapter
        /\ UNCHANGED <<caching, train, val, cache, ckpts, adapter, result>>
    BY <1>7 DEF Export, Stop, Goto, dataset
  <2> QED BY <2>1 DEF TrainingInv, ResumeKeepsDataset, CheckpointsShareData, SavesBeforeResult,
              ExportIsTheReusableAdapter, Data
<1> QED BY <1>1, <1>2, <1>3, <1>4, <1>5, <1>6, <1>7

\* Faults of the evaluator, and of the writes of the pipeline itself.
LEMMA CrashTraining ==
    ASSUME SftTypeOK, TrainingInv, CrashBetween \/ CrashInAWrite
    PROVE  TrainingInv'
<1>1. pc' = "idle" /\ caching' = caching /\ pc' \notin Pipeline
  BY Disjoint DEF CrashBetween, CrashInAWrite, Crash
<1>2. CASE UNCHANGED <<dataset, training>>
  BY <1>1, <1>2, QuietTraining
<1>3. CASE CutsDataset
  <2>1. UNCHANGED <<ckpts, adapter, result, gguf>>
    BY <1>3 DEF CutsDataset, training
  <2>2. ckpts # {} => Data' = Data
    <3>1. CASE pc = "writeTrain" \/ pc = "writeVal"
      BY <3>1 DEF TrainingInv, CheckpointsShareData
    <3>2. CASE pc \notin {"writeTrain", "writeVal"}
      <4>1. /\ caching /\ train' = train
            /\ \/ cache.train = Absent
               \/ cache' = [cache EXCEPT !.val = Torn]
        BY <1>3, <3>2 DEF CutsDataset
      <4> QED BY <1>1, <4>1 DEF TrainingInv, CheckpointsShareData, Data, SftTypeOK
    <3> QED BY <3>1, <3>2
  <2>3. caching /\ ckpts # {} => cache'.train # Absent
    BY <1>1, <2>2 DEF TrainingInv, CheckpointsShareData, Data
  <2> QED BY <1>1, <2>1, <2>2, <2>3 DEF TrainingInv, ResumeKeepsDataset, CheckpointsShareData,
              SavesBeforeResult, ExportIsTheReusableAdapter
<1>4. CASE CutsTraining
  <2>1. UNCHANGED <<train, val, cache, result>>
    BY <1>4 DEF CutsTraining, dataset
  <2>2. Data' = Data
    BY <1>1, <2>1 DEF Data
  <2>3. CASE pc = "fit"
    <3>1. ckpts' = ckpts \cup {[step |-> fit.step + 1, docs |-> Torn]} /\ UNCHANGED <<adapter, gguf>>
      BY <1>4, <2>3 DEF CutsTraining
    <3>2. \A c \in ckpts' : c \in ckpts \/ c.docs = Torn
      BY <3>1
    <3> QED BY <1>1, <2>1, <2>2, <2>3, <3>1, <3>2
            DEF TrainingInv, ResumeKeepsDataset, CheckpointsShareData, SavesBeforeResult,
                ExportIsTheReusableAdapter
  <2>4. CASE pc = "save" /\ adapter' = Torn /\ UNCHANGED <<ckpts, gguf>>
    BY <1>1, <2>1, <2>2, <2>4
    DEF TrainingInv, ResumeKeepsDataset, CheckpointsShareData, SavesBeforeResult,
        ExportIsTheReusableAdapter
  <2>5. CASE pc = "export" /\ gguf' = Torn /\ UNCHANGED <<ckpts, adapter>>
    BY <1>1, <2>1, <2>2, <2>5
    DEF TrainingInv, ResumeKeepsDataset, CheckpointsShareData, SavesBeforeResult,
        ExportIsTheReusableAdapter
  <2> QED BY <1>4, <2>3, <2>4, <2>5 DEF CutsTraining
<1> QED BY <1>2, <1>3, <1>4 DEF CrashBetween, CrashInAWrite, CutsEvaluation

LEMMA AcceptTraining ==
    ASSUME TrainingInv, NEW d \in Docs, AcceptDocument(d)
    PROVE  TrainingInv'
<1>1. UNCHANGED <<caching, pc, split, fit, train, val, cache, ckpts, adapter, result, gguf>>
  BY DEF AcceptDocument, memory, dataset, training
<1> QED BY <1>1 DEF TrainingInv, ResumeKeepsDataset, CheckpointsShareData, SavesBeforeResult,
            ExportIsTheReusableAdapter, Data

LEMMA EvaluatorQuiet ==
    ASSUME EvaluatorStep
    PROVE  pc' \notin Pipeline /\ UNCHANGED <<caching, dataset, training>>
<1>1. CASE Raise
  BY <1>1, Disjoint DEF Raise, Stop, Goto
<1>2. CASE StartEvaluation
  BY <1>2 DEF StartEvaluation, Goto, Pipeline
<1>3. CASE LoadRecords /\ ~Raise
  BY <1>3 DEF LoadRecords, Goto, Pipeline
<1>4. CASE Generate /\ ~Raise
  BY <1>4 DEF Generate, Goto, Pipeline
<1>5. CASE ScoreRecords
  BY <1>5 DEF ScoreRecords, Goto, Pipeline
<1>6. CASE WriteReport
  BY <1>6 DEF WriteReport, Goto, Pipeline
<1>7. CASE CompleteManifest
  BY <1>7, Disjoint DEF CompleteManifest, Stop, Goto
<1> QED BY <1>1, <1>2, <1>3, <1>4, <1>5, <1>6, <1>7 DEF EvaluatorStep

-----------------------------------------------------------------------------
(* Evaluation *)

\* What is said of the evaluator's files and of what it has in memory.
EvaluationInv == EvaluatesManifest /\ PredictionsMatchManifest /\ ReportCoversDataset

\* When no evaluation runs only its files count.
LEMMA QuietEvaluation ==
    ASSUME EvaluationInv, pc' \notin Evaluator, UNCHANGED evaluation
    PROVE  EvaluationInv'
<1>1. UNCHANGED <<manifest, preds, report>>
  BY DEF evaluation
<1>2. Restored' = Restored
  BY <1>1 DEF Restored
<1>3. pc' \notin {"records", "generate", "report", "complete"}
  BY DEF Evaluator
<1>4. EvaluatesManifest'
  BY <1>1, <1>3 DEF EvaluationInv, EvaluatesManifest, Evaluator
<1>5. PredictionsMatchManifest' /\ ReportCoversDataset'
  BY <1>1, <1>2 DEF EvaluationInv, PredictionsMatchManifest, ReportCoversDataset, AllPredictions, Prediction
<1> QED BY <1>4, <1>5 DEF EvaluationInv

LEMMA RaiseEvaluation ==
    ASSUME EvaluationInv, Raise
    PROVE  EvaluationInv'
BY QuietEvaluation, Disjoint DEF Raise, Stop, Goto

LEMMA PipelineQuiet ==
    ASSUME PipelineStep
    PROVE  pc' \notin Evaluator /\ UNCHANGED evaluation
<1>1. CASE Raise
  BY <1>1, Disjoint DEF Raise, Stop, Goto
<1>2. CASE StartPipeline \/ WriteTrain \/ WriteVal \/ LoadCompletedResult \/ TokenizeUncached
  BY <1>2 DEF StartPipeline, WriteTrain, WriteVal, LoadCompletedResult, TokenizeUncached, Goto, Evaluator
<1>3. CASE (BuildSplit \/ LoadData) /\ ~Raise
  BY <1>3 DEF BuildSplit, LoadData, Goto, Evaluator
<1>4. CASE (TokenizeTrain \/ TokenizeVal) /\ ~Raise
  BY <1>4 DEF TokenizeTrain, TokenizeVal, Tokenize, Goto, Evaluator
<1>5. CASE Resume /\ ~Raise
  BY <1>5 DEF Resume, Goto, Evaluator
<1>6. CASE TrainStep \/ EndTraining \/ SaveModel \/ PersistResult
  BY <1>6 DEF TrainStep, EndTraining, SaveModel, PersistResult, Goto, Evaluator
<1>7. CASE Export
  BY <1>7, Disjoint DEF Export, Stop, Goto
<1> QED BY <1>1, <1>2, <1>3, <1>4, <1>5, <1>6, <1>7 DEF PipelineStep

LEMMA StartEvaluationKeeps ==
    ASSUME SftTypeOK, EvaluationInv, StartEvaluation
    PROVE  EvaluationInv'
<1>1. /\ pc' = "records" /\ val' = val /\ preds' = preds /\ report' = report /\ scored' = Restored
  BY DEF StartEvaluation, Goto, dataset
<1>2. Restored' = Restored
  BY <1>1 DEF Restored
<1>3. CASE manifest = Absent /\ manifest' = [val |-> val, adapter |-> adapter, status |-> "running"]
  <2>1. manifest' \in Manifests /\ manifest'.val = val
    BY <1>3 DEF StartEvaluation, SftTypeOK, Manifests
  <2>2. manifest' # Absent
    BY <2>1, MarksAssumption
  <2>3. Restored = {} /\ report = Absent
    BY <1>3 DEF EvaluationInv, PredictionsMatchManifest, EvaluatesManifest
  <2> QED BY <1>1, <1>2, <2>1, <2>2, <2>3
          DEF EvaluationInv, EvaluatesManifest, PredictionsMatchManifest, ReportCoversDataset
<1>4. CASE manifest # Absent /\ manifest' = manifest /\ manifest.val = val
  BY <1>1, <1>2, <1>4
  DEF EvaluationInv, EvaluatesManifest, PredictionsMatchManifest, ReportCoversDataset,
      AllPredictions, Prediction
<1> QED BY <1>3, <1>4 DEF StartEvaluation, ManifestFits

LEMMA LoadRecordsKeeps ==
    ASSUME SftTypeOK, EvaluationInv, LoadRecords
    PROVE  EvaluationInv'
<1>1. CASE Raise
  BY <1>1, RaiseEvaluation
<1>2. CASE ~Raise
  <2>1. /\ pc = "records" /\ pc' = "generate" /\ val # Torn /\ scored' \subseteq scored
        /\ UNCHANGED <<val, manifest, preds, report>>
    BY <1>2 DEF LoadRecords, Goto, dataset, evaluation
  <2>2. scored \subseteq Restored /\ manifest # Absent /\ manifest.val = val
    BY <2>1 DEF EvaluationInv, EvaluatesManifest, Evaluator
  <2>3. scored' \subseteq AllPredictions(val)
    BY <2>1, <2>2 DEF EvaluationInv, PredictionsMatchManifest
  <2>4. Restored' = Restored /\ AllPredictions(val)' = AllPredictions(val)
    BY <2>1 DEF Restored, AllPredictions, Prediction
  <2> QED BY <2>1, <2>2, <2>3, <2>4
          DEF EvaluationInv, EvaluatesManifest, PredictionsMatchManifest, ReportCoversDataset
<1> QED BY <1>1, <1>2

LEMMA GenerateKeeps ==
    ASSUME SftTypeOK, EvaluationInv, Generate
    PROVE  EvaluationInv'
<1>1. CASE Raise
  BY <1>1, RaiseEvaluation
<1>2. CASE ~Raise
  <2> DEFINE p == Prediction(val, NextPending)
  <2>1. /\ pc = "generate" /\ pc' = "generate" /\ Pending # {}
        /\ preds' = AppendPrediction(p) /\ scored' = scored \cup {p}
        /\ UNCHANGED <<val, manifest, report>>
    BY <1>2 DEF Generate, Goto, dataset
  <2>2. val # Torn /\ scored \subseteq AllPredictions(val) /\ manifest # Absent /\ manifest.val = val
    BY <2>1 DEF EvaluationInv, EvaluatesManifest, Evaluator
  <2>3. val \in Seq(Docs)
    BY <2>2, MarksAssumption DEF SftTypeOK, Manifests
  <2>4. p \in AllPredictions(val)
    BY <2>1, <2>3, NextPendingIsThere, PredictionTyped
  <2> HIDE DEF p
  <2>5. Restored' \subseteq Restored \cup {p}
    BY <2>1 DEF Restored, AppendPrediction, SftTypeOK
  <2>6. Restored \subseteq AllPredictions(val)
    BY <2>2 DEF EvaluationInv, PredictionsMatchManifest
  <2>7. AllPredictions(val)' = AllPredictions(val)
    BY <2>1 DEF AllPredictions, Prediction
  <2>8. EvaluatesManifest'
    BY <2>1, <2>2, <2>4, <2>7 DEF EvaluationInv, EvaluatesManifest
  <2>9. PredictionsMatchManifest'
    BY <2>1, <2>2, <2>4, <2>5, <2>6, <2>7 DEF PredictionsMatchManifest
  <2>10. ReportCoversDataset'
    BY <2>1 DEF EvaluationInv, ReportCoversDataset, AllPredictions, Prediction
  <2> QED BY <2>8, <2>9, <2>10 DEF EvaluationInv
<1> QED BY <1>1, <1>2

\* Predictions of every example are those of all examples.
LEMMA NonePendingAllScored ==
    ASSUME NEW S, val \in Seq(S), scored \subseteq AllPredictions(val), Pending = {}
    PROVE  scored = AllPredictions(val)
<1> SUFFICES ASSUME NEW i \in DOMAIN val PROVE Prediction(val, i) \in scored
  BY DEF AllPredictions
<1>1. PICK p \in scored : p.index = i
  BY DEF Pending
<1>2. PICK j \in DOMAIN val : p = Prediction(val, j)
  BY DEF AllPredictions
<1>3. p.index = j
  BY <1>2 DEF Prediction
<1> QED BY <1>1, <1>2, <1>3

LEMMA ReportKeeps ==
    ASSUME SftTypeOK, EvaluationInv, ScoreRecords \/ WriteReport \/ CompleteManifest
    PROVE  EvaluationInv'
<1>1. pc \in {"generate", "report", "complete"} /\ manifest # Absent /\ manifest.val = val
  BY DEF ScoreRecords, WriteReport, CompleteManifest, EvaluationInv, EvaluatesManifest, Evaluator
<1>2. UNCHANGED <<val, preds>>
  BY DEF ScoreRecords, WriteReport, CompleteManifest, dataset, evaluation
<1>3. Restored' = Restored /\ AllPredictions(val)' = AllPredictions(val)
  BY <1>2 DEF Restored, AllPredictions, Prediction
<1>4. CASE ScoreRecords
  <2>1. /\ pc = "generate" /\ pc' = "report" /\ scored' = scored /\ Pending = {}
        /\ UNCHANGED <<manifest, report>>
    BY <1>4 DEF ScoreRecords, AllGenerated, Goto, memory, evaluation
  <2>2. Pending' = {}
    BY <1>2, <2>1 DEF Pending
  <2> QED BY <1>1, <1>2, <1>3, <2>1, <2>2
          DEF EvaluationInv, EvaluatesManifest, PredictionsMatchManifest, ReportCoversDataset
<1>5. CASE WriteReport
  <2>1. /\ pc = "report" /\ pc' = "complete" /\ report' = scored /\ manifest' = manifest
    BY <1>5 DEF WriteReport, Goto
  <2>2. val \in Seq(Docs)
    BY <1>1, <2>1, MarksAssumption DEF EvaluationInv, EvaluatesManifest, SftTypeOK, Manifests
  <2>3. report' = AllPredictions(val)
    BY <2>1, <2>2, NonePendingAllScored DEF EvaluationInv, EvaluatesManifest
  <2> QED BY <1>1, <1>2, <1>3, <2>1, <2>3
          DEF EvaluationInv, EvaluatesManifest, PredictionsMatchManifest, ReportCoversDataset
<1>6. CASE CompleteManifest
  <2>1. /\ pc' = "idle" /\ report' = report /\ manifest' = [manifest EXCEPT !.status = "completed"]
    BY <1>6 DEF CompleteManifest, Stop, Goto
  <2>2. manifest \in Manifests
    BY <1>1 DEF SftTypeOK
  <2>3. manifest' \in Manifests /\ manifest'.val = manifest.val
    BY <2>1, <2>2 DEF Manifests
  <2>4. manifest' # Absent
    BY <2>3, MarksAssumption
  <2>5. EvaluatesManifest'
    BY <2>1, <2>4 DEF EvaluatesManifest, Evaluator
  <2> QED BY <1>1, <1>2, <1>3, <2>1, <2>3, <2>4, <2>5
          DEF EvaluationInv, PredictionsMatchManifest, ReportCoversDataset
<1> QED BY <1>4, <1>5, <1>6

LEMMA CrashEvaluation ==
    ASSUME SftTypeOK, EvaluationInv, CrashBetween \/ CrashInAWrite
    PROVE  EvaluationInv'
<1>1. pc' = "idle" /\ pc' \notin Evaluator
  BY Disjoint DEF CrashBetween, CrashInAWrite, Crash
<1>2. CASE UNCHANGED evaluation
  BY <1>1, <1>2, QuietEvaluation
<1>3. CASE CutsEvaluation
  <2>1. UNCHANGED <<val, manifest>>
    BY <1>3 DEF CutsEvaluation, dataset
  <2>2. pc \in {"generate", "report"} /\ manifest # Absent /\ manifest.val = val /\ val # Torn
    BY <1>3 DEF CutsEvaluation, EvaluationInv, EvaluatesManifest, Evaluator
  <2>3. AllPredictions(val)' = AllPredictions(val)
    BY <2>1 DEF AllPredictions, Prediction
  <2>4. Restored \subseteq AllPredictions(val)
    BY <2>2 DEF EvaluationInv, PredictionsMatchManifest
  <2>5. CASE pc = "generate" /\ Pending # {} /\ UNCHANGED report
    <3>1. val \in Seq(Docs)
      BY <2>2, MarksAssumption DEF SftTypeOK, Manifests
    <3> DEFINE p == Prediction(val, NextPending)
    <3>2. p \in AllPredictions(val)
      BY <2>5, <3>1, NextPendingIsThere, PredictionTyped
    <3>3. PICK cut \in {Torn, p} : preds' = [preds EXCEPT !.tail = IF @ = Absent THEN cut ELSE Torn]
      BY <1>3, <2>5 DEF CutsEvaluation
    <3> HIDE DEF p
    <3>4. Restored' \subseteq Restored \cup {p}
      BY <3>3 DEF Restored, SftTypeOK
    <3> QED BY <1>1, <2>1, <2>2, <2>3, <2>4, <2>5, <3>2, <3>4
            DEF EvaluationInv, EvaluatesManifest, PredictionsMatchManifest, ReportCoversDataset, Evaluator
  <2>6. CASE report' = Torn /\ UNCHANGED preds
    <3>1. Restored' = Restored
      BY <2>6 DEF Restored
    <3> QED BY <1>1, <2>1, <2>2, <2>3, <2>4, <2>6, <3>1
            DEF EvaluationInv, EvaluatesManifest, PredictionsMatchManifest, ReportCoversDataset, Evaluator
  <2> QED BY <1>3, <2>5, <2>6 DEF CutsEvaluation
<1> QED BY <1>2, <1>3 DEF CrashBetween, CrashInAWrite, CutsDataset, CutsTraining

LEMMA AcceptEvaluation ==
    ASSUME EvaluationInv, NEW d \in Docs, AcceptDocument(d)
    PROVE  EvaluationInv'
<1>1. UNCHANGED <<pc, val, scored, manifest, preds, report>>
  BY DEF AcceptDocument, memory, dataset, evaluation
<1> QED BY <1>1 DEF EvaluationInv, EvaluatesManifest, PredictionsMatchManifest, ReportCoversDataset,
            Restored, AllPredictions, Prediction, Pending

-----------------------------------------------------------------------------
(* Theorems *)

\* The inductive invariant.
FilesInv == SftTypeOK /\ TrainingInv /\ EvaluationInv

LEMMA InitFiles == Init => FilesInv
<1> SUFFICES ASSUME Init PROVE FilesInv
  OBVIOUS
<1>1. TrainingInv
  BY DEF Init, TrainingInv, ResumeKeepsDataset, CheckpointsShareData, SavesBeforeResult,
         ExportIsTheReusableAdapter
<1>2. Restored = {}
  BY DEF Init, Restored, NoPredictions
<1>3. EvaluationInv
  BY <1>2, Disjoint DEF Init, EvaluationInv, EvaluatesManifest, PredictionsMatchManifest, ReportCoversDataset
<1> QED BY <1>1, <1>3, InitTyped DEF FilesInv

LEMMA PipelineStepKeeps ==
    ASSUME FilesInv, PipelineStep
    PROVE  FilesInv'
<1>1. SftTypeOK'
  BY DatasetTyped, TokenizeTyped, LoadTyped, TrainTyped DEF PipelineStep, FilesInv
<1>2. TrainingInv'
  BY StartTraining, DatasetTraining, TokenizeTraining, TrainTraining DEF PipelineStep, FilesInv
<1>3. EvaluationInv'
  BY PipelineQuiet, QuietEvaluation DEF FilesInv
<1> QED BY <1>1, <1>2, <1>3 DEF FilesInv

LEMMA EvaluatorStepKeeps ==
    ASSUME FilesInv, EvaluatorStep
    PROVE  FilesInv'
<1>1. SftTypeOK'
  BY EvaluatorTyped DEF FilesInv, EvaluationInv
<1>2. TrainingInv'
  BY EvaluatorQuiet, QuietTraining DEF FilesInv
<1>3. EvaluationInv'
  BY StartEvaluationKeeps, LoadRecordsKeeps, GenerateKeeps, ReportKeeps DEF EvaluatorStep, FilesInv
<1> QED BY <1>1, <1>2, <1>3 DEF FilesInv

LEMMA StutterFiles ==
    ASSUME FilesInv, UNCHANGED vars
    PROVE  FilesInv'
<1>1. UNCHANGED <<caching, db, pc, split, fit, scored, crashes, train, val, cache, ckpts, adapter,
                  result, gguf, manifest, preds, report>>
  BY DEF vars, memory, dataset, training, evaluation
<1>2. SftTypeOK'
  BY <1>1 DEF FilesInv, SftTypeOK
<1>3. TrainingInv'
  BY <1>1 DEF FilesInv, TrainingInv, ResumeKeepsDataset, CheckpointsShareData, SavesBeforeResult,
              ExportIsTheReusableAdapter, Data
<1>4. EvaluationInv'
  BY <1>1 DEF FilesInv, EvaluationInv, EvaluatesManifest, PredictionsMatchManifest,
              ReportCoversDataset, Restored, AllPredictions, Prediction, Pending
<1> QED BY <1>2, <1>3, <1>4 DEF FilesInv

\* Whatever dies in the middle of whatever write: every file holds what its
\* writers put there, or is torn, and the rest of the invariant holds.
THEOREM FilesInvariant == Spec => []FilesInv
<1>1. FilesInv /\ [Next]_vars => FilesInv'
  <2> SUFFICES ASSUME FilesInv, [Next]_vars PROVE FilesInv'
    OBVIOUS
  <2>1. ASSUME NEW d \in Docs, AcceptDocument(d) PROVE FilesInv'
    BY <2>1, AcceptTyped, AcceptTraining, AcceptEvaluation DEF FilesInv
  <2>2. CASE CrashBetween \/ CrashInAWrite
    BY <2>2, CrashTyped, CrashTraining, CrashEvaluation DEF FilesInv, EvaluationInv
  <2>3. CASE UNCHANGED vars
    BY <2>3, StutterFiles
  <2> QED BY <2>1, <2>2, <2>3, PipelineStepKeeps, EvaluatorStepKeeps DEF Next
<1> QED BY <1>1, InitFiles, PTL DEF Spec

\* A resumed training goes on with the data it began with.
THEOREM TrainingKeepsData == Spec => []SftInv
<1>1. FilesInv => SftInv
  BY DEF FilesInv, TrainingInv, EvaluationInv, SftInv
<1> QED BY <1>1, FilesInvariant, PTL

\* The result that is reused and the model that was exported are those of a
\* training whose adapter was saved whole.
THEOREM ExportsTheReusable == Spec => []ExportIsTheReusableAdapter
<1>1. FilesInv => ExportIsTheReusableAdapter
  BY DEF FilesInv, TrainingInv
<1> QED BY <1>1, FilesInvariant, PTL

\* The predictions that can be restored are those of the manifest's dataset.
THEOREM PredictionsMatch == Spec => []PredictionsMatchManifest
<1>1. FilesInv => PredictionsMatchManifest
  BY DEF FilesInv, EvaluationInv
<1> QED BY <1>1, FilesInvariant, PTL

\* A report scores every example of the manifest's dataset exactly once.
THEOREM ReportsCover == Spec => []ReportCoversDataset
<1>1. FilesInv => ReportCoversDataset
  BY DEF FilesInv, EvaluationInv
<1> QED BY <1>1, FilesInvariant, PTL

\* What a training in memory has learned from, once it has made a step.
StepsLearned ==
    /\ pc \in {"fit", "save"} /\ fit.step > 0 => fit.docs = split.train
    /\ pc = "save" => fit.step > 0

\* Only three steps of a pipeline lead to the training loop or go on in it.
LEMMA ElsewhereNothingLearned ==
    ASSUME PipelineStep, ~Resume, ~TrainStep, ~EndTraining
    PROVE  pc' \notin {"fit", "save"}
<1>1. CASE Raise
  BY <1>1 DEF Raise, Stop, Goto
<1>2. CASE StartPipeline \/ BuildSplit \/ WriteTrain \/ WriteVal
  BY <1>2 DEF StartPipeline, BuildSplit, WriteTrain, WriteVal, Raise, Stop, Goto
<1>3. CASE LoadCompletedResult \/ LoadData \/ TokenizeTrain \/ TokenizeVal \/ TokenizeUncached
  BY <1>3 DEF LoadCompletedResult, LoadData, TokenizeTrain, TokenizeVal, Tokenize, TokenizeUncached,
              Raise, Stop, Goto
<1>4. CASE SaveModel \/ PersistResult \/ Export
  BY <1>4 DEF SaveModel, PersistResult, Export, Stop, Goto
<1> QED BY <1>1, <1>2, <1>3, <1>4 DEF PipelineStep

LEMMA PipelineLearns ==
    ASSUME FilesInv, StepsLearned, PipelineStep
    PROVE  StepsLearned'
<1>1. CASE Resume
  <2>1. CASE Raise
    BY <2>1 DEF Raise, Stop, Goto, StepsLearned
  <2>2. CASE ~Raise
    <3>1. pc = "resume" /\ pc' = "fit" /\ split' = split
      BY <1>1, <2>2 DEF Resume, Goto
    <3>2. CASE ckpts = {}
      <4>1. fit' = NoFit
        BY <1>1, <2>2, <3>2 DEF Resume
      <4> QED BY <3>1, <4>1 DEF NoFit, StepsLearned
    <3>3. CASE ckpts # {}
      <4>1. fit' = Newest /\ Newest.docs # Torn
        BY <1>1, <2>2, <3>3 DEF Resume
      <4>2. Newest \in ckpts
        BY <3>3, NewestIsThere DEF FilesInv, SftTypeOK
      <4>3. Newest.docs = Data /\ split.train = Data
        BY <3>1, <4>1, <4>2 DEF FilesInv, TrainingInv, CheckpointsShareData
      <4> QED BY <3>1, <4>1, <4>3 DEF StepsLearned
    <3> QED BY <3>2, <3>3
  <2> QED BY <2>1, <2>2
<1>2. CASE TrainStep
  <2>1. pc = "fit" /\ pc' = "fit" /\ split' = split
    BY <1>2 DEF TrainStep, Goto
  <2>2. fit'.docs = split.train
    BY <1>2, <2>1 DEF TrainStep, FilesInv, TrainingInv, ResumeKeepsDataset
  <2> QED BY <2>1, <2>2 DEF StepsLearned
<1>3. CASE EndTraining
  BY <1>3 DEF EndTraining, Goto, memory, StepsLearned
<1> QED BY <1>1, <1>2, <1>3, ElsewhereNothingLearned DEF StepsLearned

\* Without a token cache a training learns from the train.jsonl that lies there
\* (TrainsOnItsSplit, which the cache breaks in the run sft_cache): new accepted
\* rows, a split built again and a resumed checkpoint change nothing about that.
THEOREM UncachedTrainsOnItsSplit == Spec => [](~caching => TrainsOnItsSplit)
<1>1. Init => StepsLearned
  BY DEF Init, StepsLearned
<1>2. FilesInv /\ StepsLearned /\ [Next]_vars => StepsLearned'
  <2> SUFFICES ASSUME FilesInv, StepsLearned, [Next]_vars PROVE StepsLearned'
    OBVIOUS
  <2>1. ASSUME NEW d \in Docs, AcceptDocument(d) PROVE StepsLearned'
    BY <2>1 DEF AcceptDocument, memory, StepsLearned
  <2>2. CASE CrashBetween \/ CrashInAWrite
    BY <2>2 DEF CrashBetween, CrashInAWrite, Crash, StepsLearned
  <2>3. CASE UNCHANGED vars
    BY <2>3 DEF vars, memory, StepsLearned
  <2>4. CASE EvaluatorStep
    BY <2>4, EvaluatorQuiet DEF Pipeline, StepsLearned
  <2> QED BY <2>1, <2>2, <2>3, <2>4, PipelineLearns DEF Next
<1>3. FilesInv /\ StepsLearned => (~caching => TrainsOnItsSplit)
  BY DEF FilesInv, TrainingInv, CheckpointsShareData, Data, StepsLearned, TrainsOnItsSplit
<1> QED BY <1>1, <1>2, <1>3, FilesInvariant, PTL DEF Spec
=============================================================================
