----------------------------- MODULE FineTuning -----------------------------
(***************************************************************************)
(* The fine-tuning commands over one work directory: run_default builds    *)
(* the dataset split from the labeling database, trains, and exports a     *)
(* GGUF file; OllamaEvaluator scores the adapter on the validation split.  *)
(* One command runs at a time and may die at any step, also in the middle  *)
(* of a file; the user starts it again.  What lasts are the files.         *)
(*                                                                         *)
(* A training run is the number of its steps and the set of examples it    *)
(* has seen, and the adapter (the best checkpoint) is the run that made    *)
(* it.  When the Trainer of transformers saves and which checkpoints it    *)
(* keeps is left open.  An error that leaves every file as it is, such as  *)
(* a resume that is refused, is a step that is not taken.                  *)
(***************************************************************************)
EXTENDS Naturals, Sequences, FiniteSets

CONSTANTS Docs,       \* labeled documents that the database may come to hold
          HeldOut,    \* the validation records of each content of the database
          Steps,      \* the optimizer steps of a whole training
          SaveLimit,  \* save_total_limit
          MaxCrashes, \* bound: how often a command dies
          Absent,     \* no such file
          Torn        \* a file cut off in the middle

Elements(s) == {s[n] : n \in DOMAIN s}

ASSUME FineTuningAssumption ==
    /\ \A S \in SUBSET Docs : HeldOut[S] \in Seq(S)
    /\ Steps \in Nat \ {0} /\ SaveLimit \in Nat \ {0} /\ MaxCrashes \in Nat

VARIABLES caching,  \* the configuration's dataset_cache
          db,       \* the accepted rows of the labeling database
          pc,       \* what the running command does next
          split,    \* in memory: the split being built, or the data to train on
          fit,      \* in memory: the training run
          scored,   \* in memory: the predictions of this evaluation
          crashes,
          train,    \* Alpaca/train.jsonl
          val,      \* Alpaca/val.jsonl
          cache,    \* cache/train.tok and cache/val.tok
          ckpts,    \* the checkpoint-N directories
          adapter,  \* adapter_config.json and adapter_model.safetensors
          result,   \* training_result.json is there
          gguf,     \* the exported model
          manifest, \* evaluation/manifest.json
          preds,    \* evaluation/predictions.jsonl
          report    \* evaluation/report.json

memory   == <<split, fit, scored>>
dataset  == <<train, val, cache>>
training == <<ckpts, adapter, result, gguf>>
evaluation == <<manifest, preds, report>>
vars == <<caching, db, pc, memory, crashes, dataset, training, evaluation>>

Pipeline  == {"build", "writeTrain", "writeVal", "completed", "load", "tokTrain",
              "tokVal", "resume", "fit", "save", "persist", "export"}
Evaluator == {"records", "generate", "report", "complete"}

NoSplit == [train |-> {}, val |-> <<>>]
NoFit   == [step |-> 0, docs |-> {}]
NoPredictions == [items |-> {}, tail |-> Absent]

\* _prediction_record: what is known of an example is its index and its text.
Prediction(s, i) == [index |-> i, doc |-> s[i]]
AllPredictions(s) == {Prediction(s, i) : i \in DOMAIN s}

Splits == [train : SUBSET Docs, val : Seq(Docs)]
Fits   == [step : 0..Steps, docs : SUBSET Docs]
Predictions == [index : Nat \ {0}, doc : Docs]
Checkpoints == [step : 1..Steps, docs : (SUBSET Docs) \cup {Torn}]
Manifests == [val : Seq(Docs) \cup {Torn}, adapter : Fits \cup {Torn},
              status : {"running", "completed"}]

\* The absence of a file and a torn file are no content.
ASSUME MarksAssumption ==
    /\ Absent # Torn
    /\ \A mark \in {Absent, Torn} :
          /\ \A S \in SUBSET Docs : mark # S
          /\ mark \notin Seq(Docs) \cup Fits \cup Predictions \cup Manifests

\* Every file and every variable of a command holds what its writers put there.
SftTypeOK ==
    /\ caching \in BOOLEAN /\ db \subseteq Docs /\ crashes \in 0..MaxCrashes
    /\ pc \in {"idle"} \cup Pipeline \cup Evaluator
    /\ split \in Splits /\ fit \in Fits /\ scored \subseteq Predictions
    /\ train \in (SUBSET Docs) \cup {Absent, Torn}
    /\ val \in Seq(Docs) \cup {Absent, Torn}
    /\ cache \in [train : (SUBSET Docs) \cup {Absent, Torn},
                  val : Seq(Docs) \cup {Absent, Torn}]
    /\ ckpts \subseteq Checkpoints
    /\ adapter \in Fits \cup {Absent, Torn}
    /\ result \in BOOLEAN
    /\ gguf \in Fits \cup {Absent, Torn}
    /\ manifest \in Manifests \cup {Absent}
    /\ preds \in [items : SUBSET Predictions, tail : Predictions \cup {Absent, Torn}]
    /\ report \in (SUBSET Predictions) \cup {Absent, Torn}

Init ==
    /\ caching \in BOOLEAN
    /\ db = {} /\ pc = "idle" /\ crashes = 0
    /\ split = NoSplit /\ fit = NoFit /\ scored = {}
    /\ train = Absent /\ val = Absent
    /\ cache = [train |-> Absent, val |-> Absent]
    /\ ckpts = {} /\ adapter = Absent /\ result = FALSE /\ gguf = Absent
    /\ manifest = Absent /\ preds = NoPredictions /\ report = Absent

Goto(step) == pc' = step /\ UNCHANGED <<caching, db, crashes>>

\* The command returns or raises; what it had in memory is gone.
Stop == /\ Goto("idle")
        /\ split' = NoSplit /\ fit' = NoFit /\ scored' = {}

Raise == Stop /\ UNCHANGED <<dataset, training, evaluation>>

\* The labeling pipelines accept another document meanwhile.
AcceptDocument(d) ==
    /\ d \notin db
    /\ db' = db \cup {d}
    /\ UNCHANGED <<caching, pc, memory, crashes, dataset, training, evaluation>>

-----------------------------------------------------------------------------
(* SFTOrchestrator and SqliteLocalBuilder *)

\* Faulty variant: a run builds a new split although it will resume.
ResumesDatasetNever == FALSE

\* _resume_dataset: with a checkpoint the files of the earlier run are used.
ResumesDataset == ckpts # {}

StartPipeline ==
    /\ pc = "idle"
    /\ IF ResumesDataset
       THEN train \notin {Absent, {}} /\ val \notin {Absent, <<>>} /\ Goto("completed")
       ELSE Goto("build")
    /\ UNCHANGED <<memory, dataset, training, evaluation>>

\* The accepted rows, shuffled with a fixed seed: their set decides the split.
BuildSplit ==
    /\ pc = "build"
    /\ \/ db = {} /\ Raise
       \/ /\ db # {}
          /\ split' = [train |-> db \ Elements(HeldOut[db]), val |-> HeldOut[db]]
          /\ Goto("writeTrain")
          /\ UNCHANGED <<fit, scored, dataset, training, evaluation>>

WriteTrain ==
    /\ pc = "writeTrain"
    /\ train' = split.train
    /\ Goto("writeVal")
    /\ UNCHANGED <<memory, val, cache, training, evaluation>>

WriteVal ==
    /\ pc = "writeVal"
    /\ val' = split.val
    /\ Goto("completed")
    /\ UNCHANGED <<memory, train, cache, training, evaluation>>

-----------------------------------------------------------------------------
(* QLoRATrainer.train *)

\* Faulty variant: the existence of the adapter is taken for its completion.
ReusableUnmarked == adapter # Absent

\* _load_completed_result: the marker, and the adapter's two files are there.
Reusable == result /\ adapter # Absent

LoadCompletedResult ==
    /\ pc = "completed"
    /\ Goto(IF Reusable THEN "export" ELSE "load")
    /\ UNCHANGED <<memory, dataset, training, evaluation>>

\* LocalJsonlDatasetLoader refuses a missing, an empty or an unreadable file.
LoadData ==
    /\ pc = "load"
    /\ IF train \in {Absent, Torn, {}} \/ val \in {Absent, Torn, <<>>}
       THEN Raise
       ELSE /\ split' = [train |-> train, val |-> val]
            /\ Goto("tokTrain")
            /\ UNCHANGED <<fit, scored, dataset, training, evaluation>>

\* _tokenize_dataset: a cache that exists is loaded, whatever it was made from.
Tokenize(part) ==
    \/ cache[part] = Torn /\ Raise
    \/ /\ cache[part] # Torn
       /\ IF cache[part] = Absent
          THEN /\ cache' = [cache EXCEPT ![part] = split[part]]
               /\ UNCHANGED split
          ELSE /\ split' = [split EXCEPT ![part] = cache[part]]
               /\ UNCHANGED cache
       /\ Goto(IF part = "train" THEN "tokVal" ELSE "resume")
       /\ UNCHANGED <<fit, scored, train, val, training, evaluation>>

TokenizeTrain == pc = "tokTrain" /\ caching /\ Tokenize("train")
TokenizeVal   == pc = "tokVal" /\ caching /\ Tokenize("val")

TokenizeUncached ==
    /\ pc = "tokTrain" /\ ~caching
    /\ Goto("resume")
    /\ UNCHANGED <<memory, dataset, training, evaluation>>

Newest == CHOOSE c \in ckpts : \A d \in ckpts : d.step <= c.step

\* The newest checkpoint directory is resumed; a torn one cannot be read.
Resume ==
    /\ pc = "resume"
    /\ IF ckpts # {} /\ Newest.docs = Torn
       THEN Raise
       ELSE /\ fit' = IF ckpts = {} THEN NoFit ELSE Newest
            /\ Goto("fit")
            /\ UNCHANGED <<split, scored, dataset, training, evaluation>>

StepsLeft == fit.step < Steps

TrainStep ==
    /\ pc = "fit" /\ StepsLeft
    /\ fit' = [step |-> fit.step + 1, docs |-> fit.docs \cup split.train]
    /\ \/ UNCHANGED ckpts
       \/ \E kept \in SUBSET ckpts : /\ Cardinality(kept) < SaveLimit
                                     /\ ckpts' = kept \cup {fit'}
    /\ Goto("fit")
    /\ UNCHANGED <<split, scored, dataset, adapter, result, gguf, evaluation>>

\* All steps are done, or EarlyStoppingCallback ends the training.
EndTraining ==
    /\ pc = "fit" /\ fit.step > 0
    /\ Goto("save")
    /\ UNCHANGED <<memory, dataset, training, evaluation>>

\* trainer.save_model; publish is a no-op, source and target are one directory.
SaveModel ==
    /\ pc = "save"
    /\ adapter' = fit
    /\ Goto("persist")
    /\ UNCHANGED <<memory, dataset, ckpts, result, gguf, evaluation>>

PersistResult ==
    /\ pc = "persist"
    /\ result' = TRUE
    /\ Goto("export")
    /\ UNCHANGED <<memory, dataset, ckpts, adapter, gguf, evaluation>>

\* GGUFExporter.export converts in a temporary directory, then copies.
Export ==
    /\ pc = "export"
    /\ gguf' = adapter
    /\ Stop
    /\ UNCHANGED <<dataset, ckpts, adapter, result, evaluation>>

-----------------------------------------------------------------------------
(* OllamaEvaluator.evaluate with a work directory *)

\* Faulty variant: an existing evaluation is continued without comparing.
ManifestFitsAlways == TRUE

\* The fingerprints of the dataset and of the adapter are those of the manifest.
ManifestFits == manifest.val = val /\ manifest.adapter = adapter

\* The lines that can be read: a line whose last character is missing can.
Restored == preds.items \cup ({preds.tail} \ {Absent, Torn})

\* _prepare_checkpoint; an existing evaluation is continued with --resume.
StartEvaluation ==
    /\ pc = "idle" /\ adapter # Absent /\ val # Absent
    /\ \/ /\ manifest = Absent /\ preds = NoPredictions
          /\ manifest' = [val |-> val, adapter |-> adapter, status |-> "running"]
       \/ /\ manifest # Absent /\ ManifestFits
          /\ UNCHANGED manifest
    /\ scored' = Restored
    /\ Goto("records")
    /\ UNCHANGED <<split, fit, dataset, training, preds, report>>

LoadRecords ==
    /\ pc = "records"
    /\ IF val = Torn
       THEN Raise
       ELSE /\ scored' = {p \in scored : p.index \in DOMAIN val}
            /\ Goto("generate")
            /\ UNCHANGED <<split, fit, dataset, training, evaluation>>

Pending == DOMAIN val \ {p.index : p \in scored}

\* _append_prediction: a line that was cut off swallows the next one, and
\* neither can be read again, even if only the end of the line was missing.
AppendPrediction(p) == IF preds.tail = Absent
                       THEN [preds EXCEPT !.items = @ \cup {p}]
                       ELSE [preds EXCEPT !.tail = Absent]

NextPending == CHOOSE i \in Pending : \A j \in Pending : i <= j

Generate ==
    /\ pc = "generate" /\ Pending # {}
    /\ \/ Raise
       \/ LET p == Prediction(val, NextPending)
          IN  /\ preds' = AppendPrediction(p)
              /\ scored' = scored \cup {p}
              /\ Goto("generate")
              /\ UNCHANGED <<split, fit, dataset, training, manifest, report>>

\* Faulty variant: an evaluation ends at the first restored prediction.
AllGeneratedOnce == scored # {}

AllGenerated == Pending = {}

ScoreRecords ==
    /\ pc = "generate" /\ AllGenerated
    /\ Goto("report")
    /\ UNCHANGED <<memory, dataset, training, evaluation>>

WriteReport ==
    /\ pc = "report"
    /\ report' = scored
    /\ Goto("complete")
    /\ UNCHANGED <<memory, dataset, training, manifest, preds>>

CompleteManifest ==
    /\ pc = "complete"
    /\ manifest' = [manifest EXCEPT !.status = "completed"]
    /\ Stop
    /\ UNCHANGED <<dataset, training, preds, report>>

-----------------------------------------------------------------------------
(* Crashes *)

\* The command dies between two writes.
Crash ==
    /\ pc # "idle" /\ crashes < MaxCrashes
    /\ crashes' = crashes + 1
    /\ pc' = "idle"
    /\ split' = NoSplit /\ fit' = NoFit /\ scored' = {}
    /\ UNCHANGED <<caching, db>>

Prefixes(s) == {SubSeq(s, 1, n) : n \in 0..Len(s)}

\* It dies while it writes a file that is not replaced in one step.
CutsDataset ==
    /\ UNCHANGED <<training, evaluation>>
    /\ \/ pc = "writeTrain" /\ train' \in (SUBSET split.train) \cup {Torn} /\ UNCHANGED <<val, cache>>
       \/ pc = "writeVal" /\ val' \in Prefixes(split.val) \cup {Torn} /\ UNCHANGED <<train, cache>>
       \/ /\ caching /\ UNCHANGED <<train, val>>
          /\ \/ pc = "tokTrain" /\ cache.train = Absent /\ cache' = [cache EXCEPT !.train = Torn]
             \/ pc = "tokVal" /\ cache.val = Absent /\ cache' = [cache EXCEPT !.val = Torn]

CutsTraining ==
    /\ UNCHANGED <<dataset, evaluation, result>>
    /\ \/ /\ pc = "fit" /\ StepsLeft
          /\ ckpts' = ckpts \cup {[step |-> fit.step + 1, docs |-> Torn]}
          /\ UNCHANGED <<adapter, gguf>>
       \/ pc = "save" /\ adapter' = Torn /\ UNCHANGED <<ckpts, gguf>>
       \/ pc = "export" /\ gguf' = Torn /\ UNCHANGED <<ckpts, adapter>>

CutsEvaluation ==
    /\ UNCHANGED <<dataset, training, manifest>>
    /\ \/ /\ pc = "generate" /\ Pending # {}
          /\ \E cut \in {Torn, Prediction(val, NextPending)} :
                preds' = [preds EXCEPT !.tail = IF @ = Absent THEN cut ELSE Torn]
          /\ UNCHANGED report
       \/ pc = "report" /\ report' = Torn /\ UNCHANGED preds

CrashBetween  == Crash /\ UNCHANGED <<dataset, training, evaluation>>
CrashInAWrite == Crash /\ (CutsDataset \/ CutsTraining \/ CutsEvaluation)

-----------------------------------------------------------------------------

PipelineStep ==
    \/ StartPipeline \/ BuildSplit \/ WriteTrain \/ WriteVal
    \/ LoadCompletedResult \/ LoadData \/ TokenizeTrain \/ TokenizeVal \/ TokenizeUncached
    \/ Resume \/ TrainStep \/ EndTraining \/ SaveModel \/ PersistResult \/ Export

EvaluatorStep ==
    \/ StartEvaluation \/ LoadRecords \/ Generate \/ ScoreRecords
    \/ WriteReport \/ CompleteManifest

Next == \/ \E d \in Docs : AcceptDocument(d)
        \/ PipelineStep \/ EvaluatorStep
        \/ CrashBetween \/ CrashInAWrite

Spec == Init /\ [][Next]_vars

-----------------------------------------------------------------------------
(* Properties *)

\* A resumed training goes on with the data it began with, although the
\* database has grown and the split may have been built again in between.
ResumeKeepsDataset == pc \in {"fit", "save"} => fit.docs \in {{}, split.train}

\* What a training of this work directory learns from, once it has begun.
Data == IF caching THEN cache.train ELSE train

\* The checkpoints of the work directory are all trained on the same data, which
\* neither a new split nor a new cache replaces.
CheckpointsShareData ==
    /\ pc \in {"build", "writeTrain", "writeVal"} => ckpts = {}
    /\ \A c \in ckpts : c.docs \in {Torn, Data}
    /\ caching /\ (ckpts # {} \/ pc \in {"tokVal", "resume", "fit", "save"}) => cache.train # Absent
    /\ pc = "tokTrain" /\ ~caching => split.train = Data
    /\ pc \in {"tokVal", "resume", "fit", "save"} => split.train = Data

\* A training begins only when no result is there, and saves its adapter first.
SavesBeforeResult ==
    /\ pc \in {"load", "tokTrain", "tokVal", "resume", "fit", "save", "persist"} => ~result
    /\ pc = "persist" => adapter \in Fits

\* An evaluation has a manifest, of the dataset that lies there while it runs.
EvaluatesManifest ==
    /\ pc \in Evaluator => manifest # Absent /\ manifest.val = val
    /\ pc = "records" => scored \subseteq Restored
    /\ pc \in {"generate", "report"} => val # Torn /\ scored \subseteq AllPredictions(val)
    /\ pc = "report" => Pending = {}
    /\ report # Absent => manifest # Absent

\* The files keep their types and a training keeps its data: the inductive
\* invariant, with the three properties below.
SftInv ==
    /\ SftTypeOK /\ ResumeKeepsDataset
    /\ CheckpointsShareData /\ SavesBeforeResult /\ EvaluatesManifest

\* The result that is reused, and the model that was exported, are those of a
\* training that was saved whole; a later run never replaces that adapter.
ExportIsTheReusableAdapter ==
    /\ result => adapter \notin {Absent, Torn}
    /\ gguf \notin {Absent, Torn} => result /\ gguf = adapter
    /\ pc = "export" => result

\* Whatever was rebuilt between two evaluations, the restored predictions are
\* those of the dataset the manifest names.
PredictionsMatchManifest ==
    Restored # {} => /\ manifest # Absent /\ manifest.val # Torn
                     /\ Restored \subseteq AllPredictions(manifest.val)

\* A report that can be read scores every example of the manifest's dataset
\* once, however often the evaluation was resumed.
ReportCoversDataset ==
    report \notin {Absent, Torn} => report = AllPredictions(manifest.val)

\* "this class passes its builder-produced DatasetSplit directly to the trainer"
\* (orchestrator.py): the examples that were trained on are those of train.jsonl.
TrainsOnItsSplit == pc = "save" => fit.docs = train
=============================================================================
