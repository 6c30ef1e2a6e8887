------------------------------ MODULE Training ------------------------------
(***************************************************************************)
(* The training phase of train_pipeline/deeptruth_train.py in one mode: a  *)
(* run of train_one_dataset, the checkpoints it writes, the warm start     *)
(* from the datasets before it, the retries after a crash, the evaluation. *)
(*                                                                         *)
(* A checkpoint is known by the validation AUC of its weights, in steps of *)
(* the scale 0 .. Top, or NaN, and by the run that made it.  Saving one is *)
(* not atomic.                                                             *)
(***************************************************************************)
EXTENDS Naturals, Sequences

CONSTANTS
  Order,          \* the curriculum, a sequence of datasets
  Top,            \* the AUC scale
  TARGET,         \* the AUC that ends a run (0.97)
  EPOCHS_MAX, EARLY_STOP_PAT, MIN_EPOCHS,
  BATCH_SIZE,
  MaxFaults,      \* how many crashes
  NaN, None

Dataset == {Order[i] : i \in DOMAIN Order}
Auc == (0 .. Top) \cup {NaN}

ASSUME TrainingAssumption ==
  /\ Order \in Seq(Dataset)
  /\ \A i, j \in DOMAIN Order : Order[i] = Order[j] => i = j
  /\ Top \in Nat /\ TARGET \in 0 .. Top
  /\ EPOCHS_MAX \in Nat \ {0} /\ EARLY_STOP_PAT \in Nat /\ MIN_EPOCHS \in Nat
  /\ BATCH_SIZE \in Nat \ {0}
  /\ MaxFaults \in Nat
  /\ NaN \notin Nat
  /\ None \notin Dataset /\ None \notin [auc : Auc, whole : BOOLEAN]

VARIABLES
  d,         \* the dataset in training, or None
  pc,
  batch,     \* the batch size tried
  epoch,     \* epochs finished
  auc,       \* the AUC of the last epoch
  bestAuc,   \* best_auc + 1: 0 before any epoch improved on -1
  noImprove, \* epochs_no_improve
  best,      \* <dataset>_<mode>_best: the AUC of its weights, and whether it is whole
  last,      \* <dataset>_<mode>_last: "none", "torn" or "whole"
  marks,     \* datasets with a train_<dataset>_<mode>.done
  results,   \* datasets in test_results.json
  peak,      \* the highest AUC of the run that marked a dataset, or None if all were NaN
  faults

disk == <<best, last, marks, results>>
run == <<batch, epoch, auc, bestAuc, noImprove>>
vars == <<d, pc, run, disk, peak, faults>>

Goto(to) == pc' = to
Checkpoint(a, whole) == [auc |-> a, whole |-> whole]

\* The process, or this call, ends; its variables are gone.
Quit ==
  /\ Goto("idle") /\ d' = None
  /\ batch' = BATCH_SIZE /\ epoch' = 0 /\ auc' = NaN /\ bestAuc' = 0 /\ noImprove' = 0

-----------------------------------------------------------------------------
Place(x) == CHOOSE i \in DOMAIN Order : Order[i] = x

\* The datasets before x that have a best checkpoint, finished or not.
Before(x) == {i \in DOMAIN Order : i < Place(x) /\ best[Order[i]] # None}

\* What a run may try to start from that does not load: the checkpoint the user names,
\* here the last one of the dataset, or the nearest best.  A torn adapter without its
\* configuration is passed over.
TornStart ==
  \/ last[d] = "torn"
  \/ \E i \in Before(d) :
       \A j \in Before(d) : j >= i => ~best[Order[j]].whole

\* The manifests are there.
Start ==
  /\ pc = "idle"
  /\ d' \in Dataset \ marks
  /\ Goto("build")
  /\ UNCHANGED <<run, disk, peak, faults>>

Build ==
  /\ pc = "build"
  /\ Goto("epoch")
  /\ UNCHANGED <<d, run, disk, peak, faults>>

BuildFails ==
  /\ pc = "build"
  /\ TornStart
  /\ Quit
  /\ UNCHANGED <<disk, peak, faults>>

\* Mutant of OutOfMemory: it never gives up.
OutOfMemoryAgain ==
  /\ pc = "build"
  /\ batch' = IF batch <= 1 THEN BATCH_SIZE ELSE batch \div 2
  /\ UNCHANGED <<d, pc, epoch, auc, bestAuc, noImprove, disk, peak, faults>>

OutOfMemory ==
  /\ pc = "build"
  /\ IF batch <= 1
       THEN Quit
       ELSE batch' = batch \div 2 /\ UNCHANGED <<pc, d, epoch, auc, bestAuc, noImprove>>
  /\ UNCHANGED <<disk, peak, faults>>

\* A pass over the training split, in which a batch that does not fit is skipped, and
\* the evaluation on the validation split.
Epoch ==
  /\ pc = "epoch"
  /\ epoch' = epoch + 1
  /\ auc' \in Auc
  /\ Goto("select")
  /\ UNCHANGED <<d, batch, bestAuc, noImprove, disk, peak, faults>>

\* An exception in the loop, or an empty validation split.
EpochFails ==
  /\ pc = "epoch"
  /\ Quit
  /\ UNCHANGED <<disk, peak, faults>>

Improved == auc # NaN /\ auc + 1 > bestAuc

\* Mutant of Select: the first epoch that does not improve is saved all the same.
SelectAny ==
  /\ pc = "select"
  /\ IF Improved
       THEN bestAuc' = auc + 1 /\ noImprove' = 0 /\ Goto("save_best")
       ELSE /\ UNCHANGED bestAuc /\ noImprove' = noImprove + 1
            /\ Goto(IF noImprove = 0 THEN "save_best" ELSE "save_last")
  /\ UNCHANGED <<d, batch, epoch, auc, disk, peak, faults>>

Select ==
  /\ pc = "select"
  /\ IF Improved
       THEN bestAuc' = auc + 1 /\ noImprove' = 0 /\ Goto("save_best")
       ELSE UNCHANGED bestAuc /\ noImprove' = noImprove + 1 /\ Goto("save_last")
  /\ UNCHANGED <<d, batch, epoch, auc, disk, peak, faults>>

SaveBest ==
  /\ pc = "save_best"
  /\ best' = [best EXCEPT ![d] = Checkpoint(auc, TRUE)]
  /\ Goto("save_last")
  /\ UNCHANGED <<d, run, last, marks, results, peak, faults>>

SaveLast ==
  /\ pc = "save_last"
  /\ last' = [last EXCEPT ![d] = "whole"]
  /\ Goto("stop")
  /\ UNCHANGED <<d, run, best, marks, results, peak, faults>>

Stops ==
  \/ noImprove >= EARLY_STOP_PAT /\ epoch >= MIN_EPOCHS
  \/ bestAuc > TARGET
  \/ epoch = EPOCHS_MAX

Continue ==
  /\ pc = "stop" /\ ~Stops
  /\ Goto("epoch")
  /\ UNCHANGED <<d, run, disk, peak, faults>>

Finish ==
  /\ pc = "stop" /\ Stops
  /\ marks' = marks \cup {d}
  /\ peak' = [peak EXCEPT ![d] = IF bestAuc = 0 THEN None ELSE bestAuc - 1]
  /\ Quit
  /\ UNCHANGED <<best, last, results, faults>>

\* The best of a dataset is tested, whether or not its training is marked, and the
\* results of the others are kept.  One that is torn ends the command.
Evaluate(x) ==
  /\ pc = "idle"
  /\ best[x] # None /\ best[x].whole
  /\ results' = results \cup {x}
  /\ UNCHANGED <<d, pc, run, best, last, marks, peak, faults>>

\* The process dies; a checkpoint that is being written is torn.
Crash ==
  /\ pc # "idle"
  /\ faults < MaxFaults
  /\ faults' = faults + 1
  /\ best' = IF pc = "save_best" THEN [best EXCEPT ![d] = Checkpoint(auc, FALSE)] ELSE best
  /\ last' = IF pc = "save_last" THEN [last EXCEPT ![d] = "torn"] ELSE last
  /\ Quit
  /\ UNCHANGED <<marks, results, peak>>

Init ==
  /\ d = None /\ pc = "idle"
  /\ batch = BATCH_SIZE /\ epoch = 0 /\ auc = NaN /\ bestAuc = 0 /\ noImprove = 0
  /\ best = [x \in Dataset |-> None]
  /\ last = [x \in Dataset |-> "none"]
  /\ marks = {} /\ results = {}
  /\ peak = [x \in Dataset |-> None]
  /\ faults = 0

\* What a run does by itself.
Step ==
  \/ Build \/ BuildFails \/ OutOfMemory \/ Epoch \/ EpochFails \/ Select
  \/ SaveBest \/ SaveLast \/ Continue \/ Finish

Next == Start \/ Step \/ (\E x \in Dataset : Evaluate(x)) \/ Crash

Spec == Init /\ [][Next]_vars

\* A run that has been started goes on.
FairSpec == Spec /\ WF_vars(Step)

-----------------------------------------------------------------------------
(* Properties.                                                             *)

\* Type invariant.
TypeOK ==
  /\ d \in Dataset \cup {None}
  /\ pc \in {"idle", "build", "epoch", "select", "save_best", "save_last", "stop"}
  /\ d = None <=> pc = "idle"
  /\ batch \in Nat /\ epoch \in Nat /\ noImprove \in Nat
  /\ auc \in Auc
  /\ bestAuc \in 0 .. Top + 1
  /\ best \in [Dataset -> [auc : Auc, whole : BOOLEAN] \cup {None}]
  /\ last \in [Dataset -> {"none", "torn", "whole"}]
  /\ marks \subseteq Dataset /\ results \subseteq Dataset
  /\ peak \in [Dataset -> Auc \cup {None}]
  /\ faults \in Nat

\* A dataset marked as trained has a whole best checkpoint, that of the best epoch of the
\* run that earned the marker, whatever crashed before; unless no epoch of that run had
\* an AUC at all.
MarkedHasBest ==
  \A x \in marks : peak[x] # None => best[x] = Checkpoint(peak[x], TRUE)

\* A run ends, whatever fits into memory and however the AUC moves.
RunsEnd == pc # "idle" ~> pc = "idle"
=============================================================================
