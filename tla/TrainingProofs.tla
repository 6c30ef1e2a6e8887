--------------------------- MODULE TrainingProofs ---------------------------
(***************************************************************************)
(* Proofs about Training, for every curriculum, scale, number of epochs,   *)
(* patience, batch size and number of crashes.                             *)
(*                                                                         *)
(* A marker is written from a local variable, bestAuc, and promises        *)
(* something about the disk.  The two agree from the first improvement of  *)
(* a run to its end, because nobody else writes the checkpoint of the      *)
(* dataset in training, and a marked dataset is never in training again.   *)
(***************************************************************************)
EXTENDS Training, TLAPS

\* A run trains a dataset that is not marked.
RunInv == pc # "idle" => d \in Dataset \ marks

\* Before its first epoch a run has seen no improvement.
StartInv == pc \in {"idle", "build"} => bestAuc = 0

\* An improvement that is about to be saved.
SaveInv == pc = "save_best" => auc \in Nat /\ bestAuc = auc + 1

\* An improvement that has been saved.
BestInv ==
  pc \in {"epoch", "select", "save_last", "stop"} /\ bestAuc # 0 =>
    best[d] = Checkpoint(bestAuc - 1, TRUE)

Inv == TypeOK /\ RunInv /\ StartInv /\ SaveInv /\ BestInv /\ MarkedHasBest

-----------------------------------------------------------------------------
LEMMA InitInv ==
  ASSUME Init
  PROVE  Inv
<1>1. TypeOK
  BY TrainingAssumption DEF Init, TypeOK, Auc
<1>2. QED
  BY <1>1 DEF Init, Inv, RunInv, StartInv, SaveInv, BestInv, MarkedHasBest

\* The end of a run leaves what a run starts from.
LEMMA QuitInv ==
  ASSUME Quit
  PROVE  /\ pc' = "idle" /\ d' = None
         /\ batch' \in Nat /\ epoch' \in Nat /\ noImprove' \in Nat
         /\ auc' \in Auc /\ bestAuc' = 0
BY TrainingAssumption DEF Quit, Goto, Auc

\* The conjuncts of Inv that speak of the run hold between two runs.
LEMMA IdleInv ==
  ASSUME pc' = "idle", bestAuc' = 0
  PROVE  RunInv' /\ StartInv' /\ SaveInv' /\ BestInv'
BY DEF RunInv, StartInv, SaveInv, BestInv

-----------------------------------------------------------------------------
LEMMA TypeStep ==
  ASSUME Inv, [Next]_vars
  PROVE  TypeOK'
<1> USE TrainingAssumption DEF Auc, run, disk, Goto
<1>t. TypeOK /\ RunInv /\ SaveInv
  BY DEF Inv
<1>1. CASE Start
  BY <1>1, <1>t DEF Start, TypeOK
<1>2. CASE Build
  BY <1>2, <1>t DEF Build, TypeOK
<1>3. CASE BuildFails
  BY <1>3, <1>t, QuitInv DEF BuildFails, TypeOK
<1>4. CASE OutOfMemory
  <2>1. CASE batch <= 1
    BY <1>4, <2>1, <1>t, QuitInv DEF OutOfMemory, TypeOK
  <2>2. CASE ~(batch <= 1)
    <3>1. batch' = batch \div 2 /\ UNCHANGED <<pc, d, epoch, auc, bestAuc, noImprove, disk, peak, faults>>
      BY <1>4, <2>2 DEF OutOfMemory
    <3>2. batch' \in Nat
      BY <3>1, <1>t DEF TypeOK
    <3>3. QED
      BY <3>1, <3>2, <1>t DEF TypeOK
  <2>3. QED
    BY <2>1, <2>2
<1>5. CASE Epoch
  BY <1>5, <1>t DEF Epoch, TypeOK
<1>6. CASE EpochFails
  BY <1>6, <1>t, QuitInv DEF EpochFails, TypeOK
<1>7. CASE Select
  <2>1. CASE Improved
    <3>1. auc \in 0 .. Top
      BY <2>1, <1>t DEF Improved, TypeOK
    <3>2. QED
      BY <1>7, <2>1, <3>1, <1>t DEF Select, TypeOK
  <2>2. CASE ~Improved
    BY <1>7, <2>2, <1>t DEF Select, TypeOK
  <2>3. QED
    BY <2>1, <2>2
<1>8. CASE SaveBest
  <2>1. Checkpoint(auc, TRUE) \in [auc : Auc, whole : BOOLEAN]
    BY <1>t DEF TypeOK, Checkpoint
  <2>2. QED
    BY <1>8, <2>1, <1>t DEF SaveBest, TypeOK
<1>9. CASE SaveLast
  BY <1>9, <1>t DEF SaveLast, TypeOK
<1>10. CASE Continue
  BY <1>10, <1>t DEF Continue, TypeOK
<1>11. CASE Finish
  <2>1. d \in Dataset
    BY <1>11, <1>t DEF Finish, RunInv
  <2>2. (IF bestAuc = 0 THEN None ELSE bestAuc - 1) \in Auc \cup {None}
    BY <1>t DEF TypeOK
  <2>3. peak' \in [Dataset -> Auc \cup {None}]
    BY <1>11, <2>2, <1>t DEF Finish, TypeOK
  <2>4. QED
    BY <1>11, <2>1, <2>3, <1>t, QuitInv DEF Finish, TypeOK
<1>12. CASE \E x \in Dataset : Evaluate(x)
  BY <1>12, <1>t DEF Evaluate, TypeOK
<1>13. CASE Crash
  <2>1. Checkpoint(auc, FALSE) \in [auc : Auc, whole : BOOLEAN]
    BY <1>t DEF TypeOK, Checkpoint
  <2>2. /\ best' \in [Dataset -> [auc : Auc, whole : BOOLEAN] \cup {None}]
        /\ last' \in [Dataset -> {"none", "torn", "whole"}]
    BY <1>13, <2>1, <1>t DEF Crash, TypeOK
  <2>3. Quit /\ faults' = faults + 1 /\ UNCHANGED <<marks, results, peak>>
    BY <1>13 DEF Crash
  <2>4. QED
    BY <2>2, <2>3, <1>t, QuitInv DEF TypeOK
<1>14. CASE UNCHANGED vars
  BY <1>14, <1>t DEF vars, TypeOK
<1>15. QED
  BY <1>1, <1>2, <1>3, <1>4, <1>5, <1>6, <1>7, <1>8, <1>9, <1>10, <1>11, <1>12, <1>13, <1>14
  DEF Next, Step

-----------------------------------------------------------------------------
\* What a run knows stays true of the disk.
LEMMA RunStep ==
  ASSUME Inv, [Next]_vars
  PROVE  RunInv' /\ StartInv' /\ SaveInv' /\ BestInv'
<1> USE DEF run, disk, Goto
<1>t. TypeOK /\ RunInv /\ StartInv /\ SaveInv /\ BestInv
  BY DEF Inv
<1>1. CASE Start
  BY <1>1, <1>t DEF Start, RunInv, StartInv, SaveInv, BestInv
<1>2. CASE Build
  BY <1>2, <1>t DEF Build, RunInv, StartInv, SaveInv, BestInv
<1>3. CASE BuildFails
  BY <1>3, QuitInv, IdleInv DEF BuildFails
<1>4. CASE OutOfMemory
  <2>1. CASE batch <= 1
    BY <1>4, <2>1, QuitInv, IdleInv DEF OutOfMemory
  <2>2. CASE ~(batch <= 1)
    BY <1>4, <2>2, <1>t DEF OutOfMemory, RunInv, StartInv, SaveInv, BestInv
  <2>3. QED
    BY <2>1, <2>2
<1>5. CASE Epoch
  BY <1>5, <1>t DEF Epoch, RunInv, StartInv, SaveInv, BestInv
<1>6. CASE EpochFails
  BY <1>6, QuitInv, IdleInv DEF EpochFails
<1>7. CASE Select
  <2>1. CASE Improved
    <3>1. auc \in Nat
      BY <2>1, <1>t, TrainingAssumption DEF Improved, TypeOK, Auc
    <3>2. QED
      BY <1>7, <2>1, <3>1, <1>t DEF Select, RunInv, StartInv, SaveInv, BestInv
  <2>2. CASE ~Improved
    BY <1>7, <2>2, <1>t DEF Select, RunInv, StartInv, SaveInv, BestInv
  <2>3. QED
    BY <2>1, <2>2
<1>8. CASE SaveBest
  <2>1. d \in Dataset \ marks /\ auc \in Nat /\ bestAuc - 1 = auc
    BY <1>8, <1>t DEF SaveBest, RunInv, SaveInv
  <2>2. best'[d] = Checkpoint(auc, TRUE)
    BY <1>8, <2>1, <1>t DEF SaveBest, TypeOK
  <2>3. QED
    BY <1>8, <2>1, <2>2, <1>t DEF SaveBest, RunInv, StartInv, SaveInv, BestInv
<1>9. CASE SaveLast
  BY <1>9, <1>t DEF SaveLast, RunInv, StartInv, SaveInv, BestInv
<1>10. CASE Continue
  BY <1>10, <1>t DEF Continue, RunInv, StartInv, SaveInv, BestInv
<1>11. CASE Finish
  BY <1>11, QuitInv, IdleInv DEF Finish
<1>12. CASE \E x \in Dataset : Evaluate(x)
  BY <1>12, <1>t DEF Evaluate, RunInv, StartInv, SaveInv, BestInv
<1>13. CASE Crash
  BY <1>13, QuitInv, IdleInv DEF Crash
<1>14. CASE UNCHANGED vars
  BY <1>14, <1>t DEF vars, RunInv, StartInv, SaveInv, BestInv
<1>15. QED
  BY <1>1, <1>2, <1>3, <1>4, <1>5, <1>6, <1>7, <1>8, <1>9, <1>10, <1>11, <1>12, <1>13, <1>14
  DEF Next, Step

\* Only three steps touch what a marker promises: a checkpoint is saved, or torn by a
\* crash, of a dataset that is not marked; or a run marks its dataset.
LEMMA MarkedStep ==
  ASSUME Inv, [Next]_vars
  PROVE  MarkedHasBest'
<1> USE DEF run, disk
<1>t. TypeOK /\ RunInv /\ BestInv /\ MarkedHasBest
  BY DEF Inv
<1>1. CASE UNCHANGED <<best, marks, peak>>
  BY <1>1, <1>t DEF MarkedHasBest
<1>2. CASE SaveBest
  <2>1. d \in Dataset \ marks
    BY <1>2, <1>t DEF SaveBest, RunInv
  <2>2. ASSUME NEW x \in marks PROVE best'[x] = best[x]
    BY <1>2, <2>1, <1>t DEF SaveBest, TypeOK
  <2>3. QED
    BY <1>2, <2>2, <1>t DEF SaveBest, MarkedHasBest
<1>3. CASE Crash
  <2>1. d \in Dataset \ marks
    BY <1>3, <1>t DEF Crash, RunInv
  <2>2. ASSUME NEW x \in marks PROVE best'[x] = best[x]
    BY <1>3, <2>1, <1>t DEF Crash, TypeOK
  <2>3. QED
    BY <1>3, <2>2, <1>t DEF Crash, MarkedHasBest
<1>4. CASE Finish
  <2>1. d \in Dataset \ marks
    BY <1>4, <1>t DEF Finish, RunInv
  <2>2. ASSUME NEW x \in marks', peak'[x] # None
        PROVE  best'[x] = Checkpoint(peak'[x], TRUE)
    <3>1. CASE x = d
      <4>1. peak'[d] = IF bestAuc = 0 THEN None ELSE bestAuc - 1
        BY <1>4, <2>1, <1>t DEF Finish, TypeOK
      <4>2. bestAuc # 0 /\ peak'[d] = bestAuc - 1
        BY <3>1, <2>2, <4>1
      <4>3. QED
        BY <1>4, <3>1, <4>2, <1>t DEF Finish, BestInv
    <3>2. CASE x # d
      BY <1>4, <2>1, <2>2, <3>2, <1>t DEF Finish, TypeOK, MarkedHasBest
    <3>3. QED
      BY <3>1, <3>2
  <2>3. QED
    BY <2>2 DEF MarkedHasBest
<1>5. QED
  BY <1>1, <1>2, <1>3, <1>4
  DEF Next, Step, Start, Build, BuildFails, OutOfMemory, Epoch, EpochFails, Select,
      SaveLast, Continue, Evaluate, vars

-----------------------------------------------------------------------------
LEMMA Inductive == Spec => []Inv
<1>1. Init => Inv
  BY InitInv
<1>2. Inv /\ [Next]_vars => Inv'
  BY TypeStep, RunStep, MarkedStep DEF Inv
<1>3. QED
  BY <1>1, <1>2, PTL DEF Spec

\* The training runs keep their types (deeptruth_train.py, train_one_dataset).
THEOREM TypesKept == Spec => []TypeOK
<1>1. Inv => TypeOK
  BY DEF Inv
<1>2. QED
  BY <1>1, Inductive, PTL

\* A dataset marked as trained has a whole best checkpoint, that of the best epoch of
\* the run that earned the marker, however many runs of it crashed before and whatever
\* they left torn (deeptruth_train.py, train_one_dataset).
THEOREM MarkersHonest == Spec => []MarkedHasBest
<1>1. Inv => MarkedHasBest
  BY DEF Inv
<1>2. QED
  BY <1>1, Inductive, PTL
=============================================================================
