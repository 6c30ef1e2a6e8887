------------------------------ MODULE Verdicts -------------------------------
(***************************************************************************)
(* From the scores of the checkpoints to what the operator is shown: the   *)
(* ensembles, the engines that wrap them, the analyser's rows and status,  *)
(* and the decision to cache.  Scores are counted in Steps, means are      *)
(* fractions.  A result is held back by confidence 0, which every layer    *)
(* reads for itself.  Rounding, wording, and a model that returns NaN are  *)
(* left out.                                                               *)
(***************************************************************************)
EXTENDS Integers, FiniteSets, Functions

CONSTANTS
  Slug, Group, Auc,      \* the checkpoints, the group each votes in, and its weight (equal for video)
  Steps, Grid,           \* the scores a model may give, in Steps-ths of a probability
  Frames,                \* numbers of frames with a face
  Threshold,             \* decision thresholds of the audio model
  MIN_FACE_FRAMES, NO_FACE_WEIGHT,
  None

Kinds == {"video", "image", "audio"}
SlugsOf(k) ==
  {s \in Slug : Group[s] \in CASE k = "image" -> {"generalist", "face", "other"}
                               [] k = "video" -> {"framed", "genvideo", "other"}
                               [] OTHER -> {"wavlm"}}

VARIABLES
  kind, scores,          \* the kind of the case and the score of every checkpoint that ran
  faces, threshold,      \* frames with a face; the audio threshold
  fault,                 \* what fails: nothing, the pipeline, the registry, the SRM pass
  pc,
  inference,             \* what the inferencer returns: score, verdict, confidence
  result,                \* the EngineResult
  rows, risk, status,    \* what the analyser returns
  cached                 \* whether the verdict enters the cache

vars == <<kind, scores, faces, threshold, fault, pc, inference, result, rows, risk, status, cached>>
given == <<kind, scores, faces, threshold, fault>>

(***************************************************************************)
(* Fractions.                                                              *)
(***************************************************************************)
Frac(n, d) == [n |-> n, d |-> d]
Leq(a, b) == IF a.d = b.d THEN a.n <= b.n ELSE a.n * b.d <= b.n * a.d
Larger(a, b) == IF Leq(a, b) THEN b ELSE a
Plus(a, b) == Frac(a.n * b.d + b.n * a.d, a.d * b.d)
Times(k, d, a) == Frac(k * a.n, d * a.d)
Half == Frac(1, 2)

Total(f, S) == FoldFunctionOnSet(+, 0, f, S)

(***************************************************************************)
(* The ensembles.                                                          *)
(***************************************************************************)
Ran(v, group) == {s \in DOMAIN v : Group[s] = group}

\* Mutant of Mean: only the scores that find a fake are averaged.
MeanAlarms(v, S) ==
  LET A == {s \in S : 2 * v[s] >= Steps}
  IN IF A = {} THEN (IF S = {} THEN None ELSE Frac(0, 1))
     ELSE Frac(Total([s \in A |-> Auc[s] * v[s]], A), Steps * Total(Auc, A))

\* _weighted_mean, and the plain mean of the video faces.
Mean(v, S) ==
  IF S = {} THEN None ELSE Frac(Total([s \in S |-> Auc[s] * v[s]], S), Steps * Total(Auc, S))

\* image_ensemble_decide: the rule depends on which groups ran and on the face.
ImageRisk(v, detected) ==
  LET gen == Mean(v, Ran(v, "generalist"))
      face == Mean(v, Ran(v, "face"))
      n == Cardinality(Ran(v, "face"))
      w == NO_FACE_WEIGHT
  IN CASE gen = None -> face
       [] gen # None /\ face = None -> gen
       [] gen # None /\ face # None /\ detected /\ n >= 2 -> Larger(gen, face)
       [] gen # None /\ face # None /\ detected /\ n < 2 -> Plus(Times(1, 2, gen), Times(1, 2, face))
       [] OTHER -> Plus(Times(w.d - w.n, w.d, gen), Times(w.n, w.d, face))

\* ensemble_decide: face checkpoints count where enough frames had a face.
VideoRisk(v, n) ==
  LET face == Mean(v, Ran(v, "framed")) gen == Mean(v, Ran(v, "genvideo"))
      trusted == n >= MIN_FACE_FRAMES /\ face # None
  IN CASE trusted /\ gen # None -> Larger(face, gen)
       [] trusted /\ gen = None -> face
       [] OTHER -> gen

\* The clamped 1 - 2 sigma is zero where the variance reaches a quarter: of n scores,
\* 4 (n sum p^2 - (sum p)^2) >= n^2.
Opposed(v) ==
  LET S == DOMAIN v
      n == Cardinality(S)
      sum == Total(v, S)
      squares == Total([s \in S |-> v[s] * v[s]], S)
  IN 4 * (n * squares - sum * sum) >= Steps * Steps * n * n

\* Whether the confidence is above zero: one score counts 0.5, the audio model's always 1.
Confident(k, v) == v # <<>> /\ (k = "audio" \/ Cardinality(DOMAIN v) = 1 \/ ~Opposed(v))

(***************************************************************************)
(* The engines.                                                            *)
(***************************************************************************)
\* _calibrate moves the model's threshold to one half.
Calibrated(raw, t) ==
  IF Leq(raw, t) THEN Frac(raw.n * t.d, 2 * raw.d * t.n)
  ELSE Plus(Half, Frac((raw.n * t.d - t.n * raw.d), 2 * raw.d * (t.d - t.n)))

Neutral == [fake |-> Half, confident |-> FALSE, votes |-> {}]

\* neutral_result where the inference failed or has no number.
EngineResult(k, i, t) ==
  IF i = None \/ i.score = None THEN Neutral
  ELSE [fake |-> IF k = "audio" THEN Calibrated(i.score, t) ELSE i.score,
        confident |-> i.confident, votes |-> DOMAIN scores]

(***************************************************************************)
(* The analyser.                                                           *)
(***************************************************************************)
\* _status bands the score whatever the modality.
Band(p) ==
  CASE Leq(Frac(13, 20), p) -> "manipulated" [] Leq(p, Frac(7, 20)) -> "authentic"
    [] OTHER -> "inconclusive"

\* Mutant of Label: the confidence is not asked.
LabelUnheard(r) == IF Leq(Half, r.fake) THEN "SYNTHETIC" ELSE "AUTHENTIC"

Label(r) ==
  IF ~r.confident THEN "INCONCLUSIVE" ELSE IF Leq(Half, r.fake) THEN "SYNTHETIC" ELSE "AUTHENTIC"

Summary(r) == [tier |-> "summary", label |-> Label(r), confident |-> r.confident]
Checkpoint(s) == [tier |-> "checkpoint", slug |-> s, label |-> IF 2 * scores[s] >= Steps THEN "SYNTHETIC" ELSE "AUTHENTIC"]
Secondary == [tier |-> "secondary", label |-> "INFO"]

\* _has_signal reads the summary row.
Signal == \E r \in rows : r.tier = "summary" /\ r.confident

-----------------------------------------------------------------------------
Init ==
  /\ kind \in Kinds
  /\ scores \in UNION {[S -> Grid] : S \in SUBSET SlugsOf(kind)}
  /\ faces \in IF kind = "audio" THEN {0} ELSE Frames
  /\ threshold \in IF kind = "audio" THEN Threshold ELSE {Half}
  /\ fault \in {"none", "pipeline", "registry", "srm"}
  /\ pc = "predict" /\ inference = None /\ result = None
  /\ rows = {} /\ risk = None /\ status = None /\ cached = FALSE

Score(k, v) ==
  CASE k = "image" -> ImageRisk(v, faces > 0) [] k = "video" -> VideoRisk(v, faces)
    [] OTHER -> Mean(v, Ran(v, "wavlm"))

\* predict: the ensemble's score and its own verdict.
Predict ==
  /\ pc = "predict" /\ fault \notin {"pipeline", "registry"}
  /\ LET p == Score(kind, scores)
     IN inference' = [score |-> p, confident |-> Confident(kind, scores),
                      verdict |-> IF p = None THEN "UNKNOWN" ELSE IF Leq(threshold, p) THEN "FAKE" ELSE "REAL"]
  /\ pc' = "engine"
  /\ UNCHANGED <<given, result, rows, risk, status, cached>>

\* The pipeline raises or returns no inference of this kind; the engine never raises.
PredictFails ==
  /\ pc = "predict" /\ fault = "pipeline"
  /\ pc' = "engine"
  /\ UNCHANGED <<given, inference, result, rows, risk, status, cached>>

\* No engine: the only way the analyser says failed, and the task raises on it.
Unregistered ==
  /\ pc = "predict" /\ fault = "registry"
  /\ status' = "failed" /\ risk' = Frac(0, 1) /\ pc' = "failed"
  /\ UNCHANGED <<given, inference, result, rows, cached>>

Analyze ==
  /\ pc = "engine"
  /\ result' = EngineResult(kind, inference, threshold)
  /\ pc' = "analyse"
  /\ UNCHANGED <<given, inference, rows, risk, status, cached>>

\* _analyse_with_engine and _analyse_audio; the latter gives no row for a checkpoint.
Analyse ==
  /\ pc = "analyse"
  /\ risk' = result.fake
  /\ status' = IF result.confident THEN Band(result.fake) ELSE "inconclusive"
  /\ rows' = {Summary(result)} \cup
             (IF kind = "audio" THEN {} ELSE {Checkpoint(s) : s \in result.votes})
  /\ pc' = IF kind = "audio" THEN "store" ELSE "srm"
  /\ UNCHANGED <<given, inference, result, cached>>

\* The SRM pass adds a row of its own, or nothing.
Supplement ==
  /\ pc = "srm"
  /\ rows' = IF fault = "srm" THEN rows ELSE rows \cup {Secondary}
  /\ pc' = "store"
  /\ UNCHANGED <<given, inference, result, risk, status, cached>>

\* The task stores the rows and caches a verdict some engine gave.
Store ==
  /\ pc = "store"
  /\ cached' = Signal /\ pc' = "done"
  /\ UNCHANGED <<given, inference, result, rows, risk, status>>

Next == Predict \/ PredictFails \/ Unregistered \/ Analyze \/ Analyse \/ Supplement \/ Store

Spec == Init /\ [][Next]_vars

-----------------------------------------------------------------------------
Done == pc = "done"
SummaryRow == CHOOSE r \in rows : r.tier = "summary"

\* Status, risk and rows stay within what the console and the database know.
TypeOK ==
  /\ pc \in {"predict", "engine", "analyse", "srm", "store", "done", "failed"}
  /\ status \in {None, "manipulated", "authentic", "inconclusive", "failed"}
  /\ risk # None => risk.d > 0 /\ 0 <= risk.n /\ risk.n <= risk.d
  /\ rows # {} => Cardinality({r \in rows : r.tier = "summary"}) = 1

\* Every layer decides from another number - the inferencer's threshold, the analyser's bands, the
\* summary label, the cache's confidence - and they never contradict one another.
LayersAgree ==
  Done =>
    /\ cached <=> SummaryRow.label # "INCONCLUSIVE"
    /\ status = "manipulated" => SummaryRow.label = "SYNTHETIC"
    /\ status = "authentic" => SummaryRow.label = "AUTHENTIC"
    /\ cached => (inference.verdict = "FAKE" <=> SummaryRow.label = "SYNTHETIC")

\* A checkpoint that finds more evidence of a fake never makes the case look more genuine, whichever
\* of the rules the number of checkpoints selects.
EvidenceNeverClears ==
  \A s \in DOMAIN scores : \A g \in Grid :
    LET p == Score(kind, scores) q == Score(kind, [scores EXCEPT ![s] = g])
    IN pc = "predict" /\ g >= scores[s] /\ p # None => Leq(p, q)
=============================================================================
