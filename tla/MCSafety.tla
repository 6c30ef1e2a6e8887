------------------------------- MODULE MCSafety -------------------------------
(***************************************************************************)
(* Small instances, side by side, of the parts whose properties are        *)
(* invariants: what guards the API (RateLimit, StreamSlots), the download  *)
(* (UrlFetch), the evidence and the cache (Evidence), preprocessing        *)
(* (PreprocessCache), the models (ModelLoading), the verdict (Verdicts)    *)
(* and the training data (TrainingData).  They share no state; a behaviour *)
(* explores one of the Parts.  MaxTime bounds the clock.                   *)
(***************************************************************************)
EXTENDS RateLimitState, StreamSlots, SequencesExt

CONSTANTS
  Parts, MaxTime, None,
  s1, s2, s3, p1, p2,                                     \* streams and API processes
  Url, MAX_REDIRECTS, MIN_DOWNLOAD, MAX_DOWNLOAD, MaxSize, MAX_ATTEMPTS,
  Case, Upload, Paged, Content, Bytes, MaxDeaths, MaxChanges, Deleted, u1, l1, x1, x2,
  Run, MaxKills, Forcing,
  Media, Kind, Face, Order, Part, Embedded, Crop, Remote, Exported,
  MaxPerChild, MaxAttempts, MaxTasks, MaxSyncs, i1, i2, w1, m1, m2, m3,
  Slug, Group, Auc, Steps, Grid, Frames, Threshold, MIN_FACE_FRAMES, NO_FACE_WEIGHT,
  Clip, Real, Orig, Shuffled, CapReal, CapFake, TrainShare, ValShare, MaxFaults, r1, r2, f1

VARIABLES
  part,
  fetching, current, visited, body, reason, broken, try,
  row, stored, payload, alias, page, api, del, work, attempt, sha, hit, changes, deaths, fresh,
  repointed, overlapped,
  file, stage, forced, found, handed, outcome, kills, mixed,
  disk, audio, sync, syncs, report, proc, job, tasks, shown, cases, waited,
  kind, scores, faces, threshold, fault, step, inference, result, rows, risk, status, cached,
  ds, phase, dl, pp, packed, raw, meta, stamp, frames, todo, cur, clips, truth, manifest, trained,
  failures, torn, odd, cut

limitVars == <<now, log, expires, recent, refused>>
fetchVars == <<fetching, current, visited, body, reason, broken, try>>
evidenceVars ==
  <<row, stored, payload, alias, page, api, del, work, attempt, sha, hit, changes, deaths, fresh,
    repointed, overlapped>>
preVars == <<file, stage, forced, found, handed, outcome, kills, mixed>>
modelVars == <<disk, audio, sync, syncs, report, proc, job, tasks, shown, cases, waited>>
verdictVars ==
  <<kind, scores, faces, threshold, fault, step, inference, result, rows, risk, status, cached>>
trainingVars ==
  <<ds, phase, dl, pp, packed, raw, meta, stamp, frames, todo, cur, clips, truth, manifest, trained,
    failures, torn, odd, cut>>

L == INSTANCE RateLimit
U == INSTANCE UrlFetch WITH pc <- fetching, seen <- visited, attempt <- try
E == INSTANCE Evidence WITH disk <- stored
P == INSTANCE PreprocessCache WITH pc <- stage, given <- handed
M == INSTANCE ModelLoading WITH cached <- cases
V == INSTANCE Verdicts WITH pc <- step
T == INSTANCE TrainingData WITH
  pc <- phase, cache <- frames, rows <- clips, seen <- trained, faults <- failures, hit <- torn

\* What the proofs need of the constants.
\* The limits of a download (config.py) are numbers, and a task is tried at least once.
ASSUME FetchAssumption ==
  /\ MAX_REDIRECTS \in Nat /\ MIN_DOWNLOAD \in Nat /\ MAX_DOWNLOAD \in Nat
  /\ MaxSize \in Nat /\ MAX_ATTEMPTS \in Nat \ {0}

\* None names no content, no file and no payload; MaxDeaths bounds the deaths of workers.
ASSUME EvidenceAssumption ==
  /\ Upload \subseteq Case /\ Bytes \in [Upload -> Content] /\ MaxDeaths \in Nat
  /\ None \notin Content /\ None \notin E!File /\ None \notin [file : E!File \cup {None}]

\* None names no run and no way a run ends; MaxKills bounds the kills and failed writes.
ASSUME PreAssumption ==
  None \notin Run \cup {"scored", "failed", "undecodable", "killed", "unwritten"} /\ MaxKills \in Nat

\* The curriculum is finite, each of its checkpoints is of one ensemble, and a child runs some task.
ASSUME ModelAssumption ==
  /\ Len(Order) \in Nat /\ Part \in [M!Slugs -> M!Ensemble] /\ Kind \in [Media -> {"image", "video", "audio"}]
  /\ MaxPerChild \in Nat \ {0} /\ MaxAttempts \in Nat \ {0} /\ Exported \in BOOLEAN

\* The checkpoints are finitely many and weigh something, a threshold lies strictly between 0 and 1
\* (_calibrate clamps it there), and None names no fraction.
ASSUME VerdictAssumption ==
  /\ IsFiniteSet(Slug) /\ Auc \in [Slug -> Nat \ {0}] /\ Steps \in Nat \ {0} /\ Grid \subseteq 0..Steps
  /\ \A t \in Threshold : t \in [n : Nat \ {0}, d : Nat] /\ t.n < t.d
  /\ NO_FACE_WEIGHT \in [n : Nat, d : Nat \ {0}] /\ NO_FACE_WEIGHT.n <= NO_FACE_WEIGHT.d
  /\ None \notin [n : Nat, d : Nat]

\* A shuffle is of what was shuffled; MaxFaults bounds the crashes and full disks.
ASSUME DataAssumption == (\A S \in SUBSET Clip : Shuffled[S] \in Seq(S)) /\ MaxFaults \in Nat

\* s1 and s2 are served by one process, s3 by the other.
TwoHomes == [s \in Stream |-> IF s \in {s1, s2} THEN p1 ELSE p2]
AnyFault == [f \in Fault |-> 1]

\* The bytes of the upload.
FirstBytes == [c \in Upload |-> x1]

\* Two image checkpoints, of the first only its configuration in the remote folder, the second
\* complete there, and a video checkpoint whose head nothing vouches for; a picture, a recording
\* and a clip.
KindOf == [c \in Media |-> IF c = m2 THEN "video" ELSE IF c = m3 THEN "audio" ELSE "image"]
Curriculum == <<i1, i2, w1>>
Pictures == [s \in {i1, i2, w1} |-> IF s = w1 THEN "video" ELSE "image"]
Folder ==
  [s \in {i1, i2, w1} |->
    {"config"} \cup (IF s = i1 THEN {} ELSE {"weights"}) \cup (IF s = i2 THEN {"head"} ELSE {})]

\* Two checkpoints of each group that votes as one, one of the others.
GroupOf ==
  [g1 |-> "generalist", g2 |-> "generalist", f1 |-> "face", f2 |-> "face",
   v1 |-> "framed", v2 |-> "framed", gv |-> "genvideo", a1 |-> "wavlm"]
Weight == [s \in DOMAIN GroupOf |-> IF s \in {"g2", "f2"} THEN 7 ELSE 6]
Thresholds == {[n |-> 1, d |-> 20], [n |-> 1, d |-> 2]}
Fifth == [n |-> 1, d |-> 5]

\* Two real clips, and one made from the first.
Origin == [c \in Clip |-> IF c = f1 THEN r1 ELSE c]
Turn(s) == IF Len(s) % 2 = 0 THEN s ELSE Reverse(s)
Dealt == [S \in SUBSET Clip |-> Turn(SetToSeq(S))]

\* Which free name a request takes makes no difference: the least.
Least ==
  \A e \in recent' \ recent, k \in Member :
    k < e.member => \E f \in recent' \cup log' : f.member = k

\* Two failures at most, of any kinds.
Rare == Cardinality({f \in Fault : spent'[f] > 0}) <= 2

\* An upload is run once, and no worker dies beside it, nor beside the retry it has published.
Calm ==
  /\ \A d \in E!Delivery : d[1] \in Upload /\ d[2] > 1 => work'[d] = "unsent"
  /\ deaths' > 0 => ~overlapped' /\ \A c \in Upload : api'[c] = "start"

\* A part that is not explored starts from one of its initial states.
Idle(p, pinned) == IF part = p THEN TRUE ELSE pinned
SafetyInit ==
  /\ part \in Parts
  /\ Idle("fetch", current = CHOOSE u \in Url : TRUE)
  /\ page = x1
  /\ Idle("preprocess", forced = {})
  /\ Idle("models", audio = "absent")
  /\ Idle("verdicts", kind = "audio" /\ scores = <<>> /\ threshold = V!Half /\ fault = "none")
  /\ Idle("data", ds = "ffpp")
  /\ L!Init /\ Init /\ U!Init /\ E!Init /\ P!Init /\ M!Init /\ V!Init /\ T!Init

Limited ==
  /\ part = "limit" /\ L!Next /\ now' <= MaxTime /\ Least
  /\ UNCHANGED <<part, vars, fetchVars, evidenceVars, preVars, modelVars, verdictVars,
                trainingVars>>
Capped ==
  /\ part = "slots" /\ Next /\ Rare
  /\ UNCHANGED <<part, limitVars, fetchVars, evidenceVars, preVars, modelVars, verdictVars,
                trainingVars>>
Fetches ==
  /\ part = "fetch" /\ U!Next
  /\ UNCHANGED <<part, limitVars, vars, evidenceVars, preVars, modelVars, verdictVars,
                trainingVars>>
Keeps ==
  /\ part = "evidence" /\ E!Next /\ Calm
  /\ UNCHANGED <<part, limitVars, vars, fetchVars, preVars, modelVars, verdictVars, trainingVars>>
Preprocesses ==
  /\ part = "preprocess" /\ P!Next
  /\ UNCHANGED <<part, limitVars, vars, fetchVars, evidenceVars, modelVars, verdictVars,
                trainingVars>>
Scores ==
  /\ part = "models" /\ M!Next
  /\ UNCHANGED <<part, limitVars, vars, fetchVars, evidenceVars, preVars, verdictVars,
                trainingVars>>
Decides ==
  /\ part = "verdicts" /\ V!Next
  /\ UNCHANGED <<part, limitVars, vars, fetchVars, evidenceVars, preVars, modelVars,
                trainingVars>>
Prepares ==
  /\ part = "data" /\ T!Next
  /\ UNCHANGED <<part, limitVars, vars, fetchVars, evidenceVars, preVars, modelVars, verdictVars>>

safetyVars ==
  <<part, limitVars, vars, fetchVars, evidenceVars, preVars, modelVars, verdictVars, trainingVars>>
SafetyNext ==
  Limited \/ Capped \/ Fetches \/ Keeps \/ Preprocesses \/ Scores \/ Decides \/ Prepares
SafetySpec == SafetyInit /\ [][SafetyNext]_safetyVars

\* The type invariants of all parts.
TypesOK ==
  /\ L!TypeOK /\ TypeOK /\ U!TypeOK /\ E!TypeOK
  /\ P!TypeOK /\ M!TypeOK /\ V!TypeOK /\ T!TypeOK

\* The properties of the parts, stated there.
RejectedForGood == U!RejectedForGood
OwnFileStays == E!OwnFileStays
EvidenceMatchesVerdict == E!EvidenceMatchesVerdict
UrlHitIsCurrent == E!UrlHitIsCurrent
MarkerVouches == P!MarkerVouches
FailuresExplained == P!FailuresExplained
HeadsAreTrained == M!HeadsAreTrained
StaleForOneChild == M!StaleForOneChild
StubNeedsAudioFirst == M!StubNeedsAudioFirst
UntrainedIsSilent == M!UntrainedIsSilent
LayersAgree == V!LayersAgree
EvidenceNeverClears == V!EvidenceNeverClears
MarkedIsFetched == T!MarkedIsFetched
ListedLoads == T!ListedLoads
TestUnseen == T!TestUnseen
SourcesTogether == T!SourcesTogether
=============================================================================
