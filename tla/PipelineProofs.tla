-------------------------- MODULE PipelineProofs --------------------------
(***************************************************************************)
(* Theorems about the models and their arrival (ModelLoading), the         *)
(* preprocessing cache (PreprocessCache) and the training data             *)
(* (TrainingData), for any curriculum, any number of runs over a media     *)
(* file, any clips and shuffles, and any number of crashes and kills. Each *)
(* has an inductive invariant that says what the parts of the state know   *)
(* of one another: what a process found of what is on disk, who has a      *)
(* cache file open, what a marker says of the files before it.             *)
(*                                                                         *)
(* At the end, what is proved of each part is proved of the specification  *)
(* that composes them (MCSafety), and the types of all of them.            *)
(***************************************************************************)
EXTENDS ServingProofs, StreamSlotsProofs

(***************************************************************************)
(* The checkpoints and the worker processes that load them.                *)
(***************************************************************************)
Heads == {"adapter", "file", "none"}
Lists == UNION {[S -> Heads] : S \in SUBSET (1..Len(Order))}
ProcType ==
  [ready : SUBSET M!Ensemble, found : [M!Ensemble -> Lists], loaded : SUBSET M!Slugs,
   ran : 0..MaxPerChild - 1, booted : BOOLEAN, env : BOOLEAN, engine : {"none", "stub", "wavlm"},
   model : {"none", "random", "trained"}, first : {"none", "image", "video", "audio"}, hadAudio : BOOLEAN]
JobType ==
  [pc : {"preflight", "setup", "score"}, of : Media, todo : SUBSET (1..Len(Order)),
   by : SUBSET M!Record, asked : SUBSET M!Slugs]
ShownType ==
  [state : {"none", "retrying", "failed", "verdict", "inconclusive"}, by : SUBSET M!Record,
   tries : Nat]

ModelTypes ==
  /\ disk \in [M!Slugs -> SUBSET M!File] /\ audio \in {"absent", "partial", "whole"}
  /\ proc \in ProcType /\ job \in JobType \cup {M!Idle}
  /\ shown \in [Media -> ShownType] /\ cases \in [Media -> SUBSET M!Record]
  /\ waited \in [M!Slugs -> Nat]

\* A task that has not been set up holds nothing, and its process knows what it came for first.
JobInv ==
  /\ job.pc # "idle" => job \in JobType /\ proc.first # "none"
  /\ job.pc \in {"preflight", "setup"} => job.todo = {} /\ job.by = {} /\ job.asked = {}
  /\ job.pc = "score" /\ Kind[job.of] = "audio" => job.todo = {}
  /\ job.pc = "score" /\ Kind[job.of] # "audio" =>
       Kind[job.of] \in proc.ready /\ job.todo \subseteq DOMAIN proc.found[Kind[job.of]]

\* The lists a process found name checkpoints that are there, and one head for each.
FoundInv ==
  \A e \in M!Ensemble : \A i \in DOMAIN proc.found[e] :
    /\ Part[Order[i]] = e /\ M!Present(Order[i])
    /\ \A j \in DOMAIN proc.found[e] : Order[i] = Order[j] => proc.found[e][i] = proc.found[e][j]

\* A loaded model has its weights, and, if it is one of the image ensemble, its process found a head for
\* it.
LoadedInv ==
  \A s \in proc.loaded :
    /\ {"config", "weights"} \subseteq disk[s] /\ Part[s] \in proc.ready
    /\ M!Asked(s) => \A i \in DOMAIN proc.found[Part[s]] : Order[i] = s => proc.found[Part[s]][i] # "none"

Complete(k) ==
  k.slug # "audio" => {"config", "weights"} \subseteq disk[k.slug] /\ (M!Asked(k.slug) => k.head # "none")
ScoreInv == job.pc # "idle" => \A k \in job.by : Complete(k)

\* The environment was set when the process was set up, and the engine was chosen by it.
EngineInv ==
  /\ proc.hadAudio => audio = "whole"
  /\ proc.booted /\ proc.hadAudio => proc.env
  /\ proc.first \notin {"none", "audio"} =>
       proc.booted \/ (job.pc = "preflight" /\ Kind[job.of] # "audio")

\* A checkpoint left out is complete; it was left out by this process alone, or the next one has it.
Has(s) == Part[s] \in proc.ready => \E i \in DOMAIN proc.found[Part[s]] : Order[i] = s
WaitInv ==
  /\ \A s \in M!Slugs : waited[s] > 0 => M!Usable(s)
  /\ \A s \in M!Slugs : waited[s] <= proc.ran \/ (waited[s] <= MaxPerChild /\ Has(s))
  /\ job.pc = "score" /\ Kind[job.of] # "audio" =>
       \A i \in DOMAIN proc.found[Kind[job.of]] :
         i \in job.todo \/ Order[i] \in job.asked \/ (Order[i] \in Crop /\ job.of \notin Face)

ModelInv ==
  /\ ModelTypes /\ JobInv /\ FoundInv /\ LoadedInv /\ ScoreInv /\ HeadsAreTrained
  /\ EngineInv /\ StubNeedsAudioFirst /\ WaitInv

\* A new child process has found nothing, loaded nothing and chosen no engine; the weights it will see
\* are those there when it is forked.
LEMMA FreshProc ==
  ASSUME ModelTypes
  PROVE  /\ M!Fresh \in ProcType
         /\ M!Fresh.ready = {} /\ M!Fresh.loaded = {} /\ M!Fresh.ran = 0 /\ ~M!Fresh.booted /\ M!Fresh.engine = "none"
         /\ M!Fresh.first = "none" /\ M!Fresh.hadAudio = (audio = "whole")
         /\ \A e \in M!Ensemble : DOMAIN M!Fresh.found[e] = {}
<1>1. <<>> \in Lists /\ DOMAIN <<>> = {}
  <2>1. <<>> = [i \in {} |-> "none"]
    OBVIOUS
  <2>2. QED
    BY <2>1 DEF Lists, Heads
<1>2. QED
  BY <1>1, ModelAssumption DEF M!Fresh, ProcType

\* Setting a process up reads the environment once, and changes nothing else.
LEMMA BootedProc ==
  ASSUME NEW p \in ProcType
  PROVE  LET q == M!Booted(p)
         IN /\ q \in ProcType /\ q.booted
            /\ q.env = IF p.booted THEN p.env ELSE p.env \/ audio # "absent"
            /\ q.ready = p.ready /\ q.found = p.found /\ q.loaded = p.loaded /\ q.ran = p.ran
            /\ q.engine = p.engine /\ q.first = p.first /\ q.hadAudio = p.hadAudio
BY DEF M!Booted, ProcType

\* The audio engine is chosen once, by the environment the process was set up with.
LEMMA WithEngineProc ==
  ASSUME NEW p \in ProcType
  PROVE  LET q == M!WithEngine(p)
         IN /\ q \in ProcType
            /\ q.engine = IF p.engine # "none" THEN p.engine ELSE IF p.env THEN "wavlm" ELSE "stub"
            /\ q.ready = p.ready /\ q.found = p.found /\ q.loaded = p.loaded /\ q.ran = p.ran
            /\ q.booted = p.booted /\ q.env = p.env /\ q.first = p.first /\ q.hadAudio = p.hadAudio
BY DEF M!WithEngine, ProcType

\* A process that has run MaxPerChild tasks is replaced by a new one; any other goes on with one more
\* task behind it.
LEMMA EndedProc ==
  ASSUME ModelTypes, NEW p \in ProcType
  PROVE  LET q == M!Ended(p)
         IN /\ q \in ProcType
            /\ \/ q = M!Fresh /\ p.ran + 1 = MaxPerChild
               \/ /\ p.ran + 1 < MaxPerChild /\ q.ran = p.ran + 1
                  /\ q.ready = p.ready /\ q.found = p.found /\ q.loaded = p.loaded
                  /\ q.booted = p.booted /\ q.env = p.env /\ q.first = p.first /\ q.hadAudio = p.hadAudio
                  /\ q.engine = p.engine
<1>1. p.ran \in 0..MaxPerChild - 1 /\ MaxPerChild \in Nat \ {0}
  BY ModelAssumption DEF ProcType
<1>2. CASE p.ran + 1 >= MaxPerChild
  BY <1>1, <1>2, FreshProc DEF M!Ended
<1>3. CASE ~(p.ran + 1 >= MaxPerChild)
  <2>1. M!Ended(p) = [p EXCEPT !.ran = p.ran + 1]
    BY <1>3 DEF M!Ended
  <2>2. p.ran + 1 < MaxPerChild /\ p.ran + 1 \in 0..MaxPerChild - 1
    BY <1>1, <1>3
  <2>3. QED
    BY <2>1, <2>2 DEF ProcType
<1>4. QED
  BY <1>2, <1>3

\* Discovery lists the places of the curriculum whose checkpoint is there, each with the head it has at
\* that moment.
LEMMA DiscoveredLists ==
  ASSUME ModelTypes, NEW e \in M!Ensemble
  PROVE  /\ M!Discovered(e) \in Lists
         /\ DOMAIN M!Discovered(e) = {i \in 1..Len(Order) : Part[Order[i]] = e /\ M!Present(Order[i])}
         /\ \A i \in DOMAIN M!Discovered(e) : M!Discovered(e)[i] = M!HeadSource(Order[i])
<1> DEFINE S == {j \in 1..Len(Order) : Part[Order[j]] = e /\ M!Present(Order[j])}
<1>1. M!Discovered(e) = [i \in S |-> M!HeadSource(Order[i])]
  BY DEF M!Discovered
<1>2. \A i \in S : M!HeadSource(Order[i]) \in Heads
  BY DEF M!HeadSource, Heads
<1>3. S \in SUBSET (1..Len(Order))
  OBVIOUS
<1> HIDE DEF S
<1>4. M!Discovered(e) \in [S -> Heads]
  BY <1>1, <1>2
<1>5. M!Discovered(e) \in Lists
  BY <1>3, <1>4 DEF Lists
<1>6. QED
  BY <1>1, <1>5 DEF S

-----------------------------------------------------------------------------
\* The invariant, by its parts.
LEMMA ModelParts ==
  ModelInv <=> /\ ModelTypes /\ JobInv /\ FoundInv /\ LoadedInv /\ ScoreInv /\ HeadsAreTrained
               /\ EngineInv /\ StubNeedsAudioFirst /\ WaitInv
BY DEF ModelInv

\* At the start no process has been set up, and nothing has been shown.
LEMMA ModelInit == M!Init => ModelInv
<1> SUFFICES ASSUME M!Init PROVE ModelInv
  OBVIOUS
<1>1. ModelTypes
  <2>1. /\ disk \in [M!Slugs -> SUBSET M!File] /\ audio \in {"absent", "partial", "whole"}
        /\ job = M!Idle /\ proc = M!Fresh /\ waited \in [M!Slugs -> Nat]
        /\ shown \in [Media -> ShownType] /\ cases \in [Media -> SUBSET M!Record]
    BY ModelAssumption DEF M!Init, M!Nothing, ShownType
  <2>2. M!Fresh \in ProcType
    <3>1. <<>> \in Lists
      <4>1. <<>> = [i \in {} |-> "none"]
        OBVIOUS
      <4>2. QED
        BY <4>1 DEF Lists, Heads
    <3>2. QED
      BY <3>1, ModelAssumption DEF M!Fresh, ProcType
  <2>3. QED
    BY <2>1, <2>2 DEF ModelTypes
<1>2. proc = M!Fresh /\ job = M!Idle /\ job.pc = "idle"
  BY DEF M!Init, M!Idle
<1>3. /\ \A c \in Media : shown[c].by = {} /\ cases[c] = {}
      /\ \A s \in M!Slugs : waited[s] = 0
  BY DEF M!Init, M!Nothing
<1>4. QED
  BY <1>1, <1>2, <1>3, FreshProc
  DEF ModelInv, JobInv, FoundInv, LoadedInv, ScoreInv, HeadsAreTrained, M!HeadsAreTrained, EngineInv,
      StubNeedsAudioFirst, M!StubNeedsAudioFirst, WaitInv, ModelTypes, ProcType

\* Weights that arrive only add files, and the audio weights only grow: a step of the sync that leaves
\* the worker alone keeps the invariant.
LEMMA ArriveStep ==
  ASSUME ModelInv, UNCHANGED <<proc, job, shown, cases, waited>>,
         disk' \in [M!Slugs -> SUBSET M!File], audio' \in {"absent", "partial", "whole"},
         \A s \in M!Slugs : disk[s] \subseteq disk'[s], audio = "whole" => audio' = "whole"
  PROVE  ModelInv'
<1>i. ModelTypes /\ JobInv /\ FoundInv /\ LoadedInv /\ ScoreInv /\ HeadsAreTrained
      /\ EngineInv /\ StubNeedsAudioFirst /\ WaitInv
  BY DEF ModelInv
<1>p. proc.loaded \subseteq M!Slugs /\ \A s \in M!Slugs : M!Present(s) => M!Present(s)'
  BY <1>i DEF ModelTypes, ProcType, M!Present
<1>1. ModelTypes' /\ JobInv'
  BY <1>i DEF ModelTypes, JobInv
<1>2. FoundInv'
  <2>1. \A e \in M!Ensemble : \A i \in DOMAIN proc.found[e] : Order[i] \in M!Slugs
    BY <1>i DEF ModelTypes, ProcType, Lists, M!Slugs
  <2>2. QED
    BY <1>i, <1>p, <2>1 DEF FoundInv
<1>3. LoadedInv'
  BY <1>i, <1>p DEF LoadedInv
<1>4. ScoreInv' /\ HeadsAreTrained'
  <2>1. \A k \in M!Record : Complete(k) => Complete(k)'
    BY DEF M!Record, Complete
  <2>2. ScoreInv'
    BY <1>i, <2>1 DEF ScoreInv, ModelTypes, JobType, JobInv
  <2>3. HeadsAreTrained'
    BY <1>i, <2>1 DEF HeadsAreTrained, M!HeadsAreTrained, Complete, ModelTypes, ShownType
  <2>4. QED
    BY <2>2, <2>3
<1>5. EngineInv' /\ StubNeedsAudioFirst'
  BY <1>i DEF EngineInv, StubNeedsAudioFirst, M!StubNeedsAudioFirst
<1>6. WaitInv'
  BY <1>i DEF WaitInv, M!Usable, Has
<1>7. QED
  BY <1>1, <1>2, <1>3, <1>4, <1>5, <1>6 DEF ModelInv

\* Taking a task from the queue remembers what the process came for first.
LEMMA TakeStep ==
  ASSUME ModelInv, NEW c \in Media, M!Take(c)
  PROVE  ModelInv'
<1>i. ModelTypes /\ JobInv /\ FoundInv /\ LoadedInv /\ ScoreInv /\ HeadsAreTrained
      /\ EngineInv /\ StubNeedsAudioFirst /\ WaitInv /\ Kind[c] \in {"image", "video", "audio"}
  BY ModelAssumption DEF ModelInv
<1>1. /\ job = M!Idle /\ job.pc = "idle" /\ UNCHANGED <<disk, audio, cases, waited>>
      /\ job' = [pc |-> "preflight", of |-> c, todo |-> {}, by |-> {}, asked |-> {}]
  BY DEF M!Take, M!files, M!Idle
<1>2. proc' = IF proc.first = "none" THEN [proc EXCEPT !.first = Kind[c]] ELSE proc
  BY DEF M!Take
<1>3. /\ proc' \in ProcType /\ proc'.first = IF proc.first = "none" THEN Kind[c] ELSE proc.first
      /\ proc'.ready = proc.ready /\ proc'.found = proc.found /\ proc'.loaded = proc.loaded
      /\ proc'.ran = proc.ran /\ proc'.booted = proc.booted /\ proc'.env = proc.env
      /\ proc'.engine = proc.engine /\ proc'.hadAudio = proc.hadAudio
  BY <1>i, <1>2 DEF ModelTypes, ProcType
<1>4. /\ shown' \in [Media -> ShownType] /\ \A d \in Media : shown'[d].by \subseteq shown[d].by
  BY <1>i, ModelAssumption DEF M!Take, ModelTypes, ShownType, M!Nothing
<1>5. ModelTypes' /\ JobInv'
  BY <1>i, <1>1, <1>3, <1>4 DEF ModelTypes, JobInv, JobType
<1>6. FoundInv' /\ LoadedInv' /\ ScoreInv'
  BY <1>i, <1>1, <1>3 DEF FoundInv, LoadedInv, ScoreInv, M!Present
<1>7. HeadsAreTrained'
  BY <1>i, <1>1, <1>4 DEF HeadsAreTrained, M!HeadsAreTrained
<1>8. EngineInv' /\ StubNeedsAudioFirst'
  BY <1>i, <1>1, <1>3 DEF EngineInv, StubNeedsAudioFirst, M!StubNeedsAudioFirst
<1>9. WaitInv'
  BY <1>i, <1>1, <1>3 DEF WaitInv, M!Usable, Has
<1>10. QED
  BY <1>5, <1>6, <1>7, <1>8, <1>9 DEF ModelInv

\* The check before a run of the models keeps the invariant: what it finds absent is not counted as
\* waiting.
LEMMA PreflightStep ==
  ASSUME ModelInv, M!Preflight
  PROVE  ModelInv'
<1>i. ModelTypes /\ JobInv /\ FoundInv /\ LoadedInv /\ ScoreInv /\ HeadsAreTrained
      /\ EngineInv /\ StubNeedsAudioFirst /\ WaitInv
  BY DEF ModelInv
<1>1. /\ job.pc = "preflight" /\ job \in JobType /\ UNCHANGED <<disk, audio, shown, cases, waited>>
      /\ job' = [job EXCEPT !.pc = "setup"]
      /\ proc' = IF Kind[job.of] = "audio" THEN proc ELSE M!Booted(proc)
  BY <1>i DEF M!Preflight, M!files, M!results, JobInv
<1>2. /\ job' \in JobType /\ job'.pc = "setup" /\ job'.of = job.of /\ job'.todo = job.todo
      /\ job'.by = job.by /\ job'.asked = job.asked
  BY <1>1 DEF JobType
<1>3. /\ proc' \in ProcType
      /\ proc'.ready = proc.ready /\ proc'.found = proc.found /\ proc'.loaded = proc.loaded
      /\ proc'.ran = proc.ran /\ proc'.engine = proc.engine /\ proc'.first = proc.first
      /\ proc'.hadAudio = proc.hadAudio
      /\ (Kind[job.of] # "audio" => proc'.booted) /\ (proc.booted => proc'.booted)
      /\ (proc'.booted /\ proc'.hadAudio => proc'.env)
  BY <1>i, <1>1, BootedProc DEF ModelTypes, EngineInv
<1>4. ModelTypes' /\ JobInv'
  BY <1>i, <1>1, <1>2, <1>3 DEF ModelTypes, JobInv
<1>5. FoundInv' /\ LoadedInv' /\ ScoreInv' /\ HeadsAreTrained'
  BY <1>i, <1>1, <1>2, <1>3 DEF FoundInv, LoadedInv, ScoreInv, M!Present, HeadsAreTrained, M!HeadsAreTrained, Complete
<1>6. EngineInv' /\ StubNeedsAudioFirst'
  BY <1>i, <1>1, <1>2, <1>3 DEF EngineInv, StubNeedsAudioFirst, M!StubNeedsAudioFirst
<1>7. WaitInv'
  BY <1>i, <1>1, <1>2, <1>3 DEF WaitInv, M!Usable, Has
<1>8. QED
  BY <1>4, <1>5, <1>6, <1>7 DEF ModelInv

\* A task that ends leaves the same process, or a new one with nothing found.
LEMMA EndStep ==
  ASSUME ModelInv, NEW p \in ProcType, proc' = M!Ended(p), job' = M!Idle, UNCHANGED <<disk, audio>>,
         p.ready = proc.ready, p.found = proc.found, p.loaded = proc.loaded, p.ran = proc.ran,
         p.engine = proc.engine, p.first = proc.first, p.hadAudio = proc.hadAudio,
         p.booted /\ p.hadAudio => p.env, p.first \notin {"none", "audio"} => p.booted
  PROVE  /\ proc' \in ProcType /\ job'.pc = "idle" /\ JobInv' /\ FoundInv' /\ LoadedInv' /\ ScoreInv' /\ EngineInv'
         /\ StubNeedsAudioFirst'
         /\ proc'.ran = proc.ran + 1 \/ (proc.ran + 1 = MaxPerChild /\ proc'.ready = {})
         /\ \A s \in M!Slugs : Has(s) => Has(s)'
<1>i. ModelTypes /\ JobInv /\ FoundInv /\ LoadedInv /\ ScoreInv /\ EngineInv /\ StubNeedsAudioFirst
  BY DEF ModelInv
<1>f. (M!Fresh)' = M!Fresh
  BY DEF M!Fresh
<1>1. job'.pc = "idle"
  BY DEF M!Idle
<1>2. CASE p.ran + 1 = MaxPerChild /\ proc' = M!Fresh
  BY <1>i, <1>1, <1>2, FreshProc
  DEF JobInv, FoundInv, LoadedInv, ScoreInv, EngineInv, StubNeedsAudioFirst, M!StubNeedsAudioFirst, Has
<1>3. CASE /\ proc' \in ProcType /\ proc'.ran = p.ran + 1
           /\ proc'.ready = p.ready /\ proc'.found = p.found /\ proc'.loaded = p.loaded
           /\ proc'.booted = p.booted /\ proc'.env = p.env /\ proc'.first = p.first
           /\ proc'.hadAudio = p.hadAudio /\ proc'.engine = p.engine
  BY <1>i, <1>1, <1>3
  DEF JobInv, FoundInv, LoadedInv, ScoreInv, EngineInv, StubNeedsAudioFirst, M!StubNeedsAudioFirst, Has, M!Present
<1>4. QED
  BY <1>i, <1>2, <1>3, EndedProc

\* A process that ends a task has one more behind it, so a checkpoint left out for as many tasks as it
\* ran is still left out by this process alone.
LEMMA EndedWait ==
  ASSUME ModelInv, job'.pc = "idle", UNCHANGED <<disk, waited>>, proc' \in ProcType,
         proc'.ran = proc.ran + 1 \/ (proc.ran + 1 = MaxPerChild /\ proc'.ready = {}),
         \A s \in M!Slugs : Has(s) => Has(s)'
  PROVE  WaitInv'
<1>1. ModelTypes /\ WaitInv
  BY DEF ModelInv
<1>2. proc.ran \in Nat /\ MaxPerChild \in Nat /\ \A s \in M!Slugs : waited[s] \in Nat
  BY <1>1, ModelAssumption DEF ModelTypes, ProcType
<1>3. proc'.ready = {} => \A s \in M!Slugs : Has(s)'
  BY DEF Has
<1>4. \A s \in M!Slugs : waited[s] <= proc.ran \/ (waited[s] <= MaxPerChild /\ Has(s)')
  BY <1>1 DEF WaitInv
<1>5. \A s \in M!Slugs : waited[s] <= proc'.ran \/ (waited[s] <= MaxPerChild /\ Has(s)')
  BY <1>2, <1>3, <1>4
<1>6. QED
  BY <1>1, <1>5 DEF WaitInv, M!Usable

\* A case refused for want of weights is retried or failed, and shows no score.
LEMMA UnavailableStep ==
  ASSUME ModelInv, M!Unavailable
  PROVE  ModelInv'
<1>i. ModelTypes /\ JobInv /\ FoundInv /\ LoadedInv /\ ScoreInv /\ HeadsAreTrained
      /\ EngineInv /\ StubNeedsAudioFirst /\ WaitInv
  BY DEF ModelInv
<1>1. /\ job.pc = "preflight" /\ Kind[job.of] # "audio" /\ job \in JobType /\ job.of \in Media
      /\ UNCHANGED <<disk, audio, cases, waited>> /\ job' = M!Idle /\ proc' = M!Ended(M!Booted(proc))
  BY <1>i DEF M!Unavailable, M!files, JobInv, JobType
<1>2. /\ proc' \in ProcType /\ job'.pc = "idle" /\ JobInv' /\ FoundInv' /\ LoadedInv' /\ ScoreInv' /\ EngineInv'
      /\ StubNeedsAudioFirst'
      /\ proc'.ran = proc.ran + 1 \/ (proc.ran + 1 = MaxPerChild /\ proc'.ready = {})
      /\ \A s \in M!Slugs : Has(s) => Has(s)'
  <2>1. M!Booted(proc) \in ProcType
    BY <1>i, BootedProc DEF ModelTypes
  <2>2. QED
    BY <1>i, <1>1, <2>1, BootedProc, EndStep DEF ModelTypes, EngineInv
<1>3. shown' \in [Media -> ShownType] /\ \A d \in Media : shown'[d].by = shown[d].by
  <2> DEFINE n == shown[job.of].tries + 1
             st == IF n >= MaxAttempts THEN "failed" ELSE "retrying"
  <2>1. shown' = [shown EXCEPT ![job.of] = [shown[job.of] EXCEPT !.tries = n, !.state = st]]
    BY <1>1, <1>i DEF M!Unavailable, ModelTypes, ShownType
  <2>2. n \in Nat /\ st \in {"failed", "retrying"}
    BY <1>1, <1>i DEF ModelTypes, ShownType
  <2> HIDE DEF n, st
  <2>3. QED
    BY <1>1, <1>i, <2>1, <2>2 DEF ModelTypes, ShownType
<1>4. ModelTypes' /\ HeadsAreTrained'
  BY <1>i, <1>1, <1>2, <1>3 DEF ModelTypes, HeadsAreTrained, M!HeadsAreTrained
<1>5. WaitInv'
  BY <1>i, <1>1, <1>2, EndedWait
<1>6. QED
  BY <1>2, <1>4, <1>5 DEF ModelInv

\* Setting up the inferencer of a kind lists what is on disk now; a list made earlier in this process
\* is kept.
LEMMA SetupStep ==
  ASSUME ModelInv, M!Setup
  PROVE  ModelInv'
<1>i. ModelTypes /\ JobInv /\ FoundInv /\ LoadedInv /\ ScoreInv /\ HeadsAreTrained
      /\ EngineInv /\ StubNeedsAudioFirst /\ WaitInv
  BY DEF ModelInv
<1> DEFINE e == Kind[job.of]
           list == IF e \in proc.ready THEN proc.found[e] ELSE M!Discovered(e)
<1>1. /\ job.pc = "setup" /\ e # "audio" /\ job \in JobType /\ e \in M!Ensemble
      /\ UNCHANGED <<disk, audio, shown, cases, waited>>
  BY <1>i, ModelAssumption DEF M!Setup, M!files, M!results, JobInv, JobType, M!Ensemble
<1>2. /\ list \in Lists
      /\ \A i \in DOMAIN list : Part[Order[i]] = e /\ M!Present(Order[i])
      /\ \A i, j \in DOMAIN list : Order[i] = Order[j] => list[i] = list[j]
      /\ e \notin proc.ready => \A s \in M!Slugs : Part[s] = e /\ M!Present(s) => \E i \in DOMAIN list : Order[i] = s
  <2>1. CASE e \in proc.ready
    BY <1>1, <1>i, <2>1 DEF ModelTypes, ProcType, FoundInv
  <2>2. CASE e \notin proc.ready
    <3>1. list = M!Discovered(e)
      BY <2>2
    <3>2. \A s \in M!Slugs : \E i \in 1..Len(Order) : Order[i] = s
      BY DEF M!Slugs
    <3> HIDE DEF list, e
    <3>3. /\ list \in Lists /\ DOMAIN list = {i \in 1..Len(Order) : Part[Order[i]] = e /\ M!Present(Order[i])}
          /\ \A i \in DOMAIN list : list[i] = M!HeadSource(Order[i])
      BY <1>1, <1>i, <3>1, DiscoveredLists
    <3>4. QED
      BY <3>2, <3>3
  <2>3. QED
    BY <2>1, <2>2
<1>3. /\ proc' = [M!WithEngine(proc) EXCEPT !.ready = @ \cup {e}, !.found[e] = list]
      /\ job' = [job EXCEPT !.pc = "score", !.todo = DOMAIN list]
  BY DEF M!Setup
<1>p. \A f \in M!Ensemble : f # e => proc'.found[f] = proc.found[f]
  BY <1>i, <1>3, WithEngineProc DEF ModelTypes, ProcType
<1>n. e \in proc.ready => list = proc.found[e]
  OBVIOUS
<1> HIDE DEF list, e
<1>4. /\ proc' \in ProcType /\ proc'.ready = proc.ready \cup {e} /\ proc'.found[e] = list
      /\ proc'.loaded = proc.loaded /\ proc'.ran = proc.ran /\ proc'.booted = proc.booted /\ proc'.env = proc.env
      /\ proc'.first = proc.first /\ proc'.hadAudio = proc.hadAudio
      /\ proc'.engine = IF proc.engine # "none" THEN proc.engine ELSE IF proc.env THEN "wavlm" ELSE "stub"
  <2>1. M!WithEngine(proc) \in ProcType
    BY <1>i, WithEngineProc DEF ModelTypes
  <2> DEFINE w == M!WithEngine(proc)
             lists == [w.found EXCEPT ![e] = list]
  <2>2. proc' = [w EXCEPT !.ready = w.ready \cup {e}, !.found = lists]
    BY <1>3, <2>1 DEF ProcType
  <2>3. lists \in [M!Ensemble -> Lists] /\ lists[e] = list /\ w \in ProcType
    BY <1>1, <1>2, <2>1 DEF ProcType
  <2>4. /\ w.ready = proc.ready /\ w.loaded = proc.loaded /\ w.ran = proc.ran /\ w.booted = proc.booted
        /\ w.env = proc.env /\ w.first = proc.first /\ w.hadAudio = proc.hadAudio
        /\ w.engine = IF proc.engine # "none" THEN proc.engine ELSE IF proc.env THEN "wavlm" ELSE "stub"
    BY <1>i, WithEngineProc DEF ModelTypes
  <2> HIDE DEF w, lists
  <2>5. proc' \in ProcType
    BY <1>1, <2>2, <2>3 DEF ProcType
  <2>6. /\ proc'.ready = w.ready \cup {e} /\ proc'.found = lists /\ proc'.loaded = w.loaded
        /\ proc'.ran = w.ran /\ proc'.booted = w.booted /\ proc'.env = w.env /\ proc'.first = w.first
        /\ proc'.hadAudio = w.hadAudio /\ proc'.engine = w.engine
    BY <2>2, <2>3 DEF ProcType
  <2>7. QED
    BY <2>3, <2>4, <2>5, <2>6
<1>5. /\ job' \in JobType /\ job'.pc = "score" /\ job'.of = job.of /\ job'.todo = DOMAIN list
      /\ job'.by = {} /\ job'.asked = {}
  <2>1. DOMAIN list \in SUBSET (1..Len(Order))
    BY <1>2 DEF Lists
  <2>2. QED
    BY <1>1, <1>3, <1>i, <2>1 DEF JobType, JobInv
<1>6. Kind[job'.of] = e
  BY <1>5 DEF e
<1>7. ModelTypes' /\ JobInv'
  BY <1>i, <1>1, <1>4, <1>5, <1>6 DEF ModelTypes, JobInv
<1>8. FoundInv'
  BY <1>i, <1>1, <1>2, <1>4, <1>p DEF FoundInv, M!Present
<1>9. LoadedInv'
  <2> SUFFICES ASSUME NEW s \in proc.loaded
               PROVE  /\ {"config", "weights"} \subseteq disk[s] /\ Part[s] \in proc'.ready
                      /\ M!Asked(s) => \A i \in DOMAIN proc'.found[Part[s]] :
                           Order[i] = s => proc'.found[Part[s]][i] # "none"
    BY <1>1, <1>4 DEF LoadedInv
  <2>1. Part[s] \in M!Ensemble /\ Part[s] \in proc.ready
    BY <1>i, ModelAssumption DEF LoadedInv, ModelTypes, ProcType
  <2>2. proc'.found[Part[s]] = proc.found[Part[s]]
    BY <1>4, <1>p, <1>n, <2>1
  <2>3. QED
    BY <1>i, <1>4, <2>1, <2>2 DEF LoadedInv
<1>10. ScoreInv' /\ HeadsAreTrained'
  BY <1>i, <1>1, <1>5 DEF ScoreInv, HeadsAreTrained, M!HeadsAreTrained
<1>11. EngineInv' /\ StubNeedsAudioFirst'
  BY <1>i, <1>1, <1>4, <1>5 DEF EngineInv, StubNeedsAudioFirst, M!StubNeedsAudioFirst, JobInv
<1>12. WaitInv'
  <2>1. ASSUME NEW s \in M!Slugs
        PROVE  waited'[s] <= proc'.ran \/ (waited'[s] <= MaxPerChild /\ Has(s)')
    <3>1. CASE Part[s] = e /\ e \notin proc.ready /\ waited[s] > 0
      BY <1>i, <1>1, <1>2, <1>4, <3>1 DEF WaitInv, M!Usable, M!Present, Has
    <3>2. CASE waited[s] = 0
      BY <1>i, <1>1, <1>4, <3>2 DEF ModelTypes, ProcType
    <3>3. CASE Part[s] # e \/ e \in proc.ready
      <4>1. Part[s] \in M!Ensemble
        BY ModelAssumption
      <4>2. Has(s) => Has(s)'
        BY <1>4, <1>p, <1>n, <3>3, <4>1 DEF Has
      <4>3. QED
        BY <1>i, <1>1, <1>4, <4>2 DEF WaitInv
    <3>4. QED
      BY <1>i, <3>1, <3>2, <3>3 DEF ModelTypes
  <2>2. QED
    BY <1>i, <1>1, <1>4, <1>5, <1>6, <2>1 DEF WaitInv, M!Usable
<1>13. QED
  BY <1>7, <1>8, <1>9, <1>10, <1>11, <1>12 DEF ModelInv

\* A checkpoint that scores is on the list, has its weights, and its head was there when it was listed.
LEMMA ScoreStep ==
  ASSUME ModelInv, M!Score
  PROVE  ModelInv'
<1>i. ModelTypes /\ JobInv /\ FoundInv /\ LoadedInv /\ ScoreInv /\ HeadsAreTrained
      /\ EngineInv /\ StubNeedsAudioFirst /\ WaitInv
  BY DEF ModelInv
<1> DEFINE e == Kind[job.of]
           k(i) == [slug |-> Order[i], head |-> proc.found[e][i]]
           fed(i) == Order[i] \in Crop => job.of \in Face
<1>1. PICK i \in job.todo :
        /\ proc' = IF fed(i) /\ M!Loads(k(i)) THEN [proc EXCEPT !.loaded = @ \cup {Order[i]}] ELSE proc
        /\ LET rest == [job EXCEPT !.todo = @ \ {i}, !.asked = IF fed(i) THEN @ \cup {Order[i]} ELSE @]
           IN job' = rest \/ (fed(i) /\ M!Loads(k(i)) /\ job' = [rest EXCEPT !.by = @ \cup {k(i)}])
  BY DEF M!Score
<1>2. /\ job.pc = "score" /\ job \in JobType /\ UNCHANGED <<disk, audio, shown, cases, waited>>
      /\ e \in M!Ensemble /\ e \in proc.ready /\ i \in DOMAIN proc.found[e] /\ i \in 1..Len(Order)
      /\ Order[i] \in M!Slugs /\ Part[Order[i]] = e /\ proc.found[e][i] \in Heads
  <2>1. job.pc = "score" /\ job \in JobType /\ UNCHANGED <<disk, audio, shown, cases, waited>>
    BY <1>i DEF M!Score, M!files, M!results, JobInv
  <2>2. /\ e \in M!Ensemble /\ e \in proc.ready /\ i \in DOMAIN proc.found[e]
    BY <1>i, <1>1, <2>1, ModelAssumption DEF JobInv, JobType, M!Ensemble
  <2>3. proc.found[e] \in Lists
    BY <1>i, <2>2 DEF ModelTypes, ProcType
  <2>4. QED
    BY <1>i, <2>1, <2>2, <2>3 DEF Lists, FoundInv, M!Slugs
<1>3. M!Loads(k(i)) => k(i) \in M!Record /\ Complete(k(i))
  <2>1. M!Present(Order[i])
    BY <1>i, <1>2 DEF FoundInv
  <2>2. Order[i] \in proc.loaded => /\ M!Asked(Order[i]) => proc.found[e][i] # "none"
                                  /\ {"config", "weights"} \subseteq disk[Order[i]]
    BY <1>i, <1>2 DEF LoadedInv
  <2>3. QED
    BY <1>2, <2>1, <2>2 DEF M!Loads, Complete, M!Present, M!Record, Heads
<1>4. /\ proc' \in ProcType /\ proc'.ready = proc.ready /\ proc'.found = proc.found
      /\ proc'.loaded = (IF fed(i) /\ M!Loads(k(i)) THEN proc.loaded \cup {Order[i]} ELSE proc.loaded)
      /\ proc'.ran = proc.ran /\ proc'.booted = proc.booted /\ proc'.env = proc.env
      /\ proc'.first = proc.first /\ proc'.hadAudio = proc.hadAudio /\ proc'.engine = proc.engine
  BY <1>i, <1>1, <1>2 DEF ModelTypes, ProcType
<1>5. /\ job' \in JobType /\ job'.pc = "score" /\ job'.of = job.of /\ job'.todo = job.todo \ {i}
      /\ job'.asked = (IF fed(i) THEN job.asked \cup {Order[i]} ELSE job.asked)
      /\ job'.by = job.by \/ (M!Loads(k(i)) /\ job'.by = job.by \cup {k(i)})
  <2> HIDE DEF e, k, fed
  <2> DEFINE asked == IF fed(i) THEN job.asked \cup {Order[i]} ELSE job.asked
             rest == [job EXCEPT !.todo = @ \ {i}, !.asked = asked]
  <2>1. asked \in SUBSET M!Slugs
    BY <1>2 DEF JobType
  <2>2. job' = rest \/ (M!Loads(k(i)) /\ job' = [rest EXCEPT !.by = @ \cup {k(i)}])
    BY <1>1, <1>2 DEF JobType
  <2> HIDE DEF asked
  <2>3. /\ rest \in JobType /\ rest.pc = "score" /\ rest.of = job.of /\ rest.todo = job.todo \ {i}
        /\ rest.asked = asked /\ rest.by = job.by
    BY <1>2, <2>1 DEF JobType
  <2> HIDE DEF rest
  <2>4. CASE job' = rest
    BY <2>3, <2>4 DEF asked
  <2>5. CASE M!Loads(k(i)) /\ job' = [rest EXCEPT !.by = @ \cup {k(i)}]
    <3>1. rest.by \cup {k(i)} \in SUBSET M!Record
      BY <1>3, <2>3, <2>5 DEF JobType
    <3>2. QED
      BY <2>3, <2>5, <3>1 DEF JobType, asked
  <2>6. QED
    BY <2>2, <2>4, <2>5
<1>6. ModelTypes' /\ JobInv'
  BY <1>i, <1>2, <1>4, <1>5 DEF ModelTypes, JobInv
<1>7. FoundInv' /\ HeadsAreTrained'
  BY <1>i, <1>2, <1>4 DEF FoundInv, M!Present, HeadsAreTrained, M!HeadsAreTrained
<1>8. LoadedInv'
  <2>1. ASSUME M!Loads(k(i)), Order[i] \notin proc.loaded, M!Asked(Order[i])
        PROVE  \A j \in DOMAIN proc.found[e] : Order[j] = Order[i] => proc.found[e][j] # "none"
    BY <2>1, <1>i, <1>2 DEF FoundInv, M!Loads
  <2>2. M!Loads(k(i)) => {"config", "weights"} \subseteq disk[Order[i]]
    BY <1>i, <1>2 DEF LoadedInv, FoundInv, M!Loads, M!Present
  <2>3. QED
    BY <1>i, <1>2, <1>4, <2>1, <2>2 DEF LoadedInv
<1>9. ScoreInv'
  BY <1>i, <1>2, <1>3, <1>5 DEF ScoreInv, Complete
<1>10. EngineInv' /\ StubNeedsAudioFirst'
  BY <1>i, <1>2, <1>4, <1>5 DEF EngineInv, StubNeedsAudioFirst, M!StubNeedsAudioFirst
<1>11. WaitInv'
  BY <1>i, <1>2, <1>4, <1>5 DEF WaitInv, M!Usable, Has
<1>12. QED
  BY <1>6, <1>7, <1>8, <1>9, <1>10, <1>11 DEF ModelInv

\* A recording is scored by the engine the process has, and by no checkpoint.
LEMMA ListenStep ==
  ASSUME ModelInv, M!Listen
  PROVE  ModelInv'
<1>i. ModelTypes /\ JobInv /\ FoundInv /\ LoadedInv /\ ScoreInv /\ HeadsAreTrained
      /\ EngineInv /\ StubNeedsAudioFirst /\ WaitInv
  BY DEF ModelInv
<1> DEFINE p == M!WithEngine(proc)
           q == IF p.engine = "stub" THEN p ELSE M!Booted(p)
           model == IF q.model # "none" THEN q.model ELSE IF audio = "whole" THEN "trained" ELSE "random"
           heard == q.engine = "wavlm" /\ (q.model # "none" \/ audio = "whole")
           by == IF heard THEN {[slug |-> "audio", head |-> model]} ELSE {}
<1>1. /\ proc' = IF q.engine = "stub" THEN q ELSE [q EXCEPT !.model = model]
      /\ job' = [job EXCEPT !.pc = "score", !.by = by]
      /\ job.pc = "setup" /\ job \in JobType /\ Kind[job.of] = "audio"
      /\ UNCHANGED <<disk, audio, shown, cases, waited>>
  <2>1. job.pc = "setup" /\ job \in JobType /\ Kind[job.of] = "audio"
    BY <1>i DEF M!Listen, JobInv
  <2>2. UNCHANGED <<disk, audio, shown, cases, waited>>
    BY DEF M!Listen, M!files, M!results
  <2>3. /\ proc' = IF q.engine = "stub" THEN q ELSE [q EXCEPT !.model = model]
        /\ job' = [job EXCEPT !.pc = "score", !.by = by]
    BY DEF M!Listen
  <2>4. QED
    BY <2>1, <2>2, <2>3
<1>2. /\ p \in ProcType /\ q \in ProcType
      /\ q.ready = proc.ready /\ q.found = proc.found /\ q.loaded = proc.loaded /\ q.ran = proc.ran
      /\ q.first = proc.first /\ q.hadAudio = proc.hadAudio
      /\ q.engine = (IF proc.engine # "none" THEN proc.engine ELSE IF proc.env THEN "wavlm" ELSE "stub")
      /\ (proc.booted => q.booted) /\ (q.booted /\ q.hadAudio => q.env)
  <2>1. p \in ProcType
    BY <1>i, WithEngineProc DEF ModelTypes
  <2>2. CASE p.engine = "stub"
    BY <1>i, <2>1, <2>2, WithEngineProc DEF ModelTypes, EngineInv
  <2>3. CASE p.engine # "stub"
    <3>1. q = M!Booted(p)
      BY <2>3
    <3> HIDE DEF q, p
    <3>2. /\ p.ready = proc.ready /\ p.found = proc.found /\ p.loaded = proc.loaded /\ p.ran = proc.ran
          /\ p.booted = proc.booted /\ p.env = proc.env /\ p.first = proc.first /\ p.hadAudio = proc.hadAudio
          /\ p.engine = (IF proc.engine # "none" THEN proc.engine ELSE IF proc.env THEN "wavlm" ELSE "stub")
      BY <1>i, WithEngineProc DEF ModelTypes, p
    <3>3. /\ q \in ProcType /\ q.booted /\ q.env = (IF p.booted THEN p.env ELSE p.env \/ audio # "absent")
          /\ q.ready = p.ready /\ q.found = p.found /\ q.loaded = p.loaded /\ q.ran = p.ran
          /\ q.engine = p.engine /\ q.first = p.first /\ q.hadAudio = p.hadAudio
      BY <2>1, <3>1, BootedProc
    <3>4. QED
      BY <1>i, <2>1, <3>2, <3>3 DEF EngineInv
  <2>4. QED
    BY <2>2, <2>3
<1>3. model \in {"none", "random", "trained"} /\ by \subseteq M!Record /\ \A k \in by : Complete(k)
  BY <1>2 DEF ProcType, M!Record, Complete
<1> HIDE DEF p, q, model, by
<1>4. /\ proc' \in ProcType /\ proc'.ready = proc.ready /\ proc'.found = proc.found
      /\ proc'.loaded = proc.loaded /\ proc'.ran = proc.ran
      /\ proc'.first = proc.first /\ proc'.hadAudio = proc.hadAudio /\ proc'.engine = q.engine
      /\ (proc.booted => proc'.booted) /\ (proc'.booted /\ proc'.hadAudio => proc'.env)
  BY <1>1, <1>2, <1>3 DEF ProcType
<1>5. /\ job' \in JobType /\ job'.pc = "score" /\ job'.of = job.of /\ job'.todo = {} /\ job'.by = by
  BY <1>i, <1>1, <1>3 DEF JobType, JobInv
<1>6. ModelTypes' /\ JobInv'
  BY <1>i, <1>1, <1>4, <1>5 DEF ModelTypes, JobInv
<1>7. FoundInv' /\ LoadedInv' /\ HeadsAreTrained'
  BY <1>i, <1>1, <1>4 DEF FoundInv, LoadedInv, M!Present, HeadsAreTrained, M!HeadsAreTrained
<1>8. ScoreInv'
  BY <1>1, <1>3, <1>5 DEF ScoreInv, Complete
<1>9. EngineInv' /\ StubNeedsAudioFirst'
  BY <1>i, <1>1, <1>2, <1>4, <1>5 DEF EngineInv, StubNeedsAudioFirst, M!StubNeedsAudioFirst, JobInv
<1>10. WaitInv'
  BY <1>i, <1>1, <1>4, <1>5 DEF WaitInv, M!Usable, Has
<1>11. QED
  BY <1>6, <1>7, <1>8, <1>9, <1>10 DEF ModelInv

\* The decision shows and caches what scored the task; the complete checkpoints it left out have waited
\* one task more.
LEMMA DecideStep ==
  ASSUME ModelInv, M!Decide
  PROVE  ModelInv'
<1>i. ModelTypes /\ JobInv /\ FoundInv /\ LoadedInv /\ ScoreInv /\ HeadsAreTrained
      /\ EngineInv /\ StubNeedsAudioFirst /\ WaitInv
  BY DEF ModelInv
<1>1. /\ job.pc = "score" /\ job.todo = {} /\ job \in JobType /\ job.of \in Media /\ job.by \in SUBSET M!Record
      /\ UNCHANGED <<disk, audio>> /\ job' = M!Idle /\ proc' = M!Ended(proc)
  BY <1>i DEF M!Decide, M!files, JobInv, JobType
<1>2. /\ proc' \in ProcType /\ job'.pc = "idle" /\ JobInv' /\ FoundInv' /\ LoadedInv' /\ ScoreInv' /\ EngineInv'
      /\ StubNeedsAudioFirst'
      /\ proc'.ran = proc.ran + 1 \/ (proc.ran + 1 = MaxPerChild /\ proc'.ready = {})
      /\ \A s \in M!Slugs : Has(s) => Has(s)'
  BY <1>i, <1>1, EndStep DEF ModelTypes, EngineInv
<1>3. /\ shown' = [shown EXCEPT ![job.of] = [state |-> IF M!Signals(job.by) THEN "verdict" ELSE "inconclusive",
                                             by |-> job.by, tries |-> 0]]
      /\ cases' = IF M!Signals(job.by) THEN [cases EXCEPT ![job.of] = job.by] ELSE cases
      /\ waited' = [s \in M!Slugs |-> IF M!LeftOut(s) THEN waited[s] + 1
                                      ELSE IF s \in job.asked THEN 0 ELSE waited[s]]
  BY DEF M!Decide
<1>4. ModelTypes'
  BY <1>i, <1>1, <1>2, <1>3 DEF ModelTypes, ShownType
<1>5. HeadsAreTrained'
  BY <1>i, <1>1, <1>3 DEF ModelTypes, ShownType, HeadsAreTrained, M!HeadsAreTrained, ScoreInv, Complete
<1>6. WaitInv'
  <2>0. proc.ran \in Nat /\ proc.ran <= MaxPerChild - 1 /\ MaxPerChild \in Nat /\ \A s \in M!Slugs : waited[s] \in Nat
    BY <1>i, ModelAssumption DEF ModelTypes, ProcType
  <2>1. ASSUME NEW s \in M!Slugs, M!LeftOut(s)
        PROVE  waited[s] <= proc.ran /\ M!Usable(s)
    <3>1. Part[s] = Kind[job.of] /\ s \notin job.asked /\ (s \in Crop => job.of \in Face) /\ M!Usable(s)
      BY <2>1 DEF M!LeftOut
    <3>2. Kind[job.of] # "audio" /\ Kind[job.of] \in proc.ready
      BY <1>i, <1>1, <3>1, ModelAssumption DEF JobInv, M!Ensemble
    <3>3. ~Has(s)
      BY <1>i, <1>1, <3>1, <3>2 DEF Has, WaitInv
    <3>4. QED
      BY <1>i, <3>1, <3>3 DEF WaitInv
  <2>2. ASSUME NEW s \in M!Slugs
        PROVE  /\ waited'[s] > 0 => M!Usable(s)
               /\ waited'[s] <= proc'.ran \/ (waited'[s] <= MaxPerChild /\ Has(s)')
    <3>1. waited'[s] = IF M!LeftOut(s) THEN waited[s] + 1 ELSE IF s \in job.asked THEN 0 ELSE waited[s]
      BY <1>3
    <3>2. proc'.ready = {} => Has(s)'
      BY DEF Has
    <3>3. (waited[s] > 0 => M!Usable(s)) /\ (waited[s] <= proc.ran \/ (waited[s] <= MaxPerChild /\ Has(s)'))
      BY <1>i, <1>2 DEF WaitInv
    <3>4. QED
      BY <1>2, <2>0, <2>1, <3>1, <3>2, <3>3
  <2>3. QED
    BY <1>1, <1>2, <2>2 DEF WaitInv, M!Usable
<1>7. QED
  BY <1>2, <1>4, <1>5, <1>6 DEF ModelInv

\* A process killed in a task leaves a new one, and the task for another.
LEMMA DiesStep ==
  ASSUME ModelInv, M!Dies
  PROVE  ModelInv'
<1>i. ModelTypes /\ JobInv /\ FoundInv /\ LoadedInv /\ ScoreInv /\ HeadsAreTrained
      /\ EngineInv /\ StubNeedsAudioFirst /\ WaitInv
  BY DEF ModelInv
<1>1. proc' = M!Fresh /\ job' = M!Idle /\ job'.pc = "idle" /\ UNCHANGED <<disk, audio, shown, cases, waited>>
  BY DEF M!Dies, M!files, M!results, M!Idle
<1>2. \A s \in M!Slugs : Has(s)'
  BY <1>1, <1>i, FreshProc DEF Has
<1>3. \A s \in M!Slugs : waited[s] <= MaxPerChild
  BY <1>i, ModelAssumption DEF WaitInv, ModelTypes, ProcType
<1>4. WaitInv'
  BY <1>i, <1>1, <1>2, <1>3 DEF WaitInv, M!Usable
<1>5. /\ proc' \in ProcType /\ proc'.loaded = {} /\ ~proc'.booted /\ proc'.engine = "none" /\ proc'.first = "none"
      /\ proc'.hadAudio = (audio = "whole") /\ \A e \in M!Ensemble : DOMAIN proc'.found[e] = {}
  BY <1>i, <1>1, FreshProc
<1>6. ModelTypes' /\ HeadsAreTrained'
  BY <1>i, <1>1, <1>5 DEF ModelTypes, HeadsAreTrained, M!HeadsAreTrained
<1>7. JobInv' /\ FoundInv' /\ LoadedInv' /\ ScoreInv'
  BY <1>1, <1>5 DEF JobInv, FoundInv, LoadedInv, ScoreInv
<1>8. EngineInv' /\ StubNeedsAudioFirst'
  BY <1>1, <1>5 DEF EngineInv, StubNeedsAudioFirst, M!StubNeedsAudioFirst
<1>9. QED
  BY <1>4, <1>6, <1>7, <1>8 DEF ModelInv

\* Every step of the sync, of the verification and of the worker keeps the invariant.
LEMMA ModelNext ==
  ASSUME ModelInv, [M!Next]_M!vars
  PROVE  ModelInv'
<1>t. ModelTypes
  BY DEF ModelInv
<1>1. ASSUME NEW by \in {"rclone", "gdown", "nothing"}, M!SyncStart(by)
      PROVE  ModelInv'
  BY <1>1, <1>t, ArriveStep DEF M!SyncStart, M!results, ModelTypes
<1>2. ASSUME NEW s \in M!Slugs, NEW f \in M!File, M!Copied(s, f)
      PROVE  ModelInv'
  BY <1>2, <1>t, ArriveStep DEF M!Copied, M!results, ModelTypes
<1>3. CASE M!NextName
  BY <1>3, <1>t, ArriveStep DEF M!NextName, M!results, ModelTypes
<1>4. CASE M!Verify
  BY <1>4, <1>t, ArriveStep DEF M!Verify, M!results, ModelTypes
<1>5. CASE M!AudioCopied
  BY <1>5, <1>t, ArriveStep DEF M!AudioCopied, M!results, ModelTypes
<1>6. CASE UNCHANGED M!vars
  BY <1>6, <1>t, ArriveStep DEF M!vars, ModelTypes
<1>7. QED
  BY <1>1, <1>2, <1>3, <1>4, <1>5, <1>6, TakeStep, PreflightStep, UnavailableStep, SetupStep, ScoreStep,
     ListenStep, DecideStep, DiesStep
  DEF M!Next

\* For any curriculum, any order of arrival of the files and any deaths of the worker: no verdict on a
\* picture or a video, shown or cached, rests on a checkpoint without its weights, and none on a
\* picture on one with a randomly initialised head.  The video inferencer asks for no head, and nothing
\* is claimed of its.
THEOREM OnlyTrainedHeadsScore == M!Spec => []HeadsAreTrained
<1>1. ModelInv => HeadsAreTrained
  BY DEF ModelInv
<1>2. QED
  BY <1>1, ModelInit, ModelNext, PTL DEF M!Spec

\* For any curriculum and any number of tasks per child: a checkpoint that is complete on disk is left
\* out of verdicts for no longer than the life of one worker process, worker_max_tasks_per_child.
THEOREM StaleListsEnd == M!Spec => []StaleForOneChild
<1>1. ModelInv => StaleForOneChild
  BY ModelAssumption DEF ModelInv, ModelTypes, ProcType, WaitInv, StaleForOneChild, M!StaleForOneChild
<1>2. QED
  BY <1>1, ModelInit, ModelNext, PTL DEF M!Spec

\* For any order of tasks and of the arrival of the audio weights: a process forked when the weights
\* were whole chooses the stub for recordings only if its first task was a recording.
THEOREM StubsComeFromAudio == M!Spec => []StubNeedsAudioFirst
<1>1. ModelInv => StubNeedsAudioFirst
  BY DEF ModelInv
<1>2. QED
  BY <1>1, ModelInit, ModelNext, PTL DEF M!Spec

-----------------------------------------------------------------------------
(***************************************************************************)
(* The preprocessing cache.                                                *)
(***************************************************************************)
Stages ==
  {"idle", "record", "recording", "look", "saving", "detect", "cropping", "mark", "marking", "complete",
   "completing", "produced", "predict", "over"}
PreTypes ==
  /\ file \in [P!File -> [st : {"absent", "torn", "whole"}, by : Run \cup {None}, face : BOOLEAN]]
  /\ \A f \in P!File : P!Torn(f) <=> file[f].by # None
  /\ stage \in [Run -> Stages] /\ forced \subseteq Run
  /\ found \in [Run -> BOOLEAN] /\ handed \in [Run -> BOOLEAN]
  /\ outcome \in [Run -> {None, "scored", "failed", "undecodable", "killed", "unwritten"}]
  /\ mixed \subseteq {"overlap", "kill", "force", "full"}

\* A run was killed, or a write failed.
WasCut == mixed \cap P!Cut # {}

\* Where a run has a file open.
Opened == [f \in P!File |->
  CASE f = "meta" -> {"recording", "completing"} [] f = "whole" -> {"saving"}
    [] f = "face" -> {"cropping"} [] f = "stats" -> {"marking"}]

\* A torn file is open, unless a run was killed or a write failed; the main array comes before the marker, for good.
TornInv ==
  /\ ~WasCut =>
       \A f \in P!File : P!Torn(f) => \E r \in Run : file[f].by = r /\ stage[r] \in Opened[f]
  /\ P!Exists("stats") => P!Exists("whole")
  /\ \A r \in Run :
       stage[r] \in {"saving", "detect", "cropping", "mark", "marking", "complete", "completing", "produced"} =>
         P!Exists("whole")

\* What mixed remembers.
MixedInv ==
  /\ "overlap" \notin mixed => \A q, r \in Run : P!Active(q) /\ P!Active(r) => q = r
  /\ "force" \notin mixed => \A r \in Run : stage[r] # "idle" => r \notin forced

\* A run that is alone has what it wrote.
AloneInv ==
  \A r \in Run :
    /\ stage[r] \in {"idle", "record", "recording", "look", "saving", "detect", "cropping"} => ~found[r]
    /\ "overlap" \notin mixed =>
         /\ stage[r] = "saving" => file["whole"].by = r
         /\ stage[r] = "cropping" => file["face"].by = r
         /\ stage[r] = "marking" => file["stats"].by = r
         /\ stage[r] \in {"detect", "cropping", "mark", "marking", "complete", "completing", "produced"} =>
              file["whole"].st = "whole" /\ (found[r] => file["face"].st = "whole")
         /\ stage[r] = "predict" /\ ~(WasCut /\ "force" \in mixed) =>
              file["whole"].st = "whole" /\ (handed[r] => file["face"].st = "whole")

\* Without overlap or force, the marker vouches at every moment, and is written once.
VouchInv ==
  "overlap" \notin mixed /\ "force" \notin mixed =>
    /\ file["stats"].st = "whole" =>
         file["whole"].st = "whole" /\ (file["stats"].face => file["face"].st = "whole")
    /\ \A r \in Run : stage[r] \in {"saving", "detect", "cropping", "mark"} => ~P!Exists("stats")

\* A failed run leaves a torn marker that no run repairs.
FailedInv ==
  "overlap" \notin mixed /\ (\E q \in Run : outcome[q] = "failed") =>
    /\ WasCut
    /\ "force" \notin mixed =>
         P!Torn("stats") /\ \A r \in Run : stage[r] \notin {"saving", "detect", "cropping", "mark", "marking"}

PreInv == PreTypes /\ TornInv /\ MixedInv /\ AloneInv /\ VouchInv /\ FailedInv

\* Before the first run the cache is empty and no run is under way.
LEMMA PreInitial ==
  ASSUME P!Init
  PROVE  PreInv
<1>1. /\ \A f \in P!File : file[f].st = "absent" /\ file[f].by = None
      /\ \A r \in Run : stage[r] = "idle" /\ outcome[r] = None /\ ~found[r] /\ ~handed[r]
  BY DEF P!Init
<1>2. PreTypes
  BY PreAssumption DEF P!Init, PreTypes, P!Torn, Stages, P!File
<1>3. TornInv
  BY <1>1 DEF TornInv, P!Torn, P!Exists, P!File
<1>4. MixedInv
  BY <1>1 DEF MixedInv, P!Active
<1>5. AloneInv
  BY <1>1 DEF AloneInv
<1>6. VouchInv
  BY <1>1 DEF VouchInv, P!File
<1>7. FailedInv
  BY <1>1, PreAssumption DEF FailedInv
<1>8. QED
  BY <1>2, <1>3, <1>4, <1>5, <1>6, <1>7 DEF PreInv

\* A run that opens a file for writing leaves it torn, in its own name, and touches nothing else.
LEMMA Opens ==
  ASSUME PreTypes, NEW r \in Run, NEW f \in P!File, NEW here \in Stages, NEW there \in Stages,
         P!Open(r, f, here, there)
  PROVE  /\ PreTypes' /\ stage[r] = here /\ stage'[r] = there
         /\ \A q \in Run : q # r => stage'[q] = stage[q]
         /\ file'[f].st = "torn" /\ file'[f].by = r
         /\ \A g \in P!File : g # f => file'[g] = file[g]
         /\ UNCHANGED <<forced, found, handed, outcome, mixed>>
<1> DEFINE new == [st |-> "torn", by |-> r, face |-> FALSE]
<1>1. file' = [file EXCEPT ![f] = new] /\ stage[r] = here /\ stage' = [stage EXCEPT ![r] = there]
      /\ UNCHANGED <<forced, found, handed, outcome, mixed>>
  BY DEF P!Open, P!At
<1>2. /\ new \in [st : {"absent", "torn", "whole"}, by : Run \cup {None}, face : BOOLEAN]
      /\ new.st = "torn" /\ new.by = r
  OBVIOUS
<1> HIDE DEF new
<1>3. \A g \in P!File : file'[g] = IF g = f THEN new ELSE file[g]
  BY <1>1 DEF PreTypes
<1>4. PreTypes'
  BY <1>1, <1>2, <1>3, PreAssumption DEF PreTypes, P!Torn
<1>5. QED
  BY <1>1, <1>2, <1>3, <1>4 DEF PreTypes

\* A run that closes the file it opened makes it whole; if another has opened it since, the file is
\* left to that one.
LEMMA Closes ==
  ASSUME PreTypes, NEW r \in Run, NEW f \in P!File, NEW here \in Stages, NEW there \in Stages,
         NEW face \in BOOLEAN, P!At(r, here, there),
         file' = IF file[f].by = r THEN [file EXCEPT ![f] = [st |-> "whole", by |-> None, face |-> face]] ELSE file,
         found' \in [Run -> BOOLEAN], UNCHANGED <<forced, handed, outcome, mixed>>
  PROVE  /\ PreTypes' /\ stage[r] = here /\ stage'[r] = there
         /\ \A q \in Run : q # r => stage'[q] = stage[q]
         /\ file[f].by = r => file'[f].st = "whole" /\ file'[f].by = None /\ file'[f].face = face
         /\ file[f].by # r => file'[f] = file[f]
         /\ \A g \in P!File : g # f => file'[g] = file[g]
<1> DEFINE new == [st |-> "whole", by |-> None, face |-> face]
<1>1. file' = (IF file[f].by = r THEN [file EXCEPT ![f] = new] ELSE file)
      /\ stage[r] = here /\ stage' = [stage EXCEPT ![r] = there]
  BY DEF P!At
<1>2. /\ new \in [st : {"absent", "torn", "whole"}, by : Run \cup {None}, face : BOOLEAN]
      /\ new.st = "whole" /\ new.by = None /\ new.face = face
  OBVIOUS
<1> HIDE DEF new
<1>3. \A g \in P!File : file'[g] = IF g = f /\ file[f].by = r THEN new ELSE file[g]
  BY <1>1 DEF PreTypes
<1>4. PreTypes'
  BY <1>1, <1>2, <1>3, PreAssumption DEF PreTypes, P!Torn
<1>5. QED
  BY <1>1, <1>2, <1>3, <1>4 DEF PreTypes

\* A run that ends is over, with how it ended; the others go on.
LEMMA Finishes ==
  ASSUME PreTypes, NEW r \in Run, NEW how \in {"scored", "failed", "undecodable", "killed", "unwritten"},
         P!Ends(r, how), UNCHANGED <<file, forced, found, handed>>,
         mixed' \in {mixed, mixed \cup {"kill"}, mixed \cup {"full"}}
  PROVE  /\ PreTypes' /\ stage'[r] = "over" /\ outcome'[r] = how
         /\ \A q \in Run : q # r => stage'[q] = stage[q] /\ outcome'[q] = outcome[q]
BY PreAssumption DEF PreTypes, P!Ends, Stages, P!Torn

\* Where no two runs have overlapped, an active run is the only one.
LEMMA NobodyElse ==
  ASSUME PreTypes, MixedInv, "overlap" \notin mixed, NEW r \in Run, P!Active(r), NEW q \in Run, q # r
  PROVE  stage[q] \in {"idle", "over"}
BY DEF MixedInv, P!Active

\* Opening the record, the main array, the face array or the marker keeps the invariant: the main array
\* only after a cache miss, the marker only after the arrays.
LEMMA OpenStep ==
  ASSUME PreInv, NEW r \in Run, NEW f \in P!File, NEW here \in Stages, NEW there \in Stages,
         P!Open(r, f, here, there),
         <<f, here, there>> \in {<<"meta", "record", "recording">>, <<"whole", "look", "saving">>,
           <<"face", "detect", "cropping">>, <<"stats", "mark", "marking">>, <<"meta", "complete", "completing">>},
         f = "whole" => ~P!CacheHit(r)
  PROVE  PreInv'
<1>1. /\ PreTypes' /\ stage[r] = here /\ stage'[r] = there
      /\ \A q \in Run : q # r => stage'[q] = stage[q]
      /\ file'[f].st = "torn" /\ file'[f].by = r
      /\ \A g \in P!File : g # f => file'[g] = file[g]
      /\ UNCHANGED <<forced, found, handed, outcome, mixed>>
  BY Opens DEF PreInv
<1> USE DEF WasCut, P!Cut
<1>2. PreTypes /\ TornInv /\ MixedInv /\ AloneInv /\ VouchInv /\ FailedInv
  BY DEF PreInv
<1>3. here \in Opened[f] => FALSE
  BY DEF Opened
<1>4. there \in Opened[f]
  BY DEF Opened
<1>a. "overlap" \notin mixed => \A q \in Run : q # r => stage[q] \in {"idle", "over"}
  <2>1. P!Active(r)
    BY <1>1 DEF P!Active
  <2>2. QED
    BY <2>1, <1>2, NobodyElse
<1>5. TornInv'
  <2>1. ~WasCut' => \A g \in P!File : P!Torn(g)' => \E q \in Run : file'[g].by = q /\ stage'[q] \in Opened[g]
    <3> SUFFICES ASSUME ~WasCut', NEW g \in P!File, P!Torn(g)'
                 PROVE  \E q \in Run : file'[g].by = q /\ stage'[q] \in Opened[g]
      OBVIOUS
    <3>1. CASE g = f
      BY <3>1, <1>1, <1>4
    <3>2. CASE g # f
      <4>1. PICK q \in Run : file[g].by = q /\ stage[q] \in Opened[g]
        BY <3>2, <1>1, <1>2 DEF TornInv, P!Torn
      <4>2. here \notin Opened[g]
        BY <3>2 DEF Opened, P!File
      <4>3. QED
        BY <4>1, <4>2, <3>2, <1>1
    <3>3. QED
      BY <3>1, <3>2
  <2>2. P!Exists("whole") \/ f = "whole" => P!Exists("whole")'
    BY <1>1 DEF P!Exists, P!File
  <2>3. P!Exists("stats")' => P!Exists("stats") \/ f = "stats"
    BY <1>1 DEF P!Exists, P!File
  <2>4. \A q \in Run :
     stage'[q] \in {"saving", "detect", "cropping", "mark", "marking", "complete", "completing", "produced"} =>
         P!Exists("whole")'
    BY <1>1, <1>2, <2>2 DEF TornInv
  <2>5. QED
    BY <2>1, <2>2, <2>3, <2>4, <1>1, <1>2 DEF TornInv
<1>6. MixedInv'
  BY <1>1, <1>2 DEF MixedInv, P!Active
<1>7. AloneInv'
  BY <1>1, <1>2, <1>a DEF AloneInv, P!File
<1>8. VouchInv'
  <2> SUFFICES ASSUME "overlap" \notin mixed, "force" \notin mixed
               PROVE  /\ file'["stats"].st = "whole" =>
                           file'["whole"].st = "whole" /\ (file'["stats"].face => file'["face"].st = "whole")
                      /\ \A q \in Run : stage'[q] \in {"saving", "detect", "cropping", "mark"} => ~P!Exists("stats")'
    BY <1>1 DEF VouchInv
  <2>1. f = "whole" => ~P!Exists("stats")
    BY <1>1, <1>2 DEF P!CacheHit, TornInv, MixedInv
  <2>2. f \in {"whole", "face"} => ~P!Exists("stats")
    BY <2>1, <1>1, <1>2 DEF VouchInv
  <2>3. QED
    BY <1>1, <1>2, <1>a, <2>1, <2>2 DEF VouchInv, P!Exists, P!File
<1>9. FailedInv'
  <2> SUFFICES ASSUME "overlap" \notin mixed, NEW q \in Run, outcome[q] = "failed"
               PROVE  /\ WasCut
                      /\ "force" \notin mixed =>
                        P!Torn("stats")' /\ \A p \in Run : stage'[p] \notin {"saving", "detect", "cropping", "mark", "marking"}
    BY <1>1 DEF FailedInv
  <2>1. f = "whole" /\ "force" \notin mixed => ~P!Exists("stats")
    BY <1>1, <1>2 DEF P!CacheHit, TornInv, MixedInv
  <2>2. QED
    BY <2>1, <1>1, <1>2 DEF FailedInv, P!Exists, P!Torn, P!File
<1>10. QED
  BY <1>1, <1>5, <1>6, <1>7, <1>8, <1>9 DEF PreInv

\* Closing any of the files keeps the invariant: alone, a run closes what it opened.
LEMMA FileClosed ==
  ASSUME PreInv, NEW r \in Run, NEW f \in P!File, NEW here \in Stages, NEW there \in Stages, NEW face \in BOOLEAN,
         P!At(r, here, there),
         file' = IF file[f].by = r THEN [file EXCEPT ![f] = [st |-> "whole", by |-> None, face |-> face]] ELSE file,
         found' = (IF f = "face" THEN [found EXCEPT ![r] = TRUE] ELSE found),
         f # "face" => face = found[r],
         UNCHANGED <<forced, handed, outcome, mixed>>,
         <<f, here, there>> \in {<<"meta", "recording", "look">>, <<"whole", "saving", "detect">>,
           <<"face", "cropping", "mark">>, <<"stats", "marking", "complete">>, <<"meta", "completing", "produced">>}
  PROVE  PreInv'
<1> USE DEF WasCut, P!Cut
<1>2. PreTypes /\ TornInv /\ MixedInv /\ AloneInv /\ VouchInv /\ FailedInv
  BY DEF PreInv
<1>0. /\ found' \in [Run -> BOOLEAN] /\ (f = "face" => found'[r])
      /\ \A q \in Run : q # r \/ f # "face" => found'[q] = found[q]
  BY <1>2 DEF PreTypes
<1>1. /\ PreTypes' /\ stage[r] = here /\ stage'[r] = there
      /\ \A q \in Run : q # r => stage'[q] = stage[q]
      /\ file[f].by = r => file'[f].st = "whole" /\ file'[f].by = None /\ file'[f].face = face
      /\ file[f].by # r => file'[f] = file[f]
      /\ \A g \in P!File : g # f => file'[g] = file[g]
  BY <1>0, <1>2, Closes
<1>3. here \in Opened[f] /\ \A g \in P!File : g # f => here \notin Opened[g]
  BY DEF Opened, P!File
<1>a. "overlap" \notin mixed => \A q \in Run : q # r => stage[q] \in {"idle", "over"}
  <2>1. P!Active(r)
    BY <1>1 DEF P!Active
  <2>2. QED
    BY <2>1, <1>2, NobodyElse
<1>b. "overlap" \notin mixed /\ f # "meta" => file[f].by = r
  BY <1>1, <1>2 DEF AloneInv
<1>5. TornInv'
  <2>1. ~WasCut' => \A g \in P!File : P!Torn(g)' => \E q \in Run : file'[g].by = q /\ stage'[q] \in Opened[g]
    <3> SUFFICES ASSUME ~WasCut, NEW g \in P!File, P!Torn(g)'
                 PROVE  \E q \in Run : file'[g].by = q /\ stage'[q] \in Opened[g]
      OBVIOUS
    <3>0. P!Torn(g) /\ file'[g].by = file[g].by /\ (g = f => file[f].by # r)
      BY <1>1 DEF P!Torn
    <3>1. PICK q \in Run : file[g].by = q /\ stage[q] \in Opened[g]
      BY <3>0, <1>2 DEF TornInv
    <3>2. q # r
      BY <3>0, <3>1, <1>1, <1>3
    <3>3. QED
      BY <3>0, <3>1, <3>2, <1>1
  <2>2. /\ P!Exists("whole") => P!Exists("whole")'
        /\ P!Exists("stats")' => P!Exists("stats") \/ f = "stats"
    BY <1>1 DEF P!Exists, P!File
  <2>4. \A q \in Run :
     stage'[q] \in {"saving", "detect", "cropping", "mark", "marking", "complete", "completing", "produced"} =>
         P!Exists("whole")'
    BY <1>1, <1>2, <2>2 DEF TornInv
  <2>5. QED
    BY <2>1, <2>2, <2>4, <1>1, <1>2 DEF TornInv
<1>6. MixedInv'
  BY <1>1, <1>2 DEF MixedInv, P!Active
<1>7. AloneInv'
  <2>1. \A q \in Run : stage'[q] \in {"idle", "record", "recording", "look", "saving", "detect", "cropping"} => ~found'[q]
    BY <1>0, <1>1, <1>2 DEF AloneInv
  <2> SUFFICES ASSUME "overlap" \notin mixed, NEW q \in Run
               PROVE /\ stage'[q] = "saving" => file'["whole"].by = q
                     /\ stage'[q] = "cropping" => file'["face"].by = q
                     /\ stage'[q] = "marking" => file'["stats"].by = q
                     /\ stage'[q] \in {"detect", "cropping", "mark", "marking", "complete", "completing", "produced"} =>
                          file'["whole"].st = "whole" /\ (found'[q] => file'["face"].st = "whole")
                     /\ stage'[q] = "predict" /\ ~(WasCut /\ "force" \in mixed) =>
                          file'["whole"].st = "whole" /\ (handed'[q] => file'["face"].st = "whole")
    BY <2>1 DEF AloneInv
  <2>2. CASE q # r
    BY <2>2, <1>1, <1>a
  <2>3. CASE q = r
    BY <2>3, <1>0, <1>1, <1>2, <1>b DEF AloneInv, P!File
  <2>4. QED
    BY <2>2, <2>3
<1>8. VouchInv'
  <2> SUFFICES ASSUME "overlap" \notin mixed, "force" \notin mixed
               PROVE  /\ file'["stats"].st = "whole" =>
                           file'["whole"].st = "whole" /\ (file'["stats"].face => file'["face"].st = "whole")
                      /\ \A q \in Run : stage'[q] \in {"saving", "detect", "cropping", "mark"} => ~P!Exists("stats")'
    BY DEF VouchInv
  <2>1. \A q \in Run : stage'[q] \in {"saving", "detect", "cropping", "mark"} => ~P!Exists("stats")'
    BY <1>1, <1>2, <1>a DEF VouchInv, P!Exists, P!File
  <2>2. CASE f = "stats"
    <3>1. file["whole"].st = "whole" /\ (found[r] => file["face"].st = "whole")
      BY <2>2, <1>1, <1>2 DEF AloneInv
    <3>2. file'["stats"].face = found[r] /\ file'["whole"] = file["whole"] /\ file'["face"] = file["face"]
      BY <2>2, <1>1, <1>b DEF P!File
    <3>3. QED
      BY <2>1, <3>1, <3>2
  <2>3. CASE f # "stats"
    <3>1. file'["stats"] = file["stats"]
      BY <2>3, <1>1 DEF P!File
    <3>2. \A g \in P!File : file[g].st = "whole" => file'[g].st = "whole"
      BY <1>1 DEF P!File
    <3>3. QED
      BY <2>1, <3>1, <3>2, <1>2 DEF VouchInv, P!File
  <2>4. QED
    BY <2>2, <2>3
<1>9. FailedInv'
  <2> SUFFICES ASSUME "overlap" \notin mixed, NEW q \in Run, outcome[q] = "failed"
               PROVE  /\ WasCut
                      /\ "force" \notin mixed =>
                        P!Torn("stats")' /\ \A p \in Run : stage'[p] \notin {"saving", "detect", "cropping", "mark", "marking"}
    BY DEF FailedInv
  <2>2. QED
    BY <1>1, <1>2 DEF FailedInv, P!Exists, P!Torn, P!File
<1>10. QED
  BY <1>1, <1>5, <1>6, <1>7, <1>8, <1>9 DEF PreInv

\* A run that begins, forced or not, overlapping another or not, keeps the invariant.
LEMMA BeginStep ==
  ASSUME PreInv, NEW r \in Run, P!Begin(r)
  PROVE  PreInv'
<1> USE DEF WasCut, P!Cut
<1>2. PreTypes /\ TornInv /\ MixedInv /\ AloneInv /\ VouchInv /\ FailedInv
  BY DEF PreInv
<1>1. /\ stage[r] = "idle" /\ stage'[r] = "record" /\ stage' \in [Run -> Stages]
      /\ \A q \in Run : q # r => stage'[q] = stage[q]
      /\ UNCHANGED <<file, forced, found, handed, outcome>>
  BY <1>2 DEF P!Begin, P!At, PreTypes, Stages
<1>3. /\ mixed \subseteq mixed' /\ (WasCut' => WasCut) /\ mixed' \subseteq {"overlap", "kill", "force", "full"}
      /\ (\E q \in Run : q # r /\ P!Active(q)) => "overlap" \in mixed'
      /\ r \in forced => "force" \in mixed'
  BY <1>2 DEF P!Begin, PreTypes
<1>4. PreTypes'
  BY <1>1, <1>2, <1>3 DEF PreTypes, P!Torn
<1>a. "overlap" \notin mixed' => \A q \in Run : q # r => stage[q] \in {"idle", "over"}
  BY <1>3 DEF P!Active
<1>5. TornInv'
  <2>1. ~WasCut' => \A g \in P!File : P!Torn(g)' => \E q \in Run : file'[g].by = q /\ stage'[q] \in Opened[g]
    <3> SUFFICES ASSUME ~WasCut, NEW g \in P!File, P!Torn(g)
                 PROVE  \E q \in Run : file[g].by = q /\ stage'[q] \in Opened[g]
      BY <1>1, <1>3 DEF P!Torn
    <3>1. PICK q \in Run : file[g].by = q /\ stage[q] \in Opened[g]
      BY <1>2 DEF TornInv
    <3>2. q # r
      BY <3>1, <1>1 DEF Opened, P!File
    <3>3. QED
      BY <3>1, <3>2, <1>1
  <2>2. QED
    BY <2>1, <1>1, <1>2 DEF TornInv, P!Exists
<1>6. MixedInv'
  BY <1>1, <1>2, <1>3, <1>a DEF MixedInv, P!Active
<1>7. AloneInv'
  BY <1>1, <1>2, <1>3 DEF AloneInv
<1>8. VouchInv'
  BY <1>1, <1>2, <1>3 DEF VouchInv, P!Exists
<1>9. FailedInv'
  BY <1>1, <1>2, <1>3 DEF FailedInv, P!Torn
<1>10. QED
  BY <1>4, <1>5, <1>6, <1>7, <1>8, <1>9 DEF PreInv

\* The two ways into the inferencer, a cache hit and a finished preprocessing, keep the invariant.
LEMMA HandOverStep ==
  ASSUME PreInv, NEW r \in Run, P!Reuse(r) \/ P!Produced(r)
  PROVE  PreInv'
<1> USE DEF WasCut, P!Cut
<1>2. PreTypes /\ TornInv /\ MixedInv /\ AloneInv /\ VouchInv /\ FailedInv
  BY DEF PreInv
<1> DEFINE way == IF stage[r] = "look" THEN file["stats"].face /\ P!Exists("face") ELSE found[r]
<1>1. /\ stage[r] \in {"look", "produced"} /\ stage'[r] = "predict" /\ stage' \in [Run -> Stages]
      /\ \A q \in Run : q # r => stage'[q] = stage[q]
      /\ handed' = [handed EXCEPT ![r] = way]
      /\ UNCHANGED <<file, forced, found, outcome, mixed>>
      /\ stage[r] = "look" => P!CacheHit(r) /\ ~P!Torn("stats")
  BY <1>2 DEF P!Reuse, P!Produced, P!At, PreTypes, Stages
<1>3. way \in BOOLEAN
  BY <1>2 DEF PreTypes, P!File
<1>0. handed' \in [Run -> BOOLEAN] /\ handed'[r] = way /\ \A q \in Run : q # r => handed'[q] = handed[q]
  BY <1>1, <1>2, <1>3 DEF PreTypes
<1>4. PreTypes'
  BY <1>0, <1>1, <1>2 DEF PreTypes, P!Torn
<1>a. "overlap" \notin mixed => \A q \in Run : q # r => stage[q] \in {"idle", "over"}
  <2>1. P!Active(r)
    BY <1>1 DEF P!Active
  <2>2. QED
    BY <2>1, <1>2, NobodyElse
<1>5. TornInv'
  <2>1. ~WasCut' => \A g \in P!File : P!Torn(g)' => \E q \in Run : file'[g].by = q /\ stage'[q] \in Opened[g]
    <3> SUFFICES ASSUME ~WasCut, NEW g \in P!File, P!Torn(g)
                 PROVE  \E q \in Run : file[g].by = q /\ stage'[q] \in Opened[g]
      BY <1>1 DEF P!Torn
    <3>1. PICK q \in Run : file[g].by = q /\ stage[q] \in Opened[g]
      BY <1>2 DEF TornInv
    <3>2. q # r
      BY <3>1, <1>1 DEF Opened, P!File
    <3>3. QED
      BY <3>1, <3>2, <1>1
  <2>2. QED
    BY <2>1, <1>1, <1>2 DEF TornInv, P!Exists
<1>6. MixedInv'
  BY <1>1, <1>2 DEF MixedInv, P!Active
<1>7. AloneInv'
  <2>1. ASSUME "overlap" \notin mixed, ~(WasCut /\ "force" \in mixed)
        PROVE  file["whole"].st = "whole" /\ (way => file["face"].st = "whole")
    <3>1. CASE stage[r] = "produced"
      BY <3>1, <2>1, <1>2 DEF AloneInv
    <3>2. CASE stage[r] = "look" /\ "force" \notin mixed
      <4>1. file["stats"].st = "whole"
        BY <3>2, <1>1, <1>2 DEF P!CacheHit, P!Exists, P!Torn, PreTypes, P!File
      <4>2. QED
        BY <3>2, <4>1, <2>1, <1>2 DEF VouchInv
    <3>3. CASE stage[r] = "look" /\ ~WasCut
      <4>1. \A g \in P!File : ~P!Torn(g)
        <5> SUFFICES ASSUME NEW g \in P!File, P!Torn(g) PROVE FALSE
          OBVIOUS
        <5>1. PICK q \in Run : stage[q] \in Opened[g]
          BY <3>3, <1>2 DEF TornInv
        <5>2. q # r /\ stage[q] \notin {"idle", "over"}
          BY <5>1, <3>3 DEF Opened, P!File
        <5>3. QED
          BY <5>2, <2>1, <1>a
      <4>2. QED
        BY <3>3, <4>1, <1>1, <1>2 DEF P!CacheHit, P!Exists, P!Torn, PreTypes, P!File
    <3>4. QED
      BY <3>1, <3>2, <3>3, <2>1, <1>1
  <2> HIDE DEF way
  <2>2. QED
    BY <2>1, <1>0, <1>1, <1>2, <1>a DEF AloneInv
<1>8. VouchInv'
  BY <1>1, <1>2 DEF VouchInv, P!Exists
<1>9. FailedInv'
  BY <1>1, <1>2 DEF FailedInv, P!Torn
<1>10. QED
  BY <1>4, <1>5, <1>6, <1>7, <1>8, <1>9 DEF PreInv

\* A run that ends - with a score, a file that cannot be loaded, a media file that cannot be decoded,
\* a kill, or a write that fails - keeps the invariant.
LEMMA PreEndStep ==
  ASSUME PreInv, NEW r \in Run, P!Poisoned(r) \/ P!Undecodable(r) \/ P!Predict(r) \/ P!WriteFails(r) \/ P!Kill(r)
  PROVE  PreInv'
<1> USE DEF WasCut, P!Cut
<1>2. PreTypes /\ TornInv /\ MixedInv /\ AloneInv /\ VouchInv /\ FailedInv
  BY DEF PreInv
<1>0. PICK how \in {"scored", "failed", "undecodable", "killed", "unwritten"} :
        /\ P!Ends(r, how) /\ UNCHANGED <<file, forced, found, handed>> /\ P!Active(r)
        /\ mixed' = IF how = "killed" THEN mixed \cup {"kill"}
                    ELSE IF how = "unwritten" THEN mixed \cup {"full"} ELSE mixed
        /\ how = "failed" => \/ stage[r] = "look" /\ P!CacheHit(r) /\ P!Torn("stats")
                             \/ stage[r] = "predict" /\ (P!Torn("whole") \/ (handed[r] /\ file["face"].st # "whole"))
        /\ how \in {"scored", "failed", "undecodable"} => stage[r] \in {"look", "predict"}
  <2>1. CASE P!Poisoned(r)
    BY <2>1 DEF P!Poisoned, P!Active
  <2>2. CASE P!Undecodable(r)
    BY <2>2 DEF P!Undecodable, P!Active
  <2>3. CASE P!Predict(r)
    BY <2>3 DEF P!Predict, P!Active
  <2>4. CASE P!Kill(r)
    BY <2>4 DEF P!Kill
  <2>5. CASE P!WriteFails(r)
    BY <2>5 DEF P!WriteFails, P!Full, P!Active
  <2>6. QED
    BY <2>1, <2>2, <2>3, <2>4, <2>5
<1>3. mixed' \in {mixed, mixed \cup {"kill"}, mixed \cup {"full"}}
  BY <1>0
<1>1. /\ PreTypes' /\ stage'[r] = "over" /\ outcome'[r] = how
      /\ \A q \in Run : q # r => stage'[q] = stage[q] /\ outcome'[q] = outcome[q]
  BY <1>0, <1>2, <1>3, Finishes
<1>a. "overlap" \notin mixed => \A q \in Run : q # r => stage[q] \in {"idle", "over"}
  BY <1>0, <1>2, NobodyElse
<1>b. /\ UNCHANGED <<file, forced, found, handed>>
      /\ "overlap" \in mixed' <=> "overlap" \in mixed
      /\ "force" \in mixed' <=> "force" \in mixed
      /\ WasCut => WasCut'
  BY <1>0
<1>5. TornInv'
  <2>1. ~WasCut' => \A g \in P!File : P!Torn(g)' => \E q \in Run : file'[g].by = q /\ stage'[q] \in Opened[g]
    <3> SUFFICES ASSUME ~WasCut', NEW g \in P!File, P!Torn(g)
                 PROVE  \E q \in Run : file[g].by = q /\ stage'[q] \in Opened[g]
      BY <1>b DEF P!Torn
    <3>1. PICK q \in Run : file[g].by = q /\ stage[q] \in Opened[g]
      BY <1>b, <1>2 DEF TornInv
    <3>2. stage[r] \in {"look", "predict"}
      BY <1>0
    <3>3. q # r
      BY <3>1, <3>2 DEF Opened, P!File
    <3>4. QED
      BY <3>1, <3>3, <1>1
  <2>2. QED
    BY <2>1, <1>1, <1>2, <1>b DEF TornInv, P!Exists
<1>6. MixedInv'
  <2>1. P!Active(r)
    BY <1>0
  <2>2. QED
    BY <2>1, <1>1, <1>2, <1>b DEF MixedInv, P!Active
<1>7. AloneInv'
  BY <1>1, <1>2, <1>b DEF AloneInv
<1>8. VouchInv'
  BY <1>1, <1>2, <1>b DEF VouchInv, P!Exists
<1>9. FailedInv'
  <2> SUFFICES ASSUME "overlap" \notin mixed, NEW q \in Run, outcome'[q] = "failed"
               PROVE  /\ WasCut'
                      /\ "force" \notin mixed =>
                        P!Torn("stats") /\ \A p \in Run : stage'[p] \notin {"saving", "detect", "cropping", "mark", "marking"}
    BY <1>b DEF FailedInv, P!Torn
  <2>1. CASE q # r \/ how # "failed"
    <3>1. \E p \in Run : outcome[p] = "failed"
      BY <2>1, <1>1
    <3>2. QED
      BY <3>1, <1>1, <1>2, <1>b DEF FailedInv
  <2>2. CASE q = r /\ how = "failed" /\ stage[r] = "look"
    <3>1. P!Torn("stats")
      BY <2>2, <1>0
    <3>2. WasCut
      <4> SUFFICES ASSUME ~WasCut PROVE FALSE
        OBVIOUS
      <4>1. PICK p \in Run : stage[p] \in Opened["stats"]
        BY <3>1, <1>2 DEF TornInv, P!File
      <4>2. p # r /\ stage[p] \notin {"idle", "over"}
        BY <4>1, <2>2 DEF Opened, P!File
      <4>3. QED
        BY <4>2, <1>a
    <3>3. QED
      BY <3>1, <3>2, <1>1, <1>a, <1>b
  <2>3. CASE q = r /\ how = "failed" /\ stage[r] = "predict"
    <3>1. ~(file["whole"].st = "whole" /\ (handed[r] => file["face"].st = "whole"))
      BY <2>3, <1>0 DEF P!Torn
    <3>2. WasCut /\ "force" \in mixed
      BY <3>1, <2>3, <1>2 DEF AloneInv
    <3>3. QED
      BY <3>2, <1>b
  <2>4. QED
    BY <2>1, <2>2, <2>3, <1>0
<1>10. QED
  BY <1>1, <1>5, <1>6, <1>7, <1>8, <1>9 DEF PreInv

\* A run that finds no face, or cannot write it, removes the face array of an earlier one, and keeps the
\* invariant.
LEMMA NoFaceStep ==
  ASSUME PreInv, NEW r \in Run, P!NoFace(r)
  PROVE  PreInv'
<1> USE DEF WasCut, P!Cut
<1>2. PreTypes /\ TornInv /\ MixedInv /\ AloneInv /\ VouchInv /\ FailedInv
  BY DEF PreInv
<1> DEFINE new == [st |-> "absent", by |-> None, face |-> FALSE]
<1>0. /\ stage[r] \in {"detect", "cropping"} /\ stage' = [stage EXCEPT ![r] = "mark"]
      /\ file' = [file EXCEPT !["face"] = new]
      /\ UNCHANGED <<forced, found, handed, outcome>>
      /\ (mixed' = mixed /\ stage[r] = "detect") \/ mixed' = mixed \cup {"full"}
  BY DEF P!NoFace, P!At, P!Full
<1>3. /\ new \in [st : {"absent", "torn", "whole"}, by : Run \cup {None}, face : BOOLEAN]
      /\ new.st = "absent" /\ new.by = None
  OBVIOUS
<1> HIDE DEF new
<1>1. /\ stage'[r] = "mark" /\ stage' \in [Run -> Stages]
      /\ \A q \in Run : q # r => stage'[q] = stage[q]
      /\ file'["face"] = new /\ \A g \in P!File : g # "face" => file'[g] = file[g]
      /\ file' \in [P!File -> [st : {"absent", "torn", "whole"}, by : Run \cup {None}, face : BOOLEAN]]
  BY <1>0, <1>2, <1>3 DEF PreTypes, Stages, P!File
<1>m. mixed' \subseteq {"overlap", "kill", "force", "full"}
  BY <1>0, <1>2 DEF PreTypes
<1>4. PreTypes'
  <2>1. \A g \in P!File : P!Torn(g)' <=> file'[g].by # None
    BY <1>1, <1>2, <1>3 DEF PreTypes, P!Torn
  <2> QED
    BY <1>0, <1>1, <1>2, <1>m, <2>1 DEF PreTypes
<1>a. "overlap" \notin mixed => \A q \in Run : q # r => stage[q] \in {"idle", "over"}
  <2>1. P!Active(r)
    BY <1>0 DEF P!Active
  <2>2. QED
    BY <2>1, <1>2, NobodyElse
<1>5. TornInv'
  <2>1. ~WasCut' => \A g \in P!File : P!Torn(g)' => \E q \in Run : file'[g].by = q /\ stage'[q] \in Opened[g]
    <3> SUFFICES ASSUME ~WasCut', NEW g \in P!File, P!Torn(g)'
                 PROVE  \E q \in Run : file'[g].by = q /\ stage'[q] \in Opened[g]
      OBVIOUS
    <3>c. ~WasCut /\ stage[r] = "detect"
      BY <1>0
    <3>0. g # "face" /\ file'[g] = file[g] /\ P!Torn(g)
      BY <1>1, <1>3 DEF P!Torn
    <3>1. PICK q \in Run : file[g].by = q /\ stage[q] \in Opened[g]
      BY <3>0, <3>c, <1>2 DEF TornInv
    <3>2. q # r
      BY <3>1, <3>c DEF Opened, P!File
    <3>3. QED
      BY <3>0, <3>1, <3>2, <1>1
  <2>2. file'["whole"] = file["whole"] /\ file'["stats"] = file["stats"]
    BY <1>1 DEF P!File
  <2>3. QED
    BY <2>1, <2>2, <1>0, <1>1, <1>2 DEF TornInv, P!Exists
<1>6. MixedInv'
  BY <1>0, <1>1, <1>2 DEF MixedInv, P!Active
<1>7. AloneInv'
  BY <1>0, <1>1, <1>2, <1>a DEF AloneInv, P!File
<1>8. VouchInv'
  BY <1>0, <1>1, <1>2, <1>a DEF VouchInv, P!Exists, P!File
<1>9. FailedInv'
  BY <1>0, <1>1, <1>2 DEF FailedInv, P!Torn, P!File
<1>10. QED
  BY <1>4, <1>5, <1>6, <1>7, <1>8, <1>9 DEF PreInv

\* Every step of every run keeps the invariant.
LEMMA PreNext ==
  ASSUME PreInv, [P!Next]_P!vars
  PROVE  PreInv'
<1>t. /\ found \in [Run -> BOOLEAN] /\ \A r \in Run : found[r] \in BOOLEAN
  BY DEF PreInv, PreTypes
<1>s. /\ {"meta", "whole", "face", "stats"} = P!File
      /\ {"record", "recording", "look", "saving", "detect", "cropping", "mark", "marking", "complete",
          "completing", "produced"} \subseteq Stages
  BY DEF P!File, Stages
<1>1. ASSUME NEW r \in Run, P!SaveRecord(r)
      PROVE  PreInv'
  <2>1. CASE P!Open(r, "meta", "record", "recording")
    BY <2>1, <1>s, OpenStep
  <2>2. CASE P!Close(r, "meta", "recording", "look")
    BY <2>2, <1>s, <1>t, FileClosed DEF P!Close
  <2>3. QED
    BY <2>1, <2>2, <1>1 DEF P!SaveRecord
<1>2. ASSUME NEW r \in Run, P!SaveWhole(r)
      PROVE  PreInv'
  <2>1. CASE ~P!CacheHit(r) /\ P!Open(r, "whole", "look", "saving")
    BY <2>1, <1>s, OpenStep
  <2>2. CASE P!Close(r, "whole", "saving", "detect")
    BY <2>2, <1>s, <1>t, FileClosed DEF P!Close
  <2>3. QED
    BY <2>1, <2>2, <1>2 DEF P!SaveWhole
<1>3. ASSUME NEW r \in Run, P!SaveFace(r)
      PROVE  PreInv'
  <2>1. CASE P!Open(r, "face", "detect", "cropping")
    BY <2>1, <1>s, OpenStep
  <2>2. CASE ~P!Open(r, "face", "detect", "cropping")
    BY <2>2, <1>3, <1>s, <1>t, FileClosed DEF P!SaveFace
  <2>3. QED
    BY <2>1, <2>2
<1>4. ASSUME NEW r \in Run, P!Mark(r)
      PROVE  PreInv'
  <2>1. CASE P!Open(r, "stats", "mark", "marking")
    BY <2>1, <1>s, OpenStep
  <2>2. CASE P!Close(r, "stats", "marking", "complete")
    BY <2>2, <1>s, <1>t, FileClosed DEF P!Close
  <2>3. QED
    BY <2>1, <2>2, <1>4 DEF P!Mark
<1>5. ASSUME NEW r \in Run, P!Complete(r)
      PROVE  PreInv'
  <2>1. CASE P!Open(r, "meta", "complete", "completing")
    BY <2>1, <1>s, OpenStep
  <2>2. CASE P!Close(r, "meta", "completing", "produced")
    BY <2>2, <1>s, <1>t, FileClosed DEF P!Close
  <2>3. QED
    BY <2>1, <2>2, <1>5 DEF P!Complete
<1>6. CASE UNCHANGED P!vars
  BY <1>6 DEF P!vars, PreInv, PreTypes, TornInv, MixedInv, AloneInv, VouchInv, FailedInv, WasCut, P!Torn,
              P!Exists, P!Active
<1>7. ASSUME NEW r \in Run, P!Step(r) \/ P!Kill(r)
      PROVE  PreInv'
  BY <1>1, <1>2, <1>3, <1>4, <1>5, <1>7, BeginStep, HandOverStep, PreEndStep, NoFaceStep DEF P!Step
<1>8. QED
  BY <1>6, <1>7 DEF P!Next

\* For any number of runs over one media file, of kills and of failed writes: when no run is under way,
\* and, if one was killed or could not write, the runs neither overlapped nor were forced, a whole marker vouches for a whole main array and, where it
\* says so, for a face array that is not torn.
THEOREM MarkersAreTrue == P!Spec => []MarkerVouches
<1>1. PreInv => MarkerVouches
  <2> SUFFICES ASSUME PreInv, P!Quiet, file["stats"].st = "whole", mixed \cap P!Cut = {} \/ mixed \subseteq P!Cut
               PROVE  file["whole"].st = "whole" /\ (file["stats"].face => ~P!Torn("face"))
    BY DEF MarkerVouches, P!MarkerVouches
  <2>1. CASE WasCut
    BY <2>1 DEF PreInv, VouchInv, P!Torn, WasCut, P!Cut
  <2>2. CASE ~WasCut
    <3>1. \A f \in P!File : ~P!Torn(f)
      <4> SUFFICES ASSUME NEW f \in P!File, P!Torn(f) PROVE FALSE
        OBVIOUS
      <4>1. PICK r \in Run : stage[r] \in Opened[f]
        BY <2>2 DEF PreInv, TornInv
      <4>2. QED
        BY <4>1 DEF Opened, P!File, P!Quiet, P!Active
    <3>2. P!Exists("whole")
      BY DEF PreInv, TornInv, P!Exists
    <3>3. QED
      BY <3>1, <3>2 DEF PreInv, PreTypes, P!Exists, P!Torn, P!File
  <2>3. QED
    BY <2>1, <2>2
<1>2. QED
  BY <1>1, PreInitial, PreNext, PTL DEF P!Spec

\* For any number of runs, of kills and of failed writes: an inferencer fails on a cached file only after
\* runs overlapped, or a run was killed or could not write; without force the marker is then torn, and
\* stays so.
THEOREM FailuresHaveCauses == P!Spec => []FailuresExplained
<1>1. PreInv => FailuresExplained
  BY DEF PreInv, FailedInv, FailuresExplained, P!FailuresExplained, WasCut
<1>2. QED
  BY <1>1, PreInitial, PreNext, PTL DEF P!Spec

-----------------------------------------------------------------------------
(***************************************************************************)
(* The training data.                                                      *)
(***************************************************************************)
DataTypes ==
  /\ raw \in [Clip -> T!File] /\ frames \in [Clip \X BOOLEAN -> T!File]
  /\ packed \subseteq Clip /\ todo \subseteq Clip /\ clips \subseteq Clip
  /\ phase = "save" => cur \in Clip
  /\ phase \in {"idle", "unzip", "unlink", "dl_mark", "stamp", "enumerate", "extract", "save", "pp_mark"}

AllRaw == \A c \in Clip : raw[c] = "whole"
OnDisk == \A c \in Clip : raw[c] = "whole" \/ c \in packed

\* A download that is marked, or about to be, left every clip on disk.
DownloadInv ==
  /\ phase \in {"unzip", "unlink"} => ds \in {"celebdf_v2", "aigvdet", "dfdc"}
  /\ phase \in {"unzip", "unlink", "dl_mark"} /\ ds # "fakeavceleb" => ~dl
  /\ phase = "unlink" => AllRaw
  /\ (dl \/ phase = "dl_mark") /\ ~odd /\ ds # "fakeavceleb" => OnDisk
  /\ (dl \/ phase = "dl_mark") /\ ds = "wilddeepfake" => packed = Clip

\* A frame file is torn only by a save that was cut short; what is extracted or listed has one.
FramesInv ==
  /\ \A x \in Clip \X BOOLEAN : frames[x] = "torn" => x \in torn
  /\ \A c \in clips : frames[<<c, T!Fake(c)>>] # "absent"
  /\ manifest # None =>
       /\ DOMAIN manifest.split \subseteq Clip
       /\ \A c \in DOMAIN manifest.split : frames[<<c, c \in manifest.fake>>] # "absent"

\* Unless a manifest was cut short or left without its marker, the first manifest is the last.
OnceInv ==
  /\ phase \in {"stamp", "enumerate", "extract", "save", "pp_mark"} => ~pp
  /\ ~cut => (manifest # None => pp \/ phase = "pp_mark") /\ (trained # {} => pp)
  /\ ~cut /\ manifest # None => T!Rows("test") \cap trained = {}

DataInv == DataTypes /\ DownloadInv /\ FramesInv /\ OnceInv /\ SourcesTogether

\* On a new machine nothing is downloaded, extracted, split or trained on.
LEMMA DataInitial ==
  ASSUME T!Init
  PROVE  DataInv
<1>1. DataTypes
  BY DEF T!Init, DataTypes, T!File
<1>2. DownloadInv
  BY DEF T!Init, DownloadInv
<1>3. FramesInv
  BY DEF T!Init, FramesInv
<1>4. OnceInv /\ SourcesTogether
  BY DEF T!Init, OnceInv, SourcesTogether, T!SourcesTogether
<1>5. QED
  BY <1>1, <1>2, <1>3, <1>4 DEF DataInv

\* A prefix of a shuffle is a part of what was shuffled.
LEMMA FirstOfShuffle ==
  ASSUME NEW S \in SUBSET Clip, NEW n
  PROVE  T!First(Shuffled[S], n) \subseteq S
<1>1. Shuffled[S] \in Seq(S)
  BY DataAssumption
<1>2. QED
  BY <1>1 DEF T!First

\* Every step of downloads, extraction and training keeps the types.
LEMMA DataTypesStep ==
  ASSUME DataTypes, [T!Next]_T!vars
  PROVE  DataTypes'
<1> USE DEF T!disk, T!local, T!ghost, T!Goto, T!File
<1>1. CASE T!FetchDrive \/ T!FetchGvd
  BY <1>1 DEF T!FetchDrive, T!FetchGvd, T!Arrives, DataTypes
<1>2. CASE T!FetchFolder
  BY <1>2 DEF T!FetchFolder, DataTypes
<1>3. CASE T!FetchKaggle
  BY <1>3 DEF T!FetchKaggle, T!Arrives, DataTypes
<1>4. CASE T!Unzip
  BY <1>4 DEF T!Unzip, DataTypes
<1>5. CASE T!UnzipFails
  BY <1>5 DEF T!UnzipFails, T!Partly, DataTypes
<1>6. CASE T!Unlink
  BY <1>6 DEF T!Unlink, DataTypes
<1>7. CASE T!FetchMethods \/ T!FetchSnapshot
  BY <1>7 DEF T!FetchMethods, T!FetchSnapshot, T!FetchClips, DataTypes
<1>8. CASE T!FetchShards
  BY <1>8 DEF T!FetchShards, DataTypes
<1>9. CASE T!Drop
  BY <1>9 DEF T!Drop, DataTypes
<1>10. CASE T!FindClips \/ T!DlMark \/ T!Stamp \/ T!PpMark \/ T!Train
  BY <1>10 DEF T!FindClips, T!DlMark, T!Stamp, T!PpMark, T!Train, DataTypes
<1>11. CASE T!Unpack
  BY <1>11 DEF T!Unpack, DataTypes
<1>12. CASE T!Enumerate
  <2> DEFINE there == {c \in Clip : raw[c] # "absent"}
  <2>1. todo' = T!First(Shuffled[{c \in there : ~T!Labelled(c, meta)}], CapReal)
                  \cup T!First(Shuffled[{c \in there : T!Labelled(c, meta)}], CapFake)
    BY <1>12 DEF T!Enumerate
  <2>2. todo' \subseteq Clip
    BY <2>1, FirstOfShuffle
  <2>3. QED
    BY <1>12, <2>2 DEF T!Enumerate, DataTypes
<1>13. CASE T!Extract
  <2>1. todo # {} /\ T!Next1 \in todo
    BY <1>13 DEF T!Extract, T!Next1
  <2>2. QED
    BY <1>13, <2>1 DEF T!Extract, T!Reuse, T!Skip, T!Decode, DataTypes
<1>14. CASE T!Save
  BY <1>14 DEF T!Save, T!Saved, DataTypes
<1>15. CASE T!SaveFails
  BY <1>15 DEF T!SaveFails, T!Saved, DataTypes
<1>16. CASE T!Manifest
  BY <1>16 DEF T!Manifest, DataTypes
<1>16a. CASE T!ManifestCut
  BY <1>16a DEF T!ManifestCut, DataTypes
<1>17. CASE T!Crash
  <2>1. raw' \in [Clip -> T!File]
    BY <1>17 DEF T!Crash, T!Partly, DataTypes
  <2>2. frames' \in [Clip \X BOOLEAN -> T!File]
    BY <1>17 DEF T!Crash, T!Saved, DataTypes
  <2>3. QED
    BY <1>17, <2>1, <2>2 DEF T!Crash, DataTypes
<1>18. CASE UNCHANGED T!vars
  BY <1>18 DEF T!vars, DataTypes
<1>19. QED
  BY <1>1, <1>2, <1>3, <1>4, <1>5, <1>6, <1>7, <1>8, <1>9, <1>10, <1>11, <1>12, <1>13, <1>14, <1>15,
     <1>16, <1>16a, <1>17, <1>18 DEF T!Next

\* A download is marked after the last clip is on disk, and the archive goes after the clips are out:
\* every step keeps that.
LEMMA FetchStep ==
  ASSUME DataTypes, DownloadInv, [T!Next]_T!vars
  PROVE  DownloadInv'
<1> USE DEF T!disk, T!local, T!ghost, T!Goto, DownloadInv, AllRaw, OnDisk
<1>1. CASE T!FetchDrive \/ T!FetchGvd
  BY <1>1 DEF T!FetchDrive, T!FetchGvd, T!Arrives
<1>2. CASE T!FetchFolder
  BY <1>2 DEF T!FetchFolder
<1>3. CASE T!FetchKaggle
  BY <1>3 DEF T!FetchKaggle, T!Arrives
<1>4. CASE T!Unzip
  BY <1>4 DEF T!Unzip
<1>5. CASE T!UnzipFails
  BY <1>5 DEF T!UnzipFails
<1>6. CASE T!Unlink
  BY <1>6 DEF T!Unlink
<1>7. CASE T!FetchMethods \/ T!FetchSnapshot
  <2>1. PICK got \in SUBSET Clip :
          /\ raw' = [c \in Clip |-> IF c \in got THEN "whole" ELSE raw[c]]
          /\ phase' = IF got = Clip THEN "dl_mark" ELSE "idle"
          /\ UNCHANGED <<ds, dl, packed, odd>> /\ ~dl /\ ds \in {"ffpp", "genvideo"}
    BY <1>7 DEF T!FetchMethods, T!FetchSnapshot, T!FetchClips
  <2>2. QED
    BY <2>1
<1>8. CASE T!FetchShards
  BY <1>8 DEF T!FetchShards, DataTypes
<1>9. CASE T!Drop
  <2>1. PICK c \in Clip : raw[c] = "absent" /\ raw' = [raw EXCEPT ![c] = "whole"]
    BY <1>9 DEF T!Drop
  <2>2. \A b \in Clip : raw[b] = "whole" => raw'[b] = "whole"
    BY <2>1 DEF DataTypes
  <2>3. UNCHANGED <<ds, phase, dl, packed, odd>> /\ phase = "idle" /\ ds # "wilddeepfake"
    BY <1>9 DEF T!Drop
  <2>4. QED
    BY <2>2, <2>3
<1>10. CASE T!FindClips \/ T!DlMark
  BY <1>10 DEF T!FindClips, T!DlMark
<1>11. CASE T!Unpack
  BY <1>11 DEF T!Unpack
<1>12. CASE T!Stamp \/ T!PpMark \/ T!Train
  BY <1>12 DEF T!Stamp, T!PpMark, T!Train
<1>13. CASE T!Enumerate
  <2>1. UNCHANGED <<ds, dl, raw, packed, odd>> /\ phase' \in {"idle", "extract"}
    BY <1>13 DEF T!Enumerate
  <2>2. QED
    BY <2>1
<1>14. CASE T!Extract \/ T!Manifest \/ T!ManifestCut
  <2>1. UNCHANGED <<ds, dl, raw, packed, odd>> /\ phase' \in {"idle", "extract", "save", "pp_mark"}
    BY <1>14 DEF T!Extract, T!Reuse, T!Skip, T!Decode, T!Manifest, T!ManifestCut
  <2>2. QED
    BY <2>1
<1>15. CASE T!Save \/ T!SaveFails
  BY <1>15 DEF T!Save, T!SaveFails
<1>16. CASE T!Crash
  <2>1. /\ UNCHANGED <<ds, dl, packed, odd>> /\ phase' = "idle"
        /\ phase # "unzip" => raw' = raw
    BY <1>16 DEF T!Crash
  <2>2. CASE phase = "unzip"
    BY <2>1, <2>2
  <2>3. CASE phase # "unzip"
    BY <2>1, <2>3
  <2>4. QED
    BY <2>2, <2>3
<1>17. CASE UNCHANGED T!vars
  BY <1>17 DEF T!vars
<1>18. QED
  BY <1>1, <1>2, <1>3, <1>4, <1>5, <1>6, <1>7, <1>8, <1>9, <1>10, <1>11, <1>12, <1>13, <1>14, <1>15,
     <1>16, <1>17 DEF T!Next

\* The actions that touch neither the frames, the clips extracted nor the manifest.
OtherWork ==
  \/ T!FetchDrive \/ T!FetchFolder \/ T!FetchGvd \/ T!FetchKaggle \/ T!Unzip \/ T!UnzipFails \/ T!Unlink
  \/ T!FetchMethods \/ T!FetchSnapshot \/ T!FetchShards \/ T!Drop \/ T!FindClips \/ T!DlMark
  \/ T!Unpack \/ T!Stamp

\* The steps of a download and of unpacking leave frames, rows, manifest and training alone, and none
\* begins before an extraction that is already marked.
LEMMA OtherWorkLeaves ==
  ASSUME DataTypes, OtherWork
  PROVE  /\ UNCHANGED <<ds, pp, frames, clips, truth, manifest, torn, cut, trained>>
         /\ phase \notin {"save", "pp_mark", "extract"}
         /\ phase' \in {"stamp", "enumerate"} => phase = "stamp" \/ ~pp
         /\ phase' \notin {"extract", "save", "pp_mark"}
<1> USE DEF T!disk, T!local, T!ghost, T!Goto
<1>1. CASE T!FetchDrive \/ T!FetchGvd
  BY <1>1 DEF T!FetchDrive, T!FetchGvd, T!Arrives
<1>2. CASE T!FetchFolder
  BY <1>2 DEF T!FetchFolder
<1>3. CASE T!FetchKaggle
  BY <1>3 DEF T!FetchKaggle, T!Arrives
<1>4. CASE T!Unzip \/ T!UnzipFails \/ T!Unlink
  BY <1>4 DEF T!Unzip, T!UnzipFails, T!Unlink
<1>5. CASE T!FetchMethods \/ T!FetchSnapshot
  BY <1>5 DEF T!FetchMethods, T!FetchSnapshot, T!FetchClips
<1>6. CASE T!FetchShards \/ T!Drop
  BY <1>6 DEF T!FetchShards, T!Drop
<1>7. CASE T!FindClips \/ T!DlMark
  BY <1>7 DEF T!FindClips, T!DlMark
<1>8. CASE T!Unpack \/ T!Stamp
  BY <1>8 DEF T!Unpack, T!Stamp
<1>9. QED
  BY <1>1, <1>2, <1>3, <1>4, <1>5, <1>6, <1>7, <1>8 DEF OtherWork

\* A save, whole or cut short, writes the frames of one clip under the label it has, and takes none
\* away.
LEMMA SavedFrames ==
  ASSUME DataTypes, NEW s \in {"torn", "whole"}, phase = "save", T!Saved(s)
  PROVE  /\ frames'[<<cur, T!Fake(cur)>>] = s
         /\ \A x \in Clip \X BOOLEAN : x # <<cur, T!Fake(cur)>> => frames'[x] = frames[x]
         /\ \A x \in Clip \X BOOLEAN : frames[x] # "absent" => frames'[x] # "absent"
<1>1. cur \in Clip /\ <<cur, T!Fake(cur)>> \in Clip \X BOOLEAN
  BY DEF DataTypes, T!Fake, T!Labelled
<1> DEFINE at == <<cur, T!Fake(cur)>>
<1>2. frames' = [frames EXCEPT ![at] = s] /\ at \in Clip \X BOOLEAN
  BY <1>1 DEF T!Saved
<1> HIDE DEF at
<1>3. \A x \in Clip \X BOOLEAN : frames'[x] = IF x = at THEN s ELSE frames[x]
  BY <1>2 DEF DataTypes
<1>4. frames'[at] = s /\ \A x \in Clip \X BOOLEAN : frames[x] # "absent" => frames'[x] # "absent"
  BY <1>2, <1>3
<1>5. QED
  BY <1>3, <1>4 DEF at

\* A clip with a yes or a no is a pair.
LEMMA MarkIsPair ==
  ASSUME NEW S, NEW R, NEW c \in S
  PROVE  <<c, c \in R>> \in S \X BOOLEAN
<1> DEFINE b == c \in R
<1>1. b \in BOOLEAN
  OBVIOUS
<1> HIDE DEF b
<1>2. <<c, b>> \in S \X BOOLEAN
  BY <1>1
<1>3. QED
  BY <1>2 DEF b

\* A split is of the clips extracted, and clips of one identity go to one part: the identities are
\* dealt, not the clips.
LEMMA SplitsKeepIdentities ==
  ASSUME NEW split \in T!Splits
  PROVE  /\ DOMAIN split = clips
         /\ \A c, d \in clips : T!Identity(c) = T!Identity(d) => split[c] = split[d]
<1> DEFINE order == Shuffled[{T!Identity(c) : c \in clips}]
           n == Len(order)
           place(c) == CHOOSE i \in 1 .. n : order[i] = T!Identity(c)
           deal(t, v) ==
             [c \in clips |-> IF place(c) <= t THEN "train" ELSE IF place(c) <= t + v THEN "val" ELSE "test"]
<1>1. T!Splits = {deal(t, v) : t \in T!Share(n, TrainShare), v \in T!Share(n, ValShare)}
  BY DEF T!Splits
<1>2. \A t, v : /\ DOMAIN deal(t, v) = clips
                /\ \A c, d \in clips : T!Identity(c) = T!Identity(d) => deal(t, v)[c] = deal(t, v)[d]
  <2> SUFFICES ASSUME NEW t, NEW v, NEW c \in clips, NEW d \in clips, T!Identity(c) = T!Identity(d)
               PROVE  deal(t, v)[c] = deal(t, v)[d]
    OBVIOUS
  <2>1. place(c) = place(d)
    OBVIOUS
  <2> HIDE DEF place
  <2>2. QED
    BY <2>1
<1> HIDE DEF n, deal
<1>3. PICK t, v : split = deal(t, v)
  BY <1>1
<1>4. QED
  BY <1>2, <1>3

\* A clip extracted or listed has a frame file under its label, and a frame file is torn only by a save
\* that was cut short: every step keeps that.
LEMMA FramesStep ==
  ASSUME DataTypes, FramesInv, [T!Next]_T!vars
  PROVE  FramesInv'
<1> USE DEF T!disk, T!local, T!ghost, T!Goto
<1>1. CASE OtherWork
  <2>1. UNCHANGED <<ds, frames, clips, truth, manifest, torn>>
    BY <1>1, OtherWorkLeaves
  <2>2. QED
    BY <2>1 DEF FramesInv, T!Fake, T!Labelled
<1>2. CASE T!Enumerate
  BY <1>2 DEF T!Enumerate, FramesInv
<1>3. CASE T!Extract
  <2>1. T!Next1 \in todo /\ T!Next1 \in Clip
    BY <1>3 DEF T!Extract, T!Next1, DataTypes
  <2>2. /\ UNCHANGED <<ds, frames, truth, manifest, torn>>
        /\ \/ clips' = clips
           \/ clips' = clips \cup {T!Next1} /\ frames[<<T!Next1, T!Fake(T!Next1)>>] # "absent"
    BY <1>3 DEF T!Extract, T!Reuse, T!Skip, T!Decode
  <2>3. \A c \in Clip : T!Fake(c)' = T!Fake(c)
    BY <2>2 DEF T!Fake, T!Labelled
  <2>4. \A c \in clips' : frames'[<<c, T!Fake(c)'>>] # "absent"
    BY <2>1, <2>2, <2>3 DEF FramesInv, DataTypes
  <2>5. QED
    BY <2>2, <2>4 DEF FramesInv
<1>4. CASE T!Save \/ T!SaveFails
  <2>0. PICK s \in {"torn", "whole"} :
          /\ phase = "save" /\ T!Saved(s) /\ clips' = IF s = "whole" THEN clips \cup {cur} ELSE clips
          /\ torn' = IF s = "torn" THEN torn \cup {<<cur, T!Fake(cur)>>} ELSE torn
          /\ UNCHANGED <<ds, truth, manifest>>
    BY <1>4 DEF T!Save, T!SaveFails
  <2>1. /\ frames'[<<cur, T!Fake(cur)>>] = s /\ cur \in Clip
        /\ \A x \in Clip \X BOOLEAN : x # <<cur, T!Fake(cur)>> => frames'[x] = frames[x]
        /\ \A x \in Clip \X BOOLEAN : frames[x] # "absent" => frames'[x] # "absent"
    BY <2>0, SavedFrames DEF DataTypes
  <2>2. \A c : T!Fake(c)' = T!Fake(c) /\ T!Fake(c) \in BOOLEAN
    BY <2>0 DEF T!Fake, T!Labelled
  <2>3. \A x \in Clip \X BOOLEAN : frames'[x] = "torn" => x \in torn'
    BY <2>0, <2>1 DEF FramesInv
  <2>4. \A c \in clips' : frames'[<<c, T!Fake(c)'>>] # "absent"
    <3> SUFFICES ASSUME NEW c \in clips' PROVE frames'[<<c, T!Fake(c)>>] # "absent"
      BY <2>2
    <3>1. CASE c = cur
      BY <3>1, <2>1
    <3>2. CASE c # cur
      <4>1. c \in clips /\ <<c, T!Fake(c)>> \in Clip \X BOOLEAN
        BY <3>2, <2>0, <2>2 DEF DataTypes
      <4>2. frames[<<c, T!Fake(c)>>] # "absent"
        BY <4>1 DEF FramesInv
      <4>3. QED
        BY <4>1, <4>2, <2>1
    <3>3. QED
      BY <3>1, <3>2
  <2>5. manifest' # None =>
          /\ DOMAIN manifest'.split \subseteq Clip
          /\ \A c \in DOMAIN manifest'.split : frames'[<<c, c \in manifest'.fake>>] # "absent"
    <3> SUFFICES ASSUME manifest # None
                 PROVE  /\ DOMAIN manifest.split \subseteq Clip
                        /\ \A c \in DOMAIN manifest.split : frames'[<<c, c \in manifest.fake>>] # "absent"
      BY <2>0
    <3>1. DOMAIN manifest.split \subseteq Clip
      BY DEF FramesInv
    <3>2. ASSUME NEW c \in DOMAIN manifest.split
          PROVE  frames'[<<c, c \in manifest.fake>>] # "absent"
      <4>1. <<c, c \in manifest.fake>> \in Clip \X BOOLEAN
        BY <3>1, <3>2, MarkIsPair
      <4>2. frames[<<c, c \in manifest.fake>>] # "absent"
        BY <3>2 DEF FramesInv
      <4>3. QED
        BY <4>1, <4>2, <2>1
    <3>3. QED
      BY <3>1, <3>2
  <2>6. QED
    BY <2>3, <2>4, <2>5 DEF FramesInv
<1>5. CASE T!Manifest
  <2>0. UNCHANGED <<ds, frames, clips, truth, torn>>
    BY <1>5 DEF T!Manifest
  <2>1. \A c : T!Fake(c)' = T!Fake(c)
    BY <2>0 DEF T!Fake, T!Labelled
  <2>2. manifest' # None =>
          /\ DOMAIN manifest'.split \subseteq Clip
          /\ \A c \in DOMAIN manifest'.split : frames'[<<c, c \in manifest'.fake>>] # "absent"
    <3>1. CASE clips = {}
      BY <3>1, <1>5, <2>0 DEF T!Manifest, FramesInv
    <3>2. CASE clips # {}
      <4>1. PICK split \in T!Splits : manifest' = [split |-> split, fake |-> {c \in clips : T!Fake(c)}, truth |-> truth]
        BY <3>2, <1>5 DEF T!Manifest
      <4>2. DOMAIN split = clips
        BY SplitsKeepIdentities
      <4>3. /\ manifest'.split = split /\ \A c \in clips : (c \in manifest'.fake) = T!Fake(c)
        BY <4>1 DEF T!Fake, T!Labelled
      <4>4. \A c \in clips : frames'[<<c, c \in manifest'.fake>>] # "absent"
        BY <4>3, <2>0 DEF FramesInv
      <4>5. QED
        BY <4>2, <4>3, <4>4 DEF DataTypes
    <3>3. QED
      BY <3>1, <3>2
  <2>3. QED
    BY <2>0, <2>1, <2>2 DEF FramesInv
<1>5a. CASE T!ManifestCut
  <2>0. UNCHANGED <<frames, torn>> /\ clips' = {}
    BY <1>5a DEF T!ManifestCut
  <2>1. PICK split \in T!Splits, kept \in SUBSET clips :
          manifest' = [split |-> [c \in kept |-> split[c]], fake |-> {c \in kept : T!Fake(c)}, truth |-> truth]
    BY <1>5a DEF T!ManifestCut
  <2>2. /\ DOMAIN manifest'.split = kept
        /\ \A c \in kept : (c \in manifest'.fake) = T!Fake(c)
    BY <2>1 DEF T!Fake, T!Labelled
  <2>3. \A c \in kept : c \in Clip /\ frames'[<<c, c \in manifest'.fake>>] # "absent"
    BY <2>0, <2>2 DEF FramesInv, DataTypes
  <2>4. QED
    BY <2>0, <2>2, <2>3 DEF FramesInv
<1>6. CASE T!PpMark \/ T!Train
  <2>1. CASE T!PpMark
    BY <2>1 DEF T!PpMark, FramesInv
  <2>2. CASE T!Train
    BY <2>2 DEF T!Train, FramesInv, T!Fake, T!Labelled
  <2>3. QED
    BY <1>6, <2>1, <2>2
<1>7. CASE T!Crash
  <2>0. clips' = {} /\ manifest' = manifest
    BY <1>7 DEF T!Crash
  <2>1. CASE phase # "save"
    BY <2>0, <2>1, <1>7 DEF T!Crash, FramesInv
  <2>2. CASE phase = "save"
    <3>0. T!Saved("torn") /\ torn' = torn \cup {<<cur, T!Fake(cur)>>}
      BY <2>2, <1>7 DEF T!Crash
    <3>1. /\ frames'[<<cur, T!Fake(cur)>>] = "torn"
          /\ \A x \in Clip \X BOOLEAN : x # <<cur, T!Fake(cur)>> => frames'[x] = frames[x]
          /\ \A x \in Clip \X BOOLEAN : frames[x] # "absent" => frames'[x] # "absent"
      BY <3>0, <2>2, SavedFrames
    <3>2. \A x \in Clip \X BOOLEAN : frames'[x] = "torn" => x \in torn'
      BY <3>0, <3>1 DEF FramesInv
    <3>3. ASSUME manifest # None, NEW c \in DOMAIN manifest.split
          PROVE  c \in Clip /\ frames'[<<c, c \in manifest.fake>>] # "absent"
      <4>1. c \in Clip /\ <<c, c \in manifest.fake>> \in Clip \X BOOLEAN
        BY <3>3, MarkIsPair DEF FramesInv
      <4>2. frames[<<c, c \in manifest.fake>>] # "absent"
        BY <3>3 DEF FramesInv
      <4>3. QED
        BY <4>1, <4>2, <3>1
    <3>4. QED
      BY <2>0, <3>2, <3>3 DEF FramesInv
  <2>3. QED
    BY <2>1, <2>2
<1>8. CASE UNCHANGED T!vars
  BY <1>8 DEF T!vars, FramesInv, T!Fake, T!Labelled
<1>9. QED
  BY <1>1, <1>2, <1>3, <1>4, <1>5, <1>5a, <1>6, <1>7, <1>8 DEF T!Next, OtherWork

\* Unless a manifest was cut short or left without its marker the extraction is made once, so training
\* sees one split: every step keeps that.
LEMMA OnceStep ==
  ASSUME DataTypes, FramesInv, OnceInv, [T!Next]_T!vars
  PROVE  OnceInv'
<1> USE DEF T!disk, T!local, T!ghost, T!Goto
<1>1. CASE OtherWork
  <2>1. /\ UNCHANGED <<pp, manifest, cut, trained>> /\ phase # "pp_mark"
        /\ phase' \in {"stamp", "enumerate"} => phase = "stamp" \/ ~pp
        /\ phase' \notin {"extract", "save", "pp_mark"}
    BY <1>1, OtherWorkLeaves
  <2>2. QED
    BY <2>1 DEF OnceInv, T!Rows
<1>2. CASE T!Enumerate
  BY <1>2 DEF T!Enumerate, OnceInv, T!Rows
<1>3. CASE T!Extract
  <2>1. UNCHANGED <<pp, manifest, cut, trained>> /\ phase = "extract" /\ phase' \in {"extract", "save"}
    BY <1>3 DEF T!Extract, T!Reuse, T!Skip, T!Decode
  <2>2. QED
    BY <2>1 DEF OnceInv, T!Rows
<1>4. CASE T!Save \/ T!SaveFails
  BY <1>4 DEF T!Save, T!SaveFails, OnceInv, T!Rows
<1>5. CASE T!Manifest
  <2>1. /\ UNCHANGED <<pp, cut, trained>> /\ phase = "extract"
        /\ manifest' = manifest \/ phase' = "pp_mark"
    BY <1>5 DEF T!Manifest
  <2>2. ~cut => trained = {}
    BY <2>1 DEF OnceInv
  <2>3. phase' \in {"idle", "pp_mark"} /\ ~pp
    BY <2>1, <1>5 DEF T!Manifest, OnceInv
  <2>4. QED
    BY <2>1, <2>2, <2>3 DEF OnceInv, T!Rows
<1>5a. CASE T!ManifestCut
  BY <1>5a DEF T!ManifestCut, OnceInv
<1>6. CASE T!PpMark
  BY <1>6 DEF T!PpMark, OnceInv, T!Rows
<1>7. CASE T!Train
  <2>1. /\ UNCHANGED <<pp, phase, cut, manifest>> /\ phase = "idle" /\ manifest # None
        /\ trained' = trained \cup T!Rows("train")
    BY <1>7 DEF T!Train
  <2>2. T!Rows("train") \cap T!Rows("test") = {} /\ T!Rows("test")' = T!Rows("test")
    BY <2>1 DEF T!Rows
  <2>3. QED
    BY <2>1, <2>2 DEF OnceInv
<1>8. CASE T!Crash
  <2>1. /\ UNCHANGED <<pp, manifest, trained>> /\ phase' = "idle" /\ cut' = (cut \/ phase = "pp_mark")
    BY <1>8 DEF T!Crash
  <2>2. QED
    BY <2>1 DEF OnceInv, T!Rows
<1>9. CASE UNCHANGED T!vars
  BY <1>9 DEF T!vars, OnceInv, T!Rows
<1>10. QED
  BY <1>1, <1>2, <1>3, <1>4, <1>5, <1>5a, <1>6, <1>7, <1>8, <1>9 DEF T!Next, OtherWork

\* A manifest deals all clips of one source to one part; no other step changes it.
LEMMA SourcesStep ==
  ASSUME SourcesTogether, [T!Next]_T!vars
  PROVE  SourcesTogether'
<1> USE DEF T!disk, T!local, T!ghost
<1>1. CASE T!Manifest /\ clips # {}
  <2>1. /\ UNCHANGED <<ds, truth>>
        /\ \E split \in T!Splits : manifest' = [split |-> split, fake |-> {c \in clips : T!Fake(c)}, truth |-> truth]
    BY <1>1 DEF T!Manifest
  <2>2. PICK split \in T!Splits : manifest' = [split |-> split, fake |-> {c \in clips : T!Fake(c)}, truth |-> truth]
    BY <2>1
  <2>3. manifest'.split = split /\ manifest'.truth = truth
    BY <2>2
  <2>4. ASSUME ds \in {"ffpp", "fakeavceleb"} \/ (ds = "dfdc" /\ truth),
               NEW c \in DOMAIN split, NEW d \in DOMAIN split, Orig[c] = Orig[d]
        PROVE  split[c] = split[d]
    BY <2>4, SplitsKeepIdentities DEF T!Identity
  <2>5. QED
    BY <2>1, <2>3, <2>4 DEF SourcesTogether, T!SourcesTogether
<1>2. CASE T!ManifestCut
  <2>1. /\ UNCHANGED ds
        /\ \E split \in T!Splits, kept \in SUBSET clips :
             manifest' = [split |-> [c \in kept |-> split[c]], fake |-> {c \in kept : T!Fake(c)}, truth |-> truth]
    BY <1>2 DEF T!ManifestCut
  <2>2. PICK split \in T!Splits, kept \in SUBSET clips :
          manifest' = [split |-> [c \in kept |-> split[c]], fake |-> {c \in kept : T!Fake(c)}, truth |-> truth]
    BY <2>1
  <2>3. /\ DOMAIN manifest'.split = kept /\ manifest'.truth = truth
        /\ \A c \in kept : manifest'.split[c] = split[c]
    BY <2>2
  <2>4. ASSUME ds \in {"ffpp", "fakeavceleb"} \/ (ds = "dfdc" /\ truth),
               NEW c \in kept, NEW d \in kept, Orig[c] = Orig[d]
        PROVE  split[c] = split[d]
    BY <2>4, SplitsKeepIdentities DEF T!Identity
  <2>5. QED
    BY <2>1, <2>3, <2>4 DEF SourcesTogether, T!SourcesTogether
<1>3. CASE ~(T!Manifest /\ clips # {}) /\ ~T!ManifestCut
  <2>1. UNCHANGED <<ds, manifest>>
    BY <1>3 DEF T!Next, T!vars, T!FetchDrive, T!FetchFolder, T!FetchGvd, T!FetchKaggle, T!Unzip, T!UnzipFails,
      T!Unlink, T!FetchMethods, T!FetchSnapshot, T!FetchShards, T!Drop, T!FindClips, T!DlMark, T!Unpack, T!Stamp,
      T!Enumerate, T!Extract, T!Save, T!SaveFails, T!Manifest, T!PpMark, T!Train, T!Crash, T!Arrives, T!FetchClips
  <2>2. QED
    BY <2>1 DEF SourcesTogether, T!SourcesTogether
<1>4. QED
  BY <1>1, <1>2, <1>3

\* Every step keeps the invariant.
LEMMA DataNext ==
  ASSUME DataInv, [T!Next]_T!vars
  PROVE  DataInv'
BY DataTypesStep, FetchStep, FramesStep, OnceStep, SourcesStep DEF DataInv

\* For any clips and any faults: a dataset marked as downloaded has every clip on disk or packed,
\* whatever was interrupted before, unless a download ended without its archive; fakeavceleb, which is
\* fetched by hand, is left out.
THEOREM MarkedDataIsFetched == T!Spec => []MarkedIsFetched
<1>1. DataInv => MarkedIsFetched
  BY DEF DataInv, DownloadInv, OnDisk, MarkedIsFetched, T!MarkedIsFetched
<1>2. QED
  BY <1>1, DataInitial, DataNext, PTL DEF T!Spec

\* For any clips and any faults: a clip a manifest lists has a frame file that loads, unless a save of
\* that very file was cut short.
THEOREM ListedFramesLoad == T!Spec => []ListedLoads
<1>1. DataInv => ListedLoads
  <2> SUFFICES ASSUME DataInv, manifest # None, NEW c \in DOMAIN manifest.split
               PROVE  T!Loads(c) \/ <<c, c \in manifest.fake>> \in torn
    BY DEF ListedLoads, T!ListedLoads
  <2>1. c \in Clip /\ <<c, c \in manifest.fake>> \in Clip \X BOOLEAN
    BY MarkIsPair DEF DataInv, FramesInv
  <2>2. frames[<<c, c \in manifest.fake>>] \in {"torn", "whole"}
    BY <2>1 DEF DataInv, DataTypes, FramesInv, T!File
  <2>3. QED
    BY <2>1, <2>2 DEF DataInv, FramesInv, T!Loads
<1>2. QED
  BY <1>1, DataInitial, DataNext, PTL DEF T!Spec

\* For any clips, any splits and any faults: no clip of the test part was trained on, however often the
\* stages are started again, until a crash or a full disk cuts a manifest short or keeps its marker from
\* being written.
THEOREM TestStaysUnseen == T!Spec => []TestUnseen
<1>1. DataInv => TestUnseen
  BY DEF DataInv, OnceInv, TestUnseen, T!TestUnseen
<1>2. QED
  BY <1>1, DataInitial, DataNext, PTL DEF T!Spec

\* For any clips and any shuffle: a fake and the real clip it was made from are in one part of the
\* split, for the datasets whose sources are known.
THEOREM SourcesStayTogether == T!Spec => []SourcesTogether
<1>1. DataInv => SourcesTogether
  BY DEF DataInv
<1>2. QED
  BY <1>1, DataInitial, DataNext, PTL DEF T!Spec

-----------------------------------------------------------------------------
(***************************************************************************)
(* The types of all the parts, and what the parts are of the whole.        *)
(***************************************************************************)
\* The attempts of a content are counted within their limit: one that may still be retried has some
\* left, and a task holds a content with one left.
TriesInv ==
  /\ \A c \in Media : shown[c].tries \in 0..MaxAttempts
  /\ \A c \in Media : shown[c].state = "retrying" => shown[c].tries < MaxAttempts
  /\ job.pc # "idle" => job.of \in Media /\ shown[job.of].tries < MaxAttempts

\* Where the synchronisation is, and what it reported.
SyncInv ==
  /\ sync \in [by : {"none", "rclone", "gdown", "nothing"}, at : 1..Len(Order) + 1]
  /\ report \subseteq M!Slugs

\* Every step keeps where the synchronisation is within the curriculum.
LEMMA SyncKept ==
  ASSUME ModelInv, SyncInv, [M!Next]_M!vars
  PROVE  SyncInv'
<1>1. CASE \E by \in {"rclone", "gdown", "nothing"} : M!SyncStart(by)
  BY <1>1, ModelAssumption DEF M!SyncStart, SyncInv
<1>2. CASE M!NextName
  <2>1. sync.at \in 1..Len(Order) + 1 /\ sync.at <= Len(Order) /\ sync' = [sync EXCEPT !.at = @ + 1]
    BY <1>2 DEF M!NextName, SyncInv
  <2>2. sync.at + 1 \in 1..Len(Order) + 1
    BY <2>1, ModelAssumption
  <2> QED
    BY <1>2, <2>1, <2>2 DEF M!NextName, SyncInv
<1>3. CASE M!Verify
  BY <1>3, ModelAssumption DEF M!Verify, M!NoSync, SyncInv
<1>4. CASE UNCHANGED <<sync, report>>
  BY <1>4 DEF SyncInv
<1>5. (\E s \in M!Slugs, f \in M!File : M!Copied(s, f)) => UNCHANGED <<sync, report>>
  BY DEF M!Copied
<1>6. M!AudioCopied => UNCHANGED <<sync, report>>
  BY DEF M!AudioCopied
<1>7. (\E c \in Media : M!Take(c)) \/ M!Preflight \/ M!Unavailable \/ M!Setup \/ M!Score \/ M!Listen
        \/ M!Decide \/ M!Dies => UNCHANGED <<sync, report>>
  BY DEF M!Take, M!Preflight, M!Unavailable, M!Setup, M!Score, M!Listen, M!Decide, M!Dies, M!files
<1>8. UNCHANGED M!vars => UNCHANGED <<sync, report>>
  BY DEF M!vars, M!files
<1> QED
  BY <1>1, <1>2, <1>3, <1>4, <1>5, <1>6, <1>7, <1>8 DEF M!Next

\* Every step keeps the attempts within their limit: only a task that finds no model adds one, and it
\* gives the content up with the last.
LEMMA TriesKept ==
  ASSUME ModelInv, TriesInv, [M!Next]_M!vars
  PROVE  TriesInv'
<1>t. shown \in [Media -> ShownType] /\ MaxAttempts \in Nat \ {0}
  BY ModelAssumption DEF ModelInv, ModelTypes
<1>1. ASSUME NEW c \in Media, M!Take(c)
      PROVE  TriesInv'
  <2>1. job'.pc = "preflight" /\ job'.of = c
    BY <1>1 DEF M!Take
  <2>2. \/ shown[c].state = "retrying" /\ shown' = shown
        \/ shown' = [shown EXCEPT ![c] = M!Nothing]
    BY <1>1, <1>t DEF M!Take
  <2>3. M!Nothing.tries = 0 /\ M!Nothing.state = "none"
    BY DEF M!Nothing
  <2> QED
    BY <1>t, <2>1, <2>2, <2>3 DEF TriesInv
<1>2. CASE M!Unavailable
  <2>1. job.of \in Media /\ shown[job.of].tries < MaxAttempts /\ shown[job.of].tries \in Nat
    BY <1>2, <1>t DEF M!Unavailable, TriesInv
  <2> DEFINE n == shown[job.of].tries + 1
  <2>2. /\ shown'[job.of].tries = n
        /\ shown'[job.of].state = IF n >= MaxAttempts THEN "failed" ELSE "retrying"
        /\ \A c \in Media : c # job.of => shown'[c] = shown[c]
    BY <1>2, <1>t, <2>1 DEF M!Unavailable, ShownType
  <2>3. job'.pc = "idle"
    BY <1>2 DEF M!Unavailable, M!Idle
  <2> QED
    BY <1>t, <2>1, <2>2, <2>3 DEF TriesInv
<1>3. CASE M!Decide
  <2>1. job.of \in Media
    BY <1>3 DEF M!Decide, TriesInv
  <2>2. /\ shown'[job.of].tries = 0 /\ shown'[job.of].state \in {"verdict", "inconclusive"}
        /\ \A c \in Media : c # job.of => shown'[c] = shown[c]
    BY <1>3, <1>t, <2>1 DEF M!Decide
  <2>3. job'.pc = "idle"
    BY <1>3 DEF M!Decide, M!Idle
  <2> QED
    BY <1>t, <2>1, <2>2, <2>3 DEF TriesInv
<1>4. CASE M!Dies
  <2>1. job'.pc = "idle" /\ shown' = shown
    BY <1>4 DEF M!Dies, M!Idle, M!results
  <2> QED
    BY <2>1 DEF TriesInv
<1>5. ASSUME shown' = shown, job.pc # "idle", job'.of = job.of
      PROVE  TriesInv'
  BY <1>5 DEF TriesInv
<1>6. CASE M!Preflight \/ M!Setup \/ M!Listen
  <2>1. job \in JobType /\ shown' = shown /\ job.pc # "idle"
    BY <1>6 DEF M!Preflight, M!Setup, M!Listen, M!results, ModelInv, JobInv
  <2>2. job'.of = job.of
    BY <1>6, <2>1 DEF M!Preflight, M!Setup, M!Listen, JobType
  <2> QED
    BY <1>5, <2>1, <2>2
<1>7. CASE M!Score
  <2>1. job \in JobType /\ shown' = shown /\ job.pc # "idle"
    BY <1>7 DEF M!Score, M!results, ModelInv, JobInv
  <2>2. job'.of = job.of
    BY <1>7, <2>1 DEF M!Score, JobType
  <2> QED
    BY <1>5, <2>1, <2>2
<1>8. CASE UNCHANGED <<job, shown>>
  BY <1>8 DEF TriesInv
<1>9. (\E by \in {"rclone", "gdown", "nothing"} : M!SyncStart(by))
        \/ (\E s \in M!Slugs, f \in M!File : M!Copied(s, f))
        \/ M!NextName \/ M!Verify \/ M!AudioCopied \/ UNCHANGED M!vars => UNCHANGED <<job, shown>>
  BY DEF M!SyncStart, M!Copied, M!NextName, M!Verify, M!AudioCopied, M!vars, M!results
<1> QED
  BY <1>1, <1>2, <1>3, <1>4, <1>6, <1>7, <1>8, <1>9 DEF M!Next

\* The three invariants hold the types between them.
LEMMA ModelTyped == ModelInv /\ SyncInv /\ TriesInv => M!TypeOK
BY DEF ModelInv, ModelTypes, ProcType, ShownType, SyncInv, TriesInv, M!TypeOK

\* Nothing is synchronised and nothing tried at the start.
LEMMA ModelTypesStart == M!Init => SyncInv /\ TriesInv
<1> SUFFICES ASSUME M!Init PROVE SyncInv /\ TriesInv
  OBVIOUS
<1>1. SyncInv
  BY ModelAssumption DEF M!Init, M!NoSync, SyncInv
<1>2. TriesInv
  BY ModelAssumption DEF M!Init, M!Idle, M!Nothing, TriesInv
<1> QED
  BY <1>1, <1>2

\* ModelLoading keeps its types: a worker process holds only checkpoints of its ensemble, a task only
\* what is left of the curriculum, and a content is tried no more often than celery retries it.
THEOREM ModelsTyped == M!Spec => []M!TypeOK
  BY ModelInit, ModelNext, SyncKept, TriesKept, ModelTyped, ModelTypesStart, PTL DEF M!Spec

-----------------------------------------------------------------------------
\* No more processes are killed, and no more writes fail, than may.
KillsInv == kills \in 0..MaxKills

\* Only a kill or a failed write counts, and only below the bound.
LEMMA KillsKept ==
  ASSUME KillsInv, [P!Next]_P!vars
  PROVE  KillsInv'
<1> USE DEF KillsInv
<1>1. ASSUME NEW r \in Run, P!Kill(r)
      PROVE  KillsInv'
  BY <1>1, PreAssumption DEF P!Kill
<1>2. P!Full => KillsInv'
  BY PreAssumption DEF P!Full
<1>3. ASSUME NEW r \in Run, P!Step(r)
      PROVE  kills' = kills \/ P!Full
  BY <1>3 DEF P!Step, P!Begin, P!SaveRecord, P!Open, P!Close, P!Reuse, P!Poisoned, P!Undecodable, P!SaveWhole,
     P!SaveFace, P!NoFace, P!Mark, P!Complete, P!Produced, P!Predict, P!WriteFails
<1> QED
  BY <1>1, <1>2, <1>3 DEF P!Next, P!vars

\* The cache's invariant and the count hold its types.
LEMMA PreTyped == PreInv /\ KillsInv => P!TypeOK
BY DEF KillsInv, PreInv, PreTypes, P!TypeOK

\* PreprocessCache keeps its types: what a run holds, what is on disk and how each run ended are what
\* the cache knows.
THEOREM CacheTyped == P!Spec => []P!TypeOK
<1>1. P!Init => KillsInv
  BY PreAssumption DEF P!Init, KillsInv
<1> QED
  BY <1>1, PreInitial, PreNext, KillsKept, PreTyped, PTL DEF P!Spec

-----------------------------------------------------------------------------
\* The flags are flags, and what was trained on are clips.
FlagsInv ==
  /\ ds \in T!Dataset /\ dl \in BOOLEAN /\ pp \in BOOLEAN /\ meta \in BOOLEAN /\ stamp \in BOOLEAN
  /\ truth \in BOOLEAN /\ odd \in BOOLEAN /\ cut \in BOOLEAN
  /\ cur \in Clip \cup {None} /\ trained \subseteq Clip
  /\ torn \subseteq Clip \X BOOLEAN /\ failures \in 0..MaxFaults

\* Every step of the preparation keeps its flags, its current clip and its failures what they are.
LEMMA FlagsKept ==
  ASSUME DataInv, FlagsInv, [T!Next]_T!vars
  PROVE  FlagsInv'
<1>t. todo \subseteq Clip /\ (phase = "save" => cur \in Clip)
  BY DEF DataInv, DataTypes
<1>1. CASE \/ T!FetchDrive \/ T!FetchFolder \/ T!FetchGvd \/ T!FetchKaggle \/ T!Unzip \/ T!UnzipFails \/ T!Unlink
           \/ T!FetchMethods \/ T!FetchSnapshot \/ T!FetchShards \/ T!Drop \/ T!FindClips \/ T!DlMark
  <2>1. /\ UNCHANGED <<ds, pp, stamp, truth, cut, cur, trained, torn, failures>>
        /\ dl' \in {dl, TRUE} /\ meta' \in {meta, TRUE} /\ odd' \in {odd, TRUE}
    BY <1>1 DEF T!FetchDrive, T!FetchFolder, T!FetchGvd, T!FetchKaggle, T!Unzip, T!UnzipFails, T!Unlink,
       T!FetchMethods, T!FetchSnapshot, T!FetchShards, T!Drop, T!FindClips, T!DlMark, T!FetchClips, T!Arrives,
       T!Partly, T!disk, T!local, T!ghost
  <2> QED
    BY <2>1 DEF FlagsInv
<1>2. CASE T!Unpack \/ T!Stamp \/ T!Enumerate
  <2>1. /\ UNCHANGED <<ds, dl, pp, meta, odd, cut, cur, trained, torn, failures>>
        /\ stamp' \in {stamp, TRUE} /\ truth' \in {truth, meta}
    BY <1>2 DEF T!Unpack, T!Stamp, T!Enumerate, T!disk, T!local, T!ghost
  <2> QED
    BY <2>1 DEF FlagsInv
<1>3. CASE T!Extract
  <2>1. T!Next1 \in Clip
    BY <1>3, <1>t DEF T!Extract, T!Next1
  <2>2. UNCHANGED <<ds, dl, pp, meta, stamp, truth, odd, cut, trained, torn, failures>> /\ cur' \in {cur, T!Next1}
    BY <1>3 DEF T!Extract, T!Reuse, T!Skip, T!Decode, T!disk, T!ghost
  <2> QED
    BY <2>1, <2>2 DEF FlagsInv
<1>4. CASE T!Save
  BY <1>4 DEF T!Save, T!ghost, FlagsInv
<1>p. phase = "save" => <<cur, T!Fake(cur)>> \in Clip \X BOOLEAN
  <2>1. T!Fake(cur) \in BOOLEAN
    BY DEF T!Fake, T!Labelled
  <2> QED
    BY <1>t, <2>1
<1>5. CASE T!SaveFails
  <2>1. torn' \subseteq Clip \X BOOLEAN /\ failures' \in 0..MaxFaults
    BY <1>5, <1>p, DataAssumption DEF T!SaveFails, FlagsInv
  <2> QED
    BY <1>5, <2>1 DEF T!SaveFails, FlagsInv
<1>6. CASE T!Manifest
  BY <1>6 DEF T!Manifest, T!local, T!ghost, FlagsInv
<1>6a. CASE T!ManifestCut
  <2>1. failures' \in 0..MaxFaults
    BY <1>6a, DataAssumption DEF T!ManifestCut, FlagsInv
  <2> QED
    BY <1>6a, <2>1 DEF T!ManifestCut, FlagsInv
<1>7. CASE T!PpMark
  BY <1>7 DEF T!PpMark, T!ghost, FlagsInv
<1>8. CASE T!Train
  <2>1. T!Rows("train") \subseteq Clip
    BY <1>8 DEF T!Train, T!Rows, DataInv, FramesInv
  <2> QED
    BY <1>8, <2>1 DEF T!Train, T!disk, T!local, T!ghost, FlagsInv
<1>9. CASE T!Crash
  <2>1. torn' \subseteq Clip \X BOOLEAN /\ failures' \in 0..MaxFaults
    BY <1>9, <1>p, DataAssumption DEF T!Crash, FlagsInv
  <2>2. /\ UNCHANGED <<ds, dl, pp, stamp, trained, odd>> /\ meta' \in {meta, TRUE}
        /\ cut' \in BOOLEAN /\ cur' = None /\ truth' = FALSE
    BY <1>9 DEF T!Crash, T!Partly, FlagsInv
  <2> QED
    BY <2>1, <2>2 DEF FlagsInv
<1>10. CASE UNCHANGED T!vars
  BY <1>10 DEF T!vars, T!disk, T!local, T!ghost, FlagsInv
<1> QED
  BY <1>1, <1>2, <1>3, <1>4, <1>5, <1>6, <1>6a, <1>7, <1>8, <1>9, <1>10 DEF T!Next

\* The preparation's invariant and its flags hold its types.
LEMMA DataTyped == DataInv /\ FlagsInv => T!TypeOK
BY DEF DataInv, DataTypes, FlagsInv, T!TypeOK

\* TrainingData keeps its types: what was downloaded, cut up and trained on are clips of the dataset.
THEOREM TrainingDataTyped == T!Spec => []T!TypeOK
<1>1. T!Init => FlagsInv
  <2> SUFFICES ASSUME T!Init PROVE FlagsInv
    OBVIOUS
  <2>1. ds \in T!Dataset /\ dl = FALSE /\ pp = FALSE /\ meta = FALSE /\ stamp = FALSE
        /\ truth = FALSE /\ odd = FALSE /\ cut = FALSE
    BY DEF T!Init
  <2>2. cur = None /\ trained = {} /\ torn = {} /\ failures = 0
    BY DEF T!Init
  <2>3. failures \in 0..MaxFaults
    BY <2>2, DataAssumption
  <2> QED
    BY <2>1, <2>2, <2>3 DEF FlagsInv
<1> QED
  BY <1>1, DataInitial, DataNext, FlagsKept, DataTyped, PTL DEF T!Spec

-----------------------------------------------------------------------------
\* What the script stores and answers are numbers.
LEMMA LimitsKept ==
  ASSUME L!TypeOK, [L!Next]_L!vars
  PROVE  L!TypeOK'
<1>t. now \in Nat /\ log \subseteq L!Entry /\ expires \in Nat /\ recent \subseteq L!Entry
  BY DEF L!TypeOK
<1>1. ASSUME NEW d \in L!Drift, NEW m \in Member
      PROVE  L!Stamp(m, d) \in L!Entry
  BY <1>t, LimitAssumption DEF L!Stamp, L!Entry, L!Drift
<1>2. ASSUME NEW d \in L!Drift, NEW S, L!Refuse(S, d)
      PROVE  refused' \in L!Refusal
  <2>1. PICK seconds \in 1 .. (WINDOW + L!Spread) :
          refused' = [at |-> now, wait |-> seconds * SECOND, drift |-> d]
    BY <1>2 DEF L!Refuse
  <2>2. seconds \in Nat /\ SECOND \in Nat
    BY LimitAssumption DEF L!Spread
  <2>3. seconds * SECOND \in Nat
    BY <2>2
  <2> QED
    BY <1>t, <2>1, <2>3 DEF L!Refusal
<1>3. ASSUME NEW d \in L!Drift, NEW m \in Member, L!Count(m, d), now' = now
      PROVE  log' \subseteq L!Entry /\ recent' \subseteq L!Entry /\ expires' \in Nat
  BY <1>t, <1>1, <1>3, LimitAssumption DEF L!Count, L!Trimmed
<1>4. ASSUME NEW d \in L!Drift, NEW m \in Member, L!Admit(m, d)
      PROVE  L!TypeOK'
  BY <1>t, <1>3, <1>4 DEF L!Admit, L!TypeOK
<1>5. ASSUME NEW d \in L!Drift, NEW m \in Member, L!AdmitThenReject(m, d)
      PROVE  L!TypeOK'
  <2>1. refused' \in L!Refusal
    BY <1>2, <1>5 DEF L!AdmitThenReject
  <2> QED
    BY <1>t, <1>3, <1>5, <2>1 DEF L!AdmitThenReject, L!TypeOK
<1>6. ASSUME NEW d \in L!Drift, L!Reject(d)
      PROVE  L!TypeOK'
  <2>1. refused' \in L!Refusal
    BY <1>2, <1>6 DEF L!Reject
  <2> QED
    BY <1>t, <1>6, <2>1, LimitAssumption DEF L!Reject, L!Trimmed, L!TypeOK
<1>7. CASE L!Tick
  BY <1>t, <1>7 DEF L!Tick, L!TypeOK
<1>8. CASE UNCHANGED L!vars
  BY <1>8 DEF L!vars, L!TypeOK, L!Refusal, L!Drift
<1> QED
  BY <1>4, <1>5, <1>6, <1>7, <1>8 DEF L!Next

\* RateLimitState keeps its types: the entries and the seconds it tells clients to wait are numbers.
THEOREM LimitsTyped == L!Spec => []L!TypeOK
<1>1. L!Init => L!TypeOK
  BY DEF L!Init, L!TypeOK
<1> QED
  BY <1>1, LimitsKept, PTL DEF L!Spec

\* UrlFetch keeps its types: what is cached under a URL and what a case was told are answers to it.
THEOREM FetchTyped == U!Spec => []U!TypeOK
<1>1. FetchInv => U!TypeOK
  BY DEF FetchInv
<1> QED
  BY <1>1, FetchInit, FetchNext, PTL DEF U!Spec

\* Evidence keeps its types: a case names evidence and results there are.
THEOREM EvidenceTyped == E!Spec => []E!TypeOK
<1>1. EvidenceInv => E!TypeOK
  BY DEF EvidenceInv, EvTypes, E!TypeOK, EvRow, Payload
<1> QED
  BY <1>1, EvidenceInit, EvidenceNext, PTL DEF E!Spec

-----------------------------------------------------------------------------
\* Every part of the whole behaves as its module says, whatever the others do.
THEOREM PartsAreSpecs ==
  SafetySpec => L!Spec /\ Spec /\ U!Spec /\ E!Spec /\ P!Spec /\ M!Spec /\ V!Spec /\ T!Spec
<1>1. SafetyInit =>
        L!Init /\ Init /\ U!Init /\ E!Init /\ P!Init /\ M!Init /\ V!Init /\ T!Init
  BY DEF SafetyInit
<1>2. ASSUME [SafetyNext]_safetyVars
      PROVE  /\ [L!Next]_L!vars /\ [Next]_vars /\ [U!Next]_U!vars /\ [E!Next]_E!vars
             /\ [P!Next]_P!vars /\ [M!Next]_M!vars /\ [V!Next]_V!vars /\ [T!Next]_T!vars
  <2>1. /\ UNCHANGED limitVars => UNCHANGED L!vars
        /\ UNCHANGED fetchVars => UNCHANGED U!vars
        /\ UNCHANGED evidenceVars => UNCHANGED E!vars
        /\ UNCHANGED preVars => UNCHANGED P!vars
        /\ UNCHANGED modelVars => UNCHANGED M!vars
        /\ UNCHANGED verdictVars => UNCHANGED V!vars
        /\ UNCHANGED trainingVars => UNCHANGED T!vars
    BY DEF limitVars, L!vars, fetchVars, U!vars, evidenceVars, E!vars, preVars, P!vars, modelVars, M!vars,
       M!files, M!results, verdictVars, V!vars, trainingVars, T!vars, T!disk, T!local, T!ghost
  <2>2. CASE Limited
    BY <2>1, <2>2 DEF Limited
  <2>3. CASE Capped
    BY <2>1, <2>3 DEF Capped
  <2>4. CASE Fetches
    BY <2>1, <2>4 DEF Fetches
  <2>5. CASE Keeps
    BY <2>1, <2>5 DEF Keeps
  <2>6. CASE Preprocesses
    BY <2>1, <2>6 DEF Preprocesses
  <2>7. CASE Scores
    BY <2>1, <2>7 DEF Scores
  <2>8. CASE Decides
    BY <2>1, <2>8 DEF Decides
  <2>9. CASE Prepares
    BY <2>1, <2>9 DEF Prepares
  <2>10. CASE UNCHANGED safetyVars
    BY <2>1, <2>10 DEF safetyVars
  <2> QED
    BY <1>2, <2>2, <2>3, <2>4, <2>5, <2>6, <2>7, <2>8, <2>9, <2>10 DEF SafetyNext
<1> QED
  BY <1>1, <1>2, PTL DEF SafetySpec, L!Spec, Spec, U!Spec, E!Spec, P!Spec, M!Spec, V!Spec, T!Spec

\* The types of all the parts, of the specification that the runs check.
THEOREM AllTypesKept == SafetySpec => []TypesOK
  BY PartsAreSpecs, LimitsTyped, SlotsTyped, FetchTyped, EvidenceTyped, CacheTyped, ModelsTyped, VerdictsTyped,
     TrainingDataTyped, PTL DEF TypesOK

-----------------------------------------------------------------------------
(***************************************************************************)
(* The rate limiter of the whole is the one RateLimitProofs is about: two  *)
(* instances of the same actions over the same variables.                  *)
(***************************************************************************)
Proved == INSTANCE RateLimitProofs

\* What the script leaves of the log, stamps and answers.
LEMMA SameScript ==
  \A d : /\ L!Trimmed(d) = Proved!Trimmed(d)
         /\ \A S : L!Refuse(S, d) <=> Proved!Refuse(S, d)
         /\ \A m : L!Count(m, d) <=> Proved!Count(m, d)
         /\ \A m : L!Stamp(m, d) = Proved!Stamp(m, d)
BY DEF L!Refuse, Proved!Refuse, L!Trimmed, Proved!Trimmed, L!Stamp, Proved!Stamp, L!Spread, Proved!Spread,
   L!Covers, Proved!Covers, L!Count, Proved!Count, L!Fresh, Proved!Fresh

\* How much it counts.
LEMMA SameCount ==
  \A S : /\ L!Cardinality(S) = Cardinality(S)
         /\ Proved!Cardinality(S) = Cardinality(S)
BY DEF L!Cardinality, Proved!Cardinality, Cardinality

\* The same steps.
LEMMA SameLimiter == L!Spec => Proved!Spec
<1>1. L!Init => Proved!Init
  BY DEF L!Init, Proved!Init
<1>2. L!Next <=> Proved!Next
  <2>1. \A d, m : L!Admit(m, d) <=> Proved!Admit(m, d)
    BY SameScript, SameCount DEF L!Admit, Proved!Admit
  <2>2. \A d, m : L!AdmitThenReject(m, d) <=> Proved!AdmitThenReject(m, d)
    BY SameScript, SameCount DEF L!AdmitThenReject, Proved!AdmitThenReject
  <2>3. \A d : L!Reject(d) <=> Proved!Reject(d)
    BY SameScript, SameCount DEF L!Reject, Proved!Reject
  <2>4. L!Tick <=> Proved!Tick
    BY DEF L!Tick, Proved!Tick, L!Spread, Proved!Spread
  <2>5. L!Drift = Proved!Drift
    BY DEF L!Drift, Proved!Drift
  <2> QED
    BY <2>1, <2>2, <2>3, <2>4, <2>5 DEF L!Next, Proved!Next
<1>3. [L!Next]_L!vars => [Proved!Next]_Proved!vars
  BY <1>2 DEF L!vars, Proved!vars
<1> QED
  BY <1>1, <1>3, PTL DEF L!Spec, Proved!Spec

\* The same properties.
LEMMA SameLimits ==
  /\ Proved!RateBound => RateBound
  /\ Proved!RetryAfterIsEnough => RetryAfterIsEnough
  /\ Proved!RefusedOnlyWhenFull => RefusedOnlyWhenFull
<1>1. /\ \A d : Proved!Trimmed(d) = Trimmed(d)
      /\ \A w : Proved!CountedWithin(w) = CountedWithin(w)
      /\ Proved!Spread = Spread
  BY DEF Proved!Trimmed, Trimmed, Proved!CountedWithin, CountedWithin, Proved!Spread, Spread
<1> QED
  BY <1>1, SameCount DEF Proved!RateBound, RateBound, Proved!RetryAfterIsEnough, RetryAfterIsEnough,
     Proved!RefusedOnlyWhenFull, RefusedOnlyWhenFull

\* RateLimitProofs' theorems, of this instance.
LEMMA LimiterProved ==
  Proved!Spec => [](Proved!RateBound /\ Proved!RetryAfterIsEnough /\ Proved!RefusedOnlyWhenFull)
BY LimitAssumption, Proved!WindowBounded, Proved!RetryAfterHonest, Proved!NoFalseRefusal, PTL
   DEF Proved!LimitAssumption

\* What is proved of the parts holds of that specification, whatever part a behaviour explores: every
\* invariant of the run over it, for any value of the constants.  The bounds of the run (MaxTime, Least,
\* Rare, Calm) are not needed: the parts' own theorems know none of them.  The one assumption is that of
\* the code: a stream ends long before its slot would expire.
THEOREM TheWholeIsSafe ==
  ASSUME LIFETIME < TTL
  PROVE  SafetySpec =>
           [](/\ RateBound /\ RetryAfterIsEnough /\ RefusedOnlyWhenFull
              /\ CapHolds /\ ResetNeedsLoss
              /\ RejectedForGood /\ OwnFileStays /\ EvidenceMatchesVerdict
              /\ MarkerVouches /\ FailuresExplained
              /\ HeadsAreTrained /\ StaleForOneChild /\ StubNeedsAudioFirst
              /\ LayersAgree /\ EvidenceNeverClears
              /\ MarkedIsFetched /\ ListedLoads /\ TestUnseen /\ SourcesTogether)
<1>1. L!Spec => [](RateBound /\ RetryAfterIsEnough /\ RefusedOnlyWhenFull)
  BY SameLimiter, LimiterProved, SameLimits, PTL
<1> QED
  BY <1>1, PartsAreSpecs, CapIsBounded, ResetIsExplained, RejectionsFinal, OwnEvidenceKept,
     EvidenceIsTheVerdicts, MarkersAreTrue, FailuresHaveCauses, OnlyTrainedHeadsScore, StaleListsEnd,
     StubsComeFromAudio, VerdictsAgree, EvidenceAddsUp, MarkedDataIsFetched, ListedFramesLoad,
     TestStaysUnseen, SourcesStayTogether, PTL
=============================================================================
