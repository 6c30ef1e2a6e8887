---------------------------- MODULE ModelLoading -----------------------------
(***************************************************************************)
(* Which checkpoints score a case.  A worker process finds the checkpoints *)
(* of the image and video ensembles once, when its first case of that kind *)
(* sets the inferencer up, and loads each model when it is first needed;   *)
(* the audio model is chosen from the environment and loaded on its first  *)
(* case.  Meanwhile checkpoint_sync, or whoever installs the weights, puts *)
(* files in place.  A process serves MaxPerChild tasks, one at a time, and *)
(* is then replaced; several processes do not affect one another.          *)
(* What the models compute is in Verdicts; here, a score is its source.    *)
(***************************************************************************)
EXTENDS Naturals, FiniteSets, Sequences

CONSTANTS
  Media, Kind, Face,   \* the contents analysed, each one's kind, and those with a face
  Order, Part,         \* the checkpoints in the order of the curriculum, and each one's kind
  Embedded, Crop,      \* checkpoints whose adapter carries the head; those fed the face crop
  Remote,              \* the files of each checkpoint in the remote folder
  Exported,            \* whether DEEPTRUTH_AUDIO_CHECKPOINT is set by hand
  MaxPerChild, MaxAttempts, MaxTasks, MaxSyncs

Slugs == {Order[i] : i \in 1..Len(Order)}
File == {"config", "weights", "head"}
Ensemble == {"image", "video"}

VARIABLES
  disk,       \* files in place of each checkpoint
  audio,      \* the audio model.pt: "absent", "partial" or "whole"
  sync,       \* the running synchronisation: how it copies and where it is
  syncs,      \* synchronisations so far
  report,     \* checkpoints the last report calls OK
  proc,       \* what the worker process remembers
  job,        \* the task it runs
  tasks,      \* tasks run so far
  shown,      \* outcome of each content's last case
  cached,     \* the result cache
  waited      \* finished cases that left each complete checkpoint out

vars == <<disk, audio, sync, syncs, report, proc, job, tasks, shown, cached, waited>>
files == <<disk, audio, sync, syncs, report>>
results == <<shown, cached, waited>>

Idle == [pc |-> "idle"]
NoSync == [by |-> "none", at |-> 1]
Nothing == [state |-> "none", by |-> {}, tries |-> 0]

\* A process that has run nothing.
Fresh ==
  [ready |-> {}, found |-> [e \in Ensemble |-> <<>>], loaded |-> {}, ran |-> 0, booted |-> FALSE,
   env |-> Exported, engine |-> "none", model |-> "none", first |-> "none", hadAudio |-> audio = "whole"]

Init ==
  /\ disk = [s \in Slugs |-> {}] /\ audio \in {"absent", "whole"}
  /\ sync = NoSync /\ syncs = 0 /\ report = {}
  /\ proc = Fresh /\ job = Idle /\ tasks = 0
  /\ shown = [c \in Media |-> Nothing] /\ cached = [c \in Media |-> {}]
  /\ waited = [s \in Slugs |-> 0]

(***************************************************************************)
(* The weights arrive.                                                     *)
(***************************************************************************)
Present(s) == "config" \in disk[s]
\* Only the image inferencer asks where a checkpoint's head comes from.
Asked(s) == Part[s] = "image"
Usable(s) == {"config", "weights"} \subseteq disk[s] /\ (Asked(s) => s \in Embedded \/ "head" \in disk[s])

\* With neither rclone nor gdown nothing is copied, as in a dry run; the report follows all the same.
SyncStart(by) ==
  /\ sync = NoSync /\ syncs < MaxSyncs
  /\ sync' = [by |-> by, at |-> IF by = "rclone" THEN 1 ELSE Len(Order) + 1]
  /\ syncs' = syncs + 1
  /\ UNCHANGED <<disk, audio, report, proc, job, tasks, results>>

Reached(s) == sync.by = "gdown" \/ (sync.at <= Len(Order) /\ Order[sync.at] = s)

\* rclone copies several files of one directory at a time, gdown those of all; the video checkpoints,
\* which no script fetches, are copied by hand.
Copied(s, f) ==
  /\ Part[s] = "image" => Reached(s)
  /\ f \in Remote[s] \ disk[s]
  /\ disk' = [disk EXCEPT ![s] = @ \cup {f}]
  /\ UNCHANGED <<audio, sync, syncs, report, proc, job, tasks, results>>

\* rclone ends, with everything copied or with an error; the next directory is tried either way.
NextName ==
  /\ sync.by = "rclone" /\ sync.at <= Len(Order)
  /\ sync' = [sync EXCEPT !.at = @ + 1]
  /\ UNCHANGED <<disk, audio, syncs, report, proc, job, tasks, results>>

\* _verify_one asks for the head file of every checkpoint, also where the adapter carries it.
Verified(s) == disk[s] = File

Verify ==
  /\ sync # NoSync /\ sync.at > Len(Order)
  /\ sync' = NoSync /\ report' = {s \in Slugs : Part[s] = "image" /\ Verified(s)}
  /\ UNCHANGED <<disk, audio, syncs, proc, job, tasks, results>>

\* The audio weights are copied by hand, in place.
AudioCopied ==
  /\ audio # "whole"
  /\ audio' = IF audio = "absent" THEN "partial" ELSE "whole"
  /\ UNCHANGED <<disk, sync, syncs, report, proc, job, tasks, results>>

(***************************************************************************)
(* A task.                                                                 *)
(***************************************************************************)
\* bootstrap: the default for the audio checkpoint is set if the file exists just now.
Booted(p) ==
  IF p.booted THEN p ELSE [p EXCEPT !.booted = TRUE, !.env = @ \/ audio # "absent"]

\* Mutant of Ended: the process is never replaced.
EndedNever(p) == [p EXCEPT !.ran = (@ + 1) % MaxPerChild]

\* The task is done; a process that has done its share is replaced.
Ended(p) == IF p.ran + 1 >= MaxPerChild THEN Fresh ELSE [p EXCEPT !.ran = @ + 1]

\* A message is taken: a content without a cached verdict whose attempts are not used up.
Take(c) ==
  /\ job = Idle /\ tasks < MaxTasks /\ cached[c] = {}
  /\ tasks' = tasks + 1
  /\ job' = [pc |-> "preflight", of |-> c, todo |-> {}, by |-> {}, asked |-> {}]
  /\ proc' = IF proc.first = "none" THEN [proc EXCEPT !.first = Kind[c]] ELSE proc
  /\ shown' = [shown EXCEPT ![c] = IF @.state = "retrying" THEN @ ELSE Nothing]
  /\ UNCHANGED <<files, cached, waited>>

\* Mutant of Preflight: bootstrap is not called.
PreflightBare ==
  /\ job.pc = "preflight"
  /\ Kind[job.of] = "audio" \/ \E s \in Slugs : Part[s] = Kind[job.of] /\ Present(s)
  /\ job' = [job EXCEPT !.pc = "setup"]
  /\ UNCHANGED <<files, proc, tasks, results>>

\* _preflight_checkpoints, which returns before bootstrap for audio.
Preflight ==
  /\ job.pc = "preflight"
  /\ Kind[job.of] = "audio" \/ \E s \in Slugs : Part[s] = Kind[job.of] /\ Present(s)
  /\ job' = [job EXCEPT !.pc = "setup"]
  /\ proc' = IF Kind[job.of] = "audio" THEN proc ELSE Booted(proc)
  /\ UNCHANGED <<files, tasks, results>>

\* CheckpointsUnavailable: the attempt fails, the last one for good.
Unavailable ==
  /\ job.pc = "preflight" /\ Kind[job.of] # "audio"
  /\ ~\E s \in Slugs : Part[s] = Kind[job.of] /\ Present(s)
  /\ shown' = [shown EXCEPT ![job.of].tries = @ + 1,
                            ![job.of].state = IF shown[job.of].tries + 1 >= MaxAttempts
                                              THEN "failed" ELSE "retrying"]
  /\ proc' = Ended(Booted(proc)) /\ job' = Idle
  /\ UNCHANGED <<files, tasks, cached, waited>>

\* get_registry, at the first case: the engine for audio is chosen by the environment.
WithEngine(p) ==
  IF p.engine # "none" THEN p ELSE [p EXCEPT !.engine = IF p.env THEN "wavlm" ELSE "stub"]

HeadSource(s) ==
  IF s \in Embedded THEN "adapter" ELSE IF "head" \in disk[s] THEN "file" ELSE "none"

\* The places of the curriculum whose checkpoint is there, each with its head.
Discovered(e) ==
  [i \in {j \in 1..Len(Order) : Part[Order[j]] = e /\ Present(Order[j])} |-> HeadSource(Order[i])]

\* _setup of the image and video inferencers; it is not repeated, even where it raised.
Setup ==
  /\ job.pc = "setup" /\ Kind[job.of] # "audio"
  /\ LET e == Kind[job.of]
         list == IF e \in proc.ready THEN proc.found[e] ELSE Discovered(e)
     IN /\ proc' = [WithEngine(proc) EXCEPT !.ready = @ \cup {e}, !.found[e] = list]
        /\ job' = [job EXCEPT !.pc = "score", !.todo = DOMAIN list]
  /\ UNCHANGED <<files, tasks, results>>

\* Mutant of Loads: a checkpoint without a trained head is loaded.
LoadsHeadless(k) == k.slug \in proc.loaded \/ "weights" \in disk[k.slug]

\* _get_model: a model already loaded, or one built now, which needs the weights and, in the image
\* ensemble, a trained head; the video inferencer scores with whatever head its model has.
Loads(k) ==
  k.slug \in proc.loaded \/ ((Asked(k.slug) => k.head # "none") /\ "weights" \in disk[k.slug])

\* One turn of predict's loop; a model that was loaded may still fail on this input.
Score ==
  /\ job.pc = "score"
  /\ \E i \in job.todo : (\A j \in job.todo : i <= j) /\
     LET k == [slug |-> Order[i], head |-> proc.found[Kind[job.of]][i]]
         fed == k.slug \in Crop => job.of \in Face
         rest == [job EXCEPT !.todo = @ \ {i}, !.asked = IF fed THEN @ \cup {k.slug} ELSE @]
     IN /\ proc' = IF fed /\ Loads(k) THEN [proc EXCEPT !.loaded = @ \cup {k.slug}] ELSE proc
        /\ \/ job' = rest
           \/ fed /\ Loads(k) /\ job' = [rest EXCEPT !.by = @ \cup {k}]
  /\ UNCHANGED <<files, tasks, results>>

\* WavLMAudioInferencer: the model is kept before its weights are read.
Listen ==
  /\ job.pc = "setup" /\ Kind[job.of] = "audio"
  /\ LET p == WithEngine(proc)
         q == IF p.engine = "stub" THEN p ELSE Booted(p)
         model == IF q.model # "none" THEN q.model ELSE IF audio = "whole" THEN "trained" ELSE "random"
         heard == q.engine = "wavlm" /\ (q.model # "none" \/ audio = "whole")
     IN /\ proc' = IF q.engine = "stub" THEN q ELSE [q EXCEPT !.model = model]
        /\ job' = [job EXCEPT !.pc = "score",
                              !.by = IF heard THEN {[slug |-> "audio", head |-> model]} ELSE {}]
  /\ UNCHANGED <<files, tasks, results>>

\* A complete checkpoint that could have scored this content and was not asked.
LeftOut(s) ==
  Part[s] = Kind[job.of] /\ Usable(s) /\ s \notin job.asked /\ (s \in Crop => job.of \in Face)

\* The ensemble decides, the verdict is stored, and cached where some engine gave one.
Signals(by) == by # {}

Decide ==
  /\ job.pc = "score" /\ job.todo = {}
  /\ LET by == job.by
     IN /\ shown' = [shown EXCEPT ![job.of] =
                       [state |-> IF Signals(by) THEN "verdict" ELSE "inconclusive", by |-> by, tries |-> 0]]
        /\ cached' = IF Signals(by) THEN [cached EXCEPT ![job.of] = by] ELSE cached
  /\ waited' = [s \in Slugs |-> IF LeftOut(s) THEN waited[s] + 1
                               ELSE IF s \in job.asked THEN 0 ELSE waited[s]]
  /\ proc' = Ended(proc) /\ job' = Idle
  /\ UNCHANGED <<files, tasks>>

\* The process dies; its message is delivered again.
Dies ==
  /\ job # Idle
  /\ proc' = Fresh /\ job' = Idle
  /\ UNCHANGED <<files, tasks, results>>

Next ==
  \/ \E by \in {"rclone", "gdown", "nothing"} : SyncStart(by)
  \/ \E s \in Slugs, f \in File : Copied(s, f)
  \/ NextName \/ Verify \/ AudioCopied
  \/ \E c \in Media : Take(c)
  \/ Preflight \/ Unavailable \/ Setup \/ Score \/ Listen \/ Decide \/ Dies

Spec == Init /\ [][Next]_vars

-----------------------------------------------------------------------------
Record == [slug : Slugs \cup {"audio"}, head : {"adapter", "file", "none", "random", "trained"}]

\* Every variable stays in the type the code gives it; no process outlives its share of tasks.
TypeOK ==
  /\ disk \in [Slugs -> SUBSET File] /\ audio \in {"absent", "partial", "whole"}
  /\ sync.by \in {"none", "rclone", "gdown", "nothing"} /\ sync.at \in 1..Len(Order) + 1
  /\ report \subseteq Slugs
  /\ proc.ready \subseteq Ensemble /\ proc.loaded \subseteq Slugs /\ proc.ran \in 0..MaxPerChild - 1
  /\ proc.engine \in {"none", "stub", "wavlm"} /\ proc.model \in {"none", "random", "trained"}
  /\ \A c \in Media : cached[c] \subseteq Record /\ shown[c].by \subseteq Record
  /\ \A c \in Media : shown[c].tries \in 0..MaxAttempts

\* "the #1 ensemble bug" (inferencers/image.py): no score of the image ensemble comes from a randomly
\* initialised head, whatever had been copied when the checkpoint was discovered and when it was
\* loaded; and no image or video checkpoint scores before its configuration and weights are there.
HeadsAreTrained ==
  \A c \in Media : \A k \in shown[c].by \cup cached[c] :
    k.slug # "audio" => /\ {"config", "weights"} \subseteq disk[k.slug]
                        /\ Asked(k.slug) => k.head # "none"

\* A checkpoint list is read once per process, so a complete checkpoint may be left out of cases;
\* a child's share of tasks bounds how many, whatever was half-copied when the list was read.
StaleForOneChild == \A s \in Slugs : waited[s] <= MaxPerChild

\* "the worst case is audio reporting 'no signal'" (server/app/registry.py:53-54) - not what the code
\* does: after a failed load the untrained model is kept, and scores.
UntrainedIsSilent == \A c \in Media : \A k \in shown[c].by \cup cached[c] : k.head # "random"

\* "set them only when the weights are actually on disk" (server/app/_dtp.py:54): a process that finds
\* the audio weights in place still serves audio from the stub, which always abstains, for as long as
\* it lives, but only if its first case is audio - the one kind whose task skips bootstrap.
StubNeedsAudioFirst == proc.engine = "stub" /\ proc.hadAudio => proc.first = "audio"
=============================================================================
