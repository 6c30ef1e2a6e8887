--------------------------- MODULE PreprocessCache ---------------------------
(***************************************************************************)
(* The preprocessing cache of one content.  Runs of several processes, or  *)
(* of the threads of one, decode the content into arrays under its key and *)
(* leave stats.json behind as the marker that the next run may use them.   *)
(* Nothing is locked and every file is written in place: opening it        *)
(* truncates it, and it is whole again when the last to open it closes it; *)
(* a write that fails (a full disk) leaves it truncated.                   *)
(* The picture and the clip follow the same protocol; the frames are the   *)
(* "whole" array.                                                          *)
(***************************************************************************)
EXTENDS Naturals, FiniteSets

CONSTANTS Run, None, MaxKills, Forcing

File == {"meta", "whole", "face", "stats"}

VARIABLES
  file,      \* each file: absent, torn or whole, who opened it last, what it says
  pc,        \* where each run is
  forced,    \* runs given --force
  found,     \* whether the run found a face
  given,     \* what preprocessing hands to the inferencer: the face crop or not
  outcome,   \* how each run ended
  kills,     \* runs killed and writes failed
  mixed      \* what has happened: runs overlapped, one was killed, one was forced, the disk was full

vars == <<file, pc, forced, found, given, outcome, kills, mixed>>

Active(r) == pc[r] \notin {"idle", "over"}
Exists(f) == file[f].st # "absent"
Torn(f) == file[f].st = "torn"

Init ==
  /\ file = [f \in File |-> [st |-> "absent", by |-> None, face |-> FALSE]]
  /\ pc = [r \in Run |-> "idle"] /\ forced \in {S \in SUBSET Run : Forcing \/ S = {}}
  /\ found = [r \in Run |-> FALSE] /\ given = [r \in Run |-> FALSE]
  /\ outcome = [r \in Run |-> None] /\ kills = 0 /\ mixed = {}

At(r, here, there) == pc[r] = here /\ pc' = [pc EXCEPT ![r] = there]

\* The pipeline returns: with a score, or with the warning that it has none.
Ends(r, how) ==
  /\ outcome' = [outcome EXCEPT ![r] = how]
  /\ pc' = [pc EXCEPT ![r] = "over"]

\* Mutant of Begin: a torn record is an error.
BeginStrict(r) ==
  /\ pc[r] = "idle"
  /\ mixed' = mixed \cup (IF \E q \in Run \ {r} : Active(q) THEN {"overlap"} ELSE {})
                    \cup (IF r \in forced THEN {"force"} ELSE {})
  /\ IF Torn("meta") THEN Ends(r, "failed")
     ELSE pc' = [pc EXCEPT ![r] = "record"] /\ UNCHANGED outcome
  /\ UNCHANGED <<file, forced, found, given, kills>>

\* analyze begins: the record is read if it can be; a torn one counts as none.
Begin(r) ==
  /\ At(r, "idle", "record")
  /\ mixed' = mixed \cup (IF \E q \in Run \ {r} : Active(q) THEN {"overlap"} ELSE {})
                    \cup (IF r \in forced THEN {"force"} ELSE {})
  /\ UNCHANGED <<file, forced, found, given, outcome, kills>>

\* write_text and np.save: the file is truncated, and later closed.
Open(r, f, here, there) ==
  /\ At(r, here, there)
  /\ file' = [file EXCEPT ![f] = [st |-> "torn", by |-> r, face |-> FALSE]]
  /\ UNCHANGED <<forced, found, given, outcome, kills, mixed>>

Close(r, f, here, there) ==
  /\ At(r, here, there)
  /\ file' = IF file[f].by = r THEN [file EXCEPT ![f] = [st |-> "whole", by |-> None, face |-> found[r]]]
             ELSE file
  /\ UNCHANGED <<forced, found, given, outcome, kills, mixed>>

SaveRecord(r) == Open(r, "meta", "record", "recording") \/ Close(r, "meta", "recording", "look")

\* The arrays of an earlier run are used if the marker and the main array exist.
CacheHit(r) == r \notin forced /\ Exists("stats") /\ Exists("whole")

Reuse(r) ==
  /\ At(r, "look", "predict") /\ CacheHit(r) /\ ~Torn("stats")
  /\ given' = [given EXCEPT ![r] = file["stats"].face /\ Exists("face")]
  /\ UNCHANGED <<file, forced, found, outcome, kills, mixed>>

\* A marker that does not parse: preprocessing fails, and the inferencer is not called.
Poisoned(r) ==
  /\ pc[r] = "look" /\ CacheHit(r) /\ Torn("stats")
  /\ Ends(r, "failed")
  /\ UNCHANGED <<file, forced, found, given, kills, mixed>>

\* The content does not decode.
Undecodable(r) ==
  /\ pc[r] = "look" /\ ~CacheHit(r)
  /\ Ends(r, "undecodable")
  /\ UNCHANGED <<file, forced, found, given, kills, mixed>>

\* Mutant of SaveWhole: the array is left open.
SaveWholeUnclosed(r) == ~CacheHit(r) /\ Open(r, "whole", "look", "detect")

SaveWhole(r) ==
  \/ ~CacheHit(r) /\ Open(r, "whole", "look", "saving")
  \/ Close(r, "whole", "saving", "detect")

\* The detector finds a face, or finds none, or fails, which counts as none.
SaveFace(r) ==
  \/ Open(r, "face", "detect", "cropping")
  \/ /\ At(r, "cropping", "mark") /\ found' = [found EXCEPT ![r] = TRUE]
     /\ file' = IF file["face"].by = r
                THEN [file EXCEPT !["face"] = [st |-> "whole", by |-> None, face |-> TRUE]] ELSE file
     /\ UNCHANGED <<forced, given, outcome, kills, mixed>>

\* A write fails.
Full == kills < MaxKills /\ kills' = kills + 1 /\ mixed' = mixed \cup {"full"}

\* A crop whose writing fails counts as no face; what is there is wiped.
NoFace(r) ==
  /\ \/ At(r, "detect", "mark") /\ UNCHANGED <<kills, mixed>>
     \/ At(r, "cropping", "mark") /\ Full
  /\ file' = [file EXCEPT !["face"] = [st |-> "absent", by |-> None, face |-> FALSE]]
  /\ UNCHANGED <<forced, found, given, outcome>>

Mark(r) == Open(r, "stats", "mark", "marking") \/ Close(r, "stats", "marking", "complete")

\* The record's completed flag, which no code reads; then the inferencer gets the paths.
Complete(r) ==
  \/ Open(r, "meta", "complete", "completing")
  \/ Close(r, "meta", "completing", "produced")

Produced(r) ==
  /\ At(r, "produced", "predict")
  /\ given' = [given EXCEPT ![r] = found[r]]
  /\ UNCHANGED <<file, forced, found, outcome, kills, mixed>>

\* Any other file cannot be opened, or not be written to its end: the run stops, without
\* the inferencer, and leaves the file as it is.
WriteFails(r) ==
  /\ \/ pc[r] \in {"record", "recording", "saving", "mark", "marking", "complete", "completing"}
     \/ pc[r] = "look" /\ ~CacheHit(r)
  /\ Full
  /\ Ends(r, "unwritten")
  /\ UNCHANGED <<file, forced, found, given>>

\* np.load of what was handed over.
Predict(r) ==
  /\ pc[r] = "predict"
  /\ Ends(r, IF Torn("whole") \/ (given[r] /\ file["face"].st # "whole") THEN "failed" ELSE "scored")
  /\ UNCHANGED <<file, forced, found, given, kills, mixed>>

\* The process is killed.
Kill(r) ==
  /\ Active(r) /\ kills < MaxKills
  /\ kills' = kills + 1 /\ mixed' = mixed \cup {"kill"}
  /\ Ends(r, "killed")
  /\ UNCHANGED <<file, forced, found, given>>

Step(r) ==
  \/ Begin(r) \/ SaveRecord(r) \/ Reuse(r) \/ Poisoned(r) \/ Undecodable(r) \/ SaveWhole(r)
  \/ SaveFace(r) \/ NoFace(r) \/ Mark(r) \/ Complete(r) \/ Produced(r) \/ Predict(r)
  \/ WriteFails(r)

Next == \E r \in Run : Step(r) \/ Kill(r)

Spec == Init /\ [][Next]_vars

-----------------------------------------------------------------------------
\* Files are absent, torn by a run, or whole.
TypeOK ==
  /\ \A f \in File : file[f].st \in {"absent", "torn", "whole"} /\ file[f].by \in Run \cup {None}
  /\ \A f \in File : Torn(f) <=> file[f].by # None
  /\ \A r \in Run : outcome[r] \in {None, "scored", "failed", "undecodable", "killed", "unwritten"}
  /\ mixed \subseteq {"overlap", "kill", "force", "full"} /\ kills \in 0..MaxKills

Quiet == \A r \in Run : ~Active(r)

\* Between runs the marker vouches for the arrays, whatever kills and failed writes happened, as
\* long as the runs of one content neither overlapped nor were forced; and whatever overlapped, as
\* long as none was killed and no write failed.
Cut == {"kill", "full"}
MarkerVouches ==
  Quiet /\ file["stats"].st = "whole" /\ (mixed \cap Cut = {} \/ mixed \subseteq Cut) =>
    file["whole"].st = "whole" /\ (file["stats"].face => ~Torn("face"))

\* A run fails on what another left behind only if the two overlapped, or a run was killed, or
\* could not write, over its marker or over files a marker already vouched for.
FailuresExplained ==
  \A r \in Run : outcome[r] = "failed" =>
    \/ "overlap" \in mixed
    \/ mixed \cap Cut # {} /\ (Torn("stats") \/ "force" \in mixed)
=============================================================================
