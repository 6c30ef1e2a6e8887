---------------------------- MODULE TrainingData ----------------------------
(***************************************************************************)
(* From a dataset on the network to a manifest on disk: the download and   *)
(* preprocess phases of train_pipeline/deeptruth_train.py for one dataset, *)
(* and what the training phase reads of it.                                *)
(*                                                                         *)
(* The commands run one at a time, in any order, as the user types them;   *)
(* "all" is a sequence of them whose failures are logged.  One action per  *)
(* stretch between two effects on disk; a crash may come between any two.  *)
(***************************************************************************)
EXTENDS Integers, FiniteSets, Sequences

CONSTANTS
  Clip,        \* the clips of a dataset
  Real,        \* the real ones
  Orig,        \* the real clip (or the speaker's first clip) each is made from
  Shuffled,    \* what the seeded shuffle makes of a set: fixed, otherwise arbitrary
  CapReal, CapFake,       \* DATASET_CAPS
  TrainShare, ValShare,   \* the split, in percent
  MaxFaults,   \* how many crashes and full disks
  None

Dataset ==
  {"celebdf_v2", "ffpp", "dfdc", "wilddeepfake", "fakeavceleb", "aigvdet", "genvideo"}

VARIABLES
  ds,       \* the dataset
  pc,       \* what the command that is running does next
  dl, pp,   \* the state markers dl_<ds>.done and pp_<ds>.done
  packed,   \* clips that an archive or a shard on disk holds
  raw,      \* the clip's file: "absent", "torn" or "whole"
  meta,     \* metadata.json of dfdc is on disk
  stamp,    \* .tars_unpacked of wilddeepfake
  cache,    \* the frame file of a clip under a label: "absent", "torn" or "whole"
  todo,     \* clips still to extract
  cur,      \* the clip whose frames are being saved
  rows,     \* clips extracted so far
  truth,    \* the labels were read, not defaulted
  manifest, \* the CSV, or None
  seen,     \* clips some checkpoint was trained on
  faults,   \* crashes and full disks so far
  hit,      \* frame files whose save was cut short
  odd,      \* a download ended without its archive and without an error
  cut       \* the writing of a manifest was cut short, or its marker was never written

disk == <<dl, pp, packed, raw, meta, stamp, cache, manifest>>
local == <<todo, cur, rows, truth>>
ghost == <<faults, hit, odd, cut>>
vars == <<ds, pc, disk, local, seen, ghost>>

Goto(to) == pc' = to

-----------------------------------------------------------------------------
(* Download.                                                               *)

Arrives ==
  /\ packed' = Clip
  /\ Goto("unzip")
  /\ UNCHANGED <<ds, dl, pp, raw, meta, stamp, cache, manifest, local, seen, ghost>>

\* The archive is there already, or arrives.
FetchDrive ==
  /\ pc = "idle" /\ ~dl /\ ds = "celebdf_v2"
  /\ Arrives

\* The same, if the user has named the archive; a folder in its place fails the unpacking.
FetchGvd ==
  /\ pc = "idle" /\ ~dl /\ ds = "aigvdet"
  /\ Arrives

\* Drive hands out a folder, whole or not, and raises nothing: it is taken for unpacked.
FetchFolder ==
  /\ pc = "idle" /\ ~dl /\ ds = "celebdf_v2" /\ packed = {}
  /\ \E got \in SUBSET Clip : raw' = [c \in Clip |-> IF c \in got THEN "whole" ELSE raw[c]]
  /\ odd' = TRUE
  /\ Goto("dl_mark")
  /\ UNCHANGED <<ds, dl, pp, packed, meta, stamp, cache, manifest, local, seen, faults, hit, cut>>

\* Kaggle may end without an error and without the archive.
FetchKaggle ==
  /\ pc = "idle" /\ ~dl /\ ds = "dfdc"
  /\ \/ Arrives
     \/ /\ packed = {}
        /\ odd' = TRUE
        /\ Goto("dl_mark")
        /\ UNCHANGED <<ds, disk, local, seen, faults, hit, cut>>

Unzip ==
  /\ pc = "unzip"
  /\ raw' = [c \in Clip |-> "whole"]
  /\ meta' = TRUE
  /\ Goto("unlink")
  /\ UNCHANGED <<ds, dl, pp, packed, stamp, cache, manifest, local, seen, ghost>>

\* How far an extraction got that was cut short, in the order of the archive.
Partly ==
  \E got \in SUBSET Clip, t \in SUBSET Clip :
    /\ Cardinality(t) <= 1
    /\ raw' = [c \in Clip |-> IF c \in t THEN "torn" ELSE IF c \in got THEN "whole" ELSE raw[c]]
    /\ meta' \in {meta, TRUE}

\* Mutants of UnzipFails: a phase nobody knows; the failure is swallowed.
UnzipFailsUnknown ==
  /\ pc = "unzip"
  /\ Goto("failed")
  /\ UNCHANGED <<ds, disk, local, seen, ghost>>
UnzipFailsQuietly ==
  /\ pc = "unzip"
  /\ Partly
  /\ Goto("unlink")
  /\ UNCHANGED <<ds, dl, pp, packed, stamp, cache, manifest, local, seen, ghost>>

\* An exception: the archive is kept and the command fails.
UnzipFails ==
  /\ pc = "unzip"
  /\ Partly
  /\ Goto("idle")
  /\ UNCHANGED <<ds, dl, pp, packed, stamp, cache, manifest, local, seen, ghost>>

Unlink ==
  /\ pc = "unlink"
  /\ packed' = {}
  /\ Goto("dl_mark")
  /\ UNCHANGED <<ds, dl, pp, raw, meta, stamp, cache, manifest, local, seen, ghost>>

\* Whole clips, all of them or up to a failure.
FetchClips ==
  \E got \in SUBSET Clip :
    /\ raw' = [c \in Clip |-> IF c \in got THEN "whole" ELSE raw[c]]
    /\ Goto(IF got = Clip THEN "dl_mark" ELSE "idle")
    /\ UNCHANGED <<ds, dl, pp, packed, meta, stamp, cache, manifest, local, seen, ghost>>

FetchMethods == pc = "idle" /\ ~dl /\ ds = "ffpp" /\ FetchClips
FetchSnapshot == pc = "idle" /\ ~dl /\ ds = "genvideo" /\ FetchClips

\* wilddeepfake: the shards of the snapshot.
FetchShards ==
  /\ pc = "idle" /\ ~dl /\ ds = "wilddeepfake"
  /\ \E got \in SUBSET Clip :
       /\ packed' = packed \cup got
       /\ Goto(IF got = Clip THEN "dl_mark" ELSE "idle")
  /\ UNCHANGED <<ds, dl, pp, raw, meta, stamp, cache, manifest, local, seen, ghost>>

\* fakeavceleb and aigvdet: the user drops the files in; for the first the command
\* looks for one.
Drop ==
  /\ ds \in {"fakeavceleb", "aigvdet"}
  /\ pc = "idle"
  /\ \E c \in Clip : raw[c] = "absent" /\ raw' = [raw EXCEPT ![c] = "whole"]
  /\ UNCHANGED <<ds, pc, dl, pp, packed, meta, stamp, cache, manifest, local, seen, ghost>>
FindClips ==
  /\ pc = "idle" /\ ds = "fakeavceleb"
  /\ \E c \in Clip : raw[c] # "absent"
  /\ Goto("dl_mark")
  /\ UNCHANGED <<ds, disk, local, seen, ghost>>

DlMark ==
  /\ pc = "dl_mark"
  /\ dl' = TRUE
  /\ Goto("idle")
  /\ UNCHANGED <<ds, pp, packed, raw, meta, stamp, cache, manifest, local, seen, ghost>>

-----------------------------------------------------------------------------
(* Preprocess.                                                             *)

First(s, n) == {s[i] : i \in {j \in DOMAIN s : j <= n}}

\* What the labels say: without its metadata every clip of dfdc is real and its own.
Labelled(c, known) == c \notin Real /\ (ds = "dfdc" => known)
Fake(c) == Labelled(c, truth)

\* Mutant of Identity: every clip on its own.
IdentityAlone(c) == c

Identity(c) ==
  IF ds \in {"ffpp", "fakeavceleb"} \/ (ds = "dfdc" /\ truth) THEN Orig[c] ELSE c

\* wilddeepfake: shards are unpacked once; a shard that cannot be is logged, and the
\* stamp is written all the same.
Unpack ==
  /\ pc = "idle" /\ ~pp
  /\ ds = "wilddeepfake" /\ packed # {} /\ ~stamp
  /\ \E bad \in SUBSET packed :
       raw' = [c \in Clip |-> IF c \in packed \ bad THEN "whole" ELSE raw[c]]
  /\ Goto("stamp")
  /\ UNCHANGED <<ds, dl, pp, packed, meta, stamp, cache, manifest, local, seen, ghost>>
Stamp ==
  /\ pc = "stamp"
  /\ stamp' = TRUE
  /\ Goto("enumerate")
  /\ UNCHANGED <<ds, dl, pp, packed, raw, meta, cache, manifest, local, seen, ghost>>

\* Mutant of Enumerate: a finished dataset is preprocessed again.
EnumerateAgain ==
  /\ pc \in {"enumerate", "idle"}
  /\ todo' = {c \in Clip : raw[c] # "absent"}
  /\ truth' = meta
  /\ rows' = {}
  /\ Goto(IF todo' = {} THEN "idle" ELSE "extract")
  /\ UNCHANGED <<ds, disk, cur, seen, ghost>>

\* Nothing asks whether the download is marked: what is on disk is the dataset.
Enumerate ==
  /\ \/ pc = "enumerate"
     \/ pc = "idle" /\ ~pp /\ ~(ds = "wilddeepfake" /\ packed # {} /\ ~stamp)
  /\ LET found == {c \in Clip : raw[c] # "absent"}
     IN todo' = First(Shuffled[{c \in found : ~Labelled(c, meta)}], CapReal)
                  \cup First(Shuffled[{c \in found : Labelled(c, meta)}], CapFake)
  /\ truth' = meta
  /\ rows' = {}
  /\ Goto(IF todo' = {} THEN "idle" ELSE "extract")
  /\ UNCHANGED <<ds, disk, cur, seen, ghost>>

Next1 == CHOOSE c \in todo : TRUE

\* Mutant of Skip: a clip that cannot be decoded is listed.
SkipListed(c) ==
  /\ raw[c] = "torn"
  /\ rows' = rows \cup {c}
  /\ UNCHANGED <<cur, pc>>

\* A clip's frames are taken from its file if there is one; a torn clip may not decode.
Reuse(c) == cache[<<c, Fake(c)>>] # "absent" /\ rows' = rows \cup {c} /\ UNCHANGED <<cur, pc>>
Skip(c) == cache[<<c, Fake(c)>>] = "absent" /\ raw[c] = "torn" /\ UNCHANGED <<rows, cur, pc>>
Decode(c) == cache[<<c, Fake(c)>>] = "absent" /\ cur' = c /\ Goto("save") /\ UNCHANGED rows

Extract ==
  /\ pc = "extract"
  /\ todo # {}
  /\ Reuse(Next1) \/ Skip(Next1) \/ Decode(Next1)
  /\ todo' = todo \ {Next1}
  /\ UNCHANGED <<ds, disk, truth, seen, ghost>>

Saved(s) == cache' = [cache EXCEPT ![<<cur, Fake(cur)>>] = s]

Save ==
  /\ pc = "save"
  /\ Saved("whole")
  /\ rows' = rows \cup {cur}
  /\ cur' = None
  /\ Goto("extract")
  /\ UNCHANGED <<ds, dl, pp, packed, raw, meta, stamp, manifest, todo, truth, seen, ghost>>

\* np.save raises half way: the clip counts as failed, its file stays.
SaveFails ==
  /\ pc = "save"
  /\ faults < MaxFaults
  /\ faults' = faults + 1
  /\ Saved("torn")
  /\ hit' = hit \cup {<<cur, Fake(cur)>>}
  /\ cur' = None
  /\ Goto("extract")
  /\ UNCHANGED <<ds, dl, pp, packed, raw, meta, stamp, manifest, todo, rows, truth, seen, odd, cut>>

\* int(n * share): a float product just below a whole number loses one.
Share(n, percent) ==
  LET whole == (n * percent) \div 100
  IN {whole} \cup {k \in {whole - 1} : whole > 0 /\ (n * percent) % 100 = 0}

\* _build_splits deals the shuffled identities out.
Splits ==
  LET order == Shuffled[{Identity(c) : c \in rows}]
      n == Len(order)
      place(c) == CHOOSE i \in 1 .. n : order[i] = Identity(c)
  IN {[c \in rows |-> IF place(c) <= t THEN "train" ELSE IF place(c) <= t + v THEN "val" ELSE "test"] :
        t \in Share(n, TrainShare), v \in Share(n, ValShare)}

Manifest ==
  /\ pc = "extract"
  /\ todo = {}
  /\ IF rows = {}
       THEN Goto("idle") /\ UNCHANGED manifest
       ELSE /\ \E split \in Splits :
                 manifest' = [split |-> split, fake |-> {c \in rows : Fake(c)}, truth |-> truth]
            /\ Goto("pp_mark")
  /\ UNCHANGED <<ds, dl, pp, packed, raw, meta, stamp, cache, local, seen, ghost>>

\* df.to_csv writes in place: a crash or a full disk leaves some of the rows, and no marker.
ManifestCut ==
  /\ pc = "extract"
  /\ todo = {} /\ rows # {}
  /\ faults < MaxFaults
  /\ faults' = faults + 1
  /\ \E split \in Splits, kept \in SUBSET rows :
       manifest' = [split |-> [c \in kept |-> split[c]],
                    fake |-> {c \in kept : Fake(c)}, truth |-> truth]
  /\ cut' = TRUE
  /\ rows' = {} /\ truth' = FALSE
  /\ Goto("idle")
  /\ UNCHANGED <<ds, dl, pp, packed, raw, meta, stamp, cache, todo, cur, seen, hit, odd>>

PpMark ==
  /\ pc = "pp_mark"
  /\ pp' = TRUE
  /\ rows' = {}
  /\ truth' = FALSE
  /\ Goto("idle")
  /\ UNCHANGED <<ds, dl, packed, raw, meta, stamp, cache, manifest, todo, cur, seen, ghost>>

-----------------------------------------------------------------------------
(* What training reads.                                                    *)

Rows(split) == {c \in DOMAIN manifest.split : manifest.split[c] = split}
Loads(c) == cache[<<c, c \in manifest.fake>>] = "whole"

\* It asks for the manifest and for no marker.  An empty split or a file that does not
\* load ends it before anything is kept.
Train ==
  /\ pc = "idle"
  /\ manifest # None
  /\ Rows("train") # {} /\ Rows("val") # {}
  /\ \A c \in Rows("train") \cup Rows("val") : Loads(c)
  /\ seen' = seen \cup Rows("train")
  /\ UNCHANGED <<ds, pc, disk, local, ghost>>

-----------------------------------------------------------------------------
\* The process dies, or a marker cannot be written.
Crash ==
  /\ pc # "idle"
  /\ faults < MaxFaults
  /\ faults' = faults + 1
  /\ IF pc = "unzip" THEN Partly ELSE UNCHANGED <<raw, meta>>
  /\ IF pc = "save"
       THEN Saved("torn") /\ hit' = hit \cup {<<cur, Fake(cur)>>}
       ELSE UNCHANGED <<cache, hit>>
  /\ cut' = (cut \/ pc = "pp_mark")
  /\ todo' = {} /\ cur' = None /\ rows' = {} /\ truth' = FALSE
  /\ Goto("idle")
  /\ UNCHANGED <<ds, dl, pp, packed, stamp, manifest, seen, odd>>

Init ==
  /\ ds \in Dataset
  /\ pc = "idle"
  /\ dl = FALSE /\ pp = FALSE
  /\ packed = {}
  /\ raw = [c \in Clip |-> "absent"]
  /\ meta = FALSE /\ stamp = FALSE
  /\ cache = [x \in Clip \X BOOLEAN |-> "absent"]
  /\ todo = {} /\ cur = None /\ rows = {} /\ truth = FALSE
  /\ manifest = None
  /\ seen = {}
  /\ faults = 0 /\ hit = {} /\ odd = FALSE /\ cut = FALSE

Next ==
  \/ FetchDrive \/ FetchFolder \/ FetchGvd \/ FetchKaggle \/ Unzip \/ UnzipFails \/ Unlink
  \/ FetchMethods \/ FetchSnapshot \/ FetchShards \/ Drop \/ FindClips \/ DlMark
  \/ Unpack \/ Stamp \/ Enumerate \/ Extract \/ Save \/ SaveFails \/ Manifest
  \/ ManifestCut \/ PpMark \/ Train \/ Crash

Spec == Init /\ [][Next]_vars

-----------------------------------------------------------------------------
(* Properties.                                                             *)

File == {"absent", "torn", "whole"}

\* Type invariant.
TypeOK ==
  /\ ds \in Dataset
  /\ pc \in {"idle", "unzip", "unlink", "dl_mark", "stamp", "enumerate", "extract", "save", "pp_mark"}
  /\ dl \in BOOLEAN /\ pp \in BOOLEAN /\ meta \in BOOLEAN /\ stamp \in BOOLEAN
  /\ truth \in BOOLEAN /\ odd \in BOOLEAN /\ cut \in BOOLEAN
  /\ packed \subseteq Clip /\ todo \subseteq Clip /\ rows \subseteq Clip /\ seen \subseteq Clip
  /\ raw \in [Clip -> File]
  /\ cache \in [Clip \X BOOLEAN -> File]
  /\ cur \in Clip \cup {None}
  /\ hit \subseteq Clip \X BOOLEAN
  /\ faults \in 0 .. MaxFaults

\* "They MUST be idempotent": whatever crashed or failed before, a dataset that is
\* marked as downloaded is on disk, unless a download ended without its archive.
MarkedIsFetched ==
  dl /\ ~odd /\ ds # "fakeavceleb" => \A c \in Clip : raw[c] = "whole" \/ c \in packed

\* The frames a manifest lists can be loaded, unless the very file was being written
\* when the disk filled up or the process died, at this run or at an earlier one.
ListedLoads ==
  manifest # None =>
    \A c \in DOMAIN manifest.split : Loads(c) \/ <<c, (c \in manifest.fake)>> \in hit

\* "The no-leakage guarantee", over every run: no clip of the test split is one that a
\* checkpoint was trained on, unless a crash or a full disk cut the writing of a manifest
\* short or left it without its marker: training takes it all the same, and it is made again.
TestUnseen == manifest # None /\ ~cut => Rows("test") \cap seen = {}

\* "So fakes derived from same real go in same split", where the labels tell.
SourcesTogether ==
  manifest # None /\ (ds \in {"ffpp", "fakeavceleb"} \/ (ds = "dfdc" /\ manifest.truth)) =>
    \A c, d \in DOMAIN manifest.split : Orig[c] = Orig[d] => manifest.split[c] = manifest.split[d]
=============================================================================
