------------------------------ MODULE Evidence -------------------------------
(***************************************************************************)
(* The evidence files of the cases, and the two indices of the result      *)
(* cache.  A file lies under uploads/ and is named by the row of its case, *)
(* by the payload of a cached verdict, and through it by every case        *)
(* answered from the cache.  The URL index names the content last seen at  *)
(* a page's URL.  The API's handlers, the workers and a user who deletes   *)
(* take their steps between one another's.  A message is acknowledged when *)
(* its task ends, so a worker that dies leaves it to be delivered again,   *)
(* with the same attempt number, whatever the dead one had done.  What the *)
(* analysis says and its rows are in AnalysisQueue.                        *)
(***************************************************************************)
EXTENDS Naturals, FiniteSets

CONSTANTS
  Case, Upload,    \* the cases, and those that bring their bytes
  Paged,           \* uploads that name the page's URL as their source
  Content, Bytes,  \* contents, and the content of each upload
  MAX_ATTEMPTS, MaxDeaths, MaxChanges, Deleted,
  None

\* A death adds at most one message of each attempt.
Deliveries == MAX_ATTEMPTS * (1 + MaxDeaths)
Delivery == Case \X (1..Deliveries)

\* What wrote a file names it: the handler of its case, 0, or a delivery of its message.
File == Case \X (0..Deliveries)

VARIABLES
  row,       \* each case's row: status, file_url, whether the file is another case's, verdict
  disk,      \* the content of each file under uploads/
  payload,   \* the verdict cached for each content: None, or the file it names
  alias,     \* the URL index
  page,      \* what the URL serves
  api, del,  \* where the handler and the deletion of each case are
  work,      \* where the worker is with each delivery
  attempt,   \* the attempt number in its message
  sha,       \* the content a handler or a delivery works on
  hit,       \* the payload it was answered with, or stores
  changes, deaths,
  fresh,       \* whether the case was answered with what the URL served at that moment
  repointed,   \* settled cases whose row a first attempt, run once more, gave a new download
  overlapped   \* whether a message was delivered again beside the retry its worker had published

vars == <<row, disk, payload, alias, page, api, del, work, attempt, sha, hit, changes, deaths, fresh,
          repointed, overlapped>>
cache == <<payload, alias>>
limits == <<page, changes, deaths>>

NoRow == [status |-> "absent", file |-> None, shared |-> FALSE, verdict |-> None]
Live(c) == row[c].status # "absent"
Ref(f) == [file |-> f]

Init ==
  /\ row = [c \in Case |-> NoRow] /\ disk = [f \in File |-> None]
  /\ payload = [x \in Content |-> None] /\ alias = None /\ page \in Content
  /\ api = [c \in Case |-> "start"] /\ del = [c \in Case |-> [pc |-> "idle", file |-> None]]
  /\ work = [d \in Delivery |-> "unsent"] /\ attempt = [d \in Delivery |-> 0]
  /\ sha = [f \in File |-> None] /\ hit = [f \in File |-> None]
  /\ changes = 0 /\ deaths = 0
  /\ fresh = [c \in Case |-> TRUE] /\ repointed = {} /\ overlapped = FALSE

(***************************************************************************)
(* create_case.                                                            *)
(***************************************************************************)
ApiGoes(c, here, there) == api[c] = here /\ api' = [api EXCEPT ![c] = there]

\* lookup, lookup_by_url: the content of an upload is its bytes, that of a URL what the index says.
LookUp(c) ==
  /\ ApiGoes(c, "start", IF c \in Upload THEN "write" ELSE "insert")
  /\ LET x == IF c \in Upload THEN Bytes[c] ELSE alias
     IN /\ sha' = [sha EXCEPT ![<<c, 0>>] = x]
        /\ hit' = [hit EXCEPT ![<<c, 0>>] = IF x = None THEN None ELSE payload[x]]
        /\ fresh' = [fresh EXCEPT ![c] = c \in Upload \/ x = None \/ payload[x] = None \/ x = page]
  /\ UNCHANGED <<row, disk, cache, del, work, attempt, limits, repointed, overlapped>>

WriteFile(c) ==
  /\ ApiGoes(c, "write", "insert")
  /\ disk' = [disk EXCEPT ![<<c, 0>>] = sha[<<c, 0>>]]
  /\ UNCHANGED <<row, cache, del, work, attempt, sha, hit, limits, fresh, repointed, overlapped>>

InsertRow(c) ==
  /\ ApiGoes(c, "insert", IF c \in Paged THEN "remember" ELSE "answer")
  /\ row' = [row EXCEPT ![c] =
       [NoRow EXCEPT !.status = "processing", !.file = IF c \in Upload THEN <<c, 0>> ELSE None]]
  /\ UNCHANGED <<disk, cache, del, work, attempt, sha, hit, limits, fresh, repointed, overlapped>>

\* remember_url: an upload teaches the index the page it came from.
RememberPage(c) ==
  /\ ApiGoes(c, "remember", "answer")
  /\ alias' = sha[<<c, 0>>]
  /\ UNCHANGED <<row, disk, payload, del, work, attempt, sha, hit, limits, fresh, repointed, overlapped>>

\* _replay_cached: the verdict, and the payload's file where the case has none of its own.
Replayed(r, x, p) ==
  [r EXCEPT !.status = "settled", !.verdict = x,
            !.file = IF @ = None THEN p.file ELSE @,
            !.shared = r.file = None /\ p.file # None]

Answer(c) ==
  /\ ApiGoes(c, "answer", "over") /\ hit[<<c, 0>>] # None
  /\ row' = IF Live(c) THEN [row EXCEPT ![c] = Replayed(@, sha[<<c, 0>>], hit[<<c, 0>>])] ELSE row
  /\ UNCHANGED <<disk, cache, del, work, attempt, sha, hit, limits, fresh, repointed, overlapped>>

\* A message of attempt n becomes the next delivery of its case; an upload's carries its digest.
Send(c, n, w, known) ==
  \E d \in Delivery :
    /\ d[1] = c /\ work[d] = "unsent"
    /\ \A e \in Delivery : e[1] = c /\ work[e] = "unsent" => d[2] <= e[2]
    /\ work' = [w EXCEPT ![d] = "sent"] /\ attempt' = [attempt EXCEPT ![d] = n]
    /\ sha' = [known EXCEPT ![d] = IF c \in Upload THEN Bytes[c] ELSE None]

Enqueue(c) ==
  /\ ApiGoes(c, "answer", "over") /\ hit[<<c, 0>>] = None
  /\ Send(c, 1, work, sha)
  /\ UNCHANGED <<row, disk, cache, del, hit, limits, fresh, repointed, overlapped>>

(***************************************************************************)
(* The worker, with delivery d of the message of case d[1].                *)
(***************************************************************************)
Trying == {"fetch", "record", "index", "look", "run"}
Running == Trying \cup {"refer", "cache", "alias", "ack"}

Works(d, here, there) == work[d] = here /\ work' = [work EXCEPT ![d] = there]

\* The file of this run: the upload's, or a download of its own.
Mine(d) == IF d[1] \in Upload THEN <<d[1], 0>> ELSE d

\* The row of the case settles, if it is still there, on what this run works on.
Settled(d) ==
  /\ row' = [row EXCEPT ![d[1]].status = "settled", ![d[1]].verdict = sha[d]]
  /\ repointed' = repointed \ {d[1]}

\* _mark_processing, which the first attempt skips.
Begin(d) ==
  /\ Works(d, "sent", IF d[1] \in Upload THEN "run" ELSE "fetch")
  /\ IF attempt[d] > 1 /\ Live(d[1])
     THEN row' = [row EXCEPT ![d[1]].status = "processing"] /\ repointed' = repointed \ {d[1]}
     ELSE UNCHANGED <<row, repointed>>
  /\ UNCHANGED <<disk, cache, api, del, attempt, sha, hit, limits, fresh, overlapped>>

\* _ingest_url, in its order: bytes, row, index, cache.
Fetch(d) ==
  /\ Works(d, "fetch", "record")
  /\ sha' = [sha EXCEPT ![d] = page]
  /\ disk' = [disk EXCEPT ![d] = page]
  /\ UNCHANGED <<row, cache, api, del, attempt, hit, limits, fresh, repointed, overlapped>>

Record(d) ==
  /\ Works(d, "record", "index")
  /\ row' = IF Live(d[1]) THEN [row EXCEPT ![d[1]].file = d] ELSE row
  /\ repointed' = IF row[d[1]].status = "settled" THEN repointed \cup {d[1]} ELSE repointed
  /\ UNCHANGED <<disk, cache, api, del, attempt, sha, hit, limits, fresh, overlapped>>

Index(d) ==
  /\ Works(d, "index", "look")
  /\ alias' = sha[d]
  /\ UNCHANGED <<row, disk, payload, api, del, attempt, sha, hit, limits, fresh, repointed, overlapped>>

\* Mutant of Hit: the cache is asked by the URL, not by the bytes.
HitByUrl(d) ==
  /\ work[d] = "look" /\ Live(d[1]) /\ alias # None /\ payload[alias] # None
  /\ work' = [work EXCEPT ![d] = "over"]
  /\ row' = [row EXCEPT ![d[1]].status = "settled", ![d[1]].verdict = alias]
  /\ repointed' = repointed \ {d[1]}
  /\ UNCHANGED <<disk, cache, api, del, attempt, sha, hit, limits, fresh, overlapped>>

\* The bytes are known, by this URL or another; rows for a deleted case are refused, which raises.
Hit(d) ==
  /\ Works(d, "look", "ack") /\ payload[sha[d]] # None /\ Live(d[1])
  /\ Settled(d)
  /\ UNCHANGED <<disk, cache, api, del, attempt, sha, hit, limits, fresh, overlapped>>

NoHit(d) ==
  /\ Works(d, "look", "run") /\ payload[sha[d]] = None
  /\ UNCHANGED <<row, disk, cache, api, del, attempt, sha, hit, limits, fresh, repointed, overlapped>>

\* The try is left for good, by a permanent failure, the time limit or the last attempt:
\* _store_failure.
Fail(d) ==
  /\ work[d] \in Trying /\ work' = [work EXCEPT ![d] = "ack"]
  /\ row' = IF Live(d[1]) THEN [row EXCEPT ![d[1]].status = "failed"] ELSE row
  /\ repointed' = repointed \ {d[1]}
  /\ UNCHANGED <<disk, cache, api, del, attempt, sha, hit, limits, fresh, overlapped>>

\* A transient failure: self.retry publishes the next attempt; this message is acknowledged after.
Retry(d) ==
  /\ work[d] \in Trying /\ attempt[d] < MAX_ATTEMPTS
  /\ Send(d[1], attempt[d] + 1, [work EXCEPT ![d] = "ack"], sha)
  /\ UNCHANGED <<row, disk, cache, api, del, hit, limits, fresh, repointed, overlapped>>

\* _run succeeds, on a file that is there; _store_success, which a deleted case refuses.
Store(d) ==
  /\ Works(d, "run", "refer") /\ disk[Mine(d)] # None /\ Live(d[1])
  /\ Settled(d)
  /\ UNCHANGED <<disk, cache, api, del, attempt, sha, hit, limits, fresh, overlapped>>

\* _case_file_ref, which names no file where the row is gone.
Refer(d) ==
  /\ Works(d, "refer", "cache")
  /\ hit' = [hit EXCEPT ![d] = Ref(row[d[1]].file)]
  /\ UNCHANGED <<row, disk, cache, api, del, attempt, sha, limits, fresh, repointed, overlapped>>

\* cache.store: the payload, then the index.
CacheVerdict(d) ==
  /\ Works(d, "cache", IF d[1] \in Upload \ Paged THEN "ack" ELSE "alias")
  /\ payload' = [payload EXCEPT ![sha[d]] = hit[d]]
  /\ hit' = [hit EXCEPT ![d] = None]
  /\ UNCHANGED <<row, disk, alias, api, del, attempt, sha, limits, fresh, repointed, overlapped>>

CacheUrl(d) ==
  /\ Works(d, "alias", "ack")
  /\ alias' = sha[d]
  /\ UNCHANGED <<row, disk, payload, api, del, attempt, sha, hit, limits, fresh, repointed, overlapped>>

\* The message is acknowledged: all is done; the verdict has no signal, or Redis is away, and nothing
\* is cached; or an error outside the try, in _store_success or in a handler, ends the task.
Acknowledge(d) ==
  /\ work[d] \in Running
  /\ work' = [work EXCEPT ![d] = "over"]
  /\ sha' = [sha EXCEPT ![d] = None] /\ hit' = [hit EXCEPT ![d] = None]
  /\ UNCHANGED <<row, disk, cache, api, del, attempt, limits, fresh, repointed, overlapped>>

\* The worker dies before the acknowledgement: the message is delivered again as it was.
Die(d) ==
  /\ work[d] \in Running /\ deaths < MaxDeaths
  /\ deaths' = deaths + 1
  /\ Send(d[1], attempt[d], [work EXCEPT ![d] = "over"], [sha EXCEPT ![d] = None])
  /\ hit' = [hit EXCEPT ![d] = None]
  /\ overlapped' = (overlapped \/ \E e \in Delivery : e[1] = d[1] /\ e # d /\ work[e] \notin {"unsent", "over"})
  /\ UNCHANGED <<row, disk, cache, page, api, del, changes, fresh, repointed>>

(***************************************************************************)
(* delete_case, and the page.                                              *)
(***************************************************************************)
Deletes(c, here, there, f) == del[c].pc = here /\ del' = [del EXCEPT ![c] = [pc |-> there, file |-> f]]

Select(c) ==
  /\ c \in Deleted /\ Live(c) /\ Deletes(c, "idle", "delete", row[c].file)
  /\ UNCHANGED <<row, disk, cache, api, work, attempt, sha, hit, limits, fresh, repointed, overlapped>>

DeleteRow(c) ==
  /\ Deletes(c, "delete", IF del[c].file = None THEN "over" ELSE "count", del[c].file)
  /\ row' = [row EXCEPT ![c] = NoRow]
  /\ UNCHANGED <<disk, cache, api, work, attempt, sha, hit, limits, fresh, repointed, overlapped>>

\* Mutant of StillReferenced: the references are not counted.
StillReferencedNever(f) == FALSE

\* The references left now decide; the file goes a moment later.
StillReferenced(f) == \E c \in Case : Live(c) /\ row[c].file = f

Count(c) ==
  /\ Deletes(c, "count", IF StillReferenced(del[c].file) THEN "over" ELSE "unlink", del[c].file)
  /\ UNCHANGED <<row, disk, cache, api, work, attempt, sha, hit, limits, fresh, repointed, overlapped>>

Unlink(c) ==
  /\ Deletes(c, "unlink", "over", None)
  /\ disk' = [disk EXCEPT ![del[c].file] = None]
  /\ UNCHANGED <<row, cache, api, work, attempt, sha, hit, limits, fresh, repointed, overlapped>>

PageChanges ==
  /\ changes < MaxChanges /\ changes' = changes + 1
  /\ page' \in Content \ {page}
  /\ UNCHANGED <<row, disk, cache, api, del, work, attempt, sha, hit, deaths, fresh, repointed, overlapped>>

Api(c) == LookUp(c) \/ WriteFile(c) \/ InsertRow(c) \/ RememberPage(c) \/ Answer(c) \/ Enqueue(c)
Work(d) ==
  \/ Begin(d) \/ Fetch(d) \/ Record(d) \/ Index(d) \/ Hit(d) \/ NoHit(d) \/ Fail(d) \/ Retry(d)
  \/ Store(d) \/ Refer(d) \/ CacheVerdict(d) \/ CacheUrl(d) \/ Acknowledge(d) \/ Die(d)
Delete(c) == Select(c) \/ DeleteRow(c) \/ Count(c) \/ Unlink(c)

Next ==
  \/ \E c \in Case : Api(c) \/ Delete(c)
  \/ \E d \in Delivery : Work(d)
  \/ PageChanges

Spec == Init /\ [][Next]_vars

-----------------------------------------------------------------------------
\* Rows, payloads and the index name files and contents there are.
TypeOK ==
  /\ \A c \in Case : row[c].file \in File \cup {None} /\ row[c].verdict \in Content \cup {None}
  /\ disk \in [File -> Content \cup {None}] /\ alias \in Content \cup {None}
  /\ \A x \in Content : payload[x] # None => payload[x].file \in File \cup {None}

\* "only if no other case still points at it" (cases.py:550): however deletions, replays, workers and
\* runs delivered again interleave, the file a case stored itself stays until that case is deleted.
OwnFileStays ==
  \A c \in Case : Live(c) /\ row[c].file # None /\ ~row[c].shared => disk[row[c].file] # None

\* The evidence shown beside a verdict is what the verdict is about - "the bytes are identical by
\* definition" (cache.py:151) - though the page changes between attempts, workers die anywhere, and
\* other cases move the index meanwhile.  Two exceptions: a first attempt delivered again after it
\* stored its verdict gives the settled row a new download, until that run settles the case or a
\* retry reopens it; and a message delivered again beside its own retry has two runs write one row.
EvidenceMatchesVerdict ==
  overlapped \/ \A c \in Case \ repointed :
    LET r == row[c]
    IN r.status = "settled" /\ r.file # None /\ disk[r.file] # None => disk[r.file] = r.verdict

\* "A URL whose content changed misses rather than returning a stale verdict" (queue.py:155) - not
\* what the code does: the index goes on naming the old content, whose verdict is still cached.
UrlHitIsCurrent == \A c \in Case : fresh[c]
=============================================================================
