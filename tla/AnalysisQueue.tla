---------------------------- MODULE AnalysisQueue ----------------------------
(***************************************************************************)
(* The life of a case in Deep Truth's analysis queue: the API handler that *)
(* accepts it (server/app/routers/cases.py), the Celery message it becomes *)
(* (Redis broker, acks_late), the worker task that analyses it             *)
(* (server/app/queue/tasks.py), the SQLite row and result rows that record *)
(* its outcome, and the Redis job record and pending set the console reads *)
(* (server/app/queue/state.py).                                            *)
(*                                                                         *)
(* One action per step that another process can observe: a SQLite          *)
(* transaction, a Redis write, a broker operation.  Every failure the      *)
(* environment may inject is an action guarded by a budget, so that a run  *)
(* or a theorem names the failures it is about.                            *)
(***************************************************************************)
EXTENDS Naturals, Sequences, Functions

CONSTANTS
  Case,         \* database ids of the cases submitted
  UrlCase,      \* the cases submitted as `media_url`; the others are uploads
  Worker,       \* Celery worker processes
  Content,      \* distinct media contents, told apart by their sha256
  ContentOf,    \* the content each case submits or names
  Verdict,      \* outcomes of an analysis: status, scores and rows together
  Signalled,    \* the verdicts some engine really produced (confidence > 0)
  MaxAttempts,  \* ANALYSIS_MAX_ATTEMPTS
  Budget,       \* how many failures of each kind the environment injects
  MaxFaults,    \* ... and how many in all
  None          \* no verdict

\* "crash"  a worker process is lost;   "wedge" the hard time limit kills one;
\* "sqlite" a worker's SQLite call raises;  "redis" a worker's Redis call raises;
\* "broker" the API cannot publish;         "api"   the API handler dies;
\* "delete" and "patch" are user requests.
Fault == {"crash", "wedge", "sqlite", "redis", "broker", "api", "delete", "patch"}

RowStatus == {"absent", "processing", "failed", "deleted"} \cup Verdict

ASSUME ConstantsAssumption ==
  /\ UrlCase \subseteq Case
  /\ ContentOf \in [Case -> Content]
  /\ Signalled \subseteq Verdict
  /\ None \notin Verdict \cup Case
  /\ Verdict \cap {"absent", "processing", "failed", "deleted"} = {}
  /\ MaxAttempts \in Nat \ {0}
  /\ Budget \in [Fault -> Nat]
  /\ MaxFaults \in Nat

\* A broker message: the task's arguments are fixed by its case, and a retry
\* re-sends them with `retries` raised by one.
Message == [case : Case, attempt : 1 .. MaxAttempts]

\* NoTask is what an idle worker holds.
NoTask == [case |-> None, attempt |-> 0]

VARIABLES
  row,      \* SQLite `cases.status` of each case; "absent" before the INSERT
  results,  \* batches of `analysis_results` rows of each case
  job,      \* Redis hash dt:job:<case>; state "none" when there is no hash
  pending,  \* Redis zset dt:queue:pending, without its scores
  queue,    \* how many copies of each message the broker holds, undelivered
  cache,    \* Redis dt:cache:res:* by content
  apc,      \* where the API handler of each case is
  hit,      \* what that handler's cache lookup returned
  wpc,      \* where each worker is in the task
  task,     \* the message each worker holds, unacknowledged
  out,      \* the verdict the task has in hand
  final,    \* the state the task will pass to mark_finished
  spent     \* failures injected so far, by kind

store == <<row, results>>
redis == <<job, pending>>
api == <<apc, hit>>
work == <<wpc, task, out, final>>
vars == <<row, results, job, pending, queue, cache, apc, hit, wpc, task, out, final, spent>>

ApiPC == {"idle", "insert", "replay", "mark_cached", "delay", "mark_failed",
          "queued_write", "queued_zadd", "done", "refused", "dead"}

WorkerPC == {"idle", "running_write", "running_zrem", "reopen", "ingest", "analyse",
             "replay", "store", "cache", "store_failure", "retry_write", "retry_zadd",
             "retry_publish", "finish_write", "finish_zrem", "ack"}

TERMINAL == {"succeeded", "failed", "cached"}
JobState == {"none", "queued", "running", "retrying"} \cup TERMINAL
JobRecord == [state : JobState, attempt : 0 .. MaxAttempts]
NoJob == [state |-> "none", attempt |-> 0]

Injected == FoldFunction(+, 0, spent)

Spend(f) ==
  /\ spent[f] < Budget[f]
  /\ Injected < MaxFaults
  /\ spent' = [spent EXCEPT ![f] = @ + 1]

\* The row can still be updated: UPDATE ... WHERE id = ? finds it.
Stored(c) == row[c] \notin {"absent", "deleted"}

SetRow(c, s) == row' = IF Stored(c) THEN [row EXCEPT ![c] = s] ELSE row

Put(m) == queue' = [queue EXCEPT ![m] = @ + 1]

CaseOf(w) == task[w].case
AttemptOf(w) == task[w].attempt

-----------------------------------------------------------------------------
(* The API process: POST /cases, one handler per case.                     *)

ApiGoto(c, from, to) ==
  /\ apc[c] = from
  /\ apc' = [apc EXCEPT ![c] = to]

\* What the handler's cache lookup may return: always a miss, which is what a
\* Redis error on the read path degrades to.  An upload is looked up by the hash
\* of its bytes, a URL through its alias, which may name any content seen there.
Lookups(c) ==
  {None} \cup {cache[x] : x \in IF c \in UrlCase THEN Content ELSE {ContentOf[c]}}

\* require_broker, then the cache lookup; nothing is written yet.
Submit(c) ==
  /\ ApiGoto(c, "idle", "insert")
  /\ \E v \in Lookups(c) : hit' = [hit EXCEPT ![c] = v]
  /\ UNCHANGED <<store, redis, queue, cache, work, spent>>

\* The broker is down at submission: 503 before anything is written.
Refuse(c) ==
  /\ ApiGoto(c, "idle", "refused")
  /\ Spend("broker")
  /\ UNCHANGED <<store, redis, queue, cache, hit, work>>

\* Mutant of InsertCase: the record is marked before the verdict is replayed.
InsertMarksFirst(c) ==
  /\ ApiGoto(c, "insert", IF hit[c] = None THEN "delay" ELSE "mark_cached")
  /\ row' = [row EXCEPT ![c] = "processing"]
  /\ UNCHANGED <<results, redis, queue, cache, hit, work, spent>>

\* INSERT INTO cases ... 'processing', committed on its own.
InsertCase(c) ==
  /\ ApiGoto(c, "insert", IF hit[c] = None THEN "delay" ELSE "replay")
  /\ row' = [row EXCEPT ![c] = "processing"]
  /\ UNCHANGED <<results, redis, queue, cache, hit, work, spent>>

\* _replay_cached: status and rows in one transaction.  If the case was deleted
\* meanwhile the row INSERT violates the foreign key and the request dies.
Replay(c) ==
  /\ UNCHANGED <<redis, queue, cache, hit, work, spent>>
  /\ \/ /\ Stored(c)
        /\ ApiGoto(c, "replay", "mark_cached")
        /\ row' = [row EXCEPT ![c] = hit[c]]
        /\ results' = [results EXCEPT ![c] = Append(@, hit[c])]
     \/ /\ ~Stored(c)
        /\ ApiGoto(c, "replay", "dead")
        /\ UNCHANGED store

MarkCached(c) ==
  /\ ApiGoto(c, "mark_cached", "done")
  /\ job' = [job EXCEPT ![c] = [state |-> "cached", attempt |-> 0]]
  /\ UNCHANGED <<store, pending, queue, cache, hit, work, spent>>

\* analyze_case.delay publishes the first message.
Delay(c) ==
  /\ ApiGoto(c, "delay", "queued_write")
  /\ Put([case |-> c, attempt |-> 1])
  /\ UNCHANGED <<store, redis, cache, hit, work, spent>>

\* delay raises.  The broker may have taken the message all the same, when only
\* its reply was lost.
DelayFails(c) ==
  /\ ApiGoto(c, "delay", "mark_failed")
  /\ Put([case |-> c, attempt |-> 1]) \/ UNCHANGED queue
  /\ Spend("broker")
  /\ UNCHANGED <<store, redis, cache, hit, work>>

\* _mark_case_failed, then 503.
MarkCaseFailed(c) ==
  /\ ApiGoto(c, "mark_failed", "refused")
  /\ SetRow(c, "failed")
  /\ UNCHANGED <<results, redis, queue, cache, hit, work, spent>>

\* state.mark_queued runs after the message is published: the HSET ...
QueuedWrite(c) ==
  /\ ApiGoto(c, "queued_write", "queued_zadd")
  /\ job' = [job EXCEPT ![c] = [state |-> "queued", attempt |-> 1]]
  /\ UNCHANGED <<store, pending, queue, cache, hit, work, spent>>

\* ... and the ZADD, two commands a worker's own can fall between.
QueuedZadd(c) ==
  /\ ApiGoto(c, "queued_zadd", "done")
  /\ pending' = pending \cup {c}
  /\ UNCHANGED <<store, job, queue, cache, hit, work, spent>>

\* The handler raises (500) or its process dies between two of its steps.
ApiDies(c) ==
  /\ apc[c] \notin {"idle", "done", "refused", "dead"}
  /\ apc' = [apc EXCEPT ![c] = "dead"]
  /\ Spend("api")
  /\ UNCHANGED <<store, redis, queue, cache, hit, work>>

\* DELETE /cases/{id}.  The connection does not switch foreign_keys on, so
\* ON DELETE CASCADE is inert: the result rows stay.
DeleteCase(c) ==
  /\ Stored(c)
  /\ row' = [row EXCEPT ![c] = "deleted"]
  /\ Spend("delete")
  /\ UNCHANGED <<results, redis, queue, cache, api, work>>

\* PATCH /cases/{id} with a status: any status, at any time.
PatchStatus(c) ==
  /\ Stored(c)
  /\ \E s \in RowStatus \ {"absent", "deleted"} : row' = [row EXCEPT ![c] = s]
  /\ Spend("patch")
  /\ UNCHANGED <<results, redis, queue, cache, api, work>>

ApiStep(c) ==
  \/ InsertCase(c) \/ Replay(c) \/ MarkCached(c)
  \/ Delay(c) \/ MarkCaseFailed(c) \/ QueuedWrite(c) \/ QueuedZadd(c)

-----------------------------------------------------------------------------
(* The worker: analyze_case, from delivery to acknowledgement.             *)

Goto(w, from, to) ==
  /\ wpc[w] = from
  /\ wpc' = [wpc EXCEPT ![w] = to]

\* The worker is idle again and its message is no longer held by it.
Release(w) ==
  /\ wpc' = [wpc EXCEPT ![w] = "idle"]
  /\ task' = [task EXCEPT ![w] = NoTask]
  /\ out' = [out EXCEPT ![w] = None]
  /\ final' = [final EXCEPT ![w] = "none"]

\* Mutant of Receive: the delivered message stays visible to other workers.
ReceiveLeavesMessage(w) ==
  /\ Goto(w, "idle", "running_write")
  /\ \E m \in Message : queue[m] > 0 /\ task' = [task EXCEPT ![w] = m]
  /\ UNCHANGED <<store, redis, queue, cache, api, out, final, spent>>

\* The broker delivers a message to an idle worker (prefetch of one).
Receive(w) ==
  /\ Goto(w, "idle", "running_write")
  /\ \E m \in Message :
       /\ queue[m] > 0
       /\ queue' = [queue EXCEPT ![m] = @ - 1]
       /\ task' = [task EXCEPT ![w] = m]
  /\ UNCHANGED <<store, redis, cache, api, out, final, spent>>

\* state.mark_running: HSET, then ZREM.
RunningWrite(w) ==
  /\ Goto(w, "running_write", "running_zrem")
  /\ job' = [job EXCEPT ![CaseOf(w)] = [state |-> "running", attempt |-> AttemptOf(w)]]
  /\ UNCHANGED <<store, pending, queue, cache, api, task, out, final, spent>>

Begin(w) == IF CaseOf(w) \in UrlCase THEN "ingest" ELSE "analyse"

RunningZrem(w) ==
  /\ Goto(w, "running_zrem", IF AttemptOf(w) > 1 THEN "reopen" ELSE Begin(w))
  /\ pending' = pending \ {CaseOf(w)}
  /\ UNCHANGED <<store, job, queue, cache, api, task, out, final, spent>>

\* _mark_processing: a later attempt takes the row back to 'processing'.
Reopen(w) ==
  /\ Goto(w, "reopen", Begin(w))
  /\ SetRow(CaseOf(w), "processing")
  /\ UNCHANGED <<results, redis, queue, cache, api, task, out, final, spent>>

\* _ingest_url fetched the bytes; a verdict already cached for them is replayed,
\* unless the lookup misses on a Redis error.
Ingest(w) ==
  /\ wpc[w] = "ingest"
  /\ \E v \in {None, cache[ContentOf[CaseOf(w)]]} :
       /\ wpc' = [wpc EXCEPT ![w] = IF v = None THEN "analyse" ELSE "replay"]
       /\ out' = [out EXCEPT ![w] = v]
  /\ UNCHANGED <<store, redis, queue, cache, api, task, final, spent>>

\* Mutant of Analyse: the verdict is cached before it is recorded.
AnalyseCachesEarly(w) ==
  /\ Goto(w, "analyse", "store")
  /\ \E v \in Verdict :
       /\ out' = [out EXCEPT ![w] = v]
       /\ cache' = IF v \in Signalled THEN [cache EXCEPT ![ContentOf[CaseOf(w)]] = v] ELSE cache
  /\ UNCHANGED <<store, redis, queue, api, task, final, spent>>

\* _run returns a verdict.
Analyse(w) ==
  /\ Goto(w, "analyse", "store")
  /\ \E v \in Verdict : out' = [out EXCEPT ![w] = v]
  /\ UNCHANGED <<store, redis, queue, cache, api, task, final, spent>>

\* Mutants of HandleTransient: one retry too many; the last failure unrecorded.
HandleOneTooMany(w) ==
  /\ wpc' = [wpc EXCEPT ![w] = IF AttemptOf(w) > MaxAttempts THEN "store_failure"
                                                             ELSE "retry_write"]
  /\ out' = [out EXCEPT ![w] = None]
  /\ final' = [final EXCEPT ![w] = "none"]

HandleForgetsFailure(w) ==
  /\ wpc' = [wpc EXCEPT ![w] = IF AttemptOf(w) >= MaxAttempts THEN "ack" ELSE "retry_write"]
  /\ out' = [out EXCEPT ![w] = None]
  /\ final' = [final EXCEPT ![w] = "none"]

\* What the task does about an exception its try block catches: report failure
\* if the attempts are used up, schedule a retry otherwise.
HandleTransient(w) ==
  /\ wpc' = [wpc EXCEPT ![w] = IF AttemptOf(w) >= MaxAttempts THEN "store_failure"
                                                              ELSE "retry_write"]
  /\ out' = [out EXCEPT ![w] = None]
  /\ final' = [final EXCEPT ![w] = "none"]

\* PermanentFailure, or SoftTimeLimitExceeded: no retry.
FailsPermanently(w) ==
  /\ wpc[w] \in {"ingest", "analyse"}
  /\ wpc' = [wpc EXCEPT ![w] = "store_failure"]
  /\ UNCHANGED <<store, redis, queue, cache, api, task, out, final, spent>>

\* Any other exception of the download or of the analysis.
FailsTransiently(w) ==
  /\ wpc[w] \in {"ingest", "analyse"}
  /\ HandleTransient(w)
  /\ UNCHANGED <<store, redis, queue, cache, api, task, spent>>

\* _store_success in _ingest_url, inside the try: a deleted case makes the row
\* INSERT violate its foreign key, which is retried like any other exception.
ReplayStore(w) ==
  LET c == CaseOf(w)
  IN  /\ wpc[w] = "replay"
      /\ \/ /\ Stored(c)
            /\ row' = [row EXCEPT ![c] = out[w]]
            /\ results' = [results EXCEPT ![c] = <<out[w]>>]
            /\ wpc' = [wpc EXCEPT ![w] = "finish_write"]
            /\ final' = [final EXCEPT ![w] = "cached"]
            /\ UNCHANGED out
         \/ /\ ~Stored(c)
            /\ HandleTransient(w)
            /\ UNCHANGED store
      /\ UNCHANGED <<redis, queue, cache, api, task, spent>>

\* Mutants of StoreSuccess: the rows of an earlier run are kept; the rows of the
\* new one are not written.
StoreKeepsOldRows(w) ==
  LET c == CaseOf(w)
  IN  /\ Goto(w, "store", "cache")
      /\ Stored(c)
      /\ row' = [row EXCEPT ![c] = out[w]]
      /\ results' = [results EXCEPT ![c] = Append(@, out[w])]
      /\ UNCHANGED <<redis, queue, cache, api, task, out, final, spent>>

StoreStatusOnly(w) ==
  LET c == CaseOf(w)
  IN  /\ Goto(w, "store", "cache")
      /\ Stored(c)
      /\ row' = [row EXCEPT ![c] = out[w]]
      /\ UNCHANGED <<results, redis, queue, cache, api, task, out, final, spent>>

\* _store_success after the try: status and rows in one transaction, the rows of
\* an earlier attempt cleared first.
StoreSuccess(w) ==
  LET c == CaseOf(w)
  IN  /\ Goto(w, "store", "cache")
      /\ Stored(c)
      /\ row' = [row EXCEPT ![c] = out[w]]
      /\ results' = [results EXCEPT ![c] = <<out[w]>>]
      /\ UNCHANGED <<redis, queue, cache, api, task, out, final, spent>>

\* The same call when the case is gone: the foreign key error leaves the task,
\* and Celery acknowledges a task that raised.
StoreOrphan(w) ==
  /\ wpc[w] = "store"
  /\ ~Stored(CaseOf(w))
  /\ Release(w)
  /\ UNCHANGED <<store, redis, queue, cache, api, spent>>

\* cache.store, for a verdict with a signal only.
CacheResult(w) ==
  /\ Goto(w, "cache", "finish_write")
  /\ cache' = IF out[w] \in Signalled THEN [cache EXCEPT ![ContentOf[CaseOf(w)]] = out[w]]
                                      ELSE cache
  /\ final' = [final EXCEPT ![w] = "succeeded"]
  /\ UNCHANGED <<store, redis, queue, api, task, out, spent>>

\* cache.store logs and swallows a Redis error.
CacheUnreachable(w) ==
  /\ Goto(w, "cache", "finish_write")
  /\ final' = [final EXCEPT ![w] = "succeeded"]
  /\ Spend("redis")
  /\ UNCHANGED <<store, redis, queue, cache, api, task, out>>

StoreFailure(w) ==
  /\ Goto(w, "store_failure", "finish_write")
  /\ SetRow(CaseOf(w), "failed")
  /\ final' = [final EXCEPT ![w] = "failed"]
  /\ UNCHANGED <<results, redis, queue, cache, api, task, out, spent>>

\* state.mark_finished: HSET of the state (the attempt stays), then ZREM.
FinishWrite(w) ==
  /\ Goto(w, "finish_write", "finish_zrem")
  /\ job' = [job EXCEPT ![CaseOf(w)].state = final[w]]
  /\ UNCHANGED <<store, pending, queue, cache, api, task, out, final, spent>>

FinishZrem(w) ==
  /\ Goto(w, "finish_zrem", "ack")
  /\ pending' = pending \ {CaseOf(w)}
  /\ UNCHANGED <<store, job, queue, cache, api, task, out, final, spent>>

\* state.mark_retrying: HSET, then ZADD; then self.retry publishes the message.
RetryWrite(w) ==
  /\ Goto(w, "retry_write", "retry_zadd")
  /\ job' = [job EXCEPT ![CaseOf(w)] = [state |-> "retrying", attempt |-> AttemptOf(w) + 1]]
  /\ UNCHANGED <<store, pending, queue, cache, api, task, out, final, spent>>

RetryZadd(w) ==
  /\ Goto(w, "retry_zadd", "retry_publish")
  /\ pending' = pending \cup {CaseOf(w)}
  /\ UNCHANGED <<store, job, queue, cache, api, task, out, final, spent>>

\* Mutants of RetryPublish: no message is published; `retries` is not raised.
RetryUnpublished(w) ==
  /\ Goto(w, "retry_publish", "ack")
  /\ UNCHANGED <<store, redis, queue, cache, api, task, out, final, spent>>

RetryUncounted(w) ==
  /\ Goto(w, "retry_publish", "ack")
  /\ Put([case |-> CaseOf(w), attempt |-> AttemptOf(w)])
  /\ UNCHANGED <<store, redis, cache, api, task, out, final, spent>>

RetryPublish(w) ==
  /\ Goto(w, "retry_publish", "ack")
  /\ Put([case |-> CaseOf(w), attempt |-> AttemptOf(w) + 1])
  /\ UNCHANGED <<store, redis, cache, api, task, out, final, spent>>

\* acks_late: the message is acknowledged only once the task has returned.
Ack(w) ==
  /\ wpc[w] = "ack"
  /\ Release(w)
  /\ UNCHANGED <<store, redis, queue, cache, api, spent>>

WorkerStep(w) ==
  \/ RunningWrite(w) \/ RunningZrem(w) \/ Reopen(w)
  \/ Ingest(w) \/ Analyse(w) \/ FailsPermanently(w) \/ FailsTransiently(w)
  \/ ReplayStore(w) \/ StoreSuccess(w) \/ StoreOrphan(w) \/ CacheResult(w)
  \/ StoreFailure(w) \/ FinishWrite(w) \/ FinishZrem(w)
  \/ RetryWrite(w) \/ RetryZadd(w) \/ RetryPublish(w) \/ Ack(w)

-----------------------------------------------------------------------------
(* What may go wrong around the worker.                                    *)

\* Mutant of Crash: the message was acknowledged early and is lost.
CrashLosesMessage(w) ==
  /\ wpc[w] # "idle"
  /\ Release(w)
  /\ Spend("crash")
  /\ UNCHANGED <<store, redis, queue, cache, api>>

\* The process is lost at any point before the acknowledgement: the broker
\* redelivers the message it held.
Crash(w) ==
  /\ wpc[w] # "idle"
  /\ Put(task[w])
  /\ Release(w)
  /\ Spend("crash")
  /\ UNCHANGED <<store, redis, cache, api>>

\* The hard limit kills the process; Celery acknowledges a task that timed out.
HardLimit(w) ==
  /\ wpc[w] # "idle"
  /\ Release(w)
  /\ Spend("wedge")
  /\ UNCHANGED <<store, redis, queue, cache, api>>

\* A call outside the try block raises: the exception ends the task, and Celery
\* acknowledges a task that raised.
SqlitePoints == {"reopen", "store", "cache", "store_failure"}
RedisPoints == {"running_write", "running_zrem", "retry_write", "retry_zadd",
                "retry_publish", "finish_write", "finish_zrem"}

Escape(w) ==
  /\ \/ wpc[w] \in SqlitePoints /\ Spend("sqlite")
     \/ wpc[w] \in RedisPoints /\ final[w] # "cached" /\ Spend("redis")
  /\ Release(w)
  /\ UNCHANGED <<store, redis, queue, cache, api>>

\* The same failures while _ingest_url replays a verdict are inside the try.
ReplayFails(w) ==
  /\ \/ wpc[w] = "replay" /\ Spend("sqlite")
     \/ wpc[w] \in RedisPoints /\ final[w] = "cached" /\ Spend("redis")
  /\ HandleTransient(w)
  /\ UNCHANGED <<store, redis, queue, cache, api, task>>

\* Nobody works on the case: no handler, no message, no worker.
Abandoned(c) ==
  /\ apc[c] \in {"done", "refused", "dead"}
  /\ \A m \in Message : m.case = c => queue[m] = 0
  /\ \A w \in Worker : CaseOf(w) # c

\* Redis drops the hash when its TTL (24 hours finished, 7 days active, both far
\* longer than any run) elapses after its last write.  The TTL is the hash's own:
\* the member of the pending set stays.
Expire(c) ==
  /\ Abandoned(c)
  /\ job[c] # NoJob
  /\ job' = [job EXCEPT ![c] = NoJob]
  /\ UNCHANGED <<store, pending, queue, cache, api, work, spent>>

-----------------------------------------------------------------------------
Init ==
  /\ row = [c \in Case |-> "absent"]
  /\ results = [c \in Case |-> <<>>]
  /\ job = [c \in Case |-> NoJob]
  /\ pending = {}
  /\ queue = [m \in Message |-> 0]
  /\ cache = [x \in Content |-> None]
  /\ apc = [c \in Case |-> "idle"]
  /\ hit = [c \in Case |-> None]
  /\ wpc = [w \in Worker |-> "idle"]
  /\ task = [w \in Worker |-> NoTask]
  /\ out = [w \in Worker |-> None]
  /\ final = [w \in Worker |-> "none"]
  /\ spent = [f \in Fault |-> 0]

\* Nothing is left to do: the system waits for another request.
Rest == (\A c \in Case : Abandoned(c)) /\ UNCHANGED vars

UserStep(c) == Submit(c) \/ DeleteCase(c) \/ PatchStatus(c)
ApiFault(c) == Refuse(c) \/ DelayFails(c) \/ ApiDies(c)
WorkerFault(w) == Crash(w) \/ HardLimit(w) \/ Escape(w) \/ ReplayFails(w) \/ CacheUnreachable(w)

Next ==
  \/ \E c \in Case : UserStep(c) \/ ApiStep(c) \/ ApiFault(c) \/ Expire(c)
  \/ \E w \in Worker : Receive(w) \/ WorkerStep(w) \/ WorkerFault(w)
  \/ Rest

Spec == Init /\ [][Next]_vars

\* The API's event loop runs each handler to its end, a live worker finishes
\* what it starts and takes the next message while there is one, and Redis
\* expires keys.  No failure, no user request and no particular outcome of an
\* analysis is ever forced.
Fairness ==
  /\ \A c \in Case : WF_vars(ApiStep(c)) /\ WF_vars(Expire(c))
  /\ \A w \in Worker : WF_vars(Receive(w)) /\ WF_vars(WorkerStep(w))

FairSpec == Spec /\ Fairness

-----------------------------------------------------------------------------
(* Properties.                                                             *)

\* Type invariant: every variable holds a value the code can store in it.
TypeOK ==
  /\ row \in [Case -> RowStatus]
  /\ results \in [Case -> Seq(Verdict)]
  /\ job \in [Case -> JobRecord]
  /\ pending \subseteq Case
  /\ queue \in [Message -> Nat]
  /\ cache \in [Content -> Verdict \cup {None}]
  /\ apc \in [Case -> ApiPC]
  /\ hit \in [Case -> Verdict \cup {None}]
  /\ wpc \in [Worker -> WorkerPC]
  /\ task \in [Worker -> Message \cup {NoTask}]
  /\ out \in [Worker -> Verdict \cup {None}]
  /\ final \in [Worker -> TERMINAL \cup {"none"}]
  /\ spent \in [Fault -> Nat]

\* However often a case is delivered, crashed, retried or run twice at once, its
\* report never lists a checkpoint twice (tasks.py, the DELETE in _store_success).
OneBatch == \A c \in Case : Len(results[c]) <= 1

\* A case whose row shows a verdict shows exactly that verdict's result rows, in
\* every state any interleaving can reach: status and rows change together.
\* A PATCH may set any status, so it is excluded.
SettledShowsItsRows ==
  spent["patch"] = 0 =>
    \A c \in Case : row[c] \in Verdict => results[c] = <<row[c]>>

\* "the durable record is ... both written before this returns": a job is
\* announced as succeeded or cached only after its rows are in SQLite.
AnnouncedIsDurable ==
  \A c \in Case : job[c].state \in {"succeeded", "cached"} => results[c] # <<>>

\* "Cache after the durable write, never before", and only a verdict some engine
\* produced: every cache entry is one, and a case of that content has its rows.
CacheIsPersisted ==
  \A x \in Content : cache[x] # None =>
    /\ cache[x] \in Signalled
    /\ \E c \in Case : ContentOf[c] = x /\ results[c] # <<>>

\* Worker steps at which the task has neither settled its case nor re-queued it.
Unsettled == {"running_write", "running_zrem", "reopen", "ingest", "analyse", "replay",
              "store", "store_failure", "retry_write", "retry_zadd", "retry_publish"}

\* Someone still owes the case an outcome.
Owed(c) ==
  \/ apc[c] \in {"replay", "delay", "mark_failed"}
  \/ \E m \in Message : m.case = c /\ queue[m] > 0
  \/ \E w \in Worker : CaseOf(w) = c /\ wpc[w] \in Unsettled

\* No case shows 'processing' with nothing behind it.
NothingStranded == \A c \in Case : row[c] = "processing" => Owed(c)

\* acks_late and reject_on_worker_lost: whatever the number of worker crashes and
\* refused publications, no processing case is left without a message, a worker
\* or a handler that will settle it.
CrashSafe ==
  (\A f \in {"wedge", "sqlite", "redis", "api", "patch"} : spent[f] = 0) => NothingStranded

\* Without a crash a case is never analysed by two workers at once, nor queued
\* while it runs: the retry's message replaces the one it is raised from.
NoConcurrentRuns ==
  spent["crash"] = 0 =>
    \A w \in Worker : wpc[w] \notin {"idle", "ack"} =>
      /\ \A m \in Message : m.case = CaseOf(w) => queue[m] = 0
      /\ \A u \in Worker \ {w} : wpc[u] \notin {"idle", "ack"} => CaseOf(u) # CaseOf(w)

\* As long as nothing fails, what the console reads from SQLite is the abstract
\* case: accepted once, settled once with verdict and rows together, then final.
Lifecycle == INSTANCE CaseLifecycle WITH status <- row, shown <- results
ImplementsLifecycle == Lifecycle!Spec

\* Every accepted case leaves 'processing', again and again after every redelivery.
Settles == \A c \in Case : row[c] = "processing" ~> row[c] # "processing"

\* "States a job will not leave on its own" (state.py): a terminal job record
\* changes no more, short of its expiry.
TerminalStays ==
  [][\A c \in Case : job[c].state \in TERMINAL => job'[c].state \in {job[c].state, "none"}]_vars
=============================================================================
