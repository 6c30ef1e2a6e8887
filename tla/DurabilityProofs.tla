---------------------------- MODULE DurabilityProofs ---------------------------
(***************************************************************************)
(* What is announced is durable, what is cached was persisted, no case is  *)
(* lost to a worker crash, how often and by how many workers a case is     *)
(* run, and that the queue implements the abstract case: theorems about    *)
(* AnalysisQueue for any cases, workers, contents and verdicts and any     *)
(* number of failures.                                                     *)
(***************************************************************************)
EXTENDS AnalysisQueueProofs, MCAnalysisRuns, FiniteSetTheorems

\* A batch of rows added leaves rows.
LEMMA AppendFull ==
  ASSUME NEW q \in Seq(Verdict), NEW v \in Verdict
  PROVE  Append(q, v) # <<>>
<1>1. Len(Append(q, v)) = Len(q) + 1 /\ Len(q) \in Nat
  OBVIOUS
<1>2. QED
  BY <1>1

\* The case's result rows are in SQLite.
Durable(c) == results[c] # <<>>

\* Rows once written stay: a case that is durable stays so (its DELETE leaves them).
LEMMA DurableStays ==
  ASSUME TypeInv, FreshInv, [Next]_vars, NEW c \in Case, Durable(c)
  PROVE  Durable(c)'
<1>1. StoreEffect
  BY StoreEffects
<1>2. CASE results' = results
  BY <1>2 DEF Durable
<1>3. ASSUME NEW d \in Case, Records(d) PROVE Durable(c)'
  <2>1. results'[c] = results[c] \/ \E v \in Verdict : results'[c] = <<v>>
    BY <1>3 DEF Records, TypeInv, TypeOK
  <2>2. QED
    BY <2>1 DEF Durable
<1>4. QED
  BY <1>1, <1>2, <1>3 DEF StoreEffect, Reopens, Patches, store

\* Where the handlers stand when they announce or cache: the rows are there.
HandlersWait == \A c \in Case : apc[c] = "mark_cached" => Durable(c)

WorkersWait ==
  \A w \in Worker :
    /\ wpc[w] = "cache" => Durable(CaseOf(w))
    /\ final[w] \in {"succeeded", "cached"} => wpc[w] # "idle" /\ Durable(CaseOf(w))

DurableInv == HandlersWait /\ WorkersWait /\ AnnouncedIsDurable /\ CacheIsPersisted

\* Every step keeps the invariant: rows are written before the place from which they are
\* announced or cached is reached.
LEMMA DurableNext == TypeInv /\ FreshInv /\ DurableInv /\ [Next]_vars => DurableInv'
<1> SUFFICES ASSUME TypeInv, FreshInv, DurableInv, [Next]_vars PROVE DurableInv'
  OBVIOUS
<1>0. \A c \in Case : Durable(c) => Durable(c)'
  BY DurableStays
<1> USE <1>0 DEF DurableInv, HandlersWait, WorkersWait, AnnouncedIsDurable, CacheIsPersisted, Durable, CaseOf,
        TypeInv, TypeOK, store, redis, api, work
<1>1. ASSUME NEW c \in Case, Submit(c) PROVE DurableInv'
  BY <1>1 DEF Submit, ApiGoto
<1>2. ASSUME NEW c \in Case, Refuse(c) PROVE DurableInv'
  BY <1>2 DEF Refuse, ApiGoto
<1>3. ASSUME NEW c \in Case, InsertCase(c) PROVE DurableInv'
  BY <1>3 DEF InsertCase, ApiGoto
<1>4. ASSUME NEW c \in Case, Replay(c) PROVE DurableInv'
  <2>1. CASE Stored(c)
    <3>1. results'[c] = Append(results[c], hit[c]) /\ results[c] \in Seq(Verdict)
      BY <1>4, <2>1 DEF Replay
    <3>2. hit[c] \in Verdict
      BY <1>4, <2>1 DEF Replay, ApiGoto, ApiInv
    <3>3. results'[c] # <<>>
      BY <3>1, <3>2, AppendFull
    <3>4. /\ UNCHANGED <<job, cache, wpc, task, final>>
          /\ apc' = [apc EXCEPT ![c] = "mark_cached"]
      BY <1>4, <2>1 DEF Replay, ApiGoto
    <3>5. HandlersWait'
      BY <3>3, <3>4
    <3>6. WorkersWait'
      BY <3>4, MessageTask
    <3>7. AnnouncedIsDurable'
      BY <3>4
    <3>8. CacheIsPersisted'
      BY <3>4
    <3>9. QED
      BY <3>5, <3>6, <3>7, <3>8
  <2>2. CASE ~Stored(c)
    BY <1>4, <2>2 DEF Replay, ApiGoto
  <2>3. QED
    BY <2>1, <2>2
<1>5. ASSUME NEW c \in Case, MarkCached(c) PROVE DurableInv'
  BY <1>5 DEF MarkCached, ApiGoto
<1>6. ASSUME NEW c \in Case, Delay(c) PROVE DurableInv'
  BY <1>6 DEF Delay, ApiGoto
<1>7. ASSUME NEW c \in Case, DelayFails(c) PROVE DurableInv'
  BY <1>7 DEF DelayFails, ApiGoto
<1>8. ASSUME NEW c \in Case, MarkCaseFailed(c) PROVE DurableInv'
  BY <1>8 DEF MarkCaseFailed, ApiGoto, SetRow
<1>9. ASSUME NEW c \in Case, QueuedWrite(c) PROVE DurableInv'
  BY <1>9 DEF QueuedWrite, ApiGoto
<1>10. ASSUME NEW c \in Case, QueuedZadd(c) PROVE DurableInv'
  BY <1>10 DEF QueuedZadd, ApiGoto
<1>11. ASSUME NEW c \in Case, ApiDies(c) PROVE DurableInv'
  BY <1>11 DEF ApiDies
<1>12. ASSUME NEW c \in Case, DeleteCase(c) PROVE DurableInv'
  BY <1>12 DEF DeleteCase
<1>13. ASSUME NEW c \in Case, PatchStatus(c) PROVE DurableInv'
  BY <1>13 DEF PatchStatus
<1>14. ASSUME NEW c \in Case, Expire(c) PROVE DurableInv'
  BY <1>14 DEF Expire, NoJob
<1>15. ASSUME NEW w \in Worker, Receive(w) PROVE DurableInv'
  BY <1>15, MessageTask DEF Receive, Goto
<1>16. ASSUME NEW w \in Worker, RunningWrite(w) PROVE DurableInv'
  BY <1>16, MessageTask DEF RunningWrite, Goto
<1>17. ASSUME NEW w \in Worker, RunningZrem(w) PROVE DurableInv'
  BY <1>17, MessageTask DEF RunningZrem, Goto, Begin
<1>18. ASSUME NEW w \in Worker, Reopen(w) PROVE DurableInv'
  BY <1>18, MessageTask DEF Reopen, Goto, SetRow, Begin
<1>19. ASSUME NEW w \in Worker, Ingest(w) PROVE DurableInv'
  BY <1>19, MessageTask DEF Ingest, Goto
<1>20. ASSUME NEW w \in Worker, Analyse(w) PROVE DurableInv'
  BY <1>20, MessageTask DEF Analyse, Goto
<1>21. ASSUME NEW w \in Worker, FailsPermanently(w) PROVE DurableInv'
  BY <1>21, MessageTask DEF FailsPermanently
<1>22. ASSUME NEW w \in Worker, FailsTransiently(w) PROVE DurableInv'
  BY <1>22, MessageTask DEF FailsTransiently, HandleTransient
<1>23. ASSUME NEW w \in Worker, ReplayStore(w) PROVE DurableInv'
  <2>1. CASE Stored(CaseOf(w))
    <3>1. CaseOf(w) \in Case
      BY <1>23, MessageTask DEF ReplayStore
    <3>2. results'[CaseOf(w)] = <<out[w]>>
      BY <1>23, <2>1, <3>1 DEF ReplayStore
    <3>3. results'[CaseOf(w)] # <<>>
      BY <3>2
    <3>4. /\ UNCHANGED <<job, cache, apc, task>>
          /\ wpc' = [wpc EXCEPT ![w] = "finish_write"]
          /\ final' = [final EXCEPT ![w] = "cached"]
      BY <1>23, <2>1 DEF ReplayStore
    <3>5. HandlersWait'
      BY <3>4
    <3>6. WorkersWait'
      BY <3>1, <3>3, <3>4, MessageTask
    <3>7. AnnouncedIsDurable'
      BY <3>4
    <3>8. CacheIsPersisted'
      BY <3>4
    <3>9. QED
      BY <3>5, <3>6, <3>7, <3>8
  <2>2. CASE ~Stored(CaseOf(w))
    BY <1>23, <2>2, MessageTask DEF ReplayStore, HandleTransient
  <2>3. QED
    BY <2>1, <2>2
<1>24. ASSUME NEW w \in Worker, StoreSuccess(w) PROVE DurableInv'
  BY <1>24, MessageTask DEF StoreSuccess, Goto
<1>25. ASSUME NEW w \in Worker, StoreOrphan(w) PROVE DurableInv'
  BY <1>25, MessageTask DEF StoreOrphan, Release
<1>26. ASSUME NEW w \in Worker, CacheResult(w) PROVE DurableInv'
  <2>1. CaseOf(w) \in Case /\ Durable(CaseOf(w)) /\ wpc[w] = "cache"
    BY <1>26, MessageTask DEF CacheResult, Goto
  <2>2. CacheIsPersisted'
    <3>1. ASSUME NEW x \in Content, cache'[x] # None
          PROVE  cache'[x] \in Signalled /\ \E c \in Case : ContentOf[c] = x /\ results[c] # <<>>
      BY <1>26, <2>1, <3>1 DEF CacheResult
    <3>2. QED
      BY <1>26, <3>1 DEF CacheResult
  <2>3. HandlersWait' /\ WorkersWait' /\ AnnouncedIsDurable'
    BY <1>26, <2>1 DEF CacheResult, Goto
  <2>4. QED
    BY <2>2, <2>3
<1>27. ASSUME NEW w \in Worker, CacheUnreachable(w) PROVE DurableInv'
  BY <1>27, MessageTask DEF CacheUnreachable, Goto
<1>28. ASSUME NEW w \in Worker, StoreFailure(w) PROVE DurableInv'
  BY <1>28, MessageTask DEF StoreFailure, Goto, SetRow
<1>29. ASSUME NEW w \in Worker, FinishWrite(w) PROVE DurableInv'
  BY <1>29, MessageTask DEF FinishWrite, Goto
<1>30. ASSUME NEW w \in Worker, FinishZrem(w) PROVE DurableInv'
  BY <1>30, MessageTask DEF FinishZrem, Goto
<1>31. ASSUME NEW w \in Worker, RetryWrite(w) PROVE DurableInv'
  BY <1>31, MessageTask DEF RetryWrite, Goto
<1>32. ASSUME NEW w \in Worker, RetryZadd(w) PROVE DurableInv'
  BY <1>32, MessageTask DEF RetryZadd, Goto
<1>33. ASSUME NEW w \in Worker, RetryPublish(w) PROVE DurableInv'
  BY <1>33, MessageTask DEF RetryPublish, Goto
<1>34. ASSUME NEW w \in Worker, Ack(w) PROVE DurableInv'
  BY <1>34, MessageTask DEF Ack, Release
<1>35. ASSUME NEW w \in Worker, Crash(w) PROVE DurableInv'
  BY <1>35, MessageTask DEF Crash, Release
<1>36. ASSUME NEW w \in Worker, HardLimit(w) PROVE DurableInv'
  BY <1>36, MessageTask DEF HardLimit, Release
<1>37. ASSUME NEW w \in Worker, Escape(w) PROVE DurableInv'
  BY <1>37, MessageTask DEF Escape, Release
<1>38. ASSUME NEW w \in Worker, ReplayFails(w) PROVE DurableInv'
  BY <1>38, MessageTask DEF ReplayFails, HandleTransient
<1>39. CASE UNCHANGED vars
  BY <1>39 DEF vars
<1> QED
  BY <1>1, <1>2, <1>3, <1>4, <1>5, <1>6, <1>7, <1>8, <1>9, <1>10, <1>11, <1>12, <1>13, <1>14,
     <1>15, <1>16, <1>17, <1>18, <1>19, <1>20, <1>21, <1>22, <1>23, <1>24, <1>25, <1>26, <1>27,
     <1>28, <1>29, <1>30, <1>31, <1>32, <1>33, <1>34, <1>35, <1>36, <1>37, <1>38, <1>39
     DEF Next, UserStep, ApiStep, ApiFault, WorkerStep, WorkerFault, Rest

\* Before the first case nothing is announced or cached.
LEMMA DurableInit == Init => DurableInv
BY ConstantsAssumption
   DEF Init, DurableInv, HandlersWait, WorkersWait, AnnouncedIsDurable, CacheIsPersisted, NoJob

\* The invariant behind both theorems.
LEMMA DurableAlways == Spec => [](TypeInv /\ FreshInv /\ DurableInv)
<1>1. Init => TypeInv /\ FreshInv /\ DurableInv
  BY RecordInit, DurableInit DEF RecordInv
<1>2. TypeInv /\ FreshInv /\ DurableInv /\ [Next]_vars => (TypeInv /\ FreshInv /\ DurableInv)'
  BY TypeNext, FreshNext, DurableNext
<1>3. QED
  BY <1>1, <1>2, PTL DEF Spec

\* A job is announced as succeeded or cached only after its rows are in SQLite,
\* whatever crashes, failures and concurrent runs come between.
THEOREM AnnouncedAfterStored == Spec => []AnnouncedIsDurable
<1>1. DurableInv => AnnouncedIsDurable
  BY DEF DurableInv
<1>2. QED
  BY DurableAlways, <1>1, PTL

\* Every cached verdict is one some engine produced, and a case of that content
\* has its rows: nothing is cached before it is durable.
THEOREM CachedAfterStored == Spec => []CacheIsPersisted
<1>1. DurableInv => CacheIsPersisted
  BY DEF DurableInv
<1>2. QED
  BY DurableAlways, <1>1, PTL

-----------------------------------------------------------------------------
(* No case is lost.                                                         *)

\* None of the failures that Celery acknowledges, or that leave a handler
\* half-way, and no manual status change.
Calm == \A f \in {"wedge", "sqlite", "redis", "api", "patch"} : spent[f] = 0

\* A verdict is not the status of a case in progress.
LEMMA VerdictSettles ==
  ASSUME NEW v \in Verdict
  PROVE  v # "processing"
BY ConstantsAssumption

\* A calm state follows only calm ones.
LEMMA CalmBefore ==
  ASSUME TypeInv, [Next]_vars, Calm'
  PROVE  Calm
BY SpentOnlyGrows, FaultNames DEF Calm

\* A failure that is spent ends the calm.
LEMMA SpendEndsCalm ==
  ASSUME TypeInv, NEW f \in {"wedge", "sqlite", "redis", "api", "patch"}, Spend(f)
  PROVE  ~Calm'
BY FaultNames DEF Calm, Spend, TypeInv, TypeOK

\* A failed attempt is reported or retried by the worker that made it.
LEMMA TransientOwed ==
  ASSUME TypeInv, NEW w \in Worker, wpc[w] # "idle", HandleTransient(w), task' = task
  PROVE  /\ wpc'[w] \in Unsettled
         /\ \A u \in Worker \ {w} : wpc'[u] = wpc[u]
BY DEF HandleTransient, TypeInv, TypeOK, Unsettled

\* Every step keeps that a case in progress is owed its outcome.
LEMMA CrashSafeNext == TypeInv /\ CrashSafe /\ [Next]_vars => CrashSafe'
<1> SUFFICES ASSUME TypeInv, CrashSafe, [Next]_vars, Calm', NEW k \in Case,
                    row'[k] = "processing"
             PROVE  Owed(k)'
  BY DEF CrashSafe, NothingStranded, Calm
<1>0. row[k] = "processing" => Owed(k)
  BY CalmBefore DEF CrashSafe, NothingStranded, Calm
<1> USE <1>0, ConstantsAssumption DEF Owed, Unsettled, CaseOf, TypeInv, TypeOK, store, redis, api, work
<1>1. ASSUME NEW c \in Case, Submit(c) PROVE Owed(k)'
  BY <1>1 DEF Submit, ApiGoto
<1>2. ASSUME NEW c \in Case, Refuse(c) PROVE Owed(k)'
  BY <1>2 DEF Refuse, ApiGoto
<1>3. ASSUME NEW c \in Case, InsertCase(c) PROVE Owed(k)'
  BY <1>3 DEF InsertCase, ApiGoto
<1>4. ASSUME NEW c \in Case, Replay(c) PROVE Owed(k)'
  <2>1. CASE k = c
    <3>1. ~Stored(c)
      <4>1. CASE Stored(c)
        BY <1>4, <2>1, <4>1, VerdictSettles DEF Replay, ApiGoto, ApiInv
      <4>2. QED
        BY <4>1
    <3>2. row[c] # "processing" /\ row' = row
      BY <1>4, <3>1 DEF Replay, Stored
    <3>3. QED
      BY <2>1, <3>2
  <2>2. CASE k # c
    <3>1. row'[k] = row[k] /\ apc'[k] = apc[k] /\ UNCHANGED <<queue, task, wpc>>
      BY <1>4, <2>2 DEF Replay, ApiGoto
    <3>2. QED
      BY <3>1
  <2>3. QED
    BY <2>1, <2>2
<1>5. ASSUME NEW c \in Case, MarkCached(c) PROVE Owed(k)'
  BY <1>5 DEF MarkCached, ApiGoto
<1>6. ASSUME NEW c \in Case, Delay(c) PROVE Owed(k)'
  BY <1>6, FirstMessage DEF Delay, ApiGoto, Put
<1>7. ASSUME NEW c \in Case, DelayFails(c) PROVE Owed(k)'
  <2>1. CASE k = c
    BY <1>7, <2>1 DEF DelayFails, ApiGoto
  <2>2. CASE k # c
    <3>1. \A m \in Message : queue[m] > 0 => queue'[m] > 0
      BY <1>7, FirstMessage DEF DelayFails, Put
    <3>2. row'[k] = row[k] /\ apc'[k] = apc[k] /\ UNCHANGED <<task, wpc>>
      BY <1>7, <2>2 DEF DelayFails, ApiGoto
    <3>3. QED
      BY <3>1, <3>2
  <2>3. QED
    BY <2>1, <2>2
<1>8. ASSUME NEW c \in Case, MarkCaseFailed(c) PROVE Owed(k)'
  <2>1. CASE k = c
    BY <1>8, <2>1 DEF MarkCaseFailed, SetRow, Stored
  <2>2. CASE k # c
    BY <1>8, <2>2 DEF MarkCaseFailed, ApiGoto, SetRow
  <2>3. QED
    BY <2>1, <2>2
<1>9. ASSUME NEW c \in Case, QueuedWrite(c) PROVE Owed(k)'
  BY <1>9 DEF QueuedWrite, ApiGoto
<1>10. ASSUME NEW c \in Case, QueuedZadd(c) PROVE Owed(k)'
  BY <1>10 DEF QueuedZadd, ApiGoto
<1>11. ASSUME NEW c \in Case, ApiDies(c) PROVE Owed(k)'
  BY <1>11, SpendEndsCalm DEF ApiDies
<1>12. ASSUME NEW c \in Case, DeleteCase(c) PROVE Owed(k)'
  BY <1>12 DEF DeleteCase, Stored
<1>13. ASSUME NEW c \in Case, PatchStatus(c) PROVE Owed(k)'
  BY <1>13, SpendEndsCalm DEF PatchStatus, Stored
<1>14. ASSUME NEW c \in Case, Expire(c) PROVE Owed(k)'
  BY <1>14 DEF Expire
<1>15. ASSUME NEW w \in Worker, Receive(w) PROVE Owed(k)'
  BY <1>15, MessageTask DEF Receive, Goto
<1>16. ASSUME NEW w \in Worker, RunningWrite(w) PROVE Owed(k)'
  BY <1>16, MessageTask DEF RunningWrite, Goto
<1>17. ASSUME NEW w \in Worker, RunningZrem(w) PROVE Owed(k)'
  BY <1>17, MessageTask DEF RunningZrem, Goto, Begin
<1>18. ASSUME NEW w \in Worker, Reopen(w) PROVE Owed(k)'
  BY <1>18, MessageTask DEF Reopen, Goto, SetRow, Begin
<1>19. ASSUME NEW w \in Worker, Ingest(w) PROVE Owed(k)'
  BY <1>19, MessageTask DEF Ingest, Goto
<1>20. ASSUME NEW w \in Worker, Analyse(w) PROVE Owed(k)'
  BY <1>20, MessageTask DEF Analyse, Goto
<1>21. ASSUME NEW w \in Worker, FailsPermanently(w) PROVE Owed(k)'
  BY <1>21, MessageTask DEF FailsPermanently
<1>22. ASSUME NEW w \in Worker, FailsTransiently(w) PROVE Owed(k)'
  BY <1>22, MessageTask, TransientOwed DEF FailsTransiently, HandleTransient
<1>23. ASSUME NEW w \in Worker, ReplayStore(w) PROVE Owed(k)'
  <2>1. CASE Stored(CaseOf(w))
    <3>1. row'[k] = row[k] /\ k # CaseOf(w)
      <4>1. out[w] # "processing" /\ CaseOf(w) \in Case
        BY <1>23, VerdictSettles, MessageTask DEF ReplayStore, WorkerInv
      <4>2. row' = [row EXCEPT ![CaseOf(w)] = out[w]]
        BY <1>23, <2>1 DEF ReplayStore
      <4>3. QED
        BY <4>1, <4>2
    <3>2. UNCHANGED <<apc, queue, task>> /\ \A u \in Worker \ {w} : wpc'[u] = wpc[u]
      BY <1>23, <2>1 DEF ReplayStore
    <3>3. QED
      BY <3>1, <3>2
  <2>2. CASE ~Stored(CaseOf(w))
    BY <1>23, <2>2, TransientOwed DEF ReplayStore
  <2>3. QED
    BY <2>1, <2>2
<1>24. ASSUME NEW w \in Worker, StoreSuccess(w) PROVE Owed(k)'
  <2>1. row'[k] = row[k] /\ k # CaseOf(w)
    <3>1. out[w] # "processing" /\ CaseOf(w) \in Case
      BY <1>24, VerdictSettles, MessageTask DEF StoreSuccess, Goto, WorkerInv
    <3>2. row' = [row EXCEPT ![CaseOf(w)] = out[w]]
      BY <1>24 DEF StoreSuccess
    <3>3. QED
      BY <3>1, <3>2
  <2>2. UNCHANGED <<apc, queue, task>> /\ \A u \in Worker \ {w} : wpc'[u] = wpc[u]
    BY <1>24 DEF StoreSuccess, Goto
  <2>3. QED
    BY <2>1, <2>2
<1>25. ASSUME NEW w \in Worker, StoreOrphan(w) PROVE Owed(k)'
  BY <1>25, MessageTask DEF StoreOrphan, Release, Stored
<1>26. ASSUME NEW w \in Worker, CacheResult(w) PROVE Owed(k)'
  BY <1>26, MessageTask DEF CacheResult, Goto
<1>27. ASSUME NEW w \in Worker, CacheUnreachable(w) PROVE Owed(k)'
  BY <1>27, MessageTask, SpendEndsCalm DEF CacheUnreachable, Goto
<1>28. ASSUME NEW w \in Worker, StoreFailure(w) PROVE Owed(k)'
  <2>1. CASE k = CaseOf(w)
    BY <1>28, <2>1, MessageTask DEF StoreFailure, Goto, SetRow, Stored
  <2>2. CASE k # CaseOf(w)
    <3>1. row'[k] = row[k]
      BY <1>28, <2>2, MessageTask DEF StoreFailure, Goto, SetRow
    <3>2. UNCHANGED <<apc, queue, task>> /\ \A u \in Worker \ {w} : wpc'[u] = wpc[u]
      BY <1>28 DEF StoreFailure, Goto
    <3>3. QED
      BY <2>2, <3>1, <3>2
  <2>3. QED
    BY <2>1, <2>2
<1>29. ASSUME NEW w \in Worker, FinishWrite(w) PROVE Owed(k)'
  BY <1>29, MessageTask DEF FinishWrite, Goto
<1>30. ASSUME NEW w \in Worker, FinishZrem(w) PROVE Owed(k)'
  BY <1>30, MessageTask DEF FinishZrem, Goto
<1>31. ASSUME NEW w \in Worker, RetryWrite(w) PROVE Owed(k)'
  BY <1>31, MessageTask DEF RetryWrite, Goto
<1>32. ASSUME NEW w \in Worker, RetryZadd(w) PROVE Owed(k)'
  BY <1>32, MessageTask DEF RetryZadd, Goto
<1>33. ASSUME NEW w \in Worker, RetryPublish(w) PROVE Owed(k)'
  <2> DEFINE m == [case |-> CaseOf(w), attempt |-> AttemptOf(w) + 1]
  <2>1. m \in Message /\ m.case = CaseOf(w)
    BY <1>33, NextMessage DEF RetryPublish, Goto
  <2>2. queue' = [queue EXCEPT ![m] = @ + 1]
    BY <1>33 DEF RetryPublish, Put
  <2> HIDE DEF m
  <2>3. queue'[m] > 0 /\ \A n \in Message : queue[n] > 0 => queue'[n] > 0
    BY <2>1, <2>2
  <2>4. UNCHANGED <<row, apc, task>> /\ \A u \in Worker \ {w} : wpc'[u] = wpc[u]
    BY <1>33 DEF RetryPublish, Goto
  <2>5. QED
    BY <2>1, <2>3, <2>4
<1>34. ASSUME NEW w \in Worker, Ack(w) PROVE Owed(k)'
  BY <1>34, MessageTask DEF Ack, Release
<1>35. ASSUME NEW w \in Worker, Crash(w) PROVE Owed(k)'
  <2>1. task[w] \in Message
    BY <1>35, MessageTask DEF Crash
  <2>2. queue'[task[w]] > 0 /\ \A n \in Message : queue[n] > 0 => queue'[n] > 0
    BY <1>35, <2>1 DEF Crash, Put
  <2>3. UNCHANGED <<row, apc>>
    BY <1>35 DEF Crash
  <2>4. \A u \in Worker \ {w} : wpc'[u] = wpc[u] /\ task'[u] = task[u]
    BY <1>35 DEF Crash, Release
  <2>5. QED
    BY <2>1, <2>2, <2>3, <2>4
<1>36. ASSUME NEW w \in Worker, HardLimit(w) PROVE Owed(k)'
  BY <1>36, MessageTask, SpendEndsCalm DEF HardLimit, Release
<1>37. ASSUME NEW w \in Worker, Escape(w) PROVE Owed(k)'
  BY <1>37, MessageTask, SpendEndsCalm DEF Escape, Release
<1>38. ASSUME NEW w \in Worker, ReplayFails(w) PROVE Owed(k)'
  BY <1>38, MessageTask, SpendEndsCalm DEF ReplayFails, HandleTransient
<1>39. CASE UNCHANGED vars
  BY <1>39 DEF vars
<1> QED
  BY <1>1, <1>2, <1>3, <1>4, <1>5, <1>6, <1>7, <1>8, <1>9, <1>10, <1>11, <1>12, <1>13, <1>14,
     <1>15, <1>16, <1>17, <1>18, <1>19, <1>20, <1>21, <1>22, <1>23, <1>24, <1>25, <1>26, <1>27,
     <1>28, <1>29, <1>30, <1>31, <1>32, <1>33, <1>34, <1>35, <1>36, <1>37, <1>38, <1>39
     DEF Next, UserStep, ApiStep, ApiFault, WorkerStep, WorkerFault, Rest

\* Whatever the number of worker crashes, broker failures and deletions, a
\* processing case has a message, a worker or a handler that will settle it.
THEOREM CrashesLoseNoCase == Spec => []CrashSafe
<1>1. Init => TypeInv /\ CrashSafe
  BY TypeInit, ConstantsAssumption DEF Init, CrashSafe, NothingStranded
<1>2. TypeInv /\ CrashSafe /\ [Next]_vars => (TypeInv /\ CrashSafe)'
  BY TypeNext, CrashSafeNext
<1>3. QED
  BY <1>1, <1>2, PTL DEF Spec

-----------------------------------------------------------------------------
(* How often a case is run.                                                 *)

\* The worker has the case in hand and has not yet returned or re-queued it.
Active(w) == wpc[w] \notin {"idle", "ack"}

\* What a step may do to the messages of a case and the workers that run it:
\* nothing, but for workers that finish;
KeepsTokens ==
  /\ queue' = queue
  /\ spent'["crash"] = spent["crash"]
  /\ \A w \in Worker :
       /\ Active(w)' => Active(w) /\ task'[w] = task[w]
       /\ wpc[w] = "idle" => wpc'[w] = "idle"

\* the API publishes the first message;
Publishes(c) ==
  /\ apc[c] = "delay"
  /\ Put([case |-> c, attempt |-> 1])
  /\ UNCHANGED <<wpc, task>>
  /\ spent'["crash"] = spent["crash"]

\* and three steps of workers: a delivery, the publication of a retry, a crash.
Passes(w) ==
  \/ Receive(w)
  \/ RetryPublish(w)
  \/ Crash(w) /\ spent'["crash"] = spent["crash"] + 1

TokenEffect ==
  \/ KeepsTokens
  \/ \E c \in Case : Publishes(c)
  \/ \E w \in Worker : Passes(w)

\* Only a crash is counted as one.
LEMMA SpendOther ==
  ASSUME TypeInv, NEW f \in Fault \ {"crash"}, Spend(f)
  PROVE  spent'["crash"] = spent["crash"]
BY FaultNames DEF Spend, TypeInv, TypeOK

\* A crash is counted.
LEMMA SpendCrash ==
  ASSUME TypeInv, Spend("crash")
  PROVE  spent'["crash"] = spent["crash"] + 1
BY FaultNames DEF Spend, TypeInv, TypeOK

\* Every step has one of these effects.
LEMMA TokenEffects ==
  ASSUME TypeInv, [Next]_vars
  PROVE  TokenEffect
<1> USE FaultNames DEF TokenEffect, KeepsTokens, Publishes, Passes, Active, TypeInv, TypeOK,
        WorkerInv, store, redis, api, work
<1>1. ASSUME NEW c \in Case, Submit(c) PROVE TokenEffect
  <2>1. KeepsTokens
    BY <1>1 DEF Submit, ApiGoto, Lookups
  <2>2. QED
    BY <2>1
<1>2. ASSUME NEW c \in Case, Refuse(c) PROVE TokenEffect
  <2>1. KeepsTokens
    BY <1>2, SpendOther DEF Refuse, ApiGoto
  <2>2. QED
    BY <2>1
<1>3. ASSUME NEW c \in Case, InsertCase(c) PROVE TokenEffect
  <2>1. KeepsTokens
    BY <1>3 DEF InsertCase, ApiGoto
  <2>2. QED
    BY <2>1
<1>4. ASSUME NEW c \in Case, Replay(c) PROVE TokenEffect
  <2>1. KeepsTokens
    BY <1>4 DEF Replay, ApiGoto
  <2>2. QED
    BY <2>1
<1>5. ASSUME NEW c \in Case, MarkCached(c) PROVE TokenEffect
  <2>1. KeepsTokens
    BY <1>5 DEF MarkCached, ApiGoto
  <2>2. QED
    BY <2>1
<1>6. ASSUME NEW c \in Case, Delay(c) PROVE TokenEffect
  <2>1. Publishes(c) \/ KeepsTokens
    BY <1>6 DEF Delay, ApiGoto
  <2>2. QED
    BY <2>1
<1>7. ASSUME NEW c \in Case, DelayFails(c) PROVE TokenEffect
  <2>1. Publishes(c) \/ KeepsTokens
    BY <1>7, SpendOther DEF DelayFails, ApiGoto
  <2>2. QED
    BY <2>1
<1>8. ASSUME NEW c \in Case, MarkCaseFailed(c) PROVE TokenEffect
  <2>1. KeepsTokens
    BY <1>8 DEF MarkCaseFailed, ApiGoto
  <2>2. QED
    BY <2>1
<1>9. ASSUME NEW c \in Case, QueuedWrite(c) PROVE TokenEffect
  <2>1. KeepsTokens
    BY <1>9 DEF QueuedWrite, ApiGoto
  <2>2. QED
    BY <2>1
<1>10. ASSUME NEW c \in Case, QueuedZadd(c) PROVE TokenEffect
  <2>1. KeepsTokens
    BY <1>10 DEF QueuedZadd, ApiGoto
  <2>2. QED
    BY <2>1
<1>11. ASSUME NEW c \in Case, ApiDies(c) PROVE TokenEffect
  <2>1. KeepsTokens
    BY <1>11, SpendOther DEF ApiDies
  <2>2. QED
    BY <2>1
<1>12. ASSUME NEW c \in Case, DeleteCase(c) PROVE TokenEffect
  <2>1. KeepsTokens
    BY <1>12, SpendOther DEF DeleteCase
  <2>2. QED
    BY <2>1
<1>13. ASSUME NEW c \in Case, PatchStatus(c) PROVE TokenEffect
  <2>1. KeepsTokens
    BY <1>13, SpendOther DEF PatchStatus
  <2>2. QED
    BY <2>1
<1>14. ASSUME NEW c \in Case, Expire(c) PROVE TokenEffect
  <2>1. KeepsTokens
    BY <1>14 DEF Expire
  <2>2. QED
    BY <2>1
<1>15. ASSUME NEW w \in Worker, Receive(w) PROVE TokenEffect
  BY <1>15 DEF Receive, Goto
<1>16. ASSUME NEW w \in Worker, RunningWrite(w) PROVE TokenEffect
  <2>1. KeepsTokens
    BY <1>16 DEF RunningWrite, Goto
  <2>2. QED
    BY <2>1
<1>17. ASSUME NEW w \in Worker, RunningZrem(w) PROVE TokenEffect
  <2>1. KeepsTokens
    BY <1>17 DEF RunningZrem, Goto, Begin
  <2>2. QED
    BY <2>1
<1>18. ASSUME NEW w \in Worker, Reopen(w) PROVE TokenEffect
  <2>1. KeepsTokens
    BY <1>18 DEF Reopen, Goto, Begin
  <2>2. QED
    BY <2>1
<1>19. ASSUME NEW w \in Worker, Ingest(w) PROVE TokenEffect
  <2>1. KeepsTokens
    BY <1>19 DEF Ingest
  <2>2. QED
    BY <2>1
<1>20. ASSUME NEW w \in Worker, Analyse(w) PROVE TokenEffect
  <2>1. KeepsTokens
    BY <1>20 DEF Analyse, Goto
  <2>2. QED
    BY <2>1
<1>21. ASSUME NEW w \in Worker, FailsPermanently(w) PROVE TokenEffect
  <2>1. KeepsTokens
    BY <1>21 DEF FailsPermanently
  <2>2. QED
    BY <2>1
<1>22. ASSUME NEW w \in Worker, FailsTransiently(w) PROVE TokenEffect
  <2>1. KeepsTokens
    BY <1>22 DEF FailsTransiently, HandleTransient
  <2>2. QED
    BY <2>1
<1>23. ASSUME NEW w \in Worker, ReplayStore(w) PROVE TokenEffect
  <2>1. KeepsTokens
    BY <1>23 DEF ReplayStore, HandleTransient
  <2>2. QED
    BY <2>1
<1>24. ASSUME NEW w \in Worker, StoreSuccess(w) PROVE TokenEffect
  <2>1. KeepsTokens
    BY <1>24 DEF StoreSuccess, Goto
  <2>2. QED
    BY <2>1
<1>25. ASSUME NEW w \in Worker, StoreOrphan(w) PROVE TokenEffect
  <2>1. KeepsTokens
    BY <1>25 DEF StoreOrphan, Release
  <2>2. QED
    BY <2>1
<1>26. ASSUME NEW w \in Worker, CacheResult(w) PROVE TokenEffect
  <2>1. KeepsTokens
    BY <1>26 DEF CacheResult, Goto
  <2>2. QED
    BY <2>1
<1>27. ASSUME NEW w \in Worker, CacheUnreachable(w) PROVE TokenEffect
  <2>1. KeepsTokens
    BY <1>27, SpendOther DEF CacheUnreachable, Goto
  <2>2. QED
    BY <2>1
<1>28. ASSUME NEW w \in Worker, StoreFailure(w) PROVE TokenEffect
  <2>1. KeepsTokens
    BY <1>28 DEF StoreFailure, Goto
  <2>2. QED
    BY <2>1
<1>29. ASSUME NEW w \in Worker, FinishWrite(w) PROVE TokenEffect
  <2>1. KeepsTokens
    BY <1>29 DEF FinishWrite, Goto
  <2>2. QED
    BY <2>1
<1>30. ASSUME NEW w \in Worker, FinishZrem(w) PROVE TokenEffect
  <2>1. KeepsTokens
    BY <1>30 DEF FinishZrem, Goto
  <2>2. QED
    BY <2>1
<1>31. ASSUME NEW w \in Worker, RetryWrite(w) PROVE TokenEffect
  <2>1. KeepsTokens
    BY <1>31 DEF RetryWrite, Goto
  <2>2. QED
    BY <2>1
<1>32. ASSUME NEW w \in Worker, RetryZadd(w) PROVE TokenEffect
  <2>1. KeepsTokens
    BY <1>32 DEF RetryZadd, Goto
  <2>2. QED
    BY <2>1
<1>33. ASSUME NEW w \in Worker, RetryPublish(w) PROVE TokenEffect
  BY <1>33 DEF RetryPublish, Goto
<1>34. ASSUME NEW w \in Worker, Ack(w) PROVE TokenEffect
  <2>1. KeepsTokens
    BY <1>34 DEF Ack, Release
  <2>2. QED
    BY <2>1
<1>35. ASSUME NEW w \in Worker, Crash(w) PROVE TokenEffect
  BY <1>35, SpendCrash DEF Crash, Release
<1>36. ASSUME NEW w \in Worker, HardLimit(w) PROVE TokenEffect
  <2>1. KeepsTokens
    BY <1>36, SpendOther DEF HardLimit, Release
  <2>2. QED
    BY <2>1
<1>37. ASSUME NEW w \in Worker, Escape(w) PROVE TokenEffect
  <2>1. KeepsTokens
    BY <1>37, SpendOther DEF Escape, Release
  <2>2. QED
    BY <2>1
<1>38. ASSUME NEW w \in Worker, ReplayFails(w) PROVE TokenEffect
  <2>1. KeepsTokens
    BY <1>38, SpendOther DEF ReplayFails, HandleTransient, RedisPoints
  <2>2. QED
    BY <2>1
<1>39. CASE UNCHANGED vars
  <2>1. KeepsTokens
    BY <1>39 DEF vars
  <2>2. QED
    BY <2>1
<1> QED
  BY <1>1, <1>2, <1>3, <1>4, <1>5, <1>6, <1>7, <1>8, <1>9, <1>10, <1>11, <1>12, <1>13, <1>14,
     <1>15, <1>16, <1>17, <1>18, <1>19, <1>20, <1>21, <1>22, <1>23, <1>24, <1>25, <1>26, <1>27,
     <1>28, <1>29, <1>30, <1>31, <1>32, <1>33, <1>34, <1>35, <1>36, <1>37, <1>38, <1>39
     DEF Next, UserStep, ApiStep, ApiFault, WorkerStep, WorkerFault, Rest

\* A case has one token: one message, or one worker that has it in hand.
OneToken ==
  /\ \A m, n \in Message :
       queue[m] > 0 /\ queue[n] > 0 /\ m.case = n.case => m = n /\ queue[m] = 1
  /\ \A w \in Worker : Active(w) =>
       /\ \A m \in Message : m.case = CaseOf(w) => queue[m] = 0
       /\ \A u \in Worker \ {w} : Active(u) => CaseOf(u) # CaseOf(w)

OneTokenInv == spent["crash"] = 0 => OneToken

\* Only a crash makes a second token: a first message meets a case nobody has touched,
\* and the message of a retry takes the place of the worker that publishes it.
LEMMA OneTokenNext ==
  ASSUME TypeInv, FreshInv, OneTokenInv, [Next]_vars
  PROVE  OneTokenInv'
<1> SUFFICES ASSUME spent'["crash"] = 0 PROVE OneToken'
  BY DEF OneTokenInv
<1>0. spent["crash"] = 0 /\ OneToken
  BY SpentOnlyGrows, FaultNames DEF OneTokenInv
<1>1. TokenEffect
  BY TokenEffects
<1>2. CASE KeepsTokens
  BY <1>0, <1>2 DEF OneToken, KeepsTokens, CaseOf
<1>3. ASSUME NEW c \in Case, Publishes(c) PROVE OneToken'
  <2> DEFINE f == [case |-> c, attempt |-> 1]
  <2>1. f \in Message /\ f.case = c
    BY FirstMessage
  <2>2. queue' = [queue EXCEPT ![f] = @ + 1] /\ UNCHANGED <<wpc, task>>
    BY <1>3 DEF Publishes, Put
  <2>3. /\ \A m \in Message : m.case = c => queue[m] = 0
        /\ \A w \in Worker : CaseOf(w) # c
    BY <1>3 DEF Publishes, FreshInv, Busy, TypeInv, TypeOK
  <2> HIDE DEF f
  <2>4. QED
    BY <1>0, <2>1, <2>2, <2>3 DEF OneToken, Active, CaseOf, TypeInv, TypeOK
<1>4. ASSUME NEW w \in Worker, Receive(w) PROVE OneToken'
  <2>1. PICK m \in Message : queue[m] > 0 /\ queue' = [queue EXCEPT ![m] = @ - 1]
                              /\ task' = [task EXCEPT ![w] = m]
    BY <1>4 DEF Receive
  <2>2. wpc[w] = "idle" /\ wpc' = [wpc EXCEPT ![w] = "running_write"]
    BY <1>4 DEF Receive, Goto
  <2>3. \A n \in Message : n.case = m.case => queue'[n] = 0
    BY <1>0, <2>1 DEF OneToken, TypeInv, TypeOK
  <2>4. \A u \in Worker \ {w} : Active(u) => CaseOf(u) # m.case
    BY <1>0, <2>1 DEF OneToken, TypeInv, TypeOK
  <2>5. \A n \in Message : queue'[n] > 0 => queue'[n] = queue[n]
    BY <2>1, <2>3 DEF TypeInv, TypeOK
  <2>6. CaseOf(w)' = m.case /\ \A u \in Worker \ {w} : task'[u] = task[u] /\ wpc'[u] = wpc[u]
    BY <2>1, <2>2 DEF CaseOf, TypeInv, TypeOK
  <2>7. \A m1, n \in Message :
          queue'[m1] > 0 /\ queue'[n] > 0 /\ m1.case = n.case => m1 = n /\ queue'[m1] = 1
    BY <1>0, <2>5 DEF OneToken
  <2>8. \A u \in Worker : Active(u)' =>
          /\ \A n \in Message : n.case = CaseOf(u)' => queue'[n] = 0
          /\ \A x \in Worker \ {u} : Active(x)' => CaseOf(x)' # CaseOf(u)'
    <3>1. \A n \in Message : queue[n] = 0 => queue'[n] = 0
      BY <2>1 DEF TypeInv, TypeOK
    <3>2. QED
      BY <1>0, <2>3, <2>4, <2>6, <3>1 DEF OneToken, Active, CaseOf
  <2>9. QED
    BY <2>7, <2>8 DEF OneToken
<1>5. ASSUME NEW w \in Worker, RetryPublish(w) PROVE OneToken'
  <2> DEFINE f == [case |-> CaseOf(w), attempt |-> AttemptOf(w) + 1]
  <2>1. wpc[w] = "retry_publish" /\ wpc' = [wpc EXCEPT ![w] = "ack"] /\ UNCHANGED task
    BY <1>5 DEF RetryPublish, Goto
  <2>2. f \in Message /\ f.case = CaseOf(w)
    BY <2>1, NextMessage
  <2>3. queue' = [queue EXCEPT ![f] = @ + 1]
    BY <1>5 DEF RetryPublish, Put
  <2>4. /\ \A m \in Message : m.case = CaseOf(w) => queue[m] = 0
        /\ \A u \in Worker \ {w} : Active(u) => CaseOf(u) # CaseOf(w)
    BY <1>0, <2>1 DEF OneToken, Active
  <2> HIDE DEF f
  <2>5. ~Active(w)' /\ \A u \in Worker : Active(u)' => Active(u) /\ u # w
    BY <2>1 DEF Active, TypeInv, TypeOK
  <2>6. QED
    BY <1>0, <2>1, <2>2, <2>3, <2>4, <2>5 DEF OneToken, CaseOf, TypeInv, TypeOK
<1>6. ASSUME NEW w \in Worker, Crash(w), spent'["crash"] = spent["crash"] + 1 PROVE OneToken'
  BY <1>0, <1>6
<1>7. QED
  BY <1>1, <1>2, <1>3, <1>4, <1>5, <1>6 DEF TokenEffect, Passes

\* Without a crash a case is never analysed by two workers at once, nor waiting in
\* the broker while one analyses it, whatever else fails.
THEOREM RunsAlone == Spec => []NoConcurrentRuns
<1>1. Init => TypeInv /\ FreshInv /\ OneTokenInv
  BY RecordInit DEF RecordInv, Init, OneTokenInv, OneToken, Active
<1>2. TypeInv /\ FreshInv /\ OneTokenInv /\ [Next]_vars => (TypeInv /\ FreshInv /\ OneTokenInv)'
  BY TypeNext, FreshNext, OneTokenNext
<1>3. OneTokenInv => NoConcurrentRuns
  BY DEF OneTokenInv, OneToken, NoConcurrentRuns, Active
<1>4. QED
  BY <1>1, <1>2, <1>3, PTL DEF Spec

-----------------------------------------------------------------------------
(* How many runs are still to come.                                         *)

\* The attempts a message of the case, or a worker that runs it, may still lead to.
Waiting(c) ==
  {t \in (Message \X Nat) \X (1 .. MaxAttempts) :
     /\ t[1][1].case = c
     /\ t[1][2] \in 1 .. queue[t[1][1]]
     /\ t[2] >= t[1][1].attempt}

Running(c) ==
  {t \in Worker \X (1 .. MaxAttempts) : Active(t[1]) /\ CaseOf(t[1]) = c /\ t[2] > AttemptOf(t[1])}

Finite(c) == IsFiniteSet(Waiting(c)) /\ IsFiniteSet(Running(c))

ToCome(c) == Cardinality(Waiting(c)) + Cardinality(Running(c))

Published(c) == apc[c] \notin {"idle", "insert", "replay", "delay"}

\* The runs of a case and those to come are one round, and one more for each crash; an
\* unpublished case has had none.
RunsInv ==
  /\ runs \in [Case -> Nat]
  /\ \A c \in Case :
       /\ Finite(c)
       /\ runs[c] + ToCome(c) <= MaxAttempts * (1 + spent["crash"])
       /\ ~Published(c) => runs[c] = 0

\* The attempts from one to another are as many as the numbers between.
LEMMA Attempts ==
  ASSUME NEW x, NEW a \in Nat, NEW b \in Nat, a <= b + 1
  PROVE  /\ IsFiniteSet({x} \X (a .. b))
         /\ Cardinality({x} \X (a .. b)) = b - a + 1
<1>1. IsFiniteSet({x}) /\ Cardinality({x}) = 1
  BY FS_Singleton
<1>2. IsFiniteSet(a .. b) /\ Cardinality(a .. b) = b - a + 1
  <2>1. a \in Int /\ b \in Int
    OBVIOUS
  <2>2. IsFiniteSet(a .. b) /\ Cardinality(a .. b) = IF a > b THEN 0 ELSE b - a + 1
    BY <2>1, FS_Interval
  <2>3. QED
    BY <2>2
<1>3. /\ IsFiniteSet({x} \X (a .. b))
      /\ Cardinality({x} \X (a .. b)) = Cardinality({x}) * Cardinality(a .. b)
  BY <1>1, <1>2, FS_Product
<1>4. QED
  BY <1>1, <1>2, <1>3

\* A set that gains such attempts, and nothing else, gains no more than they are.
LEMMA Gains ==
  ASSUME NEW S, IsFiniteSet(S), NEW T, NEW x, NEW a \in Nat, NEW b \in Nat, a <= b + 1,
         T \subseteq S \cup ({x} \X (a .. b))
  PROVE  /\ IsFiniteSet(T)
         /\ Cardinality(T) <= Cardinality(S) + (b - a + 1)
<1> DEFINE A == {x} \X (a .. b)
<1>1. IsFiniteSet(A) /\ Cardinality(A) = b - a + 1
  BY Attempts
<1> HIDE DEF A
<1>2. /\ IsFiniteSet(S \cup A)
      /\ Cardinality(S \cup A) = Cardinality(S) + Cardinality(A) - Cardinality(S \cap A)
  BY <1>1, FS_Union
<1>3. IsFiniteSet(S \cap A)
  BY FS_Intersection
<1>4. Cardinality(S \cap A) \in Nat /\ Cardinality(S) \in Nat /\ Cardinality(A) \in Nat
  BY <1>1, <1>3, FS_CardinalityType
<1>5. T \in SUBSET (S \cup A)
  BY DEF A
<1>6. IsFiniteSet(T) /\ Cardinality(T) <= Cardinality(S \cup A)
  BY <1>2, <1>5, FS_Subset
<1>7. Cardinality(T) \in Nat
  BY <1>6, FS_CardinalityType
<1>8. QED
  BY <1>1, <1>2, <1>4, <1>6, <1>7

\* A set that loses such attempts has that many fewer.
LEMMA Loses ==
  ASSUME NEW S, IsFiniteSet(S), NEW T, NEW x, NEW a \in Nat, NEW b \in Nat, a <= b + 1,
         {x} \X (a .. b) \subseteq S, T \subseteq S \ ({x} \X (a .. b))
  PROVE  /\ IsFiniteSet(T)
         /\ Cardinality(T) + (b - a + 1) <= Cardinality(S)
<1> DEFINE A == {x} \X (a .. b)
<1>1. IsFiniteSet(A) /\ Cardinality(A) = b - a + 1 /\ A \subseteq S
  BY Attempts
<1>0. T \subseteq S \ A
  OBVIOUS
<1> HIDE DEF A
<1>2. S \cap A = A
  BY <1>1
<1>3. /\ IsFiniteSet(S \ A)
      /\ Cardinality(S \ A) = Cardinality(S) - Cardinality(S \cap A)
  BY FS_Difference
<1>4. T \in SUBSET (S \ A)
  BY <1>0
<1>5. IsFiniteSet(T) /\ Cardinality(T) <= Cardinality(S \ A)
  BY <1>3, <1>4, FS_Subset
<1>6. Cardinality(T) \in Nat /\ Cardinality(S) \in Nat /\ Cardinality(S \ A) \in Nat
  BY <1>3, <1>5, FS_CardinalityType
<1>7. Cardinality(S \ A) = Cardinality(S) - (b - a + 1)
  BY <1>1, <1>2, <1>3
<1>8. QED
  BY <1>5, <1>6, <1>7

\* A part of a finite set is finite, and no larger.
LEMMA Fewer ==
  ASSUME NEW S, IsFiniteSet(S), NEW T, T \subseteq S
  PROVE  IsFiniteSet(T) /\ Cardinality(T) <= Cardinality(S)
BY FS_Subset

\* A handler never returns to a place before the publication.
LEMMA PublishedStays ==
  ASSUME TypeInv, [Next]_vars, NEW c \in Case, Published(c)
  PROVE  Published(c)'
<1> USE DEF Published, TypeInv, TypeOK, api
<1>1. ASSUME NEW d \in Case, UserStep(d) \/ ApiStep(d) \/ ApiFault(d) \/ Expire(d)
      PROVE  Published(c)'
  BY <1>1 DEF UserStep, ApiStep, ApiFault, Expire, Submit, DeleteCase, PatchStatus, InsertCase,
     Replay, MarkCached, Delay, MarkCaseFailed, QueuedWrite, QueuedZadd, Refuse, DelayFails,
     ApiDies, ApiGoto
<1>2. ASSUME NEW w \in Worker, Receive(w) \/ WorkerStep(w) \/ WorkerFault(w)
      PROVE  Published(c)'
  BY <1>2 DEF WorkerStep, WorkerFault, Receive, RunningWrite, RunningZrem, Reopen, Ingest, Analyse,
     FailsPermanently, FailsTransiently, ReplayStore, StoreSuccess, StoreOrphan, CacheResult,
     CacheUnreachable, StoreFailure, FinishWrite, FinishZrem, RetryWrite, RetryZadd, RetryPublish,
     Ack, Crash, HardLimit, Escape, ReplayFails
<1>3. CASE UNCHANGED vars
  BY <1>3 DEF vars
<1>4. QED
  BY <1>1, <1>2, <1>3 DEF Next, Rest, vars

\* What a step does to the runs of one case, past and to come.
Counted(c) ==
  /\ Finite(c)'
  /\ \/ /\ runs'[c] + ToCome(c)' <= runs[c] + ToCome(c)
        /\ spent'["crash"] = spent["crash"]
     \/ /\ runs'[c] + ToCome(c)' <= runs[c] + ToCome(c) + MaxAttempts
        /\ spent'["crash"] = spent["crash"] + 1
     \/ /\ runs'[c] + ToCome(c)' <= MaxAttempts
        /\ spent'["crash"] = spent["crash"]

\* A step that begins no run of a case and adds nothing to come.
LEMMA Quiet ==
  ASSUME NEW c \in Case, Finite(c), runs[c] \in Nat, runs'[c] = runs[c],
         Waiting(c)' \subseteq Waiting(c), Running(c)' \subseteq Running(c)
  PROVE  Finite(c)' /\ runs'[c] + ToCome(c)' <= runs[c] + ToCome(c)
<1>1. IsFiniteSet(Waiting(c)') /\ Cardinality(Waiting(c)') <= Cardinality(Waiting(c))
  BY Fewer DEF Finite
<1>2. IsFiniteSet(Running(c)') /\ Cardinality(Running(c)') <= Cardinality(Running(c))
  BY Fewer DEF Finite
<1>3. /\ Cardinality(Waiting(c)') \in Nat /\ Cardinality(Waiting(c)) \in Nat
      /\ Cardinality(Running(c)') \in Nat /\ Cardinality(Running(c)) \in Nat
  BY <1>1, <1>2, FS_CardinalityType DEF Finite
<1>4. QED
  BY <1>1, <1>2, <1>3 DEF Finite, ToCome

\* The publication of the first message brings a case nobody has run its first round.
LEMMA PublishCounted ==
  ASSUME TypeInv, FreshInv, NEW d \in Case, Publishes(d), NEW c \in Case, Finite(c),
         runs[c] \in Nat, runs'[c] = runs[c], ~Published(c) => runs[c] = 0
  PROVE  Counted(c)
<1> DEFINE f == [case |-> d, attempt |-> 1]
<1>1. f \in Message /\ f.case = d /\ f.attempt = 1
  BY FirstMessage
<1>2. queue' = [queue EXCEPT ![f] = @ + 1] /\ UNCHANGED <<wpc, task>> /\ apc[d] = "delay"
      /\ spent'["crash"] = spent["crash"]
  BY DEF Publishes, Put
<1> HIDE DEF f
<1>3. Running(c)' = Running(c)
  BY <1>2 DEF Running, Active, CaseOf, AttemptOf
<1>4. CASE c # d
  <2>1. \A m \in Message : m.case = c => queue'[m] = queue[m]
    BY <1>1, <1>2, <1>4 DEF TypeInv, TypeOK
  <2>2. Waiting(c)' \subseteq Waiting(c)
    BY <2>1 DEF Waiting
  <2>3. QED
    BY <1>2, <1>3, <2>2, Quiet DEF Counted
<1>5. CASE c = d
  <2>1. /\ \A m \in Message : m.case = c => queue[m] = 0
        /\ \A w \in Worker : CaseOf(w) # c
        /\ runs[c] = 0
    BY <1>2, <1>5 DEF FreshInv, Busy, TypeInv, TypeOK, Published
  <2>2. Waiting(c)' \subseteq {} \cup ({<<f, 1>>} \X (1 .. MaxAttempts))
    <3> SUFFICES ASSUME NEW t \in (Message \X Nat) \X (1 .. MaxAttempts),
                        t[1][1].case = c, t[1][2] \in 1 .. queue'[t[1][1]]
                 PROVE  t \in {<<f, 1>>} \X (1 .. MaxAttempts)
      BY DEF Waiting
    <3>1. t[1][1] \in Message /\ t[1][2] \in Nat /\ t = <<<<t[1][1], t[1][2]>>, t[2]>>
          /\ t[2] \in 1 .. MaxAttempts
      OBVIOUS
    <3>2. t[1][1] = f
      BY <1>1, <1>2, <2>1, <3>1 DEF TypeInv, TypeOK
    <3>3. queue'[f] = 1
      BY <1>1, <1>2, <1>5, <2>1 DEF TypeInv, TypeOK
    <3>4. t[1][2] = 1
      BY <3>2, <3>3
    <3>5. QED
      BY <3>1, <3>2, <3>4
  <2>3. Running(c) = {}
    BY <2>1 DEF Running
  <2>4. MaxAttempts \in Nat /\ 1 <= MaxAttempts + 1
    BY ConstantsAssumption
  <2>5. IsFiniteSet({}) /\ Cardinality({}) = 0
    BY FS_EmptySet
  <2>6. IsFiniteSet(Waiting(c)') /\ Cardinality(Waiting(c)') <= 0 + (MaxAttempts - 1 + 1)
    BY <2>2, <2>4, <2>5, Gains
  <2>7. Cardinality(Waiting(c)') \in Nat
    BY <2>6, FS_CardinalityType
  <2>8. QED
    BY <1>2, <1>3, <2>1, <2>3, <2>4, <2>5, <2>6, <2>7 DEF Counted, Finite, ToCome
<1>6. QED
  BY <1>4, <1>5

\* A delivery makes one run of those to come: the worker that begins the attempt may still lead
\* to the later ones only.
LEMMA ReceiveCounted ==
  ASSUME TypeInv, NEW w \in Worker, Receive(w), NEW c \in Case, Finite(c), runs[c] \in Nat,
         runs'[c] = runs[c] + IF Begins(c) THEN 1 ELSE 0
  PROVE  Counted(c)
<1>1. PICK m \in Message : queue[m] > 0 /\ queue' = [queue EXCEPT ![m] = @ - 1]
                            /\ task' = [task EXCEPT ![w] = m]
  BY DEF Receive
<1>2. wpc[w] = "idle" /\ wpc' = [wpc EXCEPT ![w] = "running_write"] /\ spent' = spent
  BY DEF Receive, Goto
<1>3. /\ task'[w] = m /\ wpc'[w] = "running_write"
      /\ \A u \in Worker \ {w} : task'[u] = task[u] /\ wpc'[u] = wpc[u]
  BY <1>1, <1>2 DEF TypeInv, TypeOK
<1>4. CASE c # m.case
  <2>1. ~Begins(c)
    BY <1>3, <1>4 DEF Begins
  <2>2. \A n \in Message : n.case = c => queue'[n] = queue[n]
    BY <1>1, <1>4 DEF TypeInv, TypeOK
  <2>3. Waiting(c)' \subseteq Waiting(c)
    BY <2>2 DEF Waiting
  <2>4. Running(c)' \subseteq Running(c)
    BY <1>3, <1>4 DEF Running, Active, CaseOf, AttemptOf
  <2>5. QED
    BY <1>2, <2>1, <2>3, <2>4, Quiet DEF Counted
<1>5. CASE c = m.case
  <2> DEFINE q == queue[m]
             a == m.attempt
  <2>0. q \in Nat /\ q > 0 /\ a \in 1 .. MaxAttempts /\ MaxAttempts \in Nat
    BY <1>1, ConstantsAssumption DEF TypeInv, TypeOK, Message
  <2>1. Begins(c)
    BY <1>2, <1>3, <1>5 DEF Begins
  <2>2. {<<m, q>>} \X (a .. MaxAttempts) \subseteq Waiting(c)
    BY <1>5, <2>0 DEF Waiting
  <2>3. Waiting(c)' \subseteq Waiting(c) \ ({<<m, q>>} \X (a .. MaxAttempts))
    <3>1. queue'[m] = q - 1 /\ \A n \in Message : n # m => queue'[n] = queue[n]
      BY <1>1 DEF TypeInv, TypeOK
    <3>2. ASSUME NEW t \in Waiting(c)'
          PROVE  t \in Waiting(c) /\ t \notin {<<m, q>>} \X (a .. MaxAttempts)
      <4>1. /\ t \in (Message \X Nat) \X (1 .. MaxAttempts)
            /\ t[1][1].case = c
            /\ t[1][2] \in 1 .. queue'[t[1][1]]
            /\ t[2] >= t[1][1].attempt
        BY DEF Waiting
      <4>2. t[1][1] \in Message /\ t[1][2] \in Nat
        BY <4>1
      <4>3. t[1][2] \in 1 .. queue[t[1][1]] /\ (t[1][1] = m => t[1][2] < q)
        BY <2>0, <3>1, <4>1, <4>2
      <4>4. t \in Waiting(c)
        BY <4>1, <4>3 DEF Waiting
      <4>5. t[1] # <<m, q>>
        BY <2>0, <4>2, <4>3
      <4>6. QED
        BY <4>4, <4>5
    <3>3. QED
      BY <3>2
  <2>4. Running(c)' \subseteq Running(c) \cup ({w} \X (a + 1 .. MaxAttempts))
    <3>1. ASSUME NEW t \in Running(c)'
          PROVE  t \in Running(c) \cup ({w} \X (a + 1 .. MaxAttempts))
      <4>1. /\ t \in Worker \X (1 .. MaxAttempts)
            /\ wpc'[t[1]] \notin {"idle", "ack"}
            /\ task'[t[1]].case = c
            /\ t[2] > task'[t[1]].attempt
        BY DEF Running, Active, CaseOf, AttemptOf
      <4>2. CASE t[1] = w
        BY <1>3, <2>0, <4>1, <4>2
      <4>3. CASE t[1] # w
        BY <1>3, <4>1, <4>3 DEF Running, Active, CaseOf, AttemptOf
      <4>4. QED
        BY <4>2, <4>3
    <3>2. QED
      BY <3>1
  <2> HIDE DEF q, a
  <2>5. /\ IsFiniteSet(Waiting(c)')
        /\ Cardinality(Waiting(c)') + (MaxAttempts - a + 1) <= Cardinality(Waiting(c))
    <3>1. a \in Nat /\ a <= MaxAttempts + 1
      BY <2>0
    <3>2. QED
      BY <2>0, <2>2, <2>3, <3>1, Loses DEF Finite
  <2>6. /\ IsFiniteSet(Running(c)')
        /\ Cardinality(Running(c)') <= Cardinality(Running(c)) + (MaxAttempts - (a + 1) + 1)
    <3>1. a + 1 \in Nat /\ a + 1 <= MaxAttempts + 1
      BY <2>0
    <3>2. QED
      BY <2>0, <2>4, <3>1, Gains DEF Finite
  <2>7. /\ Cardinality(Waiting(c)') \in Nat /\ Cardinality(Waiting(c)) \in Nat
        /\ Cardinality(Running(c)') \in Nat /\ Cardinality(Running(c)) \in Nat
    BY <2>5, <2>6, FS_CardinalityType DEF Finite
  <2>8. runs'[c] + ToCome(c)' <= runs[c] + ToCome(c)
    BY <2>0, <2>1, <2>5, <2>6, <2>7 DEF ToCome
  <2>9. QED
    BY <1>2, <2>5, <2>6, <2>8 DEF Counted, Finite
<1>6. QED
  BY <1>4, <1>5

\* The message of a retry may lead to the attempts the worker that publishes it would have.
LEMMA RetryCounted ==
  ASSUME TypeInv, NEW w \in Worker, RetryPublish(w), NEW c \in Case, Finite(c), runs[c] \in Nat,
         runs'[c] = runs[c] + IF Begins(c) THEN 1 ELSE 0
  PROVE  Counted(c)
<1> DEFINE f == [case |-> CaseOf(w), attempt |-> AttemptOf(w) + 1]
           a == AttemptOf(w) + 1
           q == queue[f] + 1
<1>1. wpc[w] = "retry_publish" /\ wpc' = [wpc EXCEPT ![w] = "ack"]
      /\ UNCHANGED task /\ spent' = spent
  BY DEF RetryPublish, Goto
<1>2. f \in Message /\ f.case = CaseOf(w) /\ f.attempt = a
  BY <1>1, NextMessage
<1>3. queue' = [queue EXCEPT ![f] = @ + 1]
  BY DEF RetryPublish, Put
<1>4. a \in Nat /\ a <= MaxAttempts /\ MaxAttempts \in Nat
  BY <1>1, MessageTask, ConstantsAssumption DEF TypeInv, WorkerInv, AttemptOf
<1>5. q \in Nat /\ q > 0 /\ q - 1 \in Nat /\ queue[f] = q - 1
  BY <1>2 DEF TypeInv, TypeOK
<1> HIDE DEF f
<1>6. runs'[c] = runs[c]
  <2>1. ~Begins(c)
    BY <1>1 DEF Begins, TypeInv, TypeOK
  <2>2. QED
    BY <2>1
<1>7. CASE c # CaseOf(w)
  <2>1. \A n \in Message : n.case = c => queue'[n] = queue[n]
    BY <1>2, <1>3, <1>7 DEF TypeInv, TypeOK
  <2>2. Waiting(c)' \subseteq Waiting(c)
    BY <2>1 DEF Waiting
  <2>3. Running(c)' \subseteq Running(c)
    BY <1>1 DEF Running, Active, CaseOf, AttemptOf, TypeInv, TypeOK
  <2>4. QED
    BY <1>1, <1>6, <2>2, <2>3, Quiet DEF Counted
<1>8. CASE c = CaseOf(w)
  <2>1. {w} \X (a .. MaxAttempts) \subseteq Running(c)
    BY <1>1, <1>4, <1>8, MessageTask DEF Running, Active
  <2>2. Running(c)' \subseteq Running(c) \ ({w} \X (a .. MaxAttempts))
    BY <1>1 DEF Running, Active, CaseOf, AttemptOf, TypeInv, TypeOK
  <2>3. Waiting(c)' \subseteq Waiting(c) \cup ({<<f, q>>} \X (a .. MaxAttempts))
    <3>1. queue'[f] = q /\ \A n \in Message : n # f => queue'[n] = queue[n]
      BY <1>2, <1>3 DEF TypeInv, TypeOK
    <3>2. ASSUME NEW t \in Waiting(c)'
          PROVE  t \in Waiting(c) \cup ({<<f, q>>} \X (a .. MaxAttempts))
      <4>1. /\ t \in (Message \X Nat) \X (1 .. MaxAttempts)
            /\ t[1][1].case = c
            /\ t[1][2] \in 1 .. queue'[t[1][1]]
            /\ t[2] >= t[1][1].attempt
        BY DEF Waiting
      <4>2. t[1][1] \in Message /\ t[1][2] \in Nat /\ t = <<<<t[1][1], t[1][2]>>, t[2]>>
        BY <4>1
      <4>3. CASE t[1][2] \in 1 .. queue[t[1][1]]
        BY <4>1, <4>3 DEF Waiting
      <4>4. CASE t[1][2] \notin 1 .. queue[t[1][1]]
        <5>1. t[1][1] = f
          BY <3>1, <4>1, <4>2, <4>4
        <5>2. t[1][2] = q
          BY <1>5, <3>1, <4>1, <4>2, <4>4, <5>1
        <5>3. t[2] \in a .. MaxAttempts
          BY <1>2, <1>4, <4>1, <5>1
        <5>4. QED
          BY <4>2, <5>1, <5>2, <5>3
      <4>5. QED
        BY <4>3, <4>4
    <3>3. QED
      BY <3>2
  <2> HIDE DEF q, a
  <2>4. a <= MaxAttempts + 1
    BY <1>4
  <2>5. /\ IsFiniteSet(Running(c)')
        /\ Cardinality(Running(c)') + (MaxAttempts - a + 1) <= Cardinality(Running(c))
    BY <1>4, <2>1, <2>2, <2>4, Loses DEF Finite
  <2>6. /\ IsFiniteSet(Waiting(c)')
        /\ Cardinality(Waiting(c)') <= Cardinality(Waiting(c)) + (MaxAttempts - a + 1)
    BY <1>4, <2>3, <2>4, Gains DEF Finite
  <2>7. /\ Cardinality(Waiting(c)') \in Nat /\ Cardinality(Waiting(c)) \in Nat
        /\ Cardinality(Running(c)') \in Nat /\ Cardinality(Running(c)) \in Nat
    BY <2>5, <2>6, FS_CardinalityType DEF Finite
  <2>8. runs'[c] + ToCome(c)' <= runs[c] + ToCome(c)
    BY <1>4, <1>6, <2>5, <2>6, <2>7 DEF ToCome
  <2>9. QED
    BY <1>1, <2>5, <2>6, <2>8 DEF Counted, Finite
<1>9. QED
  BY <1>7, <1>8

\* A redelivered message may lead to its own attempt and the later ones again: at most one
\* round more.
LEMMA CrashCounted ==
  ASSUME TypeInv, NEW w \in Worker, Crash(w), spent'["crash"] = spent["crash"] + 1,
         NEW c \in Case, Finite(c), runs[c] \in Nat,
         runs'[c] = runs[c] + IF Begins(c) THEN 1 ELSE 0
  PROVE  Counted(c)
<1> DEFINE a == AttemptOf(w)
           q == queue[task[w]] + 1
<1>1. wpc[w] # "idle" /\ wpc' = [wpc EXCEPT ![w] = "idle"] /\ task' = [task EXCEPT ![w] = NoTask]
  BY DEF Crash, Release
<1>2. task[w] \in Message /\ a \in 1 .. MaxAttempts /\ task[w].case = CaseOf(w)
      /\ task[w].attempt = a
  BY <1>1, MessageTask DEF CaseOf, AttemptOf
<1>3. queue' = [queue EXCEPT ![task[w]] = @ + 1]
  BY DEF Crash, Put
<1>4. a \in Nat /\ a > 0 /\ a <= MaxAttempts /\ MaxAttempts \in Nat
  BY <1>2, ConstantsAssumption
<1>5. q \in Nat /\ q > 0 /\ q - 1 \in Nat /\ queue[task[w]] = q - 1
  BY <1>2 DEF TypeInv, TypeOK
<1>6. runs'[c] = runs[c]
  <2>1. ~Begins(c)
    BY <1>1 DEF Begins, TypeInv, TypeOK
  <2>2. QED
    BY <2>1
<1>7. Running(c)' \subseteq Running(c)
  BY <1>1 DEF Running, Active, CaseOf, AttemptOf, TypeInv, TypeOK
<1>8. Waiting(c)' \subseteq Waiting(c) \cup ({<<task[w], q>>} \X (a .. MaxAttempts))
  <2>1. queue'[task[w]] = q /\ \A n \in Message : n # task[w] => queue'[n] = queue[n]
    BY <1>2, <1>3 DEF TypeInv, TypeOK
  <2>2. ASSUME NEW t \in Waiting(c)'
        PROVE  t \in Waiting(c) \cup ({<<task[w], q>>} \X (a .. MaxAttempts))
    <3>1. /\ t \in (Message \X Nat) \X (1 .. MaxAttempts)
          /\ t[1][1].case = c
          /\ t[1][2] \in 1 .. queue'[t[1][1]]
          /\ t[2] >= t[1][1].attempt
      BY DEF Waiting
    <3>2. t[1][1] \in Message /\ t[1][2] \in Nat /\ t = <<<<t[1][1], t[1][2]>>, t[2]>>
      BY <3>1
    <3>3. CASE t[1][2] \in 1 .. queue[t[1][1]]
      BY <3>1, <3>3 DEF Waiting
    <3>4. CASE t[1][2] \notin 1 .. queue[t[1][1]]
      <4>1. t[1][1] = task[w]
        BY <2>1, <3>1, <3>2, <3>4
      <4>2. t[1][2] = q
        BY <1>5, <2>1, <3>1, <3>2, <3>4, <4>1
      <4>3. t[2] \in a .. MaxAttempts
        BY <1>2, <1>4, <3>1, <4>1
      <4>4. QED
        BY <3>2, <4>1, <4>2, <4>3
    <3>5. QED
      BY <3>3, <3>4
  <2>3. QED
    BY <2>2
<1> HIDE DEF q, a
<1>9. IsFiniteSet(Running(c)') /\ Cardinality(Running(c)') <= Cardinality(Running(c))
  BY <1>7, Fewer DEF Finite
<1>10. /\ IsFiniteSet(Waiting(c)')
       /\ Cardinality(Waiting(c)') <= Cardinality(Waiting(c)) + (MaxAttempts - a + 1)
  <2>1. a <= MaxAttempts + 1
    BY <1>4
  <2>2. QED
    BY <1>4, <1>8, <2>1, Gains DEF Finite
<1>11. /\ Cardinality(Waiting(c)') \in Nat /\ Cardinality(Waiting(c)) \in Nat
       /\ Cardinality(Running(c)') \in Nat /\ Cardinality(Running(c)) \in Nat
  BY <1>9, <1>10, FS_CardinalityType DEF Finite
<1>12. runs'[c] + ToCome(c)' <= runs[c] + ToCome(c) + MaxAttempts
  BY <1>4, <1>6, <1>9, <1>10, <1>11 DEF ToCome
<1>13. QED
  BY <1>9, <1>10, <1>12 DEF Counted, Finite

\* Every step keeps the invariant.
LEMMA RunsStep ==
  ASSUME TypeInv, FreshInv, RunsInv, [RunsNext]_<<vars, runs>>
  PROVE  RunsInv'
<1>1. [Next]_vars
  BY DEF RunsNext
<1>2. TokenEffect
  BY <1>1, TokenEffects
<1>3. \A c \in Case : runs'[c] = runs[c] + IF Begins(c) THEN 1 ELSE 0
  <2>1. CASE RunsNext
    BY <2>1 DEF RunsNext
  <2>2. CASE UNCHANGED <<vars, runs>>
    BY <2>2 DEF RunsInv, Begins, vars
  <2>3. QED
    BY <2>1, <2>2
<1>4. runs' \in [Case -> Nat]
  <2>1. CASE RunsNext
    BY <2>1 DEF RunsNext, RunsInv
  <2>2. CASE UNCHANGED <<vars, runs>>
    BY <2>2 DEF RunsInv
  <2>3. QED
    BY <2>1, <2>2
<1>5. ASSUME NEW c \in Case
      PROVE  /\ Finite(c)'
             /\ runs'[c] + ToCome(c)' <= MaxAttempts * (1 + spent'["crash"])
             /\ ~Published(c)' => runs'[c] = 0
  <2>1. /\ Finite(c) /\ runs[c] \in Nat /\ (~Published(c) => runs[c] = 0)
        /\ runs[c] + ToCome(c) <= MaxAttempts * (1 + spent["crash"])
    BY DEF RunsInv
  <2>2. Counted(c)
    <3>1. CASE KeepsTokens
      <4>1. ~Begins(c)
        BY <3>1 DEF KeepsTokens, Begins
      <4>2. Waiting(c)' \subseteq Waiting(c) /\ Running(c)' \subseteq Running(c)
        BY <3>1 DEF KeepsTokens, Waiting, Running, CaseOf, AttemptOf
      <4>3. QED
        BY <1>3, <2>1, <3>1, <4>1, <4>2, Quiet DEF Counted, KeepsTokens
    <3>2. ASSUME NEW d \in Case, Publishes(d) PROVE Counted(c)
      <4>1. ~Begins(c)
        BY <3>2 DEF Publishes, Begins
      <4>2. QED
        BY <1>3, <2>1, <3>2, <4>1, PublishCounted
    <3>3. ASSUME NEW w \in Worker, Receive(w) PROVE Counted(c)
      BY <1>3, <2>1, <3>3, ReceiveCounted
    <3>4. ASSUME NEW w \in Worker, RetryPublish(w) PROVE Counted(c)
      BY <1>3, <2>1, <3>4, RetryCounted
    <3>5. ASSUME NEW w \in Worker, Crash(w), spent'["crash"] = spent["crash"] + 1
          PROVE  Counted(c)
      BY <1>3, <2>1, <3>5, CrashCounted
    <3>6. QED
      BY <1>2, <3>1, <3>2, <3>3, <3>4, <3>5 DEF TokenEffect, Passes
  <2>3. /\ ToCome(c) \in Nat /\ ToCome(c)' \in Nat /\ runs'[c] \in Nat
        /\ MaxAttempts \in Nat /\ spent["crash"] \in Nat
    <3>1. ToCome(c) \in Nat
      BY <2>1, FS_CardinalityType DEF Finite, ToCome
    <3>2. ToCome(c)' \in Nat
      BY <2>2, FS_CardinalityType DEF Counted, Finite, ToCome
    <3>3. spent["crash"] \in Nat /\ runs'[c] \in Nat /\ MaxAttempts \in Nat
      BY <1>4, ConstantsAssumption, FaultNames DEF TypeInv, TypeOK
    <3>4. QED
      BY <3>1, <3>2, <3>3
  <2>4. MaxAttempts * (1 + (spent["crash"] + 1)) = MaxAttempts * (1 + spent["crash"]) + MaxAttempts
        /\ MaxAttempts * (1 + spent["crash"]) \in Nat
        /\ MaxAttempts <= MaxAttempts * (1 + spent["crash"])
    BY <2>3
  <2>5. runs'[c] + ToCome(c)' <= MaxAttempts * (1 + spent'["crash"])
    <3> DEFINE B == MaxAttempts * (1 + spent["crash"])
    <3>1. B \in Nat /\ MaxAttempts <= B /\ runs[c] + ToCome(c) <= B
      BY <2>1, <2>4
    <3> HIDE DEF B
    <3>2. CASE spent'["crash"] = spent["crash"]
      <4>1. runs'[c] + ToCome(c)' <= B
        BY <2>1, <2>2, <2>3, <3>1, <3>2 DEF Counted
      <4>2. QED
        BY <3>2, <4>1 DEF B
    <3>3. CASE spent'["crash"] = spent["crash"] + 1
      <4>1. runs'[c] + ToCome(c)' <= B + MaxAttempts
        BY <2>1, <2>2, <2>3, <3>1, <3>3 DEF Counted
      <4>2. QED
        BY <2>4, <3>3, <4>1 DEF B
    <3>4. QED
      BY <2>2, <3>2, <3>3 DEF Counted
  <2>6. ~Published(c)' => runs'[c] = 0
    <3> SUFFICES ASSUME ~Published(c)' PROVE runs'[c] = 0
      OBVIOUS
    <3>1. ~Published(c) /\ runs[c] = 0
      BY <1>1, <2>1, PublishedStays
    <3>2. FreshInv'
      BY <1>1, FreshNext
    <3>3. \A w \in Worker : task'[w].case # c
      BY <3>2 DEF FreshInv, Busy, CaseOf, Published
    <3>4. ~Begins(c)
      BY <3>3 DEF Begins
    <3>5. QED
      BY <1>3, <3>1, <3>4
  <2>7. QED
    BY <2>2, <2>5, <2>6 DEF Counted
<1>6. QED
  BY <1>4, <1>5 DEF RunsInv

\* At first no case has been run and none is to be.
LEMMA RunsInitial == RunsInit => RunsInv
<1> SUFFICES ASSUME RunsInit PROVE RunsInv
  OBVIOUS
<1>1. IsFiniteSet({}) /\ Cardinality({}) = 0
  BY FS_EmptySet
<1>2. \A c \in Case : Waiting(c) = {} /\ Running(c) = {}
  BY DEF RunsInit, Init, Waiting, Running, Active
<1>3. MaxAttempts * (1 + spent["crash"]) \in Nat
  BY ConstantsAssumption, FaultNames DEF RunsInit, Init
<1>4. \A c \in Case : Finite(c) /\ ToCome(c) = 0
  BY <1>1, <1>2 DEF Finite, ToCome
<1>5. runs = [c \in Case |-> 0]
  BY DEF RunsInit
<1>6. QED
  BY <1>3, <1>4, <1>5 DEF RunsInv

\* A worker begins a case at most ANALYSIS_MAX_ATTEMPTS times for each crash and once
\* more, whatever the crashes leave in the broker and whatever else fails.
THEOREM RunsAreBounded == RunsSpec => []RunsPerCrash
<1>1. RunsInit => TypeInv /\ FreshInv /\ RunsInv
  BY RecordInit, RunsInitial DEF RunsInit, RecordInv
<1>2. TypeInv /\ FreshInv /\ RunsInv /\ [RunsNext]_<<vars, runs>> => (TypeInv /\ FreshInv /\ RunsInv)'
  <2>1. [RunsNext]_<<vars, runs>> => [Next]_vars
    BY DEF RunsNext
  <2>2. QED
    BY <2>1, TypeNext, FreshNext, RunsStep
<1>3. TypeInv /\ RunsInv => RunsPerCrash
  <2> SUFFICES ASSUME TypeInv, RunsInv, NEW c \in Case
               PROVE  runs[c] <= MaxAttempts * (1 + spent["crash"])
    BY DEF RunsPerCrash
  <2>1. /\ runs[c] \in Nat /\ Finite(c)
        /\ runs[c] + ToCome(c) <= MaxAttempts * (1 + spent["crash"])
    BY DEF RunsInv
  <2>2. ToCome(c) \in Nat
    BY <2>1, FS_CardinalityType DEF Finite, ToCome
  <2>3. MaxAttempts * (1 + spent["crash"]) \in Nat
    BY ConstantsAssumption, FaultNames DEF TypeInv, TypeOK
  <2>4. QED
    BY <2>1, <2>2, <2>3
<1>4. QED
  BY <1>1, <1>2, <1>3, PTL DEF RunsSpec

\* Counting the deliveries changes nothing the queue does, so what is proved of `Spec`
\* holds of the run that counts them.
THEOREM CountingIsPassive == RunsSpec => Spec
<1>1. RunsInit => Init
  BY DEF RunsInit
<1>2. [RunsNext]_<<vars, runs>> => [Next]_vars
  BY DEF RunsNext
<1>3. QED
  BY <1>1, <1>2, PTL DEF RunsSpec, Spec

-----------------------------------------------------------------------------
(* The queue implements the abstract case while nothing fails.              *)

\* Nothing has failed and nobody has patched a status; cases may have been deleted.
OnlyDeletes == \A f \in Fault \ {"delete"} : spent[f] = 0

\* The case is not settled.
Open(c) == row[c] \in {"processing", "deleted"}

\* Whoever is to settle a case finds it open: the handler, the broker, the worker.
OpenInv ==
  /\ \A c \in Case :
       /\ apc[c] \in {"idle", "insert"} => row[c] = "absent"
       /\ apc[c] \in {"replay", "delay"} => Open(c)
       /\ apc[c] # "mark_failed"
  /\ \A m \in Message : queue[m] > 0 => Open(m.case)
  /\ \A w \in Worker : wpc[w] \in Unsettled => Open(CaseOf(w))

LifeInv == OnlyDeletes => OpenInv

\* The step is one of the abstract case, or leaves what the user sees alone.
Maps == Lifecycle!Next \/ UNCHANGED store

\* Nothing has failed before if nothing has failed after.
LEMMA OnlyDeletesBefore ==
  ASSUME TypeInv, [Next]_vars, OnlyDeletes'
  PROVE  OnlyDeletes
BY SpentOnlyGrows DEF OnlyDeletes

\* A failure that is spent is remembered.
LEMMA FailureRemembered ==
  ASSUME TypeInv, NEW f \in Fault \ {"delete"}, Spend(f)
  PROVE  ~OnlyDeletes'
BY DEF OnlyDeletes, Spend, TypeInv, TypeOK

\* A worker with an unsettled case has its only token, and its handler has published it.
LEMMA SoleOwner ==
  ASSUME TypeInv, FreshInv, OneToken, NEW w \in Worker, wpc[w] \in Unsettled
  PROVE  /\ CaseOf(w) \in Case
         /\ apc[CaseOf(w)] \notin {"idle", "insert", "replay", "delay"}
         /\ \A m \in Message : m.case = CaseOf(w) => queue[m] = 0
         /\ \A u \in Worker \ {w} : wpc[u] \in Unsettled => CaseOf(u) # CaseOf(w)
<1>1. wpc[w] # "idle" /\ Active(w)
  BY DEF Unsettled, Active
<1>2. CaseOf(w) \in Case
  BY <1>1, MessageTask
<1>3. Busy(CaseOf(w))
  BY DEF Busy
<1>4. QED
  BY <1>1, <1>2, <1>3 DEF FreshInv, OneToken, Unsettled, Active

\* Settling an open case of which the worker has the only token.
LEMMA SettleStep ==
  ASSUME TypeInv, FreshInv, OneToken, OpenInv, NEW w \in Worker, wpc[w] \in Unsettled,
         NEW s, row' = [row EXCEPT ![CaseOf(w)] = s],
         UNCHANGED <<apc, queue, task>>, NEW p, p \notin Unsettled, wpc' = [wpc EXCEPT ![w] = p]
  PROVE  OpenInv'
<1>1. /\ CaseOf(w) \in Case
      /\ apc[CaseOf(w)] \notin {"idle", "insert", "replay", "delay"}
      /\ \A m \in Message : m.case = CaseOf(w) => queue[m] = 0
      /\ \A u \in Worker \ {w} : wpc[u] \in Unsettled => CaseOf(u) # CaseOf(w)
  BY SoleOwner
<1>2. \A c \in Case : c # CaseOf(w) => row'[c] = row[c]
  BY DEF TypeInv, TypeOK
<1>3. \A m \in Message : m.case \in Case
  BY DEF Message
<1>4. \A u \in Worker : wpc'[u] \in Unsettled => u # w /\ wpc[u] \in Unsettled /\ CaseOf(u) \in Case
  BY MessageTask DEF TypeInv, TypeOK, Unsettled
<1>5. \A u \in Worker : CaseOf(u)' = CaseOf(u)
  BY DEF CaseOf
<1>6. \A c \in Case :
        /\ apc'[c] \in {"idle", "insert"} => row'[c] = "absent"
        /\ apc'[c] \in {"replay", "delay"} => Open(c)'
        /\ apc'[c] # "mark_failed"
  BY <1>1, <1>2 DEF OpenInv, Open
<1>7. \A m \in Message : queue'[m] > 0 => Open(m.case)'
  BY <1>1, <1>2, <1>3 DEF OpenInv, Open, TypeInv, TypeOK
<1>8. \A u \in Worker : wpc'[u] \in Unsettled => Open(CaseOf(u))'
  BY <1>1, <1>2, <1>4, <1>5 DEF OpenInv, Open, CaseOf
<1>9. QED
  BY <1>6, <1>7, <1>8 DEF OpenInv

\* Every step keeps what the handler, the broker and the worker rely on, and is a step of the
\* abstract case or none: an INSERT accepts, a store or a replay concludes, a recorded failure
\* fails, a DELETE removes.
LEMMA LifeNext ==
  ASSUME TypeInv, FreshInv, OneTokenInv, LifeInv, [Next]_vars, OnlyDeletes'
  PROVE  OpenInv' /\ Maps
<1>0. OpenInv /\ OneToken
  BY OnlyDeletesBefore, FaultNames DEF LifeInv, OneTokenInv, OnlyDeletes
<1> USE DEF OpenInv, Open, Maps, Unsettled, CaseOf, TypeInv, TypeOK, WorkerInv, store, redis, api, work
<1>1. ASSUME NEW c \in Case, Submit(c) PROVE OpenInv' /\ Maps
  BY <1>0, <1>1 DEF Submit, ApiGoto, Lookups
<1>2. ASSUME NEW c \in Case, Refuse(c) PROVE OpenInv' /\ Maps
  BY <1>2, FailureRemembered, FaultNames DEF Refuse
<1>3. ASSUME NEW c \in Case, InsertCase(c) PROVE OpenInv' /\ Maps
  <2>1. row[c] = "absent" /\ apc[c] = "insert" /\ apc' \in {[apc EXCEPT ![c] = "delay"], [apc EXCEPT ![c] = "replay"]}
        /\ row' = [row EXCEPT ![c] = "processing"] /\ UNCHANGED <<results, queue, wpc, task>>
    BY <1>0, <1>3 DEF InsertCase, ApiGoto, OpenInv
  <2>2. Lifecycle!Accept(c)
    BY <2>1 DEF Lifecycle!Accept
  <2>3. OpenInv'
    BY <1>0, <2>1
  <2>4. QED
    BY <2>2, <2>3 DEF Lifecycle!Next
<1>4. ASSUME NEW c \in Case, Replay(c) PROVE OpenInv' /\ Maps
  <2>1. CASE Stored(c)
    <3>1. row[c] = "processing" /\ hit[c] \in Verdict /\ results[c] = <<>>
      BY <1>0, <1>4, <2>1 DEF Replay, ApiGoto, OpenInv, Open, Stored, ApiInv, FreshInv
    <3>2. results'[c] = Append(results[c], hit[c]) /\ results' = [results EXCEPT ![c] = results'[c]]
      BY <1>4, <2>1 DEF Replay
    <3>3. results' = [results EXCEPT ![c] = <<hit[c]>>]
      BY <3>1, <3>2
    <3>4. row' = [row EXCEPT ![c] = hit[c]] /\ apc[c] = "replay"
          /\ apc' = [apc EXCEPT ![c] = "mark_cached"] /\ UNCHANGED <<queue, wpc, task>>
      BY <1>4, <2>1 DEF Replay, ApiGoto
    <3>5. Lifecycle!Conclude(c)
      BY <3>1, <3>3, <3>4 DEF Lifecycle!Conclude
    <3>6. (\A m \in Message : m.case = c => queue[m] = 0) /\ \A w \in Worker : CaseOf(w) # c
      BY <3>4 DEF FreshInv, Busy
    <3>7. OpenInv'
      BY <1>0, <3>4, <3>6
    <3>8. QED
      BY <3>5, <3>7 DEF Lifecycle!Next, Lifecycle!Settle
  <2>2. CASE ~Stored(c)
    BY <1>0, <1>4, <2>2 DEF Replay, ApiGoto
  <2>3. QED
    BY <2>1, <2>2
<1>5. ASSUME NEW c \in Case, MarkCached(c) PROVE OpenInv' /\ Maps
  BY <1>0, <1>5 DEF MarkCached, ApiGoto
<1>6. ASSUME NEW c \in Case, Delay(c) PROVE OpenInv' /\ Maps
  BY <1>0, <1>6, FirstMessage DEF Delay, ApiGoto, Put
<1>7. ASSUME NEW c \in Case, DelayFails(c) PROVE OpenInv' /\ Maps
  BY <1>7, FailureRemembered, FaultNames DEF DelayFails
<1>8. ASSUME NEW c \in Case, MarkCaseFailed(c) PROVE OpenInv' /\ Maps
  BY <1>0, <1>8 DEF MarkCaseFailed, ApiGoto
<1>9. ASSUME NEW c \in Case, QueuedWrite(c) PROVE OpenInv' /\ Maps
  BY <1>0, <1>9 DEF QueuedWrite, ApiGoto
<1>10. ASSUME NEW c \in Case, QueuedZadd(c) PROVE OpenInv' /\ Maps
  BY <1>0, <1>10 DEF QueuedZadd, ApiGoto
<1>11. ASSUME NEW c \in Case, ApiDies(c) PROVE OpenInv' /\ Maps
  BY <1>11, FailureRemembered, FaultNames DEF ApiDies
<1>12. ASSUME NEW c \in Case, DeleteCase(c) PROVE OpenInv' /\ Maps
  <2>1. Lifecycle!Remove(c)
    BY <1>12 DEF DeleteCase, Stored, Lifecycle!Remove
  <2>2. OpenInv'
    BY <1>0, <1>12 DEF DeleteCase, Stored
  <2>3. QED
    BY <2>1, <2>2 DEF Lifecycle!Next
<1>13. ASSUME NEW c \in Case, PatchStatus(c) PROVE OpenInv' /\ Maps
  BY <1>13, FailureRemembered, FaultNames DEF PatchStatus
<1>14. ASSUME NEW c \in Case, Expire(c) PROVE OpenInv' /\ Maps
  BY <1>0, <1>14 DEF Expire
<1>15. ASSUME NEW w \in Worker, Receive(w) PROVE OpenInv' /\ Maps
  BY <1>0, <1>15 DEF Receive, Goto
<1>16. ASSUME NEW w \in Worker, RunningWrite(w) PROVE OpenInv' /\ Maps
  BY <1>0, <1>16, MessageTask DEF RunningWrite, Goto
<1>17. ASSUME NEW w \in Worker, RunningZrem(w) PROVE OpenInv' /\ Maps
  BY <1>0, <1>17, MessageTask DEF RunningZrem, Goto, Begin
<1>18. ASSUME NEW w \in Worker, Reopen(w) PROVE OpenInv' /\ Maps
  <2>1. CaseOf(w) \in Case /\ Open(CaseOf(w)) /\ wpc[w] = "reopen"
    BY <1>0, <1>18, MessageTask DEF Reopen, Goto
  <2>2. row' = row
    BY <1>18, <2>1 DEF Reopen, SetRow, Stored, Open
  <2>3. QED
    BY <1>0, <1>18, <2>1, <2>2 DEF Reopen, Goto, Begin
<1>19. ASSUME NEW w \in Worker, Ingest(w) PROVE OpenInv' /\ Maps
  BY <1>0, <1>19, MessageTask DEF Ingest
<1>20. ASSUME NEW w \in Worker, Analyse(w) PROVE OpenInv' /\ Maps
  BY <1>0, <1>20, MessageTask DEF Analyse, Goto
<1>21. ASSUME NEW w \in Worker, FailsPermanently(w) PROVE OpenInv' /\ Maps
  BY <1>0, <1>21, MessageTask DEF FailsPermanently
<1>22. ASSUME NEW w \in Worker, FailsTransiently(w) PROVE OpenInv' /\ Maps
  BY <1>0, <1>22, MessageTask DEF FailsTransiently, HandleTransient
<1>23. ASSUME NEW w \in Worker, ReplayStore(w) PROVE OpenInv' /\ Maps
  <2>1. wpc[w] = "replay" /\ wpc[w] \in Unsettled /\ CaseOf(w) \in Case /\ out[w] \in Verdict
    BY <1>23, MessageTask DEF ReplayStore
  <2>2. CASE Stored(CaseOf(w))
    <3>1. /\ row' = [row EXCEPT ![CaseOf(w)] = out[w]]
          /\ results' = [results EXCEPT ![CaseOf(w)] = <<out[w]>>]
          /\ wpc' = [wpc EXCEPT ![w] = "finish_write"]
          /\ UNCHANGED <<apc, queue, task>>
      BY <1>23, <2>2 DEF ReplayStore
    <3>2. OpenInv'
      BY <1>0, <2>1, <3>1, SettleStep
    <3>3. row[CaseOf(w)] = "processing"
      BY <1>0, <2>1, <2>2 DEF Stored
    <3>4. Lifecycle!Conclude(CaseOf(w))
      BY <2>1, <3>1, <3>3 DEF Lifecycle!Conclude
    <3>5. QED
      BY <2>1, <3>2, <3>4 DEF Lifecycle!Next, Lifecycle!Settle
  <2>3. CASE ~Stored(CaseOf(w))
    BY <1>0, <1>23, <2>1, <2>3 DEF ReplayStore, HandleTransient
  <2>4. QED
    BY <2>2, <2>3
<1>24. ASSUME NEW w \in Worker, StoreSuccess(w) PROVE OpenInv' /\ Maps
  <2>1. wpc[w] = "store" /\ wpc[w] \in Unsettled /\ CaseOf(w) \in Case /\ out[w] \in Verdict
    BY <1>24, MessageTask DEF StoreSuccess, Goto
  <2>2. /\ row' = [row EXCEPT ![CaseOf(w)] = out[w]]
        /\ results' = [results EXCEPT ![CaseOf(w)] = <<out[w]>>]
        /\ wpc' = [wpc EXCEPT ![w] = "cache"]
        /\ UNCHANGED <<apc, queue, task>>
    BY <1>24 DEF StoreSuccess, Goto
  <2>3. OpenInv'
    BY <1>0, <2>1, <2>2, SettleStep
  <2>4. row[CaseOf(w)] = "processing"
    BY <1>0, <1>24, <2>1 DEF StoreSuccess, Stored
  <2>5. Lifecycle!Conclude(CaseOf(w))
    BY <2>1, <2>2, <2>4 DEF Lifecycle!Conclude
  <2>6. QED
    BY <2>1, <2>3, <2>5 DEF Lifecycle!Next, Lifecycle!Settle
<1>25. ASSUME NEW w \in Worker, StoreOrphan(w) PROVE OpenInv' /\ Maps
  BY <1>0, <1>25, MessageTask DEF StoreOrphan, Release
<1>26. ASSUME NEW w \in Worker, CacheResult(w) PROVE OpenInv' /\ Maps
  BY <1>0, <1>26, MessageTask DEF CacheResult, Goto
<1>27. ASSUME NEW w \in Worker, CacheUnreachable(w) PROVE OpenInv' /\ Maps
  BY <1>27, FailureRemembered, FaultNames DEF CacheUnreachable
<1>28. ASSUME NEW w \in Worker, StoreFailure(w) PROVE OpenInv' /\ Maps
  <2>1. wpc[w] = "store_failure" /\ wpc[w] \in Unsettled /\ CaseOf(w) \in Case
    BY <1>28, MessageTask DEF StoreFailure, Goto
  <2>2. wpc' = [wpc EXCEPT ![w] = "finish_write"] /\ UNCHANGED <<results, apc, queue, task>>
    BY <1>28 DEF StoreFailure, Goto
  <2>3. CASE Stored(CaseOf(w))
    <3>1. row' = [row EXCEPT ![CaseOf(w)] = "failed"]
      BY <1>28, <2>3 DEF StoreFailure, SetRow
    <3>2. OpenInv'
      BY <1>0, <2>1, <2>2, <3>1, SettleStep
    <3>3. row[CaseOf(w)] = "processing"
      BY <1>0, <2>1, <2>3 DEF Stored
    <3>4. Lifecycle!Fail(CaseOf(w))
      BY <2>2, <3>1, <3>3 DEF Lifecycle!Fail
    <3>5. QED
      BY <2>1, <3>2, <3>4 DEF Lifecycle!Next, Lifecycle!Settle
  <2>4. CASE ~Stored(CaseOf(w))
    <3>1. row' = row
      BY <1>28, <2>4 DEF StoreFailure, SetRow
    <3>2. QED
      BY <1>0, <2>2, <3>1
  <2>5. QED
    BY <2>3, <2>4
<1>29. ASSUME NEW w \in Worker, FinishWrite(w) PROVE OpenInv' /\ Maps
  BY <1>0, <1>29, MessageTask DEF FinishWrite, Goto
<1>30. ASSUME NEW w \in Worker, FinishZrem(w) PROVE OpenInv' /\ Maps
  BY <1>0, <1>30, MessageTask DEF FinishZrem, Goto
<1>31. ASSUME NEW w \in Worker, RetryWrite(w) PROVE OpenInv' /\ Maps
  BY <1>0, <1>31, MessageTask DEF RetryWrite, Goto
<1>32. ASSUME NEW w \in Worker, RetryZadd(w) PROVE OpenInv' /\ Maps
  BY <1>0, <1>32, MessageTask DEF RetryZadd, Goto
<1>33. ASSUME NEW w \in Worker, RetryPublish(w) PROVE OpenInv' /\ Maps
  <2> DEFINE f == [case |-> CaseOf(w), attempt |-> AttemptOf(w) + 1]
  <2>1. wpc[w] = "retry_publish" /\ Open(CaseOf(w))
        /\ wpc' = [wpc EXCEPT ![w] = "ack"] /\ UNCHANGED <<store, apc, task>>
    BY <1>0, <1>33 DEF RetryPublish, Goto
  <2>2. f \in Message /\ f.case = CaseOf(w)
    BY <2>1, NextMessage
  <2>3. queue' = [queue EXCEPT ![f] = @ + 1]
    BY <1>33 DEF RetryPublish, Put
  <2> HIDE DEF f
  <2>4. QED
    BY <1>0, <2>1, <2>2, <2>3
<1>34. ASSUME NEW w \in Worker, Ack(w) PROVE OpenInv' /\ Maps
  BY <1>0, <1>34, MessageTask DEF Ack, Release
<1>35. ASSUME NEW w \in Worker, Crash(w) PROVE OpenInv' /\ Maps
  BY <1>35, FailureRemembered, FaultNames DEF Crash
<1>36. ASSUME NEW w \in Worker, HardLimit(w) PROVE OpenInv' /\ Maps
  BY <1>36, FailureRemembered, FaultNames DEF HardLimit
<1>37. ASSUME NEW w \in Worker, Escape(w) PROVE OpenInv' /\ Maps
  BY <1>37, FailureRemembered, FaultNames DEF Escape
<1>38. ASSUME NEW w \in Worker, ReplayFails(w) PROVE OpenInv' /\ Maps
  BY <1>38, FailureRemembered, FaultNames DEF ReplayFails
<1>39. CASE UNCHANGED vars
  BY <1>0, <1>39 DEF vars
<1> QED
  BY <1>1, <1>2, <1>3, <1>4, <1>5, <1>6, <1>7, <1>8, <1>9, <1>10, <1>11, <1>12, <1>13, <1>14,
     <1>15, <1>16, <1>17, <1>18, <1>19, <1>20, <1>21, <1>22, <1>23, <1>24, <1>25, <1>26, <1>27,
     <1>28, <1>29, <1>30, <1>31, <1>32, <1>33, <1>34, <1>35, <1>36, <1>37, <1>38, <1>39
     DEF Next, UserStep, ApiStep, ApiFault, WorkerStep, WorkerFault, Rest

\* As long as nothing fails, whatever the interleaving of handlers, workers and deletions:
\* a case is accepted once, settled once with its verdict and rows together, and then
\* changes no more until it is deleted (the safety part of ImplementsLifecycle).
THEOREM ImplementsCases ==
  Spec /\ []OnlyDeletes => Lifecycle!Init /\ [][Lifecycle!Next]_store
<1>1. Init => TypeInv /\ FreshInv /\ OneTokenInv /\ LifeInv /\ Lifecycle!Init
  <2> SUFFICES ASSUME Init PROVE TypeInv /\ FreshInv /\ OneTokenInv /\ LifeInv /\ Lifecycle!Init
    OBVIOUS
  <2>1. TypeInv /\ FreshInv
    BY RecordInit DEF RecordInv
  <2>2. OneTokenInv
    BY DEF Init, OneTokenInv, OneToken, Active
  <2>3. LifeInv
    BY DEF Init, LifeInv, OpenInv, Unsettled
  <2>4. Lifecycle!Init
    BY DEF Init, Lifecycle!Init
  <2>5. QED
    BY <2>1, <2>2, <2>3, <2>4
<1>2. TypeInv /\ FreshInv /\ OneTokenInv /\ LifeInv /\ [Next]_vars
        => (TypeInv /\ FreshInv /\ OneTokenInv /\ LifeInv)'
  BY TypeNext, FreshNext, OneTokenNext, LifeNext DEF LifeInv
<1>3. TypeInv /\ FreshInv /\ OneTokenInv /\ LifeInv /\ [Next]_vars /\ OnlyDeletes'
        => [Lifecycle!Next]_store
  BY LifeNext DEF Maps
<1>4. QED
  BY <1>1, <1>2, <1>3, PTL DEF Spec
=============================================================================
