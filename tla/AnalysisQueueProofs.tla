-------------------------- MODULE AnalysisQueueProofs --------------------------
(***************************************************************************)
(* Theorems about AnalysisQueue, for any cases, workers, contents and      *)
(* verdicts, and any number of failures of every kind.                     *)
(***************************************************************************)
EXTENDS AnalysisQueue, TLAPS

\* What TypeOK needs to be inductive: an idle worker holds no message and a busy
\* one does; a retry is scheduled only below the last attempt; a value that is
\* about to be stored is there.
WorkerInv ==
  \A w \in Worker :
    /\ wpc[w] = "idle" <=> task[w] = NoTask
    /\ wpc[w] \in {"retry_write", "retry_zadd", "retry_publish"} => task[w].attempt < MaxAttempts
    /\ wpc[w] = "finish_write" => final[w] \in TERMINAL
    /\ wpc[w] \in {"replay", "store", "cache"} => out[w] \in Verdict

ApiInv == \A c \in Case : apc[c] = "replay" => hit[c] \in Verdict

TypeInv == TypeOK /\ WorkerInv /\ ApiInv

LEMMA MessageTask ==
  ASSUME NEW w \in Worker, TypeInv, wpc[w] # "idle"
  PROVE  /\ task[w] \in Message
         /\ CaseOf(w) \in Case
         /\ AttemptOf(w) \in 1 .. MaxAttempts
BY DEF TypeInv, TypeOK, WorkerInv, Message, NoTask, CaseOf, AttemptOf

LEMMA SpendType ==
  ASSUME NEW f \in Fault, TypeOK, Spend(f)
  PROVE  spent' \in [Fault -> Nat]
BY DEF TypeOK, Spend

LEMMA TypeInit == Init => TypeInv
BY ConstantsAssumption
   DEF Init, TypeInv, TypeOK, WorkerInv, ApiInv, RowStatus, NoJob, JobState, NoTask, Message,
       ApiPC, WorkerPC, TERMINAL, Fault, JobRecord
LEMMA FaultNames ==
  {"crash", "wedge", "sqlite", "redis", "broker", "api", "delete", "patch"} \subseteq Fault
BY DEF Fault

LEMMA PutType ==
  ASSUME NEW m \in Message, TypeOK, Put(m)
  PROVE  queue' \in [Message -> Nat]
BY DEF TypeOK, Put

LEMMA FirstMessage ==
  ASSUME NEW c \in Case
  PROVE  [case |-> c, attempt |-> 1] \in Message
BY ConstantsAssumption DEF Message

LEMMA NextMessage ==
  ASSUME NEW w \in Worker, TypeInv, wpc[w] \in {"retry_write", "retry_zadd", "retry_publish"}
  PROVE  [case |-> CaseOf(w), attempt |-> AttemptOf(w) + 1] \in Message
BY MessageTask, ConstantsAssumption DEF TypeInv, WorkerInv, Message, CaseOf, AttemptOf

LEMMA AppendType ==
  ASSUME NEW v \in Verdict, NEW q \in Seq(Verdict)
  PROVE  Append(q, v) \in Seq(Verdict)
OBVIOUS

\* The exception handler leaves a well-typed task: below the last attempt it
\* schedules a retry, at the last it reports failure.
LEMMA TransientType ==
  ASSUME NEW w \in Worker, TypeInv, wpc[w] # "idle", HandleTransient(w), task' = task
  PROVE  /\ wpc' \in [Worker -> WorkerPC]
         /\ out' \in [Worker -> Verdict \cup {None}]
         /\ final' \in [Worker -> TERMINAL \cup {"none"}]
         /\ WorkerInv'
<1>1. AttemptOf(w) \in 1 .. MaxAttempts /\ task[w] # NoTask
  BY MessageTask DEF TypeInv, WorkerInv
<1>2. wpc'[w] \in {"store_failure", "retry_write"}
      /\ (wpc'[w] = "retry_write" => task[w].attempt < MaxAttempts)
  BY <1>1, ConstantsAssumption DEF HandleTransient, TypeInv, TypeOK, AttemptOf
<1>3. \A u \in Worker \ {w} : wpc'[u] = wpc[u] /\ out'[u] = out[u] /\ final'[u] = final[u]
  BY DEF HandleTransient, TypeInv, TypeOK
<1>4. wpc' \in [Worker -> WorkerPC] /\ out' \in [Worker -> Verdict \cup {None}]
      /\ final' \in [Worker -> TERMINAL \cup {"none"}]
  BY DEF HandleTransient, TypeInv, TypeOK, WorkerPC
<1>5. WorkerInv'
  BY <1>1, <1>2, <1>3 DEF TypeInv, WorkerInv
<1>6. QED
  BY <1>4, <1>5

LEMMA TypeNext == TypeInv /\ [Next]_vars => TypeInv'
<1> SUFFICES ASSUME TypeInv, [Next]_vars PROVE TypeInv'
  OBVIOUS
<1> USE ConstantsAssumption
    DEF TypeInv, TypeOK, WorkerInv, ApiInv, RowStatus, NoJob, JobState, NoTask,
        ApiPC, WorkerPC, TERMINAL, store, redis, api, work
<1>1. ASSUME NEW c \in Case, Submit(c) PROVE TypeInv'
  <2>1. TypeOK'
    BY <1>1 DEF TypeOK, Submit, ApiGoto, Lookups
  <2>2. WorkerInv'
    BY <1>1 DEF TypeOK, Submit, ApiGoto, Lookups
  <2>3. ApiInv'
    BY <1>1 DEF TypeOK, Submit, ApiGoto, Lookups
  <2> QED BY <2>1, <2>2, <2>3
<1>2. ASSUME NEW c \in Case, Refuse(c) PROVE TypeInv'
  <2>1. TypeOK'
    BY <1>2, SpendType, FaultNames DEF TypeOK, Refuse, ApiGoto
  <2>2. WorkerInv'
    BY <1>2 DEF TypeOK, Refuse, ApiGoto
  <2>3. ApiInv'
    BY <1>2 DEF TypeOK, Refuse, ApiGoto
  <2> QED BY <2>1, <2>2, <2>3
<1>3. ASSUME NEW c \in Case, InsertCase(c) PROVE TypeInv'
  <2>1. TypeOK'
    BY <1>3 DEF TypeOK, InsertCase, ApiGoto
  <2>2. WorkerInv'
    BY <1>3 DEF TypeOK, InsertCase, ApiGoto
  <2>3. ApiInv'
    BY <1>3 DEF TypeOK, InsertCase, ApiGoto
  <2> QED BY <2>1, <2>2, <2>3
<1>4. ASSUME NEW c \in Case, Replay(c) PROVE TypeInv'
  <2>1. TypeOK'
    <3>1. CASE Stored(c)
      <4>1. hit[c] \in Verdict /\ results[c] \in Seq(Verdict)
        BY <1>4, <3>1 DEF Replay, ApiGoto, TypeOK
      <4>2. results' \in [Case -> Seq(Verdict)]
        <5>1. Append(results[c], hit[c]) \in Seq(Verdict)
          BY <4>1, AppendType
        <5>2. results' = [results EXCEPT ![c] = Append(results[c], hit[c])]
          BY <1>4, <3>1 DEF Replay
        <5>3. QED
          BY <5>1, <5>2 DEF TypeOK
      <4>3. row' \in [Case -> RowStatus]
        BY <1>4, <3>1, <4>1 DEF Replay, TypeOK
      <4>4. QED
        BY <1>4, <3>1, <4>2, <4>3 DEF TypeOK, Replay, ApiGoto
    <3>2. CASE ~Stored(c)
      BY <1>4, <3>2 DEF TypeOK, Replay, ApiGoto
    <3>3. QED
      BY <3>1, <3>2
  <2>2. WorkerInv'
    BY <1>4 DEF TypeOK, Replay, ApiGoto, Stored
  <2>3. ApiInv'
    BY <1>4 DEF TypeOK, Replay, ApiGoto, Stored
  <2> QED BY <2>1, <2>2, <2>3
<1>5. ASSUME NEW c \in Case, MarkCached(c) PROVE TypeInv'
  <2>1. TypeOK'
    <3>1. [state |-> "cached", attempt |-> 0] \in JobRecord
      BY DEF JobRecord, JobState
    <3>2. job' \in [Case -> JobRecord]
      BY <1>5, <3>1 DEF TypeOK, MarkCached
    <3>3. QED
      BY <1>5, <3>2 DEF TypeOK, MarkCached, ApiGoto
  <2>2. WorkerInv'
    BY <1>5 DEF TypeOK, MarkCached, ApiGoto
  <2>3. ApiInv'
    BY <1>5 DEF TypeOK, MarkCached, ApiGoto
  <2> QED BY <2>1, <2>2, <2>3
<1>6. ASSUME NEW c \in Case, Delay(c) PROVE TypeInv'
  <2>1. TypeOK'
    BY <1>6, PutType, FirstMessage DEF TypeOK, Delay, ApiGoto
  <2>2. WorkerInv'
    BY <1>6 DEF TypeOK, Delay, ApiGoto
  <2>3. ApiInv'
    BY <1>6 DEF TypeOK, Delay, ApiGoto
  <2> QED BY <2>1, <2>2, <2>3
<1>7. ASSUME NEW c \in Case, DelayFails(c) PROVE TypeInv'
  <2>1. TypeOK'
    BY <1>7, SpendType, FaultNames, PutType, FirstMessage DEF TypeOK, DelayFails, ApiGoto
  <2>2. WorkerInv'
    BY <1>7 DEF TypeOK, DelayFails, ApiGoto
  <2>3. ApiInv'
    BY <1>7 DEF TypeOK, DelayFails, ApiGoto
  <2> QED BY <2>1, <2>2, <2>3
<1>8. ASSUME NEW c \in Case, MarkCaseFailed(c) PROVE TypeInv'
  <2>1. TypeOK'
    BY <1>8 DEF TypeOK, MarkCaseFailed, ApiGoto, SetRow, Stored
  <2>2. WorkerInv'
    BY <1>8 DEF TypeOK, MarkCaseFailed, ApiGoto, SetRow, Stored
  <2>3. ApiInv'
    BY <1>8 DEF TypeOK, MarkCaseFailed, ApiGoto, SetRow, Stored
  <2> QED BY <2>1, <2>2, <2>3
<1>9. ASSUME NEW c \in Case, QueuedWrite(c) PROVE TypeInv'
  <2>1. TypeOK'
    <3>1. [state |-> "queued", attempt |-> 1] \in JobRecord
      BY DEF JobRecord, JobState
    <3>2. job' \in [Case -> JobRecord]
      BY <1>9, <3>1 DEF TypeOK, QueuedWrite
    <3>3. QED
      BY <1>9, <3>2 DEF TypeOK, QueuedWrite, ApiGoto
  <2>2. WorkerInv'
    BY <1>9 DEF TypeOK, QueuedWrite, ApiGoto
  <2>3. ApiInv'
    BY <1>9 DEF TypeOK, QueuedWrite, ApiGoto
  <2> QED BY <2>1, <2>2, <2>3
<1>10. ASSUME NEW c \in Case, QueuedZadd(c) PROVE TypeInv'
  <2>1. TypeOK'
    BY <1>10 DEF TypeOK, QueuedZadd, ApiGoto
  <2>2. WorkerInv'
    BY <1>10 DEF TypeOK, QueuedZadd, ApiGoto
  <2>3. ApiInv'
    BY <1>10 DEF TypeOK, QueuedZadd, ApiGoto
  <2> QED BY <2>1, <2>2, <2>3
<1>11. ASSUME NEW c \in Case, ApiDies(c) PROVE TypeInv'
  <2>1. TypeOK'
    BY <1>11, SpendType, FaultNames DEF TypeOK, ApiDies
  <2>2. WorkerInv'
    BY <1>11 DEF TypeOK, ApiDies
  <2>3. ApiInv'
    BY <1>11 DEF TypeOK, ApiDies
  <2> QED BY <2>1, <2>2, <2>3
<1>12. ASSUME NEW c \in Case, DeleteCase(c) PROVE TypeInv'
  <2>1. TypeOK'
    BY <1>12, SpendType, FaultNames DEF TypeOK, DeleteCase, Stored
  <2>2. WorkerInv'
    BY <1>12 DEF TypeOK, DeleteCase, Stored
  <2>3. ApiInv'
    BY <1>12 DEF TypeOK, DeleteCase, Stored
  <2> QED BY <2>1, <2>2, <2>3
<1>13. ASSUME NEW c \in Case, PatchStatus(c) PROVE TypeInv'
  <2>1. TypeOK'
    <3>1. row' \in [Case -> RowStatus]
      BY <1>13 DEF TypeOK, PatchStatus
    <3>2. QED
      BY <1>13, <3>1, SpendType, FaultNames DEF TypeOK, PatchStatus
  <2>2. WorkerInv'
    BY <1>13 DEF TypeOK, PatchStatus, Stored
  <2>3. ApiInv'
    BY <1>13 DEF TypeOK, PatchStatus, Stored
  <2> QED BY <2>1, <2>2, <2>3
<1>14. ASSUME NEW c \in Case, Expire(c) PROVE TypeInv'
  <2>1. TypeOK'
    <3>1. NoJob \in JobRecord
      BY DEF JobRecord, JobState
    <3>2. job' \in [Case -> JobRecord]
      BY <1>14, <3>1 DEF TypeOK, Expire
    <3>3. QED
      BY <1>14, <3>2 DEF TypeOK, Expire
  <2>2. WorkerInv'
    BY <1>14 DEF TypeOK, Expire, NoJob
  <2>3. ApiInv'
    BY <1>14 DEF TypeOK, Expire, NoJob
  <2> QED BY <2>1, <2>2, <2>3
<1>15. ASSUME NEW w \in Worker, Receive(w) PROVE TypeInv'
  <2>1. TypeOK'
    BY <1>15, MessageTask DEF TypeOK, Receive, Goto, CaseOf, AttemptOf
  <2>2. WorkerInv'
    <3>1. PICK m \in Message : task' = [task EXCEPT ![w] = m]
      BY <1>15 DEF Receive
    <3>2. m # NoTask
      BY <3>1 DEF Message
    <3>3. QED
      BY <1>15, <3>1, <3>2 DEF TypeOK, Receive, Goto
  <2>3. ApiInv'
    BY <1>15, MessageTask DEF TypeOK, Receive, Goto, CaseOf, AttemptOf
  <2> QED BY <2>1, <2>2, <2>3
<1>16. ASSUME NEW w \in Worker, RunningWrite(w) PROVE TypeInv'
  <2>1. TypeOK'
    <3>1. CaseOf(w) \in Case /\ AttemptOf(w) \in 0 .. MaxAttempts
      <4>1. CaseOf(w) \in Case /\ AttemptOf(w) \in 1 .. MaxAttempts
        BY <1>16, MessageTask DEF RunningWrite, Goto
      <4>2. QED
        BY <4>1
    <3>2. [state |-> "running", attempt |-> AttemptOf(w)] \in JobRecord
      BY <3>1 DEF JobRecord, JobState
    <3>3. job' \in [Case -> JobRecord]
      BY <1>16, <3>1, <3>2 DEF TypeOK, RunningWrite
    <3>4. QED
      BY <1>16, <3>3 DEF TypeOK, RunningWrite, Goto
  <2>2. WorkerInv'
    BY <1>16, MessageTask DEF TypeOK, RunningWrite, Goto, CaseOf, AttemptOf
  <2>3. ApiInv'
    BY <1>16, MessageTask DEF TypeOK, RunningWrite, Goto, CaseOf, AttemptOf
  <2> QED BY <2>1, <2>2, <2>3
<1>17. ASSUME NEW w \in Worker, RunningZrem(w) PROVE TypeInv'
  <2>1. TypeOK'
    BY <1>17, MessageTask DEF TypeOK, RunningZrem, Goto, Begin, CaseOf, AttemptOf
  <2>2. WorkerInv'
    BY <1>17, MessageTask DEF TypeOK, RunningZrem, Goto, Begin, CaseOf, AttemptOf
  <2>3. ApiInv'
    BY <1>17, MessageTask DEF TypeOK, RunningZrem, Goto, Begin, CaseOf, AttemptOf
  <2> QED BY <2>1, <2>2, <2>3
<1>18. ASSUME NEW w \in Worker, Reopen(w) PROVE TypeInv'
  <2>1. TypeOK'
    BY <1>18, MessageTask DEF TypeOK, Reopen, Goto, Begin, SetRow, Stored, CaseOf, AttemptOf
  <2>2. WorkerInv'
    BY <1>18, MessageTask DEF TypeOK, Reopen, Goto, Begin, SetRow, Stored, CaseOf, AttemptOf
  <2>3. ApiInv'
    BY <1>18, MessageTask DEF TypeOK, Reopen, Goto, Begin, SetRow, Stored, CaseOf, AttemptOf
  <2> QED BY <2>1, <2>2, <2>3
<1>19. ASSUME NEW w \in Worker, Ingest(w) PROVE TypeInv'
  <2>1. cache[ContentOf[CaseOf(w)]] \in Verdict \cup {None}
    BY <1>19, MessageTask DEF TypeOK, Ingest
  <2>2. TypeOK'
    BY <1>19, <2>1 DEF TypeOK, Ingest
  <2>3. WorkerInv'
    BY <1>19, <2>1 DEF TypeOK, Ingest
  <2>4. ApiInv'
    BY <1>19 DEF TypeOK, Ingest
  <2> QED BY <2>2, <2>3, <2>4
<1>20. ASSUME NEW w \in Worker, Analyse(w) PROVE TypeInv'
  <2>1. TypeOK'
    BY <1>20, MessageTask DEF TypeOK, Analyse, Goto, CaseOf, AttemptOf
  <2>2. WorkerInv'
    BY <1>20, MessageTask DEF TypeOK, Analyse, Goto, CaseOf, AttemptOf
  <2>3. ApiInv'
    BY <1>20, MessageTask DEF TypeOK, Analyse, Goto, CaseOf, AttemptOf
  <2> QED BY <2>1, <2>2, <2>3
<1>21. ASSUME NEW w \in Worker, FailsPermanently(w) PROVE TypeInv'
  <2>1. TypeOK'
    BY <1>21, MessageTask DEF TypeOK, FailsPermanently, CaseOf, AttemptOf
  <2>2. WorkerInv'
    BY <1>21, MessageTask DEF TypeOK, FailsPermanently, CaseOf, AttemptOf
  <2>3. ApiInv'
    BY <1>21, MessageTask DEF TypeOK, FailsPermanently, CaseOf, AttemptOf
  <2> QED BY <2>1, <2>2, <2>3
<1>22. ASSUME NEW w \in Worker, FailsTransiently(w) PROVE TypeInv'
  <2>1. TypeOK'
    BY <1>22, TransientType DEF TypeOK, FailsTransiently
  <2>2. WorkerInv'
    BY <1>22, TransientType DEF FailsTransiently
  <2>3. ApiInv'
    BY <1>22, MessageTask DEF TypeOK, FailsTransiently, HandleTransient, CaseOf, AttemptOf
  <2> QED BY <2>1, <2>2, <2>3
<1>23. ASSUME NEW w \in Worker, ReplayStore(w) PROVE TypeInv'
  <2>1. TypeOK'
    <3>1. CASE Stored(CaseOf(w))
      <4>1. out[w] \in Verdict /\ <<out[w]>> \in Seq(Verdict)
        BY <1>23 DEF ReplayStore
      <4>2. results' \in [Case -> Seq(Verdict)]
        BY <1>23, <3>1, <4>1 DEF TypeOK, ReplayStore
      <4>3. row' \in [Case -> RowStatus]
        BY <1>23, <3>1, <4>1 DEF TypeOK, ReplayStore
      <4>4. QED
        BY <1>23, <3>1, <4>2, <4>3 DEF TypeOK, ReplayStore
    <3>2. CASE ~Stored(CaseOf(w))
      BY <1>23, <3>2, TransientType DEF TypeOK, ReplayStore
    <3>3. QED
      BY <3>1, <3>2
  <2>2. WorkerInv'
    <3>1. CASE Stored(CaseOf(w))
      BY <1>23, <3>1 DEF TypeOK, ReplayStore
    <3>2. CASE ~Stored(CaseOf(w))
      BY <1>23, <3>2, TransientType DEF ReplayStore
    <3>3. QED
      BY <3>1, <3>2
  <2>3. ApiInv'
    BY <1>23, MessageTask DEF TypeOK, ReplayStore, HandleTransient, Stored, CaseOf, AttemptOf
  <2> QED BY <2>1, <2>2, <2>3
<1>24. ASSUME NEW w \in Worker, StoreSuccess(w) PROVE TypeInv'
  <2>1. TypeOK'
    <3>1. out[w] \in Verdict /\ <<out[w]>> \in Seq(Verdict)
      BY <1>24 DEF StoreSuccess, Goto
    <3>2. QED
      BY <1>24, <3>1 DEF TypeOK, StoreSuccess, Goto
  <2>2. WorkerInv'
    BY <1>24, MessageTask DEF TypeOK, StoreSuccess, Goto, Stored, CaseOf, AttemptOf
  <2>3. ApiInv'
    BY <1>24, MessageTask DEF TypeOK, StoreSuccess, Goto, Stored, CaseOf, AttemptOf
  <2> QED BY <2>1, <2>2, <2>3
<1>25. ASSUME NEW w \in Worker, StoreOrphan(w) PROVE TypeInv'
  <2>1. TypeOK'
    BY <1>25, MessageTask DEF TypeOK, StoreOrphan, Release, Stored, CaseOf, AttemptOf
  <2>2. WorkerInv'
    BY <1>25, MessageTask DEF TypeOK, StoreOrphan, Release, Stored, CaseOf, AttemptOf
  <2>3. ApiInv'
    BY <1>25, MessageTask DEF TypeOK, StoreOrphan, Release, Stored, CaseOf, AttemptOf
  <2> QED BY <2>1, <2>2, <2>3
<1>26. ASSUME NEW w \in Worker, CacheResult(w) PROVE TypeInv'
  <2>1. TypeOK'
    BY <1>26, MessageTask DEF TypeOK, CacheResult, Goto, CaseOf, AttemptOf
  <2>2. WorkerInv'
    BY <1>26, MessageTask DEF TypeOK, CacheResult, Goto, CaseOf, AttemptOf
  <2>3. ApiInv'
    BY <1>26, MessageTask DEF TypeOK, CacheResult, Goto, CaseOf, AttemptOf
  <2> QED BY <2>1, <2>2, <2>3
<1>27. ASSUME NEW w \in Worker, StoreFailure(w) PROVE TypeInv'
  <2>1. TypeOK'
    BY <1>27, MessageTask DEF TypeOK, StoreFailure, Goto, SetRow, Stored, CaseOf, AttemptOf
  <2>2. WorkerInv'
    BY <1>27, MessageTask DEF TypeOK, StoreFailure, Goto, SetRow, Stored, CaseOf, AttemptOf
  <2>3. ApiInv'
    BY <1>27, MessageTask DEF TypeOK, StoreFailure, Goto, SetRow, Stored, CaseOf, AttemptOf
  <2> QED BY <2>1, <2>2, <2>3
<1>28. ASSUME NEW w \in Worker, FinishWrite(w) PROVE TypeInv'
  <2>1. TypeOK'
    <3>1. CaseOf(w) \in Case /\ final[w] \in JobState
      BY <1>28, MessageTask DEF FinishWrite, Goto, JobState
    <3>2. [job[CaseOf(w)] EXCEPT !.state = final[w]] \in JobRecord
      <4>1. job[CaseOf(w)] \in JobRecord
        BY <3>1 DEF TypeOK
      <4>2. QED
        BY <3>1, <4>1 DEF JobRecord
    <3>3. job' \in [Case -> JobRecord]
      BY <1>28, <3>1, <3>2 DEF TypeOK, FinishWrite
    <3>4. QED
      BY <1>28, <3>3 DEF TypeOK, FinishWrite, Goto
  <2>2. WorkerInv'
    BY <1>28, MessageTask DEF TypeOK, FinishWrite, Goto, CaseOf, AttemptOf
  <2>3. ApiInv'
    BY <1>28, MessageTask DEF TypeOK, FinishWrite, Goto, CaseOf, AttemptOf
  <2> QED BY <2>1, <2>2, <2>3
<1>29. ASSUME NEW w \in Worker, FinishZrem(w) PROVE TypeInv'
  <2>1. TypeOK'
    BY <1>29, MessageTask DEF TypeOK, FinishZrem, Goto, CaseOf, AttemptOf
  <2>2. WorkerInv'
    BY <1>29, MessageTask DEF TypeOK, FinishZrem, Goto, CaseOf, AttemptOf
  <2>3. ApiInv'
    BY <1>29, MessageTask DEF TypeOK, FinishZrem, Goto, CaseOf, AttemptOf
  <2> QED BY <2>1, <2>2, <2>3
<1>30. ASSUME NEW w \in Worker, RetryWrite(w) PROVE TypeInv'
  <2>1. TypeOK'
    <3>1. CaseOf(w) \in Case /\ AttemptOf(w) + 1 \in 0 .. MaxAttempts
      <4>1. wpc[w] = "retry_write" /\ task[w] \in Message /\ CaseOf(w) \in Case
        BY <1>30, MessageTask DEF RetryWrite, Goto
      <4>2. AttemptOf(w) \in 1 .. MaxAttempts /\ AttemptOf(w) < MaxAttempts
        BY <4>1, MessageTask DEF AttemptOf
      <4>3. QED
        BY <4>1, <4>2
    <3>2. [state |-> "retrying", attempt |-> AttemptOf(w) + 1] \in JobRecord
      BY <3>1 DEF JobRecord, JobState
    <3>3. job' \in [Case -> JobRecord]
      BY <1>30, <3>1, <3>2 DEF TypeOK, RetryWrite
    <3>4. QED
      BY <1>30, <3>3 DEF TypeOK, RetryWrite, Goto
  <2>2. WorkerInv'
    BY <1>30, MessageTask DEF TypeOK, RetryWrite, Goto, CaseOf, AttemptOf
  <2>3. ApiInv'
    BY <1>30, MessageTask DEF TypeOK, RetryWrite, Goto, CaseOf, AttemptOf
  <2> QED BY <2>1, <2>2, <2>3
<1>31. ASSUME NEW w \in Worker, RetryZadd(w) PROVE TypeInv'
  <2>1. TypeOK'
    BY <1>31, MessageTask DEF TypeOK, RetryZadd, Goto, CaseOf, AttemptOf
  <2>2. WorkerInv'
    BY <1>31, MessageTask DEF TypeOK, RetryZadd, Goto, CaseOf, AttemptOf
  <2>3. ApiInv'
    BY <1>31, MessageTask DEF TypeOK, RetryZadd, Goto, CaseOf, AttemptOf
  <2> QED BY <2>1, <2>2, <2>3
<1>32. ASSUME NEW w \in Worker, RetryPublish(w) PROVE TypeInv'
  <2>1. TypeOK'
    BY <1>32, MessageTask, PutType, NextMessage DEF TypeOK, RetryPublish, Goto, CaseOf, AttemptOf
  <2>2. WorkerInv'
    BY <1>32, MessageTask DEF TypeOK, RetryPublish, Goto, CaseOf, AttemptOf
  <2>3. ApiInv'
    BY <1>32, MessageTask DEF TypeOK, RetryPublish, Goto, CaseOf, AttemptOf
  <2> QED BY <2>1, <2>2, <2>3
<1>33. ASSUME NEW w \in Worker, Ack(w) PROVE TypeInv'
  <2>1. TypeOK'
    BY <1>33, MessageTask DEF TypeOK, Ack, Release, CaseOf, AttemptOf
  <2>2. WorkerInv'
    BY <1>33, MessageTask DEF TypeOK, Ack, Release, CaseOf, AttemptOf
  <2>3. ApiInv'
    BY <1>33, MessageTask DEF TypeOK, Ack, Release, CaseOf, AttemptOf
  <2> QED BY <2>1, <2>2, <2>3
<1>34. ASSUME NEW w \in Worker, Crash(w) PROVE TypeInv'
  <2>1. TypeOK'
    BY <1>34, MessageTask, SpendType, FaultNames, PutType DEF TypeOK, Crash, Release, CaseOf, AttemptOf
  <2>2. WorkerInv'
    BY <1>34, MessageTask DEF TypeOK, Crash, Release, CaseOf, AttemptOf
  <2>3. ApiInv'
    BY <1>34, MessageTask DEF TypeOK, Crash, Release, CaseOf, AttemptOf
  <2> QED BY <2>1, <2>2, <2>3
<1>35. ASSUME NEW w \in Worker, HardLimit(w) PROVE TypeInv'
  <2>1. TypeOK'
    BY <1>35, MessageTask, SpendType, FaultNames DEF TypeOK, HardLimit, Release, CaseOf, AttemptOf
  <2>2. WorkerInv'
    BY <1>35, MessageTask DEF TypeOK, HardLimit, Release, CaseOf, AttemptOf
  <2>3. ApiInv'
    BY <1>35, MessageTask DEF TypeOK, HardLimit, Release, CaseOf, AttemptOf
  <2> QED BY <2>1, <2>2, <2>3
<1>36. ASSUME NEW w \in Worker, Escape(w) PROVE TypeInv'
  <2>1. TypeOK'
    BY <1>36, MessageTask, SpendType, FaultNames DEF TypeOK, Escape, Release, CaseOf, AttemptOf
  <2>2. WorkerInv'
    BY <1>36, MessageTask DEF TypeOK, Escape, Release, CaseOf, AttemptOf
  <2>3. ApiInv'
    BY <1>36, MessageTask DEF TypeOK, Escape, Release, CaseOf, AttemptOf
  <2> QED BY <2>1, <2>2, <2>3
<1>37. ASSUME NEW w \in Worker, ReplayFails(w) PROVE TypeInv'
  <2>1. TypeOK'
    BY <1>37, TransientType, SpendType, FaultNames DEF TypeOK, ReplayFails, RedisPoints
  <2>2. WorkerInv'
    BY <1>37, TransientType DEF ReplayFails, RedisPoints
  <2>3. ApiInv'
    BY <1>37, MessageTask DEF TypeOK, ReplayFails, HandleTransient, RedisPoints, CaseOf, AttemptOf
  <2> QED BY <2>1, <2>2, <2>3
<1>38. ASSUME NEW w \in Worker, CacheUnreachable(w) PROVE TypeInv'
  <2>1. TypeOK'
    BY <1>38, MessageTask, SpendType, FaultNames DEF TypeOK, CacheUnreachable, Goto, CaseOf, AttemptOf
  <2>2. WorkerInv'
    BY <1>38, MessageTask DEF TypeOK, CacheUnreachable, Goto, CaseOf, AttemptOf
  <2>3. ApiInv'
    BY <1>38, MessageTask DEF TypeOK, CacheUnreachable, Goto, CaseOf, AttemptOf
  <2> QED BY <2>1, <2>2, <2>3
<1>50. CASE UNCHANGED vars
  BY <1>50 DEF vars
<1> QED
  BY <1>1, <1>2, <1>3, <1>4, <1>5, <1>6, <1>7, <1>8, <1>9, <1>10, <1>11, <1>12, <1>13, <1>14, <1>15, <1>16, <1>17, <1>18, <1>19, <1>20, <1>21, <1>22, <1>23, <1>24, <1>25, <1>26, <1>27, <1>28, <1>29, <1>30, <1>31, <1>32, <1>33, <1>34, <1>35, <1>36, <1>37, <1>38, <1>50
     DEF Next, UserStep, ApiStep, ApiFault, WorkerStep, WorkerFault, Rest

\* TypeOK holds in every state: every record, message and local variable keeps a
\* value the code can give it, and no attempt number passes ANALYSIS_MAX_ATTEMPTS.
THEOREM TypeCorrect == Spec => []TypeOK
<1>1. Init => TypeInv
  BY TypeInit
<1>2. TypeInv /\ [Next]_vars => TypeInv'
  BY TypeNext
<1>3. TypeInv => TypeOK
  BY DEF TypeInv
<1>4. QED
  BY <1>1, <1>2, <1>3, PTL DEF Spec

-----------------------------------------------------------------------------
(* The durable record: result rows, row status, job record.                *)

\* A message or a worker has to do with the case.
Busy(c) ==
  \/ \E m \in Message : m.case = c /\ queue[m] > 0
  \/ \E w \in Worker : CaseOf(w) = c

\* Until its handler has replayed or published it, nobody else touches a case.
FreshInv ==
  \A c \in Case : apc[c] \in {"idle", "insert", "replay", "delay"} =>
    results[c] = <<>> /\ ~Busy(c)

LEMMA ReleaseFrees ==
  ASSUME NEW w \in Worker, TypeOK, Release(w)
  PROVE  /\ \A c \in Case : task'[w].case # c
         /\ \A u \in Worker \ {w} : task'[u] = task[u]
BY ConstantsAssumption DEF Release, NoTask, TypeOK

LEMMA FreshNext ==
  ASSUME TypeInv, FreshInv, [Next]_vars
  PROVE  FreshInv'
<1> USE DEF FreshInv, Busy, CaseOf, TypeInv, TypeOK, store, redis, api, work
<1>1. ASSUME NEW c \in Case, Submit(c) PROVE FreshInv'
  BY <1>1 DEF Submit, ApiGoto, Lookups
<1>2. ASSUME NEW c \in Case, Refuse(c) PROVE FreshInv'
  BY <1>2 DEF Refuse, ApiGoto
<1>3. ASSUME NEW c \in Case, InsertCase(c) PROVE FreshInv'
  BY <1>3 DEF InsertCase, ApiGoto
<1>4. ASSUME NEW c \in Case, Replay(c) PROVE FreshInv'
  BY <1>4 DEF Replay, ApiGoto
<1>5. ASSUME NEW c \in Case, MarkCached(c) PROVE FreshInv'
  BY <1>5 DEF MarkCached, ApiGoto
<1>6. ASSUME NEW c \in Case, Delay(c) PROVE FreshInv'
  BY <1>6 DEF Delay, ApiGoto, Put
<1>7. ASSUME NEW c \in Case, DelayFails(c) PROVE FreshInv'
  BY <1>7 DEF DelayFails, ApiGoto, Put
<1>8. ASSUME NEW c \in Case, MarkCaseFailed(c) PROVE FreshInv'
  BY <1>8 DEF MarkCaseFailed, ApiGoto
<1>9. ASSUME NEW c \in Case, QueuedWrite(c) PROVE FreshInv'
  BY <1>9 DEF QueuedWrite, ApiGoto
<1>10. ASSUME NEW c \in Case, QueuedZadd(c) PROVE FreshInv'
  BY <1>10 DEF QueuedZadd, ApiGoto
<1>11. ASSUME NEW c \in Case, ApiDies(c) PROVE FreshInv'
  BY <1>11 DEF ApiDies
<1>12. ASSUME NEW c \in Case, DeleteCase(c) PROVE FreshInv'
  BY <1>12 DEF DeleteCase
<1>13. ASSUME NEW c \in Case, PatchStatus(c) PROVE FreshInv'
  BY <1>13 DEF PatchStatus
<1>14. ASSUME NEW c \in Case, Expire(c) PROVE FreshInv'
  BY <1>14 DEF Expire
<1>15. ASSUME NEW w \in Worker, Receive(w) PROVE FreshInv'
  BY <1>15, MessageTask DEF Receive, Goto
<1>16. ASSUME NEW w \in Worker, RunningWrite(w) PROVE FreshInv'
  BY <1>16, MessageTask DEF RunningWrite, Goto
<1>17. ASSUME NEW w \in Worker, RunningZrem(w) PROVE FreshInv'
  BY <1>17, MessageTask DEF RunningZrem, Goto, Begin
<1>18. ASSUME NEW w \in Worker, Reopen(w) PROVE FreshInv'
  BY <1>18, MessageTask DEF Reopen, Goto, Begin
<1>19. ASSUME NEW w \in Worker, Ingest(w) PROVE FreshInv'
  BY <1>19, MessageTask DEF Ingest, Goto
<1>20. ASSUME NEW w \in Worker, Analyse(w) PROVE FreshInv'
  BY <1>20, MessageTask DEF Analyse, Goto
<1>21. ASSUME NEW w \in Worker, FailsPermanently(w) PROVE FreshInv'
  BY <1>21, MessageTask DEF FailsPermanently
<1>22. ASSUME NEW w \in Worker, FailsTransiently(w) PROVE FreshInv'
  BY <1>22, MessageTask DEF FailsTransiently, HandleTransient
<1>23. ASSUME NEW w \in Worker, ReplayStore(w) PROVE FreshInv'
  BY <1>23, MessageTask DEF ReplayStore, HandleTransient
<1>24. ASSUME NEW w \in Worker, StoreSuccess(w) PROVE FreshInv'
  BY <1>24, MessageTask DEF StoreSuccess, Goto
<1>25. ASSUME NEW w \in Worker, StoreOrphan(w) PROVE FreshInv'
  <2>1. (\A c \in Case : task'[w].case # c) /\ \A u \in Worker \ {w} : task'[u] = task[u]
    BY <1>25, ReleaseFrees DEF StoreOrphan
  <2>2. UNCHANGED <<apc, results, queue>>
    BY <1>25 DEF StoreOrphan
  <2>3. QED
    BY <2>1, <2>2
<1>26. ASSUME NEW w \in Worker, CacheResult(w) PROVE FreshInv'
  BY <1>26, MessageTask DEF CacheResult, Goto
<1>27. ASSUME NEW w \in Worker, StoreFailure(w) PROVE FreshInv'
  BY <1>27, MessageTask DEF StoreFailure, Goto
<1>28. ASSUME NEW w \in Worker, FinishWrite(w) PROVE FreshInv'
  BY <1>28, MessageTask DEF FinishWrite, Goto
<1>29. ASSUME NEW w \in Worker, FinishZrem(w) PROVE FreshInv'
  BY <1>29, MessageTask DEF FinishZrem, Goto
<1>30. ASSUME NEW w \in Worker, RetryWrite(w) PROVE FreshInv'
  BY <1>30, MessageTask DEF RetryWrite, Goto
<1>31. ASSUME NEW w \in Worker, RetryZadd(w) PROVE FreshInv'
  BY <1>31, MessageTask DEF RetryZadd, Goto
<1>32. ASSUME NEW w \in Worker, RetryPublish(w) PROVE FreshInv'
  BY <1>32, MessageTask DEF RetryPublish, Goto, Put
<1>33. ASSUME NEW w \in Worker, Ack(w) PROVE FreshInv'
  <2>1. (\A c \in Case : task'[w].case # c) /\ \A u \in Worker \ {w} : task'[u] = task[u]
    BY <1>33, ReleaseFrees DEF Ack
  <2>2. UNCHANGED <<apc, results, queue>>
    BY <1>33 DEF Ack
  <2>3. QED
    BY <2>1, <2>2
<1>34. ASSUME NEW w \in Worker, Crash(w) PROVE FreshInv'
  BY <1>34, MessageTask, ReleaseFrees DEF Crash, Put
<1>35. ASSUME NEW w \in Worker, HardLimit(w) PROVE FreshInv'
  BY <1>35, MessageTask, ReleaseFrees DEF HardLimit
<1>36. ASSUME NEW w \in Worker, Escape(w) PROVE FreshInv'
  BY <1>36, MessageTask, ReleaseFrees DEF Escape
<1>37. ASSUME NEW w \in Worker, ReplayFails(w) PROVE FreshInv'
  BY <1>37, MessageTask DEF ReplayFails, HandleTransient, RedisPoints
<1>38. ASSUME NEW w \in Worker, CacheUnreachable(w) PROVE FreshInv'
  BY <1>38, MessageTask DEF CacheUnreachable, Goto
<1>50. CASE UNCHANGED vars
  BY <1>50 DEF vars
<1> QED
  BY <1>1, <1>2, <1>3, <1>4, <1>5, <1>6, <1>7, <1>8, <1>9, <1>10, <1>11, <1>12, <1>13, <1>14, <1>15, <1>16, <1>17, <1>18, <1>19, <1>20, <1>21, <1>22, <1>23, <1>24, <1>25, <1>26, <1>27, <1>28, <1>29, <1>30, <1>31, <1>32, <1>33, <1>34, <1>35, <1>36, <1>37, <1>38, <1>50
     DEF Next, UserStep, ApiStep, ApiFault, WorkerStep, WorkerFault, Rest

\* The three ways a step can touch the durable store: it takes one row to a status
\* that is no verdict, it records one verdict with its rows, or it is a PATCH.
Reopens(c) ==
  /\ \E s \in {"processing", "failed", "deleted"} : row' = [row EXCEPT ![c] = s]
  /\ UNCHANGED results

Records(c) ==
  \E v \in Verdict : row' = [row EXCEPT ![c] = v] /\ results' = [results EXCEPT ![c] = <<v>>]

Patches == spent'["patch"] > 0 /\ UNCHANGED results

StoreEffect ==
  \/ UNCHANGED store
  \/ \E c \in Case : Reopens(c) \/ Records(c)
  \/ Patches

LEMMA StoreEffects ==
  ASSUME TypeInv, FreshInv, [Next]_vars
  PROVE  StoreEffect
<1> USE DEF StoreEffect, Reopens, Records, store
<1>1. ASSUME NEW c \in Case, Submit(c) PROVE StoreEffect
  BY <1>1 DEF Submit
<1>2. ASSUME NEW c \in Case, Refuse(c) PROVE StoreEffect
  BY <1>2 DEF Refuse
<1>3. ASSUME NEW c \in Case, InsertCase(c) PROVE StoreEffect
  BY <1>3 DEF InsertCase
<1>4. ASSUME NEW c \in Case, Replay(c) PROVE StoreEffect
  <2>1. CASE Stored(c)
    <3>1. apc[c] = "replay" /\ hit[c] \in Verdict /\ results[c] = <<>>
      BY <1>4, <2>1 DEF Replay, ApiGoto, TypeInv, ApiInv, FreshInv
    <3>2. Append(results[c], hit[c]) = <<hit[c]>>
      BY <3>1
    <3>3. QED
      BY <1>4, <2>1, <3>1, <3>2 DEF Replay
  <2>2. CASE ~Stored(c)
    BY <1>4, <2>2 DEF Replay
  <2>3. QED
    BY <2>1, <2>2
<1>5. ASSUME NEW c \in Case, MarkCached(c) PROVE StoreEffect
  BY <1>5 DEF MarkCached
<1>6. ASSUME NEW c \in Case, Delay(c) PROVE StoreEffect
  BY <1>6 DEF Delay
<1>7. ASSUME NEW c \in Case, DelayFails(c) PROVE StoreEffect
  BY <1>7 DEF DelayFails
<1>8. ASSUME NEW c \in Case, MarkCaseFailed(c) PROVE StoreEffect
  BY <1>8 DEF MarkCaseFailed, SetRow
<1>9. ASSUME NEW c \in Case, QueuedWrite(c) PROVE StoreEffect
  BY <1>9 DEF QueuedWrite
<1>10. ASSUME NEW c \in Case, QueuedZadd(c) PROVE StoreEffect
  BY <1>10 DEF QueuedZadd
<1>11. ASSUME NEW c \in Case, ApiDies(c) PROVE StoreEffect
  BY <1>11 DEF ApiDies
<1>12. ASSUME NEW c \in Case, DeleteCase(c) PROVE StoreEffect
  BY <1>12 DEF DeleteCase
<1>13. ASSUME NEW c \in Case, PatchStatus(c) PROVE StoreEffect
  BY <1>13, FaultNames DEF PatchStatus, Patches, Spend, TypeInv, TypeOK
<1>14. ASSUME NEW c \in Case, Expire(c) PROVE StoreEffect
  BY <1>14 DEF Expire
<1>15. ASSUME NEW w \in Worker, Receive(w) PROVE StoreEffect
  BY <1>15 DEF Receive
<1>16. ASSUME NEW w \in Worker, RunningWrite(w) PROVE StoreEffect
  BY <1>16 DEF RunningWrite
<1>17. ASSUME NEW w \in Worker, RunningZrem(w) PROVE StoreEffect
  BY <1>17 DEF RunningZrem
<1>18. ASSUME NEW w \in Worker, Reopen(w) PROVE StoreEffect
  BY <1>18, MessageTask DEF Reopen, Goto, SetRow
<1>19. ASSUME NEW w \in Worker, Ingest(w) PROVE StoreEffect
  BY <1>19 DEF Ingest
<1>20. ASSUME NEW w \in Worker, Analyse(w) PROVE StoreEffect
  BY <1>20 DEF Analyse
<1>21. ASSUME NEW w \in Worker, FailsPermanently(w) PROVE StoreEffect
  BY <1>21 DEF FailsPermanently
<1>22. ASSUME NEW w \in Worker, FailsTransiently(w) PROVE StoreEffect
  BY <1>22 DEF FailsTransiently
<1>23. ASSUME NEW w \in Worker, ReplayStore(w) PROVE StoreEffect
  <2>1. CaseOf(w) \in Case /\ out[w] \in Verdict
    BY <1>23, MessageTask DEF ReplayStore, Goto, TypeInv, WorkerInv
  <2>2. QED
    BY <1>23, <2>1 DEF ReplayStore
<1>24. ASSUME NEW w \in Worker, StoreSuccess(w) PROVE StoreEffect
  <2>1. CaseOf(w) \in Case /\ out[w] \in Verdict
    BY <1>24, MessageTask DEF StoreSuccess, Goto, TypeInv, WorkerInv
  <2>2. QED
    BY <1>24, <2>1 DEF StoreSuccess
<1>25. ASSUME NEW w \in Worker, StoreOrphan(w) PROVE StoreEffect
  BY <1>25 DEF StoreOrphan
<1>26. ASSUME NEW w \in Worker, CacheResult(w) PROVE StoreEffect
  BY <1>26 DEF CacheResult
<1>27. ASSUME NEW w \in Worker, StoreFailure(w) PROVE StoreEffect
  BY <1>27, MessageTask DEF StoreFailure, Goto, SetRow
<1>28. ASSUME NEW w \in Worker, FinishWrite(w) PROVE StoreEffect
  BY <1>28 DEF FinishWrite
<1>29. ASSUME NEW w \in Worker, FinishZrem(w) PROVE StoreEffect
  BY <1>29 DEF FinishZrem
<1>30. ASSUME NEW w \in Worker, RetryWrite(w) PROVE StoreEffect
  BY <1>30 DEF RetryWrite
<1>31. ASSUME NEW w \in Worker, RetryZadd(w) PROVE StoreEffect
  BY <1>31 DEF RetryZadd
<1>32. ASSUME NEW w \in Worker, RetryPublish(w) PROVE StoreEffect
  BY <1>32 DEF RetryPublish
<1>33. ASSUME NEW w \in Worker, Ack(w) PROVE StoreEffect
  BY <1>33 DEF Ack
<1>34. ASSUME NEW w \in Worker, Crash(w) PROVE StoreEffect
  BY <1>34 DEF Crash
<1>35. ASSUME NEW w \in Worker, HardLimit(w) PROVE StoreEffect
  BY <1>35 DEF HardLimit
<1>36. ASSUME NEW w \in Worker, Escape(w) PROVE StoreEffect
  BY <1>36 DEF Escape
<1>37. ASSUME NEW w \in Worker, ReplayFails(w) PROVE StoreEffect
  BY <1>37 DEF ReplayFails
<1>38. ASSUME NEW w \in Worker, CacheUnreachable(w) PROVE StoreEffect
  BY <1>38 DEF CacheUnreachable
<1>50. CASE UNCHANGED vars
  BY <1>50 DEF vars
<1> QED
  BY <1>1, <1>2, <1>3, <1>4, <1>5, <1>6, <1>7, <1>8, <1>9, <1>10, <1>11, <1>12, <1>13, <1>14, <1>15, <1>16, <1>17, <1>18, <1>19, <1>20, <1>21, <1>22, <1>23, <1>24, <1>25, <1>26, <1>27, <1>28, <1>29, <1>30, <1>31, <1>32, <1>33, <1>34, <1>35, <1>36, <1>37, <1>38, <1>50
     DEF Next, UserStep, ApiStep, ApiFault, WorkerStep, WorkerFault, Rest

RecordInv == TypeInv /\ FreshInv /\ OneBatch /\ SettledShowsItsRows

LEMMA SpentOnlyGrows ==
  ASSUME TypeInv, [Next]_vars, NEW f \in Fault, spent'[f] = 0
  PROVE  spent[f] = 0
<1>1. spent' = spent \/ \E g \in Fault : Spend(g)
  BY FaultNames DEF Next, UserStep, ApiStep, ApiFault, WorkerStep, WorkerFault, Rest, vars,
     Submit, Refuse, InsertCase, Replay, MarkCached, Delay, DelayFails, MarkCaseFailed,
     QueuedWrite, QueuedZadd, ApiDies, DeleteCase, PatchStatus, Expire, Receive, RunningWrite,
     RunningZrem, Reopen, Ingest, Analyse, FailsPermanently, FailsTransiently, ReplayStore,
     StoreSuccess, StoreOrphan, CacheResult, CacheUnreachable, StoreFailure, FinishWrite,
     FinishZrem, RetryWrite, RetryZadd, RetryPublish, Ack, Crash, HardLimit, Escape, ReplayFails
<1>2. QED
  BY <1>1, FaultNames DEF Spend, TypeInv, TypeOK

LEMMA RecordNext == RecordInv /\ [Next]_vars => RecordInv'
<1> SUFFICES ASSUME RecordInv, [Next]_vars PROVE RecordInv'
  OBVIOUS
<1>1. TypeInv' /\ FreshInv'
  BY TypeNext, FreshNext DEF RecordInv
<1>2. StoreEffect /\ (spent'["patch"] = 0 => spent["patch"] = 0)
  BY StoreEffects, SpentOnlyGrows, FaultNames DEF RecordInv
<1>3. OneBatch'
  <2> SUFFICES ASSUME NEW c \in Case PROVE Len(results'[c]) <= 1
    BY DEF OneBatch
  <2>1. Len(results[c]) <= 1
    BY DEF RecordInv, OneBatch
  <2>2. CASE results' = results
    BY <2>1, <2>2
  <2>3. ASSUME NEW d \in Case, Records(d) PROVE Len(results'[c]) <= 1
    <3>1. results'[c] = results[c] \/ \E v \in Verdict : results'[c] = <<v>>
      BY <2>3 DEF Records, RecordInv, TypeInv, TypeOK
    <3>2. CASE results'[c] = results[c]
      BY <2>1, <3>2
    <3>3. ASSUME NEW v \in Verdict, results'[c] = <<v>> PROVE Len(results'[c]) <= 1
      <4>1. Len(<<v>>) = 1
        OBVIOUS
      <4>2. QED
        BY <3>3, <4>1
    <3>4. QED
      BY <3>1, <3>2, <3>3
  <2>4. QED
    BY <1>2, <2>2, <2>3 DEF StoreEffect, Reopens, Patches, store
<1>4. SettledShowsItsRows'
  <2> SUFFICES ASSUME spent'["patch"] = 0, NEW c \in Case, row'[c] \in Verdict
               PROVE  results'[c] = <<row'[c]>>
    BY DEF SettledShowsItsRows
  <2>1. row[c] \in Verdict => results[c] = <<row[c]>>
    BY <1>2 DEF RecordInv, SettledShowsItsRows
  <2>2. CASE UNCHANGED store
    BY <2>1, <2>2 DEF store
  <2>3. ASSUME NEW d \in Case, Reopens(d) PROVE results'[c] = <<row'[c]>>
    BY <2>1, <2>3, ConstantsAssumption DEF Reopens, RecordInv, TypeInv, TypeOK
  <2>4. ASSUME NEW d \in Case, Records(d) PROVE results'[c] = <<row'[c]>>
    BY <2>1, <2>4 DEF Records, RecordInv, TypeInv, TypeOK
  <2>5. QED
    BY <1>2, <2>2, <2>3, <2>4 DEF StoreEffect, Patches
<1>5. QED
  BY <1>1, <1>3, <1>4 DEF RecordInv

LEMMA RecordInit == Init => RecordInv
<1> SUFFICES ASSUME Init PROVE RecordInv
  OBVIOUS
<1>1. FreshInv
  BY ConstantsAssumption DEF Init, FreshInv, Busy, CaseOf, NoTask
<1>2. OneBatch /\ SettledShowsItsRows
  BY ConstantsAssumption DEF Init, OneBatch, SettledShowsItsRows
<1>3. QED
  BY <1>1, <1>2, TypeInit DEF RecordInv

\* However a case is redelivered, retried, crashed or run twice at once, its report
\* never lists a checkpoint twice.
THEOREM NeverTwice == Spec => []OneBatch
<1>1. RecordInv => OneBatch
  BY DEF RecordInv
<1>2. QED
  BY RecordInit, RecordNext, <1>1, PTL DEF Spec

\* A row that shows a verdict always stands with exactly that verdict's rows.
THEOREM StatusAgreesWithRows == Spec => []SettledShowsItsRows
<1>1. RecordInv => SettledShowsItsRows
  BY DEF RecordInv
<1>2. QED
  BY RecordInit, RecordNext, <1>1, PTL DEF Spec
=============================================================================
