---------------------------- MODULE InMemoryQueue ----------------------------
(***************************************************************************)
(* The command line's queue: its main thread submits every file, waits for *)
(* the worker threads by polling the records, and collects the results;    *)
(* with no worker it runs each file while submitting it.  The lock covers  *)
(* the table of records only: a record's fields are written without it.    *)
(***************************************************************************)
EXTENDS Naturals, FiniteSets, Sequences

CONSTANTS
  Tasks,        \* how many files; a task is named by the order of its submission
  Threads,      \* the worker threads
  max_records,
  None

Task == 1..Tasks
Main == "main"
Finished == {"completed", "failed"}

VARIABLES
  async,        \* whether there are worker threads, or the tasks run inline
  records,      \* tasks in _tasks
  status, created_at, completed_at, error,
  q,            \* the Queue of task ids
  pc, task,     \* where each thread is, and its task
  ended,        \* how many tasks have ended, the clock of created_at and completed_at
  verdict,      \* what the analysis of each task did: "none", "result" or "raised"
  runs,         \* how often each task was run
  results       \* what the command line collects

vars == <<async, records, status, created_at, completed_at, error, q, pc, task, ended, verdict, runs, results>>
fields == <<status, created_at, completed_at, error, ended, verdict, runs>>

Init ==
  /\ async \in BOOLEAN /\ records = {} /\ status = [t \in Task |-> "queued"]
  /\ created_at = [t \in Task |-> 0] /\ completed_at = [t \in Task |-> 0] /\ error = [t \in Task |-> FALSE]
  /\ q = <<>> /\ ended = 0
  /\ pc = [h \in Threads \cup {Main} |-> IF h = Main THEN "submit" ELSE "idle"]
  /\ task = [h \in Threads \cup {Main} |-> IF h = Main THEN 1 ELSE 0]
  /\ verdict = [t \in Task |-> "none"] /\ runs = [t \in Task |-> 0]
  /\ results = [t \in Task |-> None]

Goto(h, there) == pc' = [pc EXCEPT ![h] = there]

\* The order of t.completed_at or t.created_at: a record without a completion time sorts by its
\* creation, after the tasks that had ended by then and, among those created then, in their order.
Before(s, t) ==
  LET since(x) == IF completed_at[x] = 0 THEN <<created_at[x], x>> ELSE <<completed_at[x], 0>>
  IN \/ since(s)[1] < since(t)[1]
     \/ since(s)[1] = since(t)[1] /\ since(s)[2] < since(t)[2]

\* Mutant of Evict: the oldest records make room, finished or not.
EvictAny(S) == {t \in S : Cardinality({s \in S : s > t}) < max_records}

\* _evict: the finished records that ended first make room, if there are any.
Evict(S) ==
  LET finished == {t \in S : status[t] \in Finished}
      excess == IF Cardinality(S) > max_records THEN Cardinality(S) - max_records ELSE 0
  IN S \ {t \in finished : Cardinality({s \in finished : Before(s, t)}) < excess}

\* submit: the new task is stored and room is made under the lock.
Submit ==
  /\ pc[Main] = "submit"
  /\ created_at' = [created_at EXCEPT ![task[Main]] = ended]
  /\ records' = Evict(records \cup {task[Main]})
  /\ Goto(Main, IF async THEN "put" ELSE "start")
  /\ UNCHANGED <<async, q, task, status, completed_at, error, ended, verdict, runs, results>>

\* The next file, or the wait.
Onward(t) ==
  /\ task' = [task EXCEPT ![Main] = IF t < Tasks THEN t + 1 ELSE 1]
  /\ Goto(Main, IF t < Tasks THEN "submit" ELSE IF async THEN "poll" ELSE "collect")

Put ==
  /\ pc[Main] = "put"
  /\ q' = Append(q, task[Main]) /\ Onward(task[Main])
  /\ UNCHANGED <<async, records, fields, results>>

\* _worker_loop: an id whose record is gone is dropped.
Take(h) ==
  /\ pc[h] = "idle" /\ q # <<>> /\ async
  /\ q' = Tail(q) /\ task' = [task EXCEPT ![h] = Head(q)]
  /\ Goto(h, IF Head(q) \in records THEN "start" ELSE "idle")
  /\ UNCHANGED <<async, records, fields, results>>

\* _run, in the thread of the worker or of the command line.
Start(h) ==
  /\ pc[h] = "start"
  /\ status' = [status EXCEPT ![task[h]] = "running"]
  /\ runs' = [runs EXCEPT ![task[h]] = @ + 1]
  /\ Goto(h, "run")
  /\ UNCHANGED <<async, records, created_at, completed_at, error, ended, verdict, q, task, results>>

\* pipeline.analyze returns and its result is kept, or it raises.
Run(h) ==
  /\ pc[h] = "run"
  /\ \E v \in {"result", "raised"} : verdict' = [verdict EXCEPT ![task[h]] = v]
  /\ Goto(h, "settle")
  /\ UNCHANGED <<async, records, status, created_at, completed_at, error, ended, runs, q, task, results>>

Settle(h) ==
  /\ pc[h] = "settle"
  /\ status' = [status EXCEPT ![task[h]] = IF verdict[task[h]] = "result" THEN "completed" ELSE "failed"]
  /\ Goto(h, IF verdict[task[h]] = "result" THEN "stamp" ELSE "explain")
  /\ UNCHANGED <<async, records, created_at, completed_at, error, ended, verdict, runs, q, task, results>>

\* The error is stored after the status that announces it.
Explain(h) ==
  /\ pc[h] = "explain"
  /\ error' = [error EXCEPT ![task[h]] = TRUE]
  /\ Goto(h, "stamp")
  /\ UNCHANGED <<async, records, status, created_at, completed_at, ended, verdict, runs, q, task, results>>

Stamp(h) ==
  /\ pc[h] = "stamp"
  /\ ended' = ended + 1 /\ completed_at' = [completed_at EXCEPT ![task[h]] = ended + 1]
  /\ IF h = Main THEN Onward(task[h]) ELSE Goto(h, "idle") /\ UNCHANGED task
  /\ UNCHANGED <<async, records, status, created_at, error, verdict, runs, q, results>>

\* run_via_queue: it waits until no record it can see is unfinished.
Poll ==
  /\ pc[Main] = "poll" /\ \A t \in records : status[t] \in Finished
  /\ Goto(Main, "collect")
  /\ UNCHANGED <<async, records, fields, q, task, results>>

\* A task whose record is gone has no result.
Collect ==
  /\ pc[Main] = "collect"
  /\ LET t == task[Main]
     IN /\ results' = [results EXCEPT ![t] =
              IF t \in records THEN [status |-> status[t], why |-> error[t]] ELSE None]
        /\ task' = [task EXCEPT ![Main] = IF t < Tasks THEN t + 1 ELSE @]
        /\ Goto(Main, IF t < Tasks THEN "collect" ELSE "done")
  /\ UNCHANGED <<async, records, fields, q>>

Works(h) == Take(h) \/ Start(h) \/ Run(h) \/ Settle(h) \/ Explain(h) \/ Stamp(h)

Next == Submit \/ Put \/ Poll \/ Collect \/ \E h \in Threads \cup {Main} : Works(h)

Spec == Init /\ [][Next]_vars

-----------------------------------------------------------------------------
\* Every field keeps its type, and no more tasks end than there are: none has its completion time
\* written twice.
TypeOK ==
  /\ records \subseteq Task /\ q \in Seq(Task) /\ ended \in 0..Tasks
  /\ \A t \in Task : status[t] \in {"queued", "running"} \cup Finished
  /\ \A t \in Task : created_at[t] \in 0..Tasks /\ completed_at[t] \in 0..Tasks
  /\ \A h \in Threads \cup {Main} : task[h] \in 0..Tasks

\* When the command line reports, every file was analysed exactly once, though records were evicted
\* meanwhile; a reported task has ended as reported, and only finished ones are missing.
EveryFileRan ==
  pc[Main] \in {"collect", "done"} =>
    \A t \in Task :
      /\ runs[t] = 1 /\ status[t] \in Finished
      /\ results[t] # None => (results[t].status = "completed" <=> verdict[t] = "result")
=============================================================================
