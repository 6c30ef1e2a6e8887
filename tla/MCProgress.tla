----------------------------- MODULE MCProgress -----------------------------
(***************************************************************************)
(* Small instances, side by side, of the parts that must get somewhere:    *)
(* the training runs (Training), the extension's service worker            *)
(* (ExtensionPolling), the console and its event stream (LiveCase), a      *)
(* browser whose event streams leak their slots (StreamSlots), and the     *)
(* command line (InMemoryQueue).  They share no state; a behaviour         *)
(* explores one of the Parts.                                              *)
(***************************************************************************)
EXTENDS Training, FiniteSets

CONSTANTS
  Parts, d1, d2,
  Scan, Pass, MaxSuspends,
  Stream, Process, Home, MAX_CONCURRENT_STREAMS, TTL, LIFETIME, Budget,
  Absent, Never,
  Script, MaxOpens, MaxLost,
  Tasks, Threads, max_records,
  c1, p1, p2, s1, s2, h1, h2

VARIABLES
  part,
  server, overdue, history, pending, alarm, timer, alive, handler, copy, base, record, todo,
  still, suspends, stale, torn,
  count, ttl, slotPc, seen, age, spent, debt,
  row, job, wpc, step, subscribed, inbox, gap, spc, message, live, source, page, limited,
  reply, opens, lost,
  async, records, status, created_at, completed_at, error, q, thread, task, ended, verdict, runs, collected

scanVars ==
  <<server, overdue, history, pending, alarm, timer, alive, handler, copy, base, record, todo,
    still, suspends, stale, torn>>
slotVars == <<count, ttl, slotPc, seen, age, spent, debt>>
liveVars ==
  <<row, job, wpc, step, subscribed, inbox, gap, spc, message, live, source, page, limited,
    reply, opens, lost>>
queueVars ==
  <<async, records, status, created_at, completed_at, error, q, thread, task, ended, verdict, runs, collected>>
progressVars == <<part, vars, scanVars, slotVars, liveVars, queueVars>>

Polling == INSTANCE ExtensionPolling WITH pc <- handler
Slots == INSTANCE StreamSlots WITH pc <- slotPc
Live == INSTANCE LiveCase WITH record <- job, faults <- lost, MaxFaults <- MaxLost
Queue == INSTANCE InMemoryQueue WITH pc <- thread, results <- collected

\* What the proofs need of the constants.
\* A case goes through finitely many transitions; MaxOpens and MaxLost bound connections and losses.
ASSUME ScriptAssumption ==
  (\A w \in DOMAIN Script : Len(Script[w]) \in Nat) /\ MaxOpens \in Nat /\ MaxLost \in Nat

\* What StreamSlots assumes of its streams, expiries and failures.
ASSUME StreamAssumption == Slots!SlotsAssumption

\* There is a file to analyse, and the main thread is no worker thread.
ASSUME FileAssumption == Tasks \in Nat \ {0} /\ "main" \notin Threads

\* A handler that starts a scan is no polling pass.
ASSUME HandlerAssumption == Scan \cap Pass = {}

\* Two datasets.
Curriculum == <<d1, d2>>

\* The two streams are served by two processes.
TwoHomes == [s \in Stream |-> IF s = s1 THEN h1 ELSE h2]
AnyFault == [f \in {"acquire", "release", "resend", "lapse", "kill", "abandon"} |-> 1]

\* The transitions of a case that succeeds.
Lines == [api |-> <<"queued">>, worker |-> <<"running", "succeeded">>]

ProgressInit ==
  /\ part \in Parts
  /\ Init /\ Polling!Init /\ Slots!Init /\ Live!Init /\ Queue!Init
  /\ part # "queue" => async

\* Two failures of the streams at most, of any kinds.
Rare == Cardinality({f \in Slots!Fault : spent'[f] > 0}) <= 2

\* A step of one part, the others at rest.
Trains(A) == part = "training" /\ A /\ UNCHANGED <<part, scanVars, slotVars, liveVars, queueVars>>
Scans(A) == part = "extension" /\ A /\ UNCHANGED <<part, vars, slotVars, liveVars, queueVars>>
Serves(A) == part = "streams" /\ A /\ Rare /\ UNCHANGED <<part, vars, scanVars, liveVars, queueVars>>
Reaches(A) == part = "console" /\ A /\ UNCHANGED <<part, vars, scanVars, slotVars, queueVars>>
Waits(A) == part = "queue" /\ A /\ UNCHANGED <<part, vars, scanVars, slotVars, liveVars>>

ProgressNext ==
  \/ Trains(Next) \/ Scans(Polling!Next) \/ Serves(Slots!Next)
  \/ Reaches(Live!Next) \/ Waits(Queue!Next)

\* The fairness of each part, for the one explored.
ProgressFairness ==
  /\ WF_progressVars(Trains(Step))
  /\ \A s \in Scan : WF_progressVars(Scans(Polling!ScanStep(s)))
  /\ \A s \in Scan : WF_progressVars(Scans(Polling!TimePasses(s)))
  /\ \A p \in Pass : WF_progressVars(Scans(Polling!PassStep(p)))
  /\ WF_progressVars(Scans(\E p \in Pass : Polling!TimerFires(p)))
  /\ WF_progressVars(Scans(alarm /\ \E p \in Pass : Polling!Wakes(p)))
  /\ SF_progressVars(Serves(Slots!Tick))
  /\ \A s \in Stream : WF_progressVars(Serves(Slots!Proceed(s)))
  /\ WF_progressVars(Reaches(Live!Writes))
  /\ WF_progressVars(Reaches(Live!Poll))
  /\ WF_progressVars(Reaches(Live!Answer \/ Live!Arrives))

ProgressSpec == ProgressInit /\ [][ProgressNext]_progressVars /\ ProgressFairness

\* The type invariants of all parts.
TypesOK == TypeOK /\ Polling!TypeOK /\ Slots!TypeOK /\ Live!TypeOK /\ Queue!TypeOK

\* The properties of the parts, stated there.
OutcomesAreReal == Polling!OutcomesAreReal
ScansSettle == Polling!ScansSettle
PollingStops == Polling!PollingStops
IdleHeals == part = "streams" => Slots!IdleHeals
StreamShowsRecord == Live!StreamShowsRecord
VerdictSeen == Live!VerdictSeen
EveryFileRan == Queue!EveryFileRan
=============================================================================
