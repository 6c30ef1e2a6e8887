-------------------------- MODULE ExtensionPolling --------------------------
(***************************************************************************)
(* The browser extension's service worker                                  *)
(* (extension/source/src/background/background.ts): the scans it starts,   *)
(* the two lists it keeps in chrome.storage, and the passes that poll the  *)
(* server for every unsettled scan.                                        *)
(*                                                                         *)
(* One action per stretch between two awaits.  Every list is read, changed *)
(* in memory and written back whole, so each handler carries the copy it   *)
(* read.  The worker may be torn down at any await, also between the       *)
(* pending list, the alarm and the timer that go with it; storage and      *)
(* alarms survive it, handlers and timers do not.                          *)
(***************************************************************************)
EXTENDS Naturals

CONSTANTS
  Scan,        \* scans the user starts, and their cases on the server
  Pass,        \* passes of pollPending that may run at once
  MaxSuspends, \* how often the worker is torn down
  None         \* no copy

Handler == Scan \cup Pass

VARIABLES
  server,   \* the status of each case on the server
  overdue,  \* POLL_TIMEOUT_MS has passed since the scan started
  history,  \* scanHistory: the status each scan is shown with
  pending,  \* pendingScans
  alarm,    \* the once-a-minute alarm is set
  timer,    \* the two-second timer is set
  alive,    \* the worker is running
  pc,       \* where each handler is
  copy,     \* the history a handler has read and will write back
  base,     \* the pending list a handler has read, then the one it has stored
  record,   \* the record a handler is writing: scan and status
  todo,     \* the scans a pass has not polled yet
  still,    \* stillPending of a pass
  suspends, \* how often the worker has been torn down
  stale,    \* some handler has written over what it had not read
  torn      \* the worker died between showing a scan and setting the alarm for it

lists == <<history, pending>>
local == <<copy, base, record, todo, still>>
vars == <<server, overdue, history, pending, alarm, timer, alive, pc, copy, base,
          record, todo, still, suspends, stale, torn>>

Shown == {"absent", "processing", "settled", "failed"}
NoRecord == [scan |-> None, status |-> "absent"]

\* "stored", "armed": writePending has stored the list; it has set or cleared the alarm.
ScanPC ==
  {"idle", "hist_read", "hist_write", "pend_read", "pend_write", "stored", "armed", "done", "dead"}
PassPC == {"idle", "read", "loop", "hist_read", "hist_write", "stored", "armed"}

Goto(h, to) == pc' = [pc EXCEPT ![h] = to]

-----------------------------------------------------------------------------
(* startAnalysis, after the server has accepted the case.                  *)

\* The reply carries the case as it is: 'processing', or settled from the cache.
Start(s) ==
  /\ alive
  /\ pc[s] = "idle"
  /\ \E status \in {"processing", "settled"} :
       /\ server' = [server EXCEPT ![s] = status]
       /\ record' = [record EXCEPT ![s] = [scan |-> s, status |-> status]]
  /\ Goto(s, "hist_read")
  /\ UNCHANGED <<overdue, lists, alarm, timer, alive, copy, base, todo, still, suspends, stale, torn>>

\* trackScan: readPending.
PendRead(s) ==
  /\ pc[s] = "pend_read"
  /\ base' = [base EXCEPT ![s] = pending]
  /\ Goto(s, "pend_write")
  /\ UNCHANGED <<server, overdue, lists, alarm, timer, alive, copy, record, todo, still, suspends, stale, torn>>

\* writePending up to its await: the list is stored.
Store(h, list) ==
  /\ pending' = list
  /\ stale' = (stale \/ pending # base[h])
  /\ base' = [base EXCEPT ![h] = list]
  /\ Goto(h, "stored")

Track(s) ==
  /\ pc[s] = "pend_write"
  /\ Store(s, base[s] \cup {s})
  /\ UNCHANGED <<server, overdue, history, alarm, timer, alive, copy, record, todo, still, suspends, torn>>

\* The rest of writePending.  Replies of the storage need not come in the order of the
\* writes.  A pass that stored nothing ends here.
SetAlarm(h) ==
  /\ pc[h] = "stored"
  /\ alarm' = (base[h] # {})
  /\ base' = [base EXCEPT ![h] = {}]
  /\ Goto(h, IF h \in Pass /\ base[h] = {} THEN "idle" ELSE "armed")
  /\ UNCHANGED <<server, overdue, lists, timer, alive, copy, record, todo, still, suspends, stale, torn>>

\* The caller of writePending re-arms the timer while there is something left to poll.
ScheduleTick(h) ==
  /\ pc[h] = "armed"
  /\ timer' = TRUE
  /\ Goto(h, IF h \in Pass THEN "idle" ELSE "done")
  /\ UNCHANGED <<server, overdue, lists, alarm, alive, local, suspends, stale, torn>>

-----------------------------------------------------------------------------
(* upsertRecord, by either kind of handler.                                *)

HistRead(h) ==
  /\ pc[h] = "hist_read"
  /\ copy' = [copy EXCEPT ![h] = history]
  /\ Goto(h, "hist_write")
  /\ UNCHANGED <<server, overdue, lists, alarm, timer, alive, base, record, todo, still, suspends, stale, torn>>

\* The write is stale if the history has changed since it was read, or if an
\* older answer of the server replaces a newer one.
HistWrite(h) ==
  LET s == record[h].scan
      status == record[h].status
  IN
  /\ pc[h] = "hist_write"
  /\ history' = [copy[h] EXCEPT ![s] = status]
  /\ stale' = (stale \/ history # copy[h] \/ (status = "processing" /\ history[s] \in {"settled", "failed"}))
  /\ copy' = [copy EXCEPT ![h] = None]
  /\ record' = [record EXCEPT ![h] = NoRecord]
  /\ Goto(h, IF h \in Pass THEN "loop" ELSE "pend_read")
  /\ UNCHANGED <<server, overdue, pending, alarm, timer, alive, base, todo, still, suspends, torn>>

-----------------------------------------------------------------------------
(* pollPending.                                                            *)

\* The timer fires; a pass may still be running.
TimerFires(p) ==
  /\ alive /\ timer
  /\ pc[p] = "idle"
  /\ timer' = FALSE
  /\ Goto(p, "read")
  /\ UNCHANGED <<server, overdue, lists, alarm, alive, local, suspends, stale, torn>>

\* The alarm fires in a running worker.
AlarmFires(p) ==
  /\ alive /\ alarm
  /\ pc[p] = "idle"
  /\ Goto(p, "read")
  /\ UNCHANGED <<server, overdue, lists, alarm, timer, alive, local, suspends, stale, torn>>

\* An event starts the worker, and the script polls once.  If it is the alarm,
\* AlarmFires polls once more.
Wakes(p) ==
  /\ ~alive
  /\ Goto(p, "read")
  /\ alive' = TRUE
  /\ UNCHANGED <<server, overdue, lists, alarm, timer, local, suspends, stale, torn>>

PassRead(p) ==
  /\ pc[p] = "read"
  /\ base' = [base EXCEPT ![p] = pending]
  /\ todo' = [todo EXCEPT ![p] = pending]
  /\ Goto(p, "loop")
  /\ UNCHANGED <<server, overdue, lists, alarm, timer, alive, copy, record, still, suspends, stale, torn>>

Done(p, s) == todo' = [todo EXCEPT ![p] = @ \ {s}]
Keep(p, s) == still' = [still EXCEPT ![p] = @ \cup {s}]

\* Mutants of TimesOut: a status nobody knows; the scan stays queued.
TimesOutUnknown(p, s) ==
  /\ overdue[s]
  /\ record' = [record EXCEPT ![p] = [scan |-> s, status |-> "timeout"]]
  /\ Done(p, s)
  /\ Goto(p, "hist_read")
  /\ UNCHANGED still
TimesOutKept(p, s) ==
  /\ overdue[s]
  /\ record' = [record EXCEPT ![p] = [scan |-> s, status |-> "failed"]]
  /\ Done(p, s)
  /\ Keep(p, s)
  /\ Goto(p, "hist_read")

TimesOut(p, s) ==
  /\ overdue[s]
  /\ record' = [record EXCEPT ![p] = [scan |-> s, status |-> "failed"]]
  /\ Done(p, s)
  /\ Goto(p, "hist_read")
  /\ UNCHANGED still

\* The server answers; its answer is written after two more awaits.  The check of
\* the clock before the request is part of the step.
Answered(p, s) ==
  /\ ~overdue[s]
  /\ record' = [record EXCEPT ![p] = [scan |-> s, status |-> server[s]]]
  /\ Done(p, s)
  /\ IF server[s] = "processing" THEN Keep(p, s) ELSE UNCHANGED still
  /\ Goto(p, "hist_read")

\* Mutants of Unanswered: a network blip drops the scan, or fails it.
UnansweredDrops(p, s) ==
  /\ ~overdue[s]
  /\ Done(p, s)
  /\ UNCHANGED <<record, still, pc>>
UnansweredFails(p, s) ==
  /\ ~overdue[s]
  /\ record' = [record EXCEPT ![p] = [scan |-> s, status |-> "failed"]]
  /\ Done(p, s)
  /\ Goto(p, "hist_read")
  /\ UNCHANGED still

\* A network blip: the scan stays queued.
Unanswered(p, s) ==
  /\ ~overdue[s]
  /\ Done(p, s)
  /\ Keep(p, s)
  /\ UNCHANGED <<record, pc>>

Poll(p) ==
  /\ pc[p] = "loop"
  /\ \E s \in todo[p] : TimesOut(p, s) \/ Answered(p, s) \/ Unanswered(p, s)
  /\ UNCHANGED <<server, overdue, lists, alarm, timer, alive, copy, base, suspends, stale, torn>>

PassEnds(p) ==
  /\ pc[p] = "loop"
  /\ todo[p] = {}
  /\ Store(p, still[p])
  /\ still' = [still EXCEPT ![p] = {}]
  /\ UNCHANGED <<server, overdue, history, alarm, timer, alive, copy, record, todo, suspends, torn>>

-----------------------------------------------------------------------------
(* The environment.                                                        *)

ServerSettles(s) ==
  /\ server[s] = "processing"
  /\ server' = [server EXCEPT ![s] = "settled"]
  /\ UNCHANGED <<overdue, lists, alarm, timer, alive, pc, local, suspends, stale, torn>>

TimePasses(s) ==
  /\ server[s] # "absent"
  /\ ~overdue[s]
  /\ overdue' = [overdue EXCEPT ![s] = TRUE]
  /\ UNCHANGED <<server, lists, alarm, timer, alive, pc, local, suspends, stale, torn>>

\* A scan is shown and not yet in the list, or the list stands without its alarm.
Unsafe == (\E s \in Scan : pc[s] \in {"pend_read", "pend_write"}) \/ (pending # {} /\ ~alarm)

\* The browser tears the worker down.
Suspend ==
  /\ alive
  /\ suspends < MaxSuspends
  /\ suspends' = suspends + 1
  /\ alive' = FALSE
  /\ timer' = FALSE
  /\ pc' = [h \in Handler |-> IF h \in Pass THEN "idle"
                              ELSE IF pc[h] \in {"idle", "done"} THEN pc[h] ELSE "dead"]
  /\ torn' = (torn \/ Unsafe)
  /\ copy' = [h \in Handler |-> None]
  /\ record' = [h \in Handler |-> NoRecord]
  /\ base' = [h \in Handler |-> {}]
  /\ todo' = [p \in Pass |-> {}]
  /\ still' = [p \in Pass |-> {}]
  /\ UNCHANGED <<server, overdue, lists, alarm, stale>>

Init ==
  /\ server = [s \in Scan |-> "absent"]
  /\ overdue = [s \in Scan |-> FALSE]
  /\ history = [s \in Scan |-> "absent"]
  /\ pending = {}
  /\ alarm = FALSE /\ timer = FALSE /\ alive = TRUE
  /\ pc = [h \in Handler |-> "idle"]
  /\ copy = [h \in Handler |-> None]
  /\ record = [h \in Handler |-> NoRecord]
  /\ base = [h \in Handler |-> {}]
  /\ todo = [p \in Pass |-> {}]
  /\ still = [p \in Pass |-> {}]
  /\ suspends = 0 /\ stale = FALSE /\ torn = FALSE

ScanStep(s) ==
  PendRead(s) \/ Track(s) \/ SetAlarm(s) \/ ScheduleTick(s) \/ HistRead(s) \/ HistWrite(s)
PassStep(p) ==
  \/ PassRead(p) \/ Poll(p) \/ PassEnds(p) \/ SetAlarm(p) \/ ScheduleTick(p)
  \/ HistRead(p) \/ HistWrite(p)

Next ==
  \/ \E s \in Scan : Start(s) \/ ScanStep(s) \/ ServerSettles(s) \/ TimePasses(s)
  \/ \E p \in Pass : TimerFires(p) \/ AlarmFires(p) \/ Wakes(p) \/ PassStep(p)
  \/ Suspend

Spec == Init /\ [][Next]_vars

\* A running worker resumes its handlers and fires its timer, a set alarm starts a
\* worker, and time passes.  No answer of the server is forced, no scan started, no
\* worker torn down.
Fairness ==
  /\ \A s \in Scan : WF_vars(ScanStep(s)) /\ WF_vars(TimePasses(s))
  /\ \A p \in Pass : WF_vars(PassStep(p))
  /\ WF_vars(\E p \in Pass : TimerFires(p))
  /\ WF_vars(alarm /\ \E p \in Pass : Wakes(p))

FairSpec == Spec /\ Fairness

-----------------------------------------------------------------------------
(* Properties.                                                             *)

\* Type invariant.
TypeOK ==
  /\ server \in [Scan -> {"absent", "processing", "settled"}]
  /\ overdue \in [Scan -> BOOLEAN]
  /\ history \in [Scan -> Shown]
  /\ pending \subseteq Scan
  /\ alarm \in BOOLEAN /\ timer \in BOOLEAN /\ alive \in BOOLEAN
  /\ \A s \in Scan : pc[s] \in ScanPC
  /\ \A p \in Pass : pc[p] \in PassPC
  /\ copy \in [Handler -> [Scan -> Shown] \cup {None}]
  /\ base \in [Handler -> SUBSET Scan]
  /\ record \in [Handler -> [scan : Scan \cup {None}, status : Shown]]
  /\ todo \in [Pass -> SUBSET Scan]
  /\ still \in [Pass -> SUBSET Scan]
  /\ suspends \in Nat /\ stale \in BOOLEAN /\ torn \in BOOLEAN

\* The extension never shows an outcome the server has not given, nor gives up on a
\* scan before its time, whatever handlers overwrite each other.
OutcomesAreReal ==
  \A s \in Scan :
    /\ history[s] = "settled" => server[s] = "settled"
    /\ history[s] = "failed" => overdue[s]

\* Every scan shown as processing gets an outcome in the end ...
ShownScansSettle == \A s \in Scan : history[s] = "processing" ~> history[s] # "processing"

\* ... unless a handler overwrote what it had not read, or the worker was torn down
\* after it showed the scan and before the alarm stood for the list: no other
\* interleaving, network failure or suspension loses one.
ScansSettle ==
  \A s \in Scan : history[s] = "processing" ~> (history[s] # "processing" \/ stale \/ torn)

\* "A case that never settles shouldn't be polled forever": the pending list and the
\* alarm are cleared in the end, whatever overlaps, unless the worker was torn down
\* before the alarm stood for the list, which then stays.
PollingStops == <>[](pending = {} /\ ~alarm) \/ <>torn
=============================================================================
