-------------------------- MODULE ProgressProofs --------------------------
(***************************************************************************)
(* Theorems about the console and its event stream (LiveCase), the service *)
(* worker of the extension (ExtensionPolling) and the command line with    *)
(* its queue (InMemoryQueue), for any transitions and losses, any scans,   *)
(* passes and suspensions, and any number of files, threads and kept       *)
(* records.                                                                *)
(*                                                                         *)
(* At the end, what is proved of each part, with the training runs         *)
(* (TrainingProofs) and the streams (StreamSlotsProofs), is proved of the  *)
(* specification that composes them (MCProgress).                          *)
(***************************************************************************)
EXTENDS MCProgress, TrainingProofs, FiniteSetTheorems

(***************************************************************************)
(* The console's event stream.                                             *)
(***************************************************************************)
States == UNION {{Script[w][i] : i \in 1..Len(Script[w])} : w \in Live!Writer}

\* A publication under way is one of the script; a stream past its subscription is subscribed.
LiveTypes ==
  /\ wpc \in [Live!Writer -> {"write", "publish"}] /\ step \in [Live!Writer -> Nat \ {0}]
  /\ \A w \in Live!Writer : wpc[w] = "publish" => step[w] <= Len(Script[w])
  /\ inbox \in Seq(States)
  /\ spc \in {"snapshot", "loop", "forward"} => subscribed

LiveInv == LiveTypes /\ StreamShowsRecord

\* Before the first connection nothing is shown.
LEMMA LiveInitial ==
  ASSUME Live!Init
  PROVE  LiveInv
<1>1. LiveTypes
  BY DEF Live!Init, LiveTypes
<1>2. StreamShowsRecord
  BY DEF Live!Init, StreamShowsRecord, Live!StreamShowsRecord
<1>3. QED
  BY <1>1, <1>2 DEF LiveInv

\* A transition committed or published reaches the inboxes of the streams that are subscribed, and
\* leaves what was shown.
LEMMA WritesKeep ==
  ASSUME LiveInv, Live!Writes
  PROVE  LiveInv'
<1> USE DEF Live!channel, Live!stream, Live!console, LiveInv
<1>1. PICK w \in Live!Writer : Live!Commit(w) \/ Live!Write(w) \/ Live!Publish(w)
  BY DEF Live!Writes
<1>2. CASE Live!Commit(w)
  BY <1>2 DEF Live!Commit, LiveTypes, StreamShowsRecord, Live!StreamShowsRecord
<1>3. CASE Live!Write(w)
  <2>1. /\ wpc' = [wpc EXCEPT ![w] = "publish"] /\ step[w] <= Len(Script[w])
        /\ UNCHANGED <<step, subscribed, inbox, gap, spc, live>>
    BY <1>3 DEF Live!Write
  <2>2. wpc'[w] = "publish" /\ LiveTypes'
    BY <2>1 DEF LiveTypes
  <2>3. QED
    BY <2>2 DEF StreamShowsRecord, Live!StreamShowsRecord
<1>4. CASE Live!Publish(w)
  <2> DEFINE said == Script[w][step[w]]
  <2>1. /\ wpc[w] = "publish" /\ wpc' = [wpc EXCEPT ![w] = "write"] /\ step' = [step EXCEPT ![w] = @ + 1]
        /\ UNCHANGED <<job, subscribed, spc, live>>
        /\ \/ inbox' = (IF subscribed THEN Append(inbox, said) ELSE inbox) /\ gap' = gap
           \/ inbox' = inbox /\ gap'
    BY <1>4 DEF Live!Publish
  <2>2. said \in States
    <3>1. step[w] \in 1..Len(Script[w])
      BY <2>1, ScriptAssumption DEF LiveTypes, Live!Writer
    <3>2. QED
      BY <3>1 DEF States
  <2> HIDE DEF said
  <2>3. inbox' \in Seq(States)
    BY <2>1, <2>2 DEF LiveTypes
  <2>4. LiveTypes'
    BY <2>1, <2>3 DEF LiveTypes
  <2>5. ASSUME spc = "loop", inbox' = <<>>, ~gap'
        PROVE  FALSE
    <3>1. inbox' = Append(inbox, said) /\ inbox \in Seq(States)
      BY <2>1, <2>5 DEF LiveTypes
    <3>2. Len(inbox') = Len(inbox) + 1 /\ Len(inbox) \in Nat
      BY <3>1, <2>2
    <3>3. Len(inbox') = 0
      BY <2>5
    <3>4. QED
      BY <3>2, <3>3
  <2>6. StreamShowsRecord'
    BY <2>1, <2>5 DEF StreamShowsRecord, Live!StreamShowsRecord
  <2>7. QED
    BY <2>4, <2>6
<1>5. QED
  BY <1>1, <1>2, <1>3, <1>4

\* Every step of the writers, the stream and the console keeps the invariant.
LEMMA LiveNext ==
  ASSUME LiveInv, [Live!Next]_Live!vars
  PROVE  LiveInv'
<1> USE DEF Live!writers, Live!channel, Live!stream, Live!console, LiveInv, LiveTypes, StreamShowsRecord,
            Live!StreamShowsRecord
<1>1. CASE Live!Open
  BY <1>1 DEF Live!Open
<1>2. CASE Live!SubscribeFails \/ Live!StreamEnds
  <2>1. spc' = "closed" /\ inbox' = <<>> /\ UNCHANGED <<wpc, step>>
    BY <1>2 DEF Live!SubscribeFails, Live!StreamEnds, Live!Hangup
  <2>2. <<>> \in Seq(States)
    OBVIOUS
  <2>3. QED
    BY <2>1, <2>2
<1>3. CASE Live!Subscribe
  BY <1>3 DEF Live!Subscribe
<1>4. CASE Live!Snapshot
  BY <1>4 DEF Live!Snapshot
<1>5. CASE Live!GetMessage
  BY <1>5 DEF Live!GetMessage
<1>6. CASE Live!Forward
  BY <1>6 DEF Live!Forward
<1>7. CASE Live!Poll \/ Live!Answer \/ Live!Arrives \/ Live!FetchFails
  BY <1>7 DEF Live!Poll, Live!Answer, Live!Arrives, Live!FetchFails
<1>8. CASE UNCHANGED Live!vars
  BY <1>8 DEF Live!vars
<1>9. QED
  BY <1>1, <1>2, <1>3, <1>4, <1>5, <1>6, <1>7, <1>8, WritesKeep DEF Live!Next, Live!Streams

\* For any transitions of the case and any number of lost messages and connections: a stream that has
\* nothing left to forward shows the state of the job record, wherever the connection fell among the
\* transitions, unless a publication or a read of the record was lost since.
THEOREM StreamsShowRecords == Live!Spec => []StreamShowsRecord
<1>1. LiveInv => StreamShowsRecord
  BY DEF LiveInv
<1>2. QED
  BY <1>1, LiveInitial, LiveNext, PTL DEF Live!Spec

-----------------------------------------------------------------------------
(***************************************************************************)
(* The extension's service worker.                                         *)
(***************************************************************************)
\* A status is real for a scan if the server or the clock gives it.
Real(status_, s) == (status_ = "settled" => server[s] = "settled") /\ (status_ = "failed" => overdue[s])

ScanTypes ==
  /\ server \in [Scan -> {"absent", "processing", "settled"}] /\ overdue \in [Scan -> BOOLEAN]
  /\ history \in [Scan -> Polling!Shown] /\ pending \subseteq Scan
  /\ handler \in [Polling!Handler -> Polling!ScanPC \cup Polling!PassPC]
  /\ DOMAIN copy = Polling!Handler
  /\ \A h \in Polling!Handler : handler[h] = "hist_write" => copy[h] \in [Scan -> Polling!Shown]
  /\ base \in [Polling!Handler -> SUBSET Scan]
  /\ record \in [Polling!Handler -> [scan : Scan \cup {None}, status : Polling!Shown]]
  /\ todo \in [Pass -> SUBSET Scan] /\ still \in [Pass -> SUBSET Scan]

\* What handlers carry over an await was real when they read it, and stays so: the server never
\* takes a verdict back, the clock never runs back, and a scan is started once.
CarriedInv ==
  /\ \A s \in Scan : handler[s] = "idle" => server[s] = "absent"
  /\ \A h \in Polling!Handler : handler[h] = "hist_write" => \A s \in Scan : Real(copy[h][s], s)
  /\ \A h \in Polling!Handler : record[h].scan \in Scan => Real(record[h].status, record[h].scan)

ScanInv == ScanTypes /\ CarriedInv /\ OutcomesAreReal

\* At first there are no scans, and no handler carries anything.
LEMMA ScanInitial ==
  ASSUME Polling!Init
  PROVE  ScanInv
<1>1. ScanTypes
  BY DEF Polling!Init, ScanTypes, Polling!Handler, Polling!ScanPC, Polling!PassPC, Polling!Shown, Polling!NoRecord
<1>2. CarriedInv
  BY DEF Polling!Init, CarriedInv, Real, Polling!NoRecord, Polling!Handler
<1>3. OutcomesAreReal
  BY DEF Polling!Init, OutcomesAreReal, Polling!OutcomesAreReal
<1>4. QED
  BY <1>1, <1>2, <1>3 DEF ScanInv

\* What is real stays so: the server never takes a verdict back, and a deadline that has passed has
\* passed for good.
LEMMA RealStays ==
  ASSUME ScanInv, [Polling!Next]_Polling!vars, NEW s \in Scan
  PROVE  /\ server[s] = "settled" => server'[s] = "settled"
         /\ overdue[s] => overdue'[s]
<1> USE DEF ScanInv, ScanTypes
<1>1. ASSUME NEW r \in Scan, Polling!Start(r)
      PROVE  /\ server[s] = "settled" => server'[s] = "settled"
             /\ overdue[s] => overdue'[s]
  BY <1>1 DEF Polling!Start, CarriedInv
<1>2. ASSUME NEW r \in Scan, Polling!ServerSettles(r) \/ Polling!TimePasses(r)
      PROVE  /\ server[s] = "settled" => server'[s] = "settled"
             /\ overdue[s] => overdue'[s]
  BY <1>2 DEF Polling!ServerSettles, Polling!TimePasses
<1>3. CASE UNCHANGED <<server, overdue>>
  BY <1>3
<1>4. QED
  BY <1>1, <1>2, <1>3 DEF Polling!Next, Polling!vars, Polling!ScanStep, Polling!PassStep, Polling!PendRead,
    Polling!Track, Polling!HistRead, Polling!HistWrite, Polling!TimerFires, Polling!AlarmFires, Polling!Wakes,
    Polling!PassRead, Polling!Poll, Polling!PassEnds, Polling!SetAlarm, Polling!ScheduleTick, Polling!Suspend

\* Real, after the step.
Still(x, s) == (x = "settled" => server'[s] = "settled") /\ (x = "failed" => overdue'[s])

\* A step keeps the invariant if what it writes to the history, or takes along over an await, was real
\* when it was read.
LEMMA RecordStep ==
  ASSUME ScanInv, [Polling!Next]_Polling!vars, ScanTypes',
         \A s \in Scan : handler'[s] = "idle" => server'[s] = "absent",
         \A s \in Scan : history'[s] = history[s] \/ Still(history'[s], s),
         \A h \in Polling!Handler :
           /\ handler'[h] = "hist_write" =>
                (copy'[h] = copy[h] /\ handler[h] = "hist_write") \/ copy'[h] = history
           /\ record'[h].scan \in Scan =>
                record'[h] = record[h] \/ Still(record'[h].status, record'[h].scan)
  PROVE  ScanInv'
<1>1. \A s \in Scan : /\ server[s] = "settled" => server'[s] = "settled"
                      /\ overdue[s] => overdue'[s]
  BY RealStays
<1>2. \A s \in Scan : Real(history[s], s)
  BY DEF ScanInv, OutcomesAreReal, Polling!OutcomesAreReal, Real
<1>3. \A s \in Scan : \A x : Real(x, s) => Still(x, s)
  BY <1>1 DEF Real, Still
<1>4. OutcomesAreReal'
  <2>1. \A s \in Scan : Still(history'[s], s)
    BY <1>2, <1>3
  <2>2. QED
    BY <2>1 DEF OutcomesAreReal, Polling!OutcomesAreReal, Still
<1>5. CarriedInv'
  <2>1. ASSUME NEW h \in Polling!Handler, handler'[h] = "hist_write", NEW s \in Scan
        PROVE  Still(copy'[h][s], s)
    BY <2>1, <1>2, <1>3 DEF ScanInv, CarriedInv
  <2>2. ASSUME NEW h \in Polling!Handler, record'[h].scan \in Scan
        PROVE  Still(record'[h].status, record'[h].scan)
    BY <2>2, <1>3 DEF ScanInv, CarriedInv
  <2>3. QED
    BY <2>1, <2>2 DEF CarriedInv, Still, Real
<1>6. QED
  BY <1>4, <1>5 DEF ScanInv

\* The steps that leave the history and the records alone keep the invariant.
LEMMA ListStep ==
  ASSUME ScanInv, [Polling!Next]_Polling!vars, ScanTypes', UNCHANGED <<history, record>>,
         \A s \in Scan : server'[s] # server[s] => handler[s] # "idle",
         \A h \in Polling!Handler : handler'[h] = handler[h] \/ handler'[h] \notin {"idle", "hist_write"} \/ h \notin Scan,
         \A h \in Polling!Handler : handler'[h] = "hist_write" => handler[h] = "hist_write" /\ copy'[h] = copy[h]
  PROVE  ScanInv'
<1>1. \A s \in Scan : handler'[s] = "idle" => server'[s] = "absent"
  BY DEF ScanInv, CarriedInv, Polling!Handler
<1>2. QED
  BY <1>1, RecordStep

\* A scan starts with the status the server answered.
LEMMA StartStep ==
  ASSUME ScanInv, NEW s \in Scan, Polling!Start(s)
  PROVE  ScanInv'
<1> USE DEF Polling!Goto, Polling!lists, Polling!Handler
<1>0. PICK st \in {"processing", "settled"} :
        /\ server' = [server EXCEPT ![s] = st] /\ record' = [record EXCEPT ![s] = [scan |-> s, status |-> st]]
        /\ handler' = [handler EXCEPT ![s] = "hist_read"] /\ handler[s] = "idle"
        /\ UNCHANGED <<overdue, history, pending, copy, base, todo, still>>
  BY DEF Polling!Start
<1>1. ScanTypes'
  BY <1>0 DEF ScanInv, ScanTypes, Polling!Shown, Polling!ScanPC
<1>2. /\ record'[s] = [scan |-> s, status |-> st] /\ server'[s] = st /\ handler'[s] = "hist_read"
      /\ \A h \in Polling!Handler : h # s => record'[h] = record[h] /\ handler'[h] = handler[h]
      /\ \A r \in Scan : r # s => server'[r] = server[r]
  BY <1>0 DEF ScanInv, ScanTypes
<1>3. record'[s].scan = s /\ Still(record'[s].status, s)
  BY <1>2, <1>0 DEF Still
<1>4. Polling!Next
  BY DEF Polling!Next
<1>5. \A r \in Scan : handler'[r] = "idle" => server'[r] = "absent"
  BY <1>2 DEF ScanInv, CarriedInv
<1>6. \A h \in Polling!Handler :
           /\ handler'[h] = "hist_write" =>
                (copy'[h] = copy[h] /\ handler[h] = "hist_write") \/ copy'[h] = history
           /\ record'[h].scan \in Scan =>
                record'[h] = record[h] \/ Still(record'[h].status, record'[h].scan)
  BY <1>0, <1>2, <1>3
<1>7. \A r \in Scan : history'[r] = history[r]
  BY <1>0
<1>8. QED
  BY <1>1, <1>4, <1>5, <1>6, <1>7, RecordStep

\* A handler takes along the history as it is.
LEMMA HistReadStep ==
  ASSUME ScanInv, NEW h \in Polling!Handler, Polling!HistRead(h), Polling!Next
  PROVE  ScanInv'
<1> USE DEF Polling!Goto, Polling!lists
<1>0. /\ copy' = [copy EXCEPT ![h] = history] /\ handler' = [handler EXCEPT ![h] = "hist_write"]
      /\ UNCHANGED <<server, overdue, history, pending, base, record, todo, still>>
  BY DEF Polling!HistRead
<1>2. /\ copy'[h] = history /\ handler'[h] = "hist_write"
      /\ \A g \in Polling!Handler : g # h => copy'[g] = copy[g] /\ handler'[g] = handler[g]
  BY <1>0 DEF ScanInv, ScanTypes
<1>1. ScanTypes'
  BY <1>0, <1>2 DEF ScanInv, ScanTypes, Polling!ScanPC
<1>3. \A s \in Scan : handler'[s] = "idle" => server'[s] = "absent"
  BY <1>0, <1>2 DEF ScanInv, CarriedInv, Polling!Handler
<1>4. QED
  BY <1>0, <1>1, <1>2, <1>3, RecordStep

\* A handler writes back its copy of the history with its own record in it; both were real when they
\* were read.
LEMMA HistWriteStep ==
  ASSUME ScanInv, NEW h \in Polling!Handler, Polling!HistWrite(h), Polling!Next
  PROVE  ScanInv'
<1> USE DEF Polling!Goto, Polling!lists
<1> DEFINE r == record[h].scan
           st == record[h].status
<1>0. /\ history' = [copy[h] EXCEPT ![r] = st] /\ handler[h] = "hist_write"
      /\ handler' = [handler EXCEPT ![h] = IF h \in Pass THEN "loop" ELSE "pend_read"]
      /\ copy' = [copy EXCEPT ![h] = None]
      /\ record' = [record EXCEPT ![h] = Polling!NoRecord]
      /\ UNCHANGED <<server, overdue, pending, base, todo, still>>
  BY DEF Polling!HistWrite
<1>t. /\ copy[h] \in [Scan -> Polling!Shown] /\ st \in Polling!Shown
      /\ \A s \in Scan : Real(copy[h][s], s)
      /\ r \in Scan => Real(st, r)
  BY <1>0 DEF ScanInv, ScanTypes, CarriedInv
<1>n. /\ Polling!NoRecord \in [scan : Scan \cup {None}, status : Polling!Shown]
      /\ Polling!NoRecord.status = "absent"
  BY DEF Polling!NoRecord, Polling!Shown
<1> HIDE DEF r, st
<1>2. /\ handler'[h] \notin {"idle", "hist_write"} /\ record'[h] = Polling!NoRecord
      /\ \A g \in Polling!Handler : g # h => record'[g] = record[g] /\ copy'[g] = copy[g] /\ handler'[g] = handler[g]
  BY <1>0 DEF ScanInv, ScanTypes
<1>h. history' \in [Scan -> Polling!Shown]
  BY <1>0, <1>t
<1>k. handler' \in [Polling!Handler -> Polling!ScanPC \cup Polling!PassPC]
  BY <1>0 DEF ScanInv, ScanTypes, Polling!ScanPC, Polling!PassPC
<1>r. record' \in [Polling!Handler -> [scan : Scan \cup {None}, status : Polling!Shown]]
  BY <1>0, <1>n DEF ScanInv, ScanTypes
<1>1. ScanTypes'
  <2>1. \A g \in Polling!Handler : handler'[g] = "hist_write" => copy'[g] \in [Scan -> Polling!Shown]
    BY <1>2 DEF ScanInv, ScanTypes
  <2>2. QED
    BY <1>0, <1>h, <1>k, <1>r, <2>1 DEF ScanInv, ScanTypes
<1>3. \A s \in Scan : handler'[s] = "idle" => server'[s] = "absent"
  BY <1>0, <1>2 DEF ScanInv, CarriedInv, Polling!Handler
<1>4. \A s \in Scan : Still(history'[s], s)
  <2> SUFFICES ASSUME NEW s \in Scan PROVE Real(history'[s], s)
    BY <1>0 DEF Real, Still
  <2>1. CASE s = r
    BY <2>1, <1>0, <1>t
  <2>2. CASE s # r
    BY <2>2, <1>0, <1>t
  <2>3. QED
    BY <2>1, <2>2
<1>5. \A g \in Polling!Handler :
           /\ handler'[g] = "hist_write" =>
                (copy'[g] = copy[g] /\ handler[g] = "hist_write") \/ copy'[g] = history
           /\ record'[g].scan \in Scan =>
                record'[g] = record[g] \/ Still(record'[g].status, record'[g].scan)
  BY <1>2, <1>n DEF Still
<1>6. QED
  BY <1>1, <1>3, <1>4, <1>5, RecordStep

\* The steps on the pending list, the clocks and the server keep the invariant.
LEMMA PendingStep ==
  ASSUME ScanInv, Polling!Next,
         \/ \E s \in Scan : Polling!PendRead(s) \/ Polling!Track(s) \/ Polling!ServerSettles(s) \/ Polling!TimePasses(s)
         \/ \E p \in Pass : Polling!TimerFires(p) \/ Polling!AlarmFires(p) \/ Polling!Wakes(p) \/ Polling!PassRead(p)
                              \/ Polling!PassEnds(p)
         \/ \E h \in Polling!Handler : Polling!SetAlarm(h) \/ Polling!ScheduleTick(h)
  PROVE  ScanInv'
<1> USE DEF Polling!Goto, Polling!lists, Polling!local, Polling!Handler, Polling!ScanPC, Polling!PassPC
<1>t. ScanTypes
  BY DEF ScanInv
<1>1. ASSUME NEW s \in Scan, Polling!PendRead(s)
      PROVE  ScanInv'
  <2>1. /\ base' = [base EXCEPT ![s] = pending] /\ handler' = [handler EXCEPT ![s] = "pend_write"]
        /\ UNCHANGED <<server, overdue, history, pending, copy, record, todo, still>>
    BY <1>1 DEF Polling!PendRead
  <2>2. ScanTypes'
    BY <1>t, <2>1 DEF ScanTypes
  <2>3. QED
    BY <1>t, <2>1, <2>2, ListStep DEF ScanTypes
<1>2. ASSUME NEW s \in Scan, Polling!Track(s)
      PROVE  ScanInv'
  <2>1. /\ base' = [base EXCEPT ![s] = base[s] \cup {s}] /\ handler' = [handler EXCEPT ![s] = "stored"]
        /\ pending' = base[s] \cup {s}
        /\ UNCHANGED <<server, overdue, history, copy, record, todo, still>>
    BY <1>2 DEF Polling!Track, Polling!Store
  <2>2. ScanTypes'
    BY <1>t, <2>1 DEF ScanTypes
  <2>3. QED
    BY <1>t, <2>1, <2>2, ListStep DEF ScanTypes
<1>3. ASSUME NEW s \in Scan, Polling!ServerSettles(s) \/ Polling!TimePasses(s)
      PROVE  ScanInv'
  <2>1. /\ (server' = [server EXCEPT ![s] = "settled"] /\ server[s] = "processing") \/ server' = server
        /\ overdue' = [overdue EXCEPT ![s] = TRUE] \/ overdue' = overdue
        /\ UNCHANGED <<history, pending, handler, copy, base, record, todo, still>>
    BY <1>3 DEF Polling!ServerSettles, Polling!TimePasses
  <2>2. ScanTypes'
    BY <1>t, <2>1 DEF ScanTypes
  <2>3. \A r \in Scan : server'[r] # server[r] => handler[r] # "idle"
    BY <1>t, <2>1 DEF ScanTypes, ScanInv, CarriedInv
  <2>4. QED
    BY <2>1, <2>2, <2>3, ListStep
<1>4. ASSUME NEW p \in Pass, Polling!TimerFires(p) \/ Polling!AlarmFires(p) \/ Polling!Wakes(p)
      PROVE  ScanInv'
  <2>1. /\ handler' = [handler EXCEPT ![p] = "read"]
        /\ UNCHANGED <<server, overdue, history, pending, copy, base, record, todo, still>>
    BY <1>4 DEF Polling!TimerFires, Polling!AlarmFires, Polling!Wakes
  <2>2. ScanTypes'
    BY <1>t, <2>1 DEF ScanTypes
  <2>3. QED
    BY <1>t, <2>1, <2>2, ListStep DEF ScanTypes
<1>5. ASSUME NEW p \in Pass, Polling!PassRead(p)
      PROVE  ScanInv'
  <2>1. /\ base' = [base EXCEPT ![p] = pending] /\ todo' = [todo EXCEPT ![p] = pending]
        /\ handler' = [handler EXCEPT ![p] = "loop"]
        /\ UNCHANGED <<server, overdue, history, pending, copy, record, still>>
    BY <1>5 DEF Polling!PassRead
  <2>2. ScanTypes'
    BY <1>t, <2>1 DEF ScanTypes
  <2>3. QED
    BY <1>t, <2>1, <2>2, ListStep DEF ScanTypes
<1>6. ASSUME NEW p \in Pass, Polling!PassEnds(p)
      PROVE  ScanInv'
  <2>1. /\ base' = [base EXCEPT ![p] = still[p]] /\ still' = [still EXCEPT ![p] = {}] /\ pending' = still[p]
        /\ handler' = [handler EXCEPT ![p] = "stored"]
        /\ UNCHANGED <<server, overdue, history, copy, record, todo>>
    BY <1>6 DEF Polling!PassEnds, Polling!Store
  <2>2. ScanTypes'
    BY <1>t, <2>1 DEF ScanTypes
  <2>3. QED
    BY <1>t, <2>1, <2>2, ListStep DEF ScanTypes
<1>7. ASSUME NEW h \in Polling!Handler, Polling!SetAlarm(h) \/ Polling!ScheduleTick(h)
      PROVE  ScanInv'
  <2>1. /\ base' = base \/ base' = [base EXCEPT ![h] = {}]
        /\ \E there \in {"armed", "done", "idle"} :
             handler' = [handler EXCEPT ![h] = there] /\ (there = "idle" => h \in Pass)
        /\ UNCHANGED <<server, overdue, history, pending, copy, record, todo, still>>
    BY <1>7 DEF Polling!SetAlarm, Polling!ScheduleTick
  <2>2. ScanTypes'
    BY <1>t, <2>1 DEF ScanTypes
  <2>3. \A g \in Polling!Handler : handler'[g] = handler[g] \/ handler'[g] \notin {"idle", "hist_write"} \/ g \notin Scan
    BY <1>t, <2>1, HandlerAssumption DEF ScanTypes
  <2>4. \A g \in Polling!Handler : handler'[g] = "hist_write" => handler[g] = "hist_write"
    BY <1>t, <2>1 DEF ScanTypes
  <2>5. QED
    BY <2>1, <2>2, <2>3, <2>4, ListStep
<1>8. QED
  BY <1>1, <1>2, <1>3, <1>4, <1>5, <1>6, <1>7

\* A polling pass records what the server answers, or a timeout that has passed.
LEMMA PollStep ==
  ASSUME ScanInv, NEW p \in Pass, Polling!Poll(p), Polling!Next
  PROVE  ScanInv'
<1> USE DEF Polling!Goto, Polling!lists
<1>t. ScanTypes
  BY DEF ScanInv
<1>p. p \in Polling!Handler
  BY DEF Polling!Handler
<1>0. PICK s \in todo[p] :
        /\ \/ /\ handler' = handler /\ record' = record
           \/ /\ handler' = [handler EXCEPT ![p] = "hist_read"]
              /\ \E x \in {"failed", server[s]} :
                   record' = [record EXCEPT ![p] = [scan |-> s, status |-> x]] /\ (x = "failed" => overdue[s])
        /\ todo' = [todo EXCEPT ![p] = @ \ {s}]
        /\ still' = [still EXCEPT ![p] = @ \cup {s}] \/ still' = still
        /\ UNCHANGED <<server, overdue, history, pending, copy, base>>
  <2>1. PICK s \in todo[p] : Polling!TimesOut(p, s) \/ Polling!Answered(p, s) \/ Polling!Unanswered(p, s)
    BY DEF Polling!Poll
  <2>2. s \in Scan /\ server[s] # "failed"
    BY <1>t, <2>1 DEF ScanTypes
  <2>3. UNCHANGED <<server, overdue, history, pending, copy, base>>
    BY DEF Polling!Poll
  <2>4. CASE Polling!TimesOut(p, s)
    BY <2>3, <2>4 DEF Polling!TimesOut, Polling!Done
  <2>5. CASE Polling!Answered(p, s)
    BY <2>2, <2>3, <2>5 DEF Polling!Answered, Polling!Done, Polling!Keep
  <2>6. CASE Polling!Unanswered(p, s)
    BY <2>3, <2>6 DEF Polling!Unanswered, Polling!Done, Polling!Keep
  <2>7. QED
    BY <2>1, <2>4, <2>5, <2>6
<1>1. s \in Scan
  BY <1>t, <1>0 DEF ScanTypes
<1>2. /\ todo' \in [Pass -> SUBSET Scan] /\ still' \in [Pass -> SUBSET Scan]
  BY <1>t, <1>0, <1>1 DEF ScanTypes
<1>3. CASE handler' = handler /\ record' = record
  <2>1. ScanTypes'
    BY <1>t, <1>0, <1>2, <1>3 DEF ScanTypes
  <2>2. QED
    BY <1>0, <1>3, <2>1, ListStep
<1>4. CASE handler' = [handler EXCEPT ![p] = "hist_read"] /\ ~(handler' = handler /\ record' = record)
  <2>1. PICK x \in {"failed", server[s]} :
          record' = [record EXCEPT ![p] = [scan |-> s, status |-> x]] /\ (x = "failed" => overdue[s])
    BY <1>0, <1>4
  <2> DEFINE new == [scan |-> s, status |-> x]
  <2>2. x \in Polling!Shown /\ Still(x, s)
    BY <1>t, <1>0, <1>1, <2>1 DEF ScanTypes, Polling!Shown, Still
  <2>3. new \in [scan : Scan \cup {None}, status : Polling!Shown] /\ new.scan = s /\ new.status = x
    BY <1>1, <2>2
  <2>4. record' = [record EXCEPT ![p] = new]
    BY <2>1
  <2> HIDE DEF new
  <2>5. /\ record' \in [Polling!Handler -> [scan : Scan \cup {None}, status : Polling!Shown]]
        /\ record'[p] = new /\ \A h \in Polling!Handler : h # p => record'[h] = record[h]
    BY <1>t, <1>p, <2>3, <2>4 DEF ScanTypes
  <2>6. /\ handler' \in [Polling!Handler -> Polling!ScanPC \cup Polling!PassPC] /\ handler'[p] = "hist_read"
        /\ \A h \in Polling!Handler : h # p => handler'[h] = handler[h]
    BY <1>t, <1>p, <1>4 DEF ScanTypes, Polling!ScanPC
  <2>7. ScanTypes'
    BY <1>t, <1>0, <1>2, <2>5, <2>6 DEF ScanTypes
  <2>8. \A r \in Scan : handler'[r] = "idle" => server'[r] = "absent"
    BY <1>0, <2>6 DEF ScanInv, CarriedInv, Polling!Handler
  <2>9. \A h \in Polling!Handler :
           /\ handler'[h] = "hist_write" =>
                (copy'[h] = copy[h] /\ handler[h] = "hist_write") \/ copy'[h] = history
           /\ record'[h].scan \in Scan =>
                record'[h] = record[h] \/ Still(record'[h].status, record'[h].scan)
    BY <1>0, <2>2, <2>3, <2>5, <2>6
  <2>10. QED
    BY <1>0, <2>7, <2>8, <2>9, RecordStep
<1>5. QED
  BY <1>0, <1>3, <1>4

\* A service worker that is suspended drops what its handlers carry, and shows nothing new.
LEMMA SuspendStep ==
  ASSUME ScanInv, Polling!Suspend, Polling!Next
  PROVE  ScanInv'
<1> USE DEF Polling!lists, Polling!Handler
<1>0. /\ handler' = [h \in Polling!Handler |->
            IF h \in Pass THEN "idle" ELSE IF handler[h] \in {"idle", "done"} THEN handler[h] ELSE "dead"]
      /\ copy' = [h \in Polling!Handler |-> None] /\ record' = [h \in Polling!Handler |-> Polling!NoRecord]
      /\ base' = [h \in Polling!Handler |-> {}] /\ todo' = [p \in Pass |-> {}] /\ still' = [p \in Pass |-> {}]
      /\ UNCHANGED <<server, overdue, history, pending>>
  BY DEF Polling!Suspend
<1>n. /\ Polling!NoRecord \in [scan : Scan \cup {None}, status : Polling!Shown]
      /\ Polling!NoRecord.status = "absent"
  BY DEF Polling!NoRecord, Polling!Shown
<1>1. \A h \in Polling!Handler : handler'[h] \in {"idle", "done", "dead"} /\ record'[h] = Polling!NoRecord
  BY <1>0
<1>2. ScanTypes'
  <2>1. handler' \in [Polling!Handler -> Polling!ScanPC \cup Polling!PassPC]
    BY <1>0 DEF Polling!ScanPC
  <2>2. record' \in [Polling!Handler -> [scan : Scan \cup {None}, status : Polling!Shown]]
    BY <1>0, <1>n
  <2>3. QED
    BY <1>0, <1>1, <2>1, <2>2 DEF ScanInv, ScanTypes
<1>3. \A s \in Scan : handler'[s] = "idle" => server'[s] = "absent"
  BY <1>0, HandlerAssumption DEF ScanInv, CarriedInv
<1>4. \A h \in Polling!Handler : Still(record'[h].status, record'[h].scan) /\ handler'[h] # "hist_write"
  BY <1>1, <1>n DEF Still
<1>5. QED
  BY <1>0, <1>2, <1>3, <1>4, RecordStep

\* Every step of the handlers, the passes, the clocks and the server keeps the invariant.
LEMMA ScanNext ==
  ASSUME ScanInv, [Polling!Next]_Polling!vars
  PROVE  ScanInv'
<1>1. CASE UNCHANGED Polling!vars
  BY <1>1 DEF Polling!vars, Polling!lists, Polling!local, ScanInv, ScanTypes, CarriedInv, OutcomesAreReal,
    Polling!OutcomesAreReal, Real
<1>2. CASE Polling!Next
  <2>1. ASSUME NEW s \in Scan, Polling!ScanStep(s)
        PROVE  ScanInv'
    BY <1>2, <2>1, PendingStep, HistReadStep, HistWriteStep DEF Polling!ScanStep, Polling!Handler
  <2>2. ASSUME NEW p \in Pass, Polling!PassStep(p)
        PROVE  ScanInv'
    BY <1>2, <2>2, PendingStep, PollStep, HistReadStep, HistWriteStep DEF Polling!PassStep, Polling!Handler
  <2>3. QED
    BY <1>2, <2>1, <2>2, StartStep, PendingStep, SuspendStep DEF Polling!Next
<1>3. QED
  BY <1>1, <1>2

\* For any scans and polling passes, and any number of suspensions: a verdict shown for a scan is one
\* the server has given, and a scan shown as failed is past its time, though handlers write back whole
\* copies of the history that others have changed since.
THEOREM ShownOutcomesAreReal == Polling!Spec => []OutcomesAreReal
<1>1. ScanInv => OutcomesAreReal
  BY DEF ScanInv
<1>2. QED
  BY <1>1, ScanInitial, ScanNext, PTL DEF Polling!Spec
-----------------------------------------------------------------------------
(***************************************************************************)
(* The command line's queue.                                               *)
(***************************************************************************)
Held == {"start", "run", "settle", "explain", "stamp"}
Workers == Threads \cup {Queue!Main}
Holds(h, t) == thread[h] \in Held /\ task[h] = t
Waiting(t) == \E i \in 1..Len(q) : q[i] = t

\* Files that the main thread has not handed on.
Fresh(t) ==
  \/ thread[Queue!Main] \in {"submit", "put"} /\ t >= task[Queue!Main]
  \/ thread[Queue!Main] \in Held /\ t > task[Queue!Main]

FileTypes ==
  /\ async \in BOOLEAN /\ records \subseteq Queue!Task /\ q \in Seq(Queue!Task)
  /\ status \in [Queue!Task -> {"queued", "running", "completed", "failed"}]
  /\ verdict \in [Queue!Task -> {"none", "result", "raised"}] /\ runs \in [Queue!Task -> Nat]
  /\ thread \in [Workers -> {"idle", "submit", "put", "poll", "collect", "done"} \cup Held]
  /\ task \in [Workers -> 0..Tasks] /\ task[Queue!Main] \in Queue!Task /\ DOMAIN collected = Queue!Task
  /\ \A h \in Workers : thread[h] \in Held => task[h] \in Queue!Task
  /\ \A h \in Threads : thread[h] \in {"idle"} \cup Held
  /\ thread[Queue!Main] # "idle"
  /\ ~async => q = <<>> /\ thread[Queue!Main] \notin {"put", "poll"} /\ \A h \in Threads : thread[h] = "idle"
  /\ async => thread[Queue!Main] \notin Held
  /\ thread[Queue!Main] \notin {"collect", "done"} => \A t \in Queue!Task : collected[t] = None

\* A task is in one place: not handed on, in the queue, or held by one thread; and it has run once
\* if it is past its start.
HeldInv ==
  \A h \in Workers :
    /\ thread[h] = "start" => runs[task[h]] = 0 /\ status[task[h]] = "queued"
    /\ thread[h] \in {"run", "settle"} => runs[task[h]] = 1 /\ status[task[h]] = "running"
    /\ thread[h] = "settle" => verdict[task[h]] # "none"
    /\ thread[h] \in {"explain", "stamp"} => status[task[h]] \in Queue!Finished
    /\ \A g \in Workers : thread[h] \in Held /\ thread[g] \in Held /\ task[h] = task[g] => h = g

EndedInv ==
  \A t \in Queue!Task : status[t] \in Queue!Finished =>
    runs[t] = 1 /\ (status[t] = "completed" <=> verdict[t] = "result")

WaitingInv ==
  /\ \A t \in Queue!Task : Waiting(t) =>
       runs[t] = 0 /\ status[t] = "queued" /\ ~Fresh(t) /\ \A h \in Workers : ~Holds(h, t)
  /\ \A i, j \in 1..Len(q) : q[i] = q[j] => i = j

FreshInv ==
  \A t \in Queue!Task : Fresh(t) => runs[t] = 0 /\ status[t] = "queued" /\ \A h \in Workers : ~Holds(h, t)

\* No task is lost: one that has not finished is in one of these places, and its record is kept.
KeptInv ==
  \A t \in Queue!Task : status[t] \notin Queue!Finished =>
    /\ Fresh(t) \/ Waiting(t) \/ \E h \in Workers : Holds(h, t)
    /\ ~Fresh(t) \/ (thread[Queue!Main] = "put" /\ t = task[Queue!Main]) => t \in records

FileInv == FileTypes /\ HeldInv /\ EndedInv /\ WaitingInv /\ FreshInv /\ KeptInv /\ EveryFileRan

\* At first every file is still to be handed on.
LEMMA FileInitial ==
  ASSUME Queue!Init
  PROVE  FileInv
<1>1. /\ thread[Queue!Main] = "submit" /\ task[Queue!Main] = 1 /\ q = <<>> /\ Queue!Main \in Workers
      /\ \A h \in Threads : thread[h] = "idle"
      /\ \A t \in Queue!Task : runs[t] = 0 /\ status[t] = "queued"
  BY FileAssumption DEF Queue!Init, Queue!Main, Workers
<1>2. FileTypes
  BY <1>1, FileAssumption DEF Queue!Init, FileTypes, Workers, Queue!Task, Queue!Main, Held
<1>3. HeldInv
  BY <1>1 DEF HeldInv, Workers, Held
<1>4. EndedInv
  BY <1>1 DEF EndedInv, Queue!Finished
<1>5. WaitingInv
  BY <1>1 DEF WaitingInv, Waiting
<1>6. FreshInv
  BY <1>1 DEF FreshInv, Holds, Workers, Held
<1>7. KeptInv
  BY <1>1 DEF KeptInv, Fresh, Queue!Task
<1>8. EveryFileRan
  BY <1>1 DEF EveryFileRan, Queue!EveryFileRan
<1>9. QED
  BY <1>2, <1>3, <1>4, <1>5, <1>6, <1>7, <1>8 DEF FileInv

\* A thread that works on the task it holds keeps it, and touches no other task.
LEMMA WorkStep ==
  ASSUME FileInv, NEW h \in Workers, thread[h] \in Held, NEW there \in Held,
         thread' = [thread EXCEPT ![h] = there],
         UNCHANGED <<async, records, q, task, collected>>,
         status' \in [Queue!Task -> {"queued", "running", "completed", "failed"}],
         verdict' \in [Queue!Task -> {"none", "result", "raised"}], runs' \in [Queue!Task -> Nat],
         \A t \in Queue!Task : t # task[h] =>
           status'[t] = status[t] /\ verdict'[t] = verdict[t] /\ runs'[t] = runs[t],
         there # "start" /\ runs'[task[h]] = 1,
         there \in {"run", "settle"} => status'[task[h]] = "running",
         there = "settle" => verdict'[task[h]] # "none",
         there \in {"explain", "stamp"} =>
           status'[task[h]] \in Queue!Finished /\ (status'[task[h]] = "completed" <=> verdict'[task[h]] = "result"),
         thread[h] = "explain" => UNCHANGED <<status, verdict, runs>>, thread[h] # "stamp"
  PROVE  FileInv'
<1> USE DEF FileInv
<1>1. /\ thread'[h] = there /\ \A g \in Workers : g # h => thread'[g] = thread[g]
      /\ thread' \in [Workers -> {"idle", "submit", "put", "poll", "collect", "done"} \cup Held]
  BY DEF FileTypes
<1>2. task[h] \in Queue!Task /\ Queue!Main \in Workers
  BY DEF FileTypes, Workers
<1>3. \A g \in Workers : thread'[g] \in Held <=> thread[g] \in Held
  BY <1>1
<1>4. /\ thread'[Queue!Main] = thread[Queue!Main] \/ (thread[Queue!Main] \in Held /\ thread'[Queue!Main] \in Held)
      /\ \A t : Fresh(t)' <=> Fresh(t)
      /\ \A g \in Workers, t \in Queue!Task : Holds(g, t)' <=> Holds(g, t)
      /\ \A t : Waiting(t)' <=> Waiting(t)
  BY <1>1, <1>2, <1>3 DEF Fresh, Holds, Waiting, Held
<1>5. FileTypes'
  BY <1>1, <1>2, <1>3, <1>4 DEF FileTypes, Held, Workers
<1>6. HeldInv'
  BY <1>1, <1>2, <1>3, <1>5 DEF HeldInv, FileTypes, Held
<1>7. EndedInv'
  BY <1>1, <1>2 DEF EndedInv, Held, Queue!Finished
<1>8. WaitingInv'
  <2>1. ~Waiting(task[h])
    BY <1>2 DEF WaitingInv, Holds
  <2>2. QED
    BY <2>1, <1>4 DEF WaitingInv
<1>9. FreshInv'
  <2>1. ~Fresh(task[h])
    BY <1>2 DEF FreshInv, Holds
  <2>2. QED
    BY <2>1, <1>4 DEF FreshInv
<1>10. KeptInv'
  <2>1. thread[h] # "explain" => status[task[h]] \notin Queue!Finished
    BY DEF HeldInv, Held, Queue!Finished
  <2>2. \A t \in Queue!Task : status'[t] \notin Queue!Finished => status[t] \notin Queue!Finished
    BY <2>1
  <2>3. thread'[Queue!Main] = "put" => thread[Queue!Main] = "put"
    BY <1>4 DEF Held
  <2>4. QED
    BY <2>2, <2>3, <1>4 DEF KeptInv
<1>11. EveryFileRan'
  <2> SUFFICES ASSUME thread'[Queue!Main] \in {"collect", "done"}
               PROVE  \A t \in Queue!Task :
                        /\ runs'[t] = 1 /\ status'[t] \in Queue!Finished
                        /\ collected'[t] # None => (collected'[t].status = "completed" <=> verdict'[t] = "result")
    BY DEF EveryFileRan, Queue!EveryFileRan
  <2>1. thread[Queue!Main] \in {"collect", "done"}
    BY <1>4 DEF Held
  <2>2. \A t \in Queue!Task : status[t] \in Queue!Finished
    BY <2>1 DEF EveryFileRan, Queue!EveryFileRan
  <2>3. thread[h] = "explain"
    BY <2>2, <1>2 DEF HeldInv, Held, Queue!Finished
  <2>4. QED
    BY <2>1, <2>3 DEF EveryFileRan, Queue!EveryFileRan
<1>12. QED
  BY <1>5, <1>6, <1>7, <1>8, <1>9, <1>10, <1>11

\* Starting, running and settling a task, and explaining a failure, keep the invariant: the task has
\* run once from its start on, and its status says how it ended.
LEMMA TaskStep ==
  ASSUME FileInv, NEW h \in Workers, Queue!Start(h) \/ Queue!Run(h) \/ Queue!Settle(h) \/ Queue!Explain(h)
  PROVE  FileInv'
<1> USE DEF Queue!Goto, Queue!Finished, Held
<1>t. /\ FileTypes /\ HeldInv /\ EndedInv
      /\ thread[h] \in Held => task[h] \in Queue!Task
  BY DEF FileInv, FileTypes
<1>1. CASE Queue!Start(h)
  <2>1. /\ thread[h] = "start" /\ thread' = [thread EXCEPT ![h] = "run"]
        /\ status' = [status EXCEPT ![task[h]] = "running"]
        /\ runs' = [runs EXCEPT ![task[h]] = @ + 1]
        /\ UNCHANGED <<async, records, q, task, collected, verdict>>
    BY <1>1 DEF Queue!Start
  <2>2. /\ status' \in [Queue!Task -> {"queued", "running", "completed", "failed"}] /\ runs' \in [Queue!Task -> Nat]
        /\ status'[task[h]] = "running" /\ runs'[task[h]] = 1
        /\ \A t \in Queue!Task : t # task[h] => status'[t] = status[t] /\ runs'[t] = runs[t]
    BY <1>t, <2>1 DEF FileTypes, HeldInv
  <2>3. QED
    BY <1>t, <2>1, <2>2, WorkStep DEF FileTypes
<1>2. CASE Queue!Run(h)
  <2>1. PICK v \in {"result", "raised"} : verdict' = [verdict EXCEPT ![task[h]] = v]
    BY <1>2 DEF Queue!Run
  <2>2. /\ thread[h] = "run" /\ thread' = [thread EXCEPT ![h] = "settle"]
        /\ UNCHANGED <<async, records, q, task, collected, status, runs>>
    BY <1>2 DEF Queue!Run
  <2>3. /\ verdict' \in [Queue!Task -> {"none", "result", "raised"}] /\ verdict'[task[h]] = v
        /\ \A t \in Queue!Task : t # task[h] => verdict'[t] = verdict[t]
    BY <1>t, <2>1, <2>2 DEF FileTypes
  <2>4. runs[task[h]] = 1 /\ status[task[h]] = "running"
    BY <1>t, <2>2 DEF HeldInv
  <2>5. /\ status' \in [Queue!Task -> {"queued", "running", "completed", "failed"}]
        /\ runs' \in [Queue!Task -> Nat] /\ runs'[task[h]] = 1 /\ status'[task[h]] = "running"
        /\ \A t \in Queue!Task : t # task[h] =>
             status'[t] = status[t] /\ verdict'[t] = verdict[t] /\ runs'[t] = runs[t]
    BY <1>t, <2>2, <2>3, <2>4 DEF FileTypes
  <2>6. v # "none" /\ thread[h] \in Held
    BY <2>2
  <2>7. QED
    BY <2>2, <2>3, <2>5, <2>6, WorkStep
<1>3. CASE Queue!Settle(h)
  <2>1. /\ thread[h] = "settle" /\ runs[task[h]] = 1
        /\ UNCHANGED <<async, records, q, task, collected, verdict, runs>>
    BY <1>3, <1>t DEF Queue!Settle, HeldInv
  <2>2. PICK there \in {"stamp", "explain"}, end \in {"completed", "failed"} :
          /\ thread' = [thread EXCEPT ![h] = there] /\ status' = [status EXCEPT ![task[h]] = end]
          /\ end = "completed" <=> verdict[task[h]] = "result"
    BY <1>3 DEF Queue!Settle
  <2>3. /\ status' \in [Queue!Task -> {"queued", "running", "completed", "failed"}]
        /\ verdict' \in [Queue!Task -> {"none", "result", "raised"}] /\ runs' \in [Queue!Task -> Nat]
        /\ status'[task[h]] = end
        /\ \A t \in Queue!Task : t # task[h] =>
             status'[t] = status[t] /\ verdict'[t] = verdict[t] /\ runs'[t] = runs[t]
    BY <1>t, <2>1, <2>2 DEF FileTypes
  <2>4. /\ status'[task[h]] \in Queue!Finished /\ runs'[task[h]] = 1
        /\ (status'[task[h]] = "completed" <=> verdict'[task[h]] = "result")
    BY <2>1, <2>2, <2>3
  <2>5. thread[h] \in Held /\ thread[h] \notin {"explain", "stamp"}
    BY <2>1
  <2>6. QED
    BY <2>1, <2>2, <2>3, <2>4, <2>5, WorkStep
<1>4. CASE Queue!Explain(h)
  <2>1. /\ thread[h] = "explain" /\ thread' = [thread EXCEPT ![h] = "stamp"]
        /\ UNCHANGED <<async, records, q, task, collected, status, verdict, runs>>
    BY <1>4 DEF Queue!Explain
  <2>2. /\ status[task[h]] \in Queue!Finished
        /\ runs[task[h]] = 1 /\ (status[task[h]] = "completed" <=> verdict[task[h]] = "result")
    BY <1>t, <2>1 DEF HeldInv, EndedInv
  <2>3. /\ status' \in [Queue!Task -> {"queued", "running", "completed", "failed"}]
        /\ verdict' \in [Queue!Task -> {"none", "result", "raised"}] /\ runs' \in [Queue!Task -> Nat]
        /\ \A t \in Queue!Task : status'[t] = status[t] /\ verdict'[t] = verdict[t] /\ runs'[t] = runs[t]
    BY <1>t, <2>1 DEF FileTypes
  <2>4. /\ status'[task[h]] \in Queue!Finished /\ runs'[task[h]] = 1
        /\ (status'[task[h]] = "completed" <=> verdict'[task[h]] = "result")
    BY <2>1, <2>2
  <2>5. UNCHANGED <<status, verdict, runs>> /\ thread[h] \in Held
    BY <2>1
  <2>6. QED
    BY <2>1, <2>3, <2>4, <2>5, WorkStep
<1>5. QED
  BY <1>1, <1>2, <1>3, <1>4

\* Submitting a file makes its record, and evicts finished records only; with no worker threads the
\* main thread holds it at once.
LEMMA SubmitStep ==
  ASSUME FileInv, Queue!Submit
  PROVE  FileInv'
<1> USE DEF Queue!Goto, FileInv
<1> DEFINE t == task[Queue!Main]
           there == IF async THEN "put" ELSE "start"
<1>0. /\ thread[Queue!Main] = "submit" /\ records' = Queue!Evict(records \cup {t})
      /\ thread' = [thread EXCEPT ![Queue!Main] = there]
      /\ UNCHANGED <<async, q, task, status, verdict, runs, collected>>
  BY DEF Queue!Submit, Queue!fields
<1>1. t \in Queue!Task /\ Queue!Main \in Workers /\ there \in {"put", "start"} /\ Queue!Main \notin Threads
  BY FileAssumption DEF FileTypes, Workers, Queue!Main
<1>2. /\ records' \subseteq Queue!Task
      /\ \A x \in records \cup {t} : status[x] \notin Queue!Finished => x \in records'
  BY <1>0, <1>1 DEF Queue!Evict, FileTypes
<1>3. /\ thread'[Queue!Main] = there /\ \A h \in Workers : h # Queue!Main => thread'[h] = thread[h]
      /\ thread' \in [Workers -> {"idle", "submit", "put", "poll", "collect", "done"} \cup Held]
  BY <1>0, <1>1 DEF FileTypes, Held
<1>4. Fresh(t)
  BY <1>0, <1>1 DEF Fresh, Queue!Task
<1>5. runs[t] = 0 /\ status[t] = "queued" /\ \A h \in Workers : ~Holds(h, t)
  BY <1>1, <1>4 DEF FreshInv
<1>6. \A x \in Queue!Task : Fresh(x)' <=> Fresh(x) /\ (x # t \/ there = "put")
  BY <1>0, <1>1, <1>3 DEF Fresh, Held, Queue!Task
<1>7. \A h \in Workers, x \in Queue!Task : Holds(h, x)' <=> Holds(h, x) \/ (h = Queue!Main /\ there = "start" /\ x = t)
  BY <1>0, <1>1, <1>3 DEF Holds, Held
<1>8. ~Waiting(t) /\ \A x : Waiting(x)' <=> Waiting(x)
  BY <1>0, <1>1, <1>4 DEF WaitingInv, Waiting
<1>a. thread[Queue!Main] \notin Held
  BY <1>0 DEF Held
<1>9. FileTypes'
  <2>1. async => there = "put"
    OBVIOUS
  <2>2. ~async => there = "start"
    OBVIOUS
  <2>3. ~async' => q' = <<>> /\ thread'[Queue!Main] \notin {"put", "poll"} /\ \A h \in Threads : thread'[h] = "idle"
    BY <1>0, <1>1, <1>3, <2>2 DEF FileTypes, Workers
  <2>4. \A h \in Threads : thread'[h] \in {"idle"} \cup Held
    BY <1>0, <1>1, <1>3 DEF FileTypes, Workers
  <2>5. \A h \in Workers : thread'[h] \in Held => task'[h] \in Queue!Task
    BY <1>0, <1>1, <1>3 DEF FileTypes, Workers
  <2> HIDE DEF there
  <2>6. QED
    BY <1>0, <1>1, <1>2, <1>3, <2>1, <2>3, <2>4, <2>5 DEF FileTypes, Held
<1>10. HeldInv'
  <2>1. \A h \in Workers : thread'[h] \in Held => h = Queue!Main \/ task[h] # t
    BY <1>3, <1>5 DEF Holds
  <2>2. QED
    BY <1>0, <1>1, <1>3, <1>5, <1>a, <2>1 DEF HeldInv, Held
<1> HIDE DEF t, there
<1>11. EndedInv'
  BY <1>0 DEF EndedInv
<1>12. WaitingInv'
  BY <1>0, <1>6, <1>7, <1>8 DEF WaitingInv
<1>13. FreshInv'
  BY <1>0, <1>6, <1>7, <1>1 DEF FreshInv
<1>14. KeptInv'
  <2> SUFFICES ASSUME NEW x \in Queue!Task, status[x] \notin Queue!Finished
               PROVE  /\ Fresh(x)' \/ Waiting(x)' \/ \E h \in Workers : Holds(h, x)'
                      /\ ~Fresh(x)' \/ (thread'[Queue!Main] = "put" /\ x = task'[Queue!Main]) => x \in records'
    BY <1>0 DEF KeptInv
  <2>1. Waiting(x)' <=> Waiting(x)
    BY <1>0 DEF Waiting
  <2>2. Fresh(x) \/ Waiting(x) \/ \E h \in Workers : Holds(h, x)
    BY DEF KeptInv
  <2>3. Fresh(x)' \/ Waiting(x)' \/ \E h \in Workers : Holds(h, x)'
    BY <2>1, <2>2, <1>1, <1>6, <1>7
  <2>4. ~Fresh(x) => x \in records
    BY DEF KeptInv
  <2>5. task'[Queue!Main] = t
    BY <1>0 DEF t
  <2>6. QED
    BY <2>3, <2>4, <2>5, <1>2, <1>6
<1>15. EveryFileRan'
  BY <1>1, <1>3 DEF EveryFileRan, Queue!EveryFileRan
<1>16. QED
  BY <1>9, <1>10, <1>11, <1>12, <1>13, <1>14, <1>15

\* Putting a task in the queue hands it to the worker threads, and the main thread goes on to the next
\* file or to waiting.
LEMMA PutStep ==
  ASSUME FileInv, Queue!Put
  PROVE  FileInv'
<1> USE DEF Queue!Goto, FileInv
<1> DEFINE t == task[Queue!Main]
           there == IF t < Tasks THEN "submit" ELSE "poll"
           next == IF t < Tasks THEN t + 1 ELSE 1
<1>t. FileTypes /\ t \in Queue!Task /\ Queue!Main \in Workers /\ Queue!Main \notin Threads
  BY FileAssumption DEF FileTypes, Workers, Queue!Main
<1>0. /\ thread[Queue!Main] = "put" /\ q' = Append(q, t) /\ async
      /\ thread' = [thread EXCEPT ![Queue!Main] = there] /\ task' = [task EXCEPT ![Queue!Main] = next]
      /\ UNCHANGED <<async, records, status, verdict, runs, collected>>
  BY <1>t DEF Queue!Put, Queue!fields, Queue!Onward, FileTypes
<1>1. /\ there \in {"submit", "poll"} /\ next \in Queue!Task /\ Tasks \in Nat /\ t \in 1..Tasks
      /\ \A x \in Queue!Task : there = "submit" /\ x >= next <=> x >= t /\ x # t
  BY <1>t, FileAssumption DEF Queue!Task
<1>4. Fresh(t)
  BY <1>0, <1>1 DEF Fresh
<1>5. runs[t] = 0 /\ status[t] = "queued" /\ t \in records /\ \A h \in Workers : ~Holds(h, t)
  BY <1>0, <1>t, <1>4 DEF FreshInv, KeptInv, Queue!Finished
<1>q. /\ q \in Seq(Queue!Task) /\ q' \in Seq(Queue!Task) /\ Len(q) \in Nat /\ Len(q') = Len(q) + 1
      /\ q'[Len(q) + 1] = t /\ \A i \in 1..Len(q) : q'[i] = q[i]
  BY <1>0, <1>t DEF FileTypes
<1> HIDE DEF t, there, next
<1>3. /\ thread'[Queue!Main] = there /\ \A h \in Workers : h # Queue!Main => thread'[h] = thread[h] /\ task'[h] = task[h]
      /\ task'[Queue!Main] = next
      /\ thread' \in [Workers -> {"idle", "submit", "put", "poll", "collect", "done"} \cup Held]
      /\ task' \in [Workers -> 0..Tasks]
  BY <1>0, <1>1, <1>t DEF FileTypes, Queue!Task
<1>6. \A x \in Queue!Task : Fresh(x)' <=> Fresh(x) /\ x # t
  <2>1. \A x \in Queue!Task : Fresh(x) <=> x >= t
    BY <1>0 DEF Fresh, Held, t
  <2>2. \A x \in Queue!Task : Fresh(x)' <=> there = "submit" /\ x >= next
    BY <1>1, <1>3 DEF Fresh, Held
  <2>3. QED
    BY <2>1, <2>2, <1>1
<1>7. \A h \in Workers, x \in Queue!Task : Holds(h, x)' <=> Holds(h, x)
  BY <1>0, <1>1, <1>3 DEF Holds, Held
<1>8. ~Waiting(t)
  BY <1>t, <1>4 DEF WaitingInv, t
<1>w. \A x : Waiting(x)' <=> Waiting(x) \/ x = t
  <2> SUFFICES ASSUME NEW x PROVE Waiting(x)' <=> Waiting(x) \/ x = t
    OBVIOUS
  <2>1. Waiting(x)' <=> \E i \in 1..Len(q') : q'[i] = x
    BY DEF Waiting
  <2>2. \A i \in 1..Len(q) : i \in 1..Len(q')
    BY <1>q
  <2>3. Len(q) + 1 \in 1..Len(q') /\ \A i \in 1..Len(q') : i \in 1..Len(q) \/ i = Len(q) + 1
    BY <1>q
  <2>4. QED
    BY <2>1, <2>2, <2>3, <1>q DEF Waiting
<1>9. FileTypes'
  <2>1. \A h \in Workers : thread'[h] \in Held => h # Queue!Main /\ thread[h] \in Held
    BY <1>1, <1>3 DEF Held
  <2>2. \A h \in Threads : h # Queue!Main /\ thread'[h] = thread[h]
    BY <1>t, <1>3 DEF Workers
  <2>3. \A h \in Workers : thread'[h] \in Held => task'[h] \in Queue!Task
    BY <2>1, <1>3, <1>t DEF FileTypes
  <2>4. \A h \in Threads : thread'[h] \in {"idle"} \cup Held
    BY <2>2, <1>t DEF FileTypes
  <2>5. thread'[Queue!Main] \notin {"idle", "collect", "done"} \cup Held
    BY <1>1, <1>3 DEF Held
  <2>6. QED
    BY <1>0, <1>1, <1>3, <1>q, <1>t, <2>3, <2>4, <2>5 DEF FileTypes
<1>10. HeldInv'
  <2>1. \A h \in Workers : thread'[h] \in Held => h # Queue!Main
    BY <1>1, <1>3 DEF Held
  <2>2. QED
    BY <1>0, <1>3, <2>1 DEF HeldInv, Held
<1>11. EndedInv'
  BY <1>0 DEF EndedInv
<1>12. WaitingInv'
  <2>1. \A x \in Queue!Task : Waiting(x)' =>
          runs'[x] = 0 /\ status'[x] = "queued" /\ ~Fresh(x)' /\ \A h \in Workers : ~Holds(h, x)'
    BY <1>0, <1>5, <1>6, <1>7, <1>w DEF WaitingInv
  <2>2. \A i \in 1..Len(q') : i \in 1..Len(q) \/ i = Len(q) + 1
    BY <1>q
  <2>3. \A i \in 1..Len(q) : q[i] # t
    BY <1>8 DEF Waiting
  <2>4. \A i, j \in 1..Len(q') : q'[i] = q'[j] => i = j
    BY <2>2, <2>3, <1>q DEF WaitingInv
  <2>5. QED
    BY <2>1, <2>4 DEF WaitingInv
<1>13. FreshInv'
  BY <1>0, <1>6, <1>7 DEF FreshInv
<1>14. KeptInv'
  <2> SUFFICES ASSUME NEW x \in Queue!Task, status[x] \notin Queue!Finished
               PROVE  /\ Fresh(x)' \/ Waiting(x)' \/ \E h \in Workers : Holds(h, x)'
                      /\ ~Fresh(x)' \/ (thread'[Queue!Main] = "put" /\ x = task'[Queue!Main]) => x \in records'
    BY <1>0 DEF KeptInv
  <2>2. Fresh(x) \/ Waiting(x) \/ \E h \in Workers : Holds(h, x)
    BY DEF KeptInv
  <2>3. ~Fresh(x) \/ x = t => x \in records
    BY <1>5 DEF KeptInv
  <2>4. thread'[Queue!Main] # "put"
    BY <1>1, <1>3
  <2>5. QED
    BY <2>2, <2>3, <2>4, <1>0, <1>6, <1>7, <1>w
<1>15. EveryFileRan'
  BY <1>1, <1>3 DEF EveryFileRan, Queue!EveryFileRan
<1>16. QED
  BY <1>9, <1>10, <1>11, <1>12, <1>13, <1>14, <1>15

\* A worker thread takes the first task of the queue, which nobody else has.
LEMMA TakeStep ==
  ASSUME FileInv, NEW h \in Workers, Queue!Take(h)
  PROVE  FileInv'
<1> USE DEF Queue!Goto, FileInv
<1> DEFINE t == Head(q)
<1>t. FileTypes /\ Queue!Main \in Workers /\ h # Queue!Main /\ h \in Threads /\ Queue!Main \notin Threads
  BY FileAssumption DEF FileTypes, Workers, Queue!Main, Queue!Take
<1>q. /\ q \in Seq(Queue!Task) /\ q' \in Seq(Queue!Task) /\ Len(q) \in Nat \ {0} /\ Len(q') = Len(q) - 1
      /\ t \in Queue!Task /\ t = q[1] /\ \A i \in 1..Len(q') : q'[i] = q[i + 1]
  BY <1>t DEF Queue!Take, FileTypes
<1>8. Waiting(t)
  BY <1>q DEF Waiting
<1>5. /\ runs[t] = 0 /\ status[t] = "queued" /\ ~Fresh(t) /\ \A g \in Workers : ~Holds(g, t)
      /\ t \in records
  BY <1>q, <1>8 DEF WaitingInv, KeptInv, Queue!Finished
<1>0. /\ thread[h] = "idle" /\ async
      /\ thread' = [thread EXCEPT ![h] = "start"] /\ task' = [task EXCEPT ![h] = t]
      /\ UNCHANGED <<async, records, status, verdict, runs, collected>>
  BY <1>5 DEF Queue!Take, Queue!fields
<1> HIDE DEF t
<1>w. /\ \A x : Waiting(x)' <=> Waiting(x) /\ x # t
      /\ \A i, j \in 1..Len(q') : q'[i] = q'[j] => i = j
  <2>1. \A x : Waiting(x)' <=> \E i \in 1..Len(q') : q'[i] = x
    BY DEF Waiting
  <2>2. \A i \in 1..Len(q') : i + 1 \in 1..Len(q) /\ i + 1 # 1 /\ q'[i] = q[i + 1]
    BY <1>q
  <2>3. \A i \in 1..Len(q) : i = 1 \/ (i - 1 \in 1..Len(q') /\ (i - 1) + 1 = i)
    BY <1>q
  <2>4. 1 \in 1..Len(q) /\ \A i, j \in 1..Len(q) : q[i] = q[j] => i = j
    BY <1>q DEF WaitingInv
  <2>5. ASSUME NEW x, Waiting(x)' PROVE Waiting(x) /\ x # t
    <3>1. PICK i \in 1..Len(q') : q'[i] = x
      BY <2>1, <2>5
    <3>2. QED
      BY <3>1, <2>2, <2>4, <1>q DEF Waiting
  <2>6. ASSUME NEW x, Waiting(x), x # t PROVE Waiting(x)'
    <3>1. PICK i \in 1..Len(q) : q[i] = x
      BY <2>6 DEF Waiting
    <3>2. i # 1
      BY <3>1, <2>6, <1>q
    <3>3. i - 1 \in 1..Len(q') /\ q'[i - 1] = x
      BY <3>1, <3>2, <2>2, <2>3
    <3>4. QED
      BY <3>3, <2>1
  <2>7. ASSUME NEW i \in 1..Len(q'), NEW j \in 1..Len(q'), q'[i] = q'[j] PROVE i = j
    <3>1. i + 1 = j + 1
      BY <2>2, <2>4, <2>7
    <3>2. QED
      BY <3>1
  <2>8. QED
    BY <2>5, <2>6, <2>7
<1>3. /\ thread'[h] = "start" /\ task'[h] = t
      /\ \A g \in Workers : g # h => thread'[g] = thread[g] /\ task'[g] = task[g]
      /\ thread' \in [Workers -> {"idle", "submit", "put", "poll", "collect", "done"} \cup Held]
      /\ task' \in [Workers -> 0..Tasks]
  BY <1>0, <1>q, <1>t DEF FileTypes, Queue!Task, Held
<1>6. \A x : Fresh(x)' <=> Fresh(x)
  BY <1>3, <1>t DEF Fresh
<1>7. \A g \in Workers, x \in Queue!Task : Holds(g, x)' <=> Holds(g, x) \/ (g = h /\ x = t)
  BY <1>0, <1>3, <1>t DEF Holds, Held
<1>9. FileTypes'
  <2>1. \A g \in Workers : thread'[g] \in Held => task'[g] \in Queue!Task
    BY <1>3, <1>q, <1>t DEF FileTypes
  <2>2. \A g \in Threads : thread'[g] \in {"idle"} \cup Held
    BY <1>3, <1>t DEF FileTypes, Held, Workers
  <2>3. thread'[Queue!Main] = thread[Queue!Main] /\ task'[Queue!Main] = task[Queue!Main]
    BY <1>3, <1>t
  <2>4. QED
    BY <1>0, <1>3, <1>q, <1>t, <2>1, <2>2, <2>3 DEF FileTypes
<1>10. HeldInv'
  <2>1. \A g \in Workers : thread[g] \in Held => task[g] # t
    BY <1>5 DEF Holds
  <2>2. QED
    BY <1>0, <1>3, <1>5, <2>1 DEF HeldInv, Held
<1>11. EndedInv'
  BY <1>0 DEF EndedInv
<1>12. WaitingInv'
  <2>1. \A x \in Queue!Task : Waiting(x)' =>
          runs'[x] = 0 /\ status'[x] = "queued" /\ ~Fresh(x)' /\ \A g \in Workers : ~Holds(g, x)'
    BY <1>0, <1>6, <1>7, <1>w DEF WaitingInv
  <2>2. QED
    BY <2>1, <1>w DEF WaitingInv
<1>13. FreshInv'
  BY <1>0, <1>5, <1>6, <1>7 DEF FreshInv
<1>14. KeptInv'
  <2> SUFFICES ASSUME NEW x \in Queue!Task, status[x] \notin Queue!Finished
               PROVE  /\ Fresh(x)' \/ Waiting(x)' \/ \E g \in Workers : Holds(g, x)'
                      /\ ~Fresh(x)' \/ (thread'[Queue!Main] = "put" /\ x = task'[Queue!Main]) => x \in records'
    BY <1>0 DEF KeptInv
  <2>1. Fresh(x) \/ Waiting(x) \/ \E g \in Workers : Holds(g, x)
    BY DEF KeptInv
  <2>2. Fresh(x)' \/ Waiting(x)' \/ \E g \in Workers : Holds(g, x)'
    BY <2>1, <1>6, <1>7, <1>w
  <2>3. QED
    BY <2>2, <1>0, <1>3, <1>6, <1>t DEF KeptInv
<1>15. EveryFileRan'
  BY <1>0, <1>3, <1>t DEF EveryFileRan, Queue!EveryFileRan
<1>16. QED
  BY <1>9, <1>10, <1>11, <1>12, <1>13, <1>14, <1>15

\* A worker thread stamps its task, and is free for another.
LEMMA StampStep ==
  ASSUME FileInv, NEW h \in Threads, Queue!Stamp(h)
  PROVE  FileInv'
<1> USE DEF Queue!Goto, FileInv
<1>t. FileTypes /\ Queue!Main \in Workers /\ h # Queue!Main /\ h \in Workers /\ Queue!Main \notin Threads
  BY FileAssumption DEF Workers, Queue!Main
<1>0. /\ thread[h] = "stamp" /\ thread' = [thread EXCEPT ![h] = "idle"]
      /\ UNCHANGED <<async, records, q, task, status, verdict, runs, collected>>
  BY <1>t DEF Queue!Stamp
<1>3. /\ thread'[h] = "idle" /\ \A g \in Workers : g # h => thread'[g] = thread[g]
      /\ thread' \in [Workers -> {"idle", "submit", "put", "poll", "collect", "done"} \cup Held]
  BY <1>0, <1>t DEF FileTypes
<1>5. status[task[h]] \in Queue!Finished
  BY <1>0, <1>t DEF HeldInv
<1>6. /\ \A x : Fresh(x)' <=> Fresh(x)
      /\ \A x : Waiting(x)' <=> Waiting(x)
      /\ \A g \in Workers, x \in Queue!Task : Holds(g, x)' <=> Holds(g, x) /\ g # h
  BY <1>0, <1>3, <1>t DEF Fresh, Waiting, Holds, Held
<1>9. FileTypes'
  <2>1. \A g \in Workers : thread'[g] \in Held => task'[g] \in Queue!Task
    BY <1>0, <1>3, <1>t DEF FileTypes, Held
  <2>2. \A g \in Threads : thread'[g] \in {"idle"} \cup Held
    BY <1>3, <1>t DEF FileTypes, Workers
  <2>3. thread'[Queue!Main] = thread[Queue!Main]
    BY <1>3, <1>t
  <2>4. ~async => \A g \in Threads : thread'[g] = "idle"
    BY <1>3, <1>t DEF FileTypes, Workers
  <2>5. QED
    BY <1>0, <1>3, <1>t, <2>1, <2>2, <2>3, <2>4 DEF FileTypes
<1>10. HeldInv'
  BY <1>0, <1>3 DEF HeldInv, Held
<1>11. EndedInv' /\ WaitingInv' /\ FreshInv'
  BY <1>0, <1>6 DEF EndedInv, WaitingInv, FreshInv
<1>14. KeptInv'
  <2> SUFFICES ASSUME NEW x \in Queue!Task, status[x] \notin Queue!Finished
               PROVE  /\ Fresh(x)' \/ Waiting(x)' \/ \E g \in Workers : Holds(g, x)'
                      /\ ~Fresh(x)' \/ (thread'[Queue!Main] = "put" /\ x = task'[Queue!Main]) => x \in records'
    BY <1>0 DEF KeptInv
  <2>1. ~Holds(h, x)
    BY <1>5 DEF Holds
  <2>2. QED
    BY <2>1, <1>0, <1>3, <1>6, <1>t DEF KeptInv
<1>15. EveryFileRan'
  BY <1>0, <1>3, <1>t DEF EveryFileRan, Queue!EveryFileRan
<1>16. QED
  BY <1>9, <1>10, <1>11, <1>14, <1>15

\* With no worker threads the main thread ends a task, and goes on to the next file or to the report.
LEMMA InlineStep ==
  ASSUME FileInv, Queue!Stamp(Queue!Main)
  PROVE  FileInv'
<1> USE DEF Queue!Goto, FileInv
<1> DEFINE t == task[Queue!Main]
           there == IF t < Tasks THEN "submit" ELSE "collect"
           next == IF t < Tasks THEN t + 1 ELSE 1
<1>t. FileTypes /\ t \in Queue!Task /\ Queue!Main \in Workers /\ Queue!Main \notin Threads
  BY FileAssumption DEF FileTypes, Workers, Queue!Main
<1>a. /\ thread[Queue!Main] = "stamp" /\ ~async /\ q = <<>> /\ \A h \in Threads : thread[h] = "idle"
  BY <1>t DEF Queue!Stamp, FileTypes, Held
<1>0. /\ thread' = [thread EXCEPT ![Queue!Main] = there] /\ task' = [task EXCEPT ![Queue!Main] = next]
      /\ UNCHANGED <<async, records, q, status, verdict, runs, collected>>
  BY <1>t, <1>a DEF Queue!Stamp, Queue!Onward, FileTypes
<1>1. /\ there \in {"submit", "collect"} /\ next \in Queue!Task /\ Tasks \in Nat /\ t \in 1..Tasks
      /\ \A x \in Queue!Task : there = "submit" /\ x >= next <=> x > t
  BY <1>t, FileAssumption DEF Queue!Task
<1>5. status[t] \in Queue!Finished
  BY <1>a, <1>t DEF HeldInv
<1> HIDE DEF there, next
<1>3. /\ thread'[Queue!Main] = there /\ \A h \in Workers : h # Queue!Main => thread'[h] = thread[h] /\ task'[h] = task[h]
      /\ task'[Queue!Main] = next
      /\ thread' \in [Workers -> {"idle", "submit", "put", "poll", "collect", "done"} \cup Held]
      /\ task' \in [Workers -> 0..Tasks]
  BY <1>0, <1>1, <1>t DEF FileTypes, Queue!Task
<1>6. \A x \in Queue!Task : Fresh(x)' <=> Fresh(x)
  <2>1. \A x \in Queue!Task : Fresh(x) <=> x > t
    BY <1>a DEF Fresh, Held
  <2>2. \A x \in Queue!Task : Fresh(x)' <=> there = "submit" /\ x >= next
    BY <1>1, <1>3 DEF Fresh, Held
  <2>3. QED
    BY <2>1, <2>2, <1>1
<1>7. \A h \in Workers : thread'[h] \notin Held
  BY <1>a, <1>1, <1>3 DEF Workers, Held
<1>8. \A x : ~Waiting(x) /\ ~Waiting(x)'
  BY <1>a, <1>0 DEF Waiting
<1>9. FileTypes'
  <2>1. \A h \in Threads : thread'[h] = "idle"
    BY <1>a, <1>3, <1>t DEF Workers
  <2>2. thread'[Queue!Main] \notin {"idle", "put", "poll"} \cup Held
    BY <1>1, <1>3 DEF Held
  <2>3. \A x \in Queue!Task : collected[x] = None
    BY <1>a, <1>t DEF FileTypes
  <2>4. QED
    BY <1>a, <1>0, <1>1, <1>3, <1>7, <1>t, <2>1, <2>2, <2>3 DEF FileTypes
<1>10. HeldInv'
  BY <1>7 DEF HeldInv, Held
<1>11. EndedInv'
  BY <1>0 DEF EndedInv
<1>12. WaitingInv'
  BY <1>0, <1>8, <1>a DEF WaitingInv
<1>13. FreshInv'
  BY <1>0, <1>6, <1>7 DEF FreshInv, Holds
<1>k. \A x \in Queue!Task : status[x] \notin Queue!Finished => Fresh(x)
  <2> SUFFICES ASSUME NEW x \in Queue!Task, status[x] \notin Queue!Finished, ~Fresh(x)
               PROVE  FALSE
    OBVIOUS
  <2>1. PICK h \in Workers : Holds(h, x)
    BY <1>8 DEF KeptInv
  <2>2. h = Queue!Main
    BY <2>1, <1>a DEF Holds, Held, Workers
  <2>3. QED
    BY <2>1, <2>2, <1>5 DEF Holds
<1>14. KeptInv'
  BY <1>0, <1>1, <1>3, <1>6, <1>k DEF KeptInv
<1>15. EveryFileRan'
  <2>1. ASSUME there = "collect", NEW x \in Queue!Task
        PROVE  ~Fresh(x)
    BY <2>1, <1>1, <1>3, <1>6 DEF Fresh, Held
  <2>2. \A x \in Queue!Task : collected[x] = None
    BY <1>a, <1>t DEF FileTypes
  <2>3. QED
    BY <2>1, <2>2, <1>0, <1>1, <1>3, <1>k DEF EveryFileRan, Queue!EveryFileRan, EndedInv
<1>16. QED
  BY <1>9, <1>10, <1>11, <1>12, <1>13, <1>14, <1>15

\* The main thread sees every record finished, or reads one into the report.
LEMMA ReportStep ==
  ASSUME FileInv, Queue!Poll \/ Queue!Collect
  PROVE  FileInv'
<1> USE DEF Queue!Goto, FileInv
<1>t. FileTypes /\ task[Queue!Main] \in Queue!Task /\ Queue!Main \in Workers /\ Queue!Main \notin Threads
  BY FileAssumption DEF FileTypes, Workers, Queue!Main
<1>0. PICK there \in {"collect", "done"}, next \in Queue!Task :
        /\ thread' = [thread EXCEPT ![Queue!Main] = there] /\ task' = [task EXCEPT ![Queue!Main] = next]
        /\ thread[Queue!Main] \in {"poll", "collect"}
        /\ UNCHANGED <<async, records, q, status, verdict, runs>>
  <2>1. CASE Queue!Poll
    <3>1. task' = [task EXCEPT ![Queue!Main] = task[Queue!Main]]
      BY <2>1, <1>t DEF Queue!Poll, FileTypes
    <3>2. QED
      BY <2>1, <3>1, <1>t DEF Queue!Poll, Queue!fields
  <2>2. CASE Queue!Collect
    <3>1. task[Queue!Main] \in 1..Tasks /\ Tasks \in Nat
      BY <1>t, FileAssumption DEF Queue!Task
    <3>2. /\ task' = [task EXCEPT ![Queue!Main] = IF task[Queue!Main] < Tasks THEN task[Queue!Main] + 1
                                                  ELSE task[Queue!Main]]
          /\ thread' = [thread EXCEPT ![Queue!Main] = IF task[Queue!Main] < Tasks THEN "collect" ELSE "done"]
          /\ UNCHANGED <<async, records, q, status, verdict, runs>> /\ thread[Queue!Main] = "collect"
      BY <2>2 DEF Queue!Collect, Queue!fields
    <3>3. CASE task[Queue!Main] < Tasks
      <4>1. task[Queue!Main] + 1 \in Queue!Task
        BY <3>1, <3>3 DEF Queue!Task
      <4>2. /\ task' = [task EXCEPT ![Queue!Main] = task[Queue!Main] + 1]
            /\ thread' = [thread EXCEPT ![Queue!Main] = "collect"]
        BY <3>2, <3>3
      <4>3. QED
        BY <3>2, <4>1, <4>2
    <3>4. CASE ~(task[Queue!Main] < Tasks)
      <4>1. /\ task' = [task EXCEPT ![Queue!Main] = task[Queue!Main]]
            /\ thread' = [thread EXCEPT ![Queue!Main] = "done"]
        BY <3>2, <3>4
      <4>2. QED
        BY <3>2, <4>1, <1>t
    <3>5. QED
      BY <3>3, <3>4
  <2>3. QED
    BY <2>1, <2>2
<1>c. DOMAIN collected' = Queue!Task
  BY <1>t DEF FileTypes, Queue!Poll, Queue!Collect
<1>3. /\ thread'[Queue!Main] = there /\ \A h \in Workers : h # Queue!Main => thread'[h] = thread[h] /\ task'[h] = task[h]
      /\ task'[Queue!Main] = next
      /\ thread' \in [Workers -> {"idle", "submit", "put", "poll", "collect", "done"} \cup Held]
      /\ task' \in [Workers -> 0..Tasks]
  BY <1>0, <1>t DEF FileTypes, Queue!Task
<1>6. /\ \A x : ~Fresh(x) /\ ~Fresh(x)'
      /\ \A x : Waiting(x)' <=> Waiting(x)
      /\ \A h \in Workers, x \in Queue!Task : Holds(h, x)' <=> Holds(h, x)
  BY <1>0, <1>3 DEF Fresh, Waiting, Holds, Held
<1>7. \A h \in Workers : thread'[h] \in Held => h # Queue!Main
  BY <1>3 DEF Held
<1>8. \A x \in Queue!Task : status[x] \in Queue!Finished
  <2>1. CASE Queue!Poll
    BY <2>1, <1>6 DEF Queue!Poll, KeptInv
  <2>2. CASE Queue!Collect
    BY <2>2 DEF Queue!Collect, EveryFileRan, Queue!EveryFileRan
  <2>3. QED
    BY <2>1, <2>2
<1>9. FileTypes'
  <2>1. \A h \in Workers : thread'[h] \in Held => task'[h] \in Queue!Task
    BY <1>3, <1>7, <1>t DEF FileTypes
  <2>2. \A h \in Threads : thread'[h] = thread[h]
    BY <1>3, <1>t DEF Workers
  <2>3. thread'[Queue!Main] \in {"collect", "done"} /\ task'[Queue!Main] \in Queue!Task
    BY <1>3
  <2>4. QED
    BY <1>0, <1>3, <1>c, <1>t, <2>1, <2>2, <2>3 DEF FileTypes, Held
<1>10. HeldInv'
  BY <1>0, <1>3, <1>7 DEF HeldInv, Held
<1>11. EndedInv' /\ WaitingInv' /\ FreshInv' /\ KeptInv'
  BY <1>0, <1>6, <1>8 DEF EndedInv, WaitingInv, FreshInv, KeptInv
<1>15. EveryFileRan'
  <2> SUFFICES ASSUME NEW x \in Queue!Task, collected'[x] # None
               PROVE  collected'[x].status = "completed" <=> verdict[x] = "result"
    BY <1>0, <1>8 DEF EveryFileRan, Queue!EveryFileRan, EndedInv
  <2>1. CASE Queue!Poll
    BY <2>1, <1>t DEF Queue!Poll, FileTypes
  <2>2. CASE Queue!Collect
    <3> DEFINE t == task[Queue!Main]
               out == [status |-> status[t], why |-> error[t]]
    <3>1. collected' = [collected EXCEPT ![t] = IF t \in records THEN out ELSE None]
      BY <2>2 DEF Queue!Collect
    <3>2. out.status = status[t]
      OBVIOUS
    <3> HIDE DEF t, out
    <3>3. collected[x] # None => (collected[x].status = "completed" <=> verdict[x] = "result")
      BY <2>2 DEF Queue!Collect, EveryFileRan, Queue!EveryFileRan
    <3>4. status[x] = "completed" <=> verdict[x] = "result"
      BY <1>8 DEF EndedInv
    <3>5. collected'[x] = IF x = t THEN (IF t \in records THEN out ELSE None) ELSE collected[x]
      BY <3>1, <1>t DEF FileTypes
    <3>6. QED
      BY <3>2, <3>3, <3>4, <3>5
  <2>3. QED
    BY <2>1, <2>2
<1>16. QED
  BY <1>9, <1>10, <1>11, <1>15

\* Every step of the main thread and of the worker threads keeps the invariant.
LEMMA FileNext ==
  ASSUME FileInv, [Queue!Next]_Queue!vars
  PROVE  FileInv'
<1>1. CASE UNCHANGED Queue!vars
  <2>1. /\ UNCHANGED <<async, records, q, thread, task, status, verdict, runs, collected>>
        /\ \A x : Fresh(x)' <=> Fresh(x)
        /\ \A x : Waiting(x)' <=> Waiting(x)
        /\ \A h, x : Holds(h, x)' <=> Holds(h, x)
    BY <1>1 DEF Queue!vars, Fresh, Waiting, Holds
  <2>2. FileTypes' /\ HeldInv' /\ EndedInv' /\ WaitingInv' /\ FreshInv'
    BY <2>1 DEF FileInv, FileTypes, HeldInv, EndedInv, WaitingInv, FreshInv
  <2>3. KeptInv' /\ EveryFileRan'
    BY <2>1 DEF FileInv, KeptInv, EveryFileRan, Queue!EveryFileRan
  <2>4. QED
    BY <2>2, <2>3 DEF FileInv
<1>2. ASSUME NEW h \in Threads \cup {Queue!Main}, Queue!Works(h)
      PROVE  FileInv'
  BY <1>2, TakeStep, TaskStep, StampStep, InlineStep DEF Queue!Works, Workers
<1>3. QED
  BY <1>1, <1>2, SubmitStep, PutStep, ReportStep DEF Queue!Next

\* For any number of files, worker threads and kept records, queued or inline: when the command line
\* reports, every file has been run exactly once, and what it reports as completed is what gave a
\* result - no task is lost, taken twice or evicted before it has finished.
THEOREM EveryFileRuns == Queue!Spec => []EveryFileRan
<1>1. FileInv => EveryFileRan
  BY DEF FileInv
<1>2. QED
  BY <1>1, FileInitial, FileNext, PTL DEF Queue!Spec

-----------------------------------------------------------------------------
(***************************************************************************)
(* The types of all the parts, and what the parts are of the whole.        *)
(***************************************************************************)
\* What the console shows and asks for; a stream that is served has its connection.
ConsoleInv ==
  /\ row \in {"processing", "settled"} /\ page \in {None, "processing", "settled"}
  /\ spc \in {"closed", "subscribe", "snapshot", "loop", "forward"}
  /\ spc # "closed" => source = "open"
  /\ subscribed => spc \in {"snapshot", "loop", "forward"}
  /\ reply \in {"idle", "sent", "processing", "settled"}
  /\ opens \in 0..MaxOpens /\ lost \in 0..MaxLost

\* Every step of the writers, the stream and the console keeps it.
LEMMA ConsoleKept ==
  ASSUME ConsoleInv, [Live!Next]_Live!vars
  PROVE  ConsoleInv'
<1> USE DEF Live!writers, Live!channel, Live!stream, Live!console, ConsoleInv
<1>f. Live!Fault => lost' \in 0..MaxLost
  BY ScriptAssumption DEF Live!Fault
<1>1. ASSUME NEW w \in Live!Writer, Live!Commit(w) \/ Live!Write(w) \/ Live!Publish(w)
      PROVE  ConsoleInv'
  BY <1>1, <1>f DEF Live!Commit, Live!Write, Live!Publish
<1>2. CASE Live!Open
  <2>1. opens' \in 0..MaxOpens
    BY <1>2, ScriptAssumption DEF Live!Open
  <2> QED
    BY <1>2, <1>f, <2>1 DEF Live!Open
<1>3. CASE Live!SubscribeFails \/ Live!StreamEnds
  BY <1>3, <1>f DEF Live!SubscribeFails, Live!StreamEnds, Live!Hangup
<1>4. CASE Live!Subscribe \/ Live!Snapshot \/ Live!GetMessage \/ Live!Forward
  BY <1>4, <1>f DEF Live!Subscribe, Live!Snapshot, Live!GetMessage, Live!Forward, Live!Invalidated
<1>5. CASE Live!Poll \/ Live!Answer \/ Live!Arrives \/ Live!FetchFails
  BY <1>5, <1>f DEF Live!Poll, Live!Answer, Live!Arrives, Live!FetchFails
<1>6. CASE UNCHANGED Live!vars
  BY <1>6 DEF Live!vars
<1> QED
  BY <1>1, <1>2, <1>3, <1>4, <1>5, <1>6 DEF Live!Next, Live!Writes, Live!Streams

\* LiveCase keeps its types: a stream is subscribed only while it is served and its connection open.
LEMMA ConsoleTyped == ConsoleInv => Live!TypeOK
BY DEF ConsoleInv, Live!TypeOK

-----------------------------------------------------------------------------
\* What the service worker keeps beside its lists.
WorkerInv ==
  /\ \A s \in Scan : handler[s] \in Polling!ScanPC
  /\ \A p \in Pass : handler[p] \in Polling!PassPC
  /\ copy \in [Polling!Handler -> [Scan -> Polling!Shown] \cup {None}]
  /\ alarm \in BOOLEAN /\ timer \in BOOLEAN /\ alive \in BOOLEAN
  /\ suspends \in Nat /\ stale \in BOOLEAN /\ torn \in BOOLEAN

\* A handler goes on to a place of its own kind.
LEMMA GoesOn ==
  ASSUME ScanInv, WorkerInv, NEW h \in Polling!Handler, NEW there, Polling!Goto(h, there),
         h \in Scan => there \in Polling!ScanPC, h \in Pass => there \in Polling!PassPC
  PROVE  /\ \A s \in Scan : handler'[s] \in Polling!ScanPC
         /\ \A p \in Pass : handler'[p] \in Polling!PassPC
<1>1. handler \in [Polling!Handler -> Polling!ScanPC \cup Polling!PassPC]
  BY DEF ScanInv, ScanTypes
<1> QED
  BY <1>1 DEF Polling!Goto, WorkerInv, Polling!Handler

\* Every step of the handlers, the passes and the browser keeps it.
LEMMA WorkerKept ==
  ASSUME ScanInv, WorkerInv, [Polling!Next]_Polling!vars
  PROVE  WorkerInv'
<1> DEFINE places == /\ \A s \in Scan : handler'[s] \in Polling!ScanPC
                     /\ \A p \in Pass : handler'[p] \in Polling!PassPC
<1> USE DEF Polling!lists, Polling!local
<1>t. /\ Scan \subseteq Polling!Handler /\ Pass \subseteq Polling!Handler /\ Scan \cap Pass = {}
      /\ history \in [Scan -> Polling!Shown]
  BY HandlerAssumption DEF Polling!Handler, ScanInv, ScanTypes
<1>p. /\ {"idle", "read", "loop", "hist_read", "hist_write", "stored", "armed"} = Polling!PassPC
      /\ {"idle", "hist_read", "hist_write", "pend_read", "pend_write", "stored", "armed", "done", "dead"}
           = Polling!ScanPC
  BY DEF Polling!PassPC, Polling!ScanPC
<1>1. ASSUME NEW s \in Scan, Polling!Start(s)
      PROVE  WorkerInv'
  <2>1. places
    BY <1>1, <1>t, <1>p, GoesOn DEF Polling!Start
  <2> QED
    BY <1>1, <2>1 DEF Polling!Start, WorkerInv
<1>2. ASSUME NEW s \in Scan, Polling!PendRead(s) \/ Polling!Track(s)
      PROVE  WorkerInv'
  <2>1. places
    BY <1>2, <1>t, <1>p, GoesOn DEF Polling!PendRead, Polling!Track, Polling!Store
  <2> QED
    BY <1>2, <2>1 DEF Polling!PendRead, Polling!Track, Polling!Store, WorkerInv
<1>3. ASSUME NEW h \in Polling!Handler, Polling!HistRead(h)
      PROVE  WorkerInv'
  <2>1. places
    BY <1>3, <1>t, <1>p, GoesOn DEF Polling!HistRead
  <2> QED
    BY <1>3, <1>t, <2>1 DEF Polling!HistRead, WorkerInv
<1>4. ASSUME NEW h \in Polling!Handler, Polling!HistWrite(h)
      PROVE  WorkerInv'
  <2>1. Polling!Goto(h, IF h \in Pass THEN "loop" ELSE "pend_read")
    BY <1>4 DEF Polling!HistWrite
  <2>2. places
    BY <2>1, <1>t, <1>p, GoesOn
  <2> QED
    BY <1>4, <2>2 DEF Polling!HistWrite, WorkerInv
<1>5. ASSUME NEW p \in Pass, Polling!TimerFires(p) \/ Polling!AlarmFires(p) \/ Polling!Wakes(p) \/ Polling!PassRead(p)
      PROVE  WorkerInv'
  <2>1. places
    BY <1>5, <1>t, <1>p, GoesOn DEF Polling!TimerFires, Polling!AlarmFires, Polling!Wakes, Polling!PassRead
  <2> QED
    BY <1>5, <2>1 DEF Polling!TimerFires, Polling!AlarmFires, Polling!Wakes, Polling!PassRead, WorkerInv
<1>6. ASSUME NEW p \in Pass, Polling!Poll(p)
      PROVE  WorkerInv'
  <2>1. handler' = handler \/ Polling!Goto(p, "hist_read")
    BY <1>6 DEF Polling!Poll, Polling!TimesOut, Polling!Answered, Polling!Unanswered
  <2>2. places
    BY <2>1, <1>t, <1>p, GoesOn DEF WorkerInv
  <2> QED
    BY <1>6, <2>2 DEF Polling!Poll, WorkerInv
<1>7. ASSUME NEW p \in Pass, Polling!PassEnds(p)
      PROVE  WorkerInv'
  <2>1. places
    BY <1>7, <1>t, <1>p, GoesOn DEF Polling!PassEnds, Polling!Store
  <2> QED
    BY <1>7, <2>1 DEF Polling!PassEnds, Polling!Store, WorkerInv
<1>8. CASE Polling!Suspend
  <2>1. places
    BY <1>8, <1>t, <1>p DEF Polling!Suspend, WorkerInv
  <2>2. copy' \in [Polling!Handler -> [Scan -> Polling!Shown] \cup {None}]
    BY <1>8 DEF Polling!Suspend
  <2>3. suspends' \in Nat
    BY <1>8 DEF Polling!Suspend, WorkerInv
  <2>4. alarm' \in BOOLEAN /\ timer' \in BOOLEAN /\ alive' \in BOOLEAN /\ stale' \in BOOLEAN
        /\ torn' \in BOOLEAN
    BY <1>8 DEF Polling!Suspend, WorkerInv
  <2> QED
    BY <2>1, <2>2, <2>3, <2>4 DEF WorkerInv
<1>9. ASSUME NEW s \in Scan, Polling!ServerSettles(s) \/ Polling!TimePasses(s)
      PROVE  WorkerInv'
  BY <1>9 DEF Polling!ServerSettles, Polling!TimePasses, WorkerInv
<1>10. ASSUME NEW h \in Polling!Handler, Polling!SetAlarm(h)
      PROVE  WorkerInv'
  <2>1. PICK there \in {"idle", "armed"} : Polling!Goto(h, there) /\ (there = "idle" => h \in Pass)
    BY <1>10 DEF Polling!SetAlarm
  <2>2. places
    BY <2>1, <1>t, <1>p, GoesOn
  <2> QED
    BY <1>10, <2>2 DEF Polling!SetAlarm, WorkerInv
<1>11. ASSUME NEW h \in Polling!Handler, Polling!ScheduleTick(h)
      PROVE  WorkerInv'
  <2>1. Polling!Goto(h, IF h \in Pass THEN "idle" ELSE "done")
    BY <1>11 DEF Polling!ScheduleTick
  <2>2. places
    BY <2>1, <1>t, <1>p, GoesOn
  <2> QED
    BY <1>11, <2>2 DEF Polling!ScheduleTick, WorkerInv
<1>12. CASE UNCHANGED Polling!vars
  BY <1>12 DEF Polling!vars, WorkerInv
<1> QED
  BY <1>t, <1>1, <1>2, <1>3, <1>4, <1>5, <1>6, <1>7, <1>8, <1>9, <1>10, <1>11, <1>12
  DEF Polling!Next, Polling!ScanStep, Polling!PassStep

\* ExtensionPolling keeps its types: a handler stays at the places of its kind, with a copy of the
\* history or none.
LEMMA WorkerTyped == ScanInv /\ WorkerInv => Polling!TypeOK
BY DEF ScanInv, ScanTypes, WorkerInv, Polling!TypeOK

-----------------------------------------------------------------------------
\* The tasks whose completion time is written. A task is stamped by the thread that holds it, once:
\* the clock counts them.
Stamped == {t \in Queue!Task : completed_at[t] # 0}

StampInv ==
  /\ completed_at \in [Queue!Task -> Nat] /\ ended = Cardinality(Stamped)
  /\ created_at \in [Queue!Task -> 0..Tasks]
  /\ \A t \in Queue!Task : completed_at[t] <= ended
  /\ \A t \in Stamped : status[t] \in Queue!Finished /\ \A h \in Workers : ~Holds(h, t)

\* There are as many stamped tasks as fit.
LEMMA StampsCounted ==
  /\ IsFiniteSet(Stamped) /\ Cardinality(Stamped) \in 0..Tasks
<1>1. IsFiniteSet(Queue!Task) /\ Cardinality(Queue!Task) = Tasks
  BY FileAssumption, FS_Interval DEF Queue!Task
<1>2. Stamped \subseteq Queue!Task
  BY DEF Stamped
<1>3. IsFiniteSet(Stamped) /\ Cardinality(Stamped) <= Cardinality(Queue!Task)
  BY <1>1, <1>2, FS_Subset
<1> QED
  BY <1>1, <1>3, FS_CardinalityType, FileAssumption

\* A step that writes no completion time takes no stamped task up again: what a thread takes up is
\* queued.
LEMMA StampsStay ==
  ASSUME FileInv, FileInv', StampInv, UNCHANGED <<completed_at, ended>>,
         created_at' \in [Queue!Task -> 0..Tasks],
         \A t \in Stamped : status'[t] = status[t],
         \A h \in Workers, t \in Stamped : Holds(h, t)' => Holds(h, t) \/ thread'[h] = "start"
  PROVE  StampInv'
<1>1. Stamped' = Stamped
  BY DEF Stamped
<1>2. ASSUME NEW t \in Stamped, NEW h \in Workers, Holds(h, t)'
      PROVE  FALSE
  <2>1. thread'[h] = "start" /\ task'[h] = t
    BY <1>2 DEF StampInv, Holds
  <2>2. status'[t] = "queued"
    BY <2>1 DEF FileInv, HeldInv
  <2> QED
    BY <2>2 DEF StampInv, Queue!Finished
<1> QED
  BY <1>1, <1>2 DEF StampInv

\* Every step keeps the stamps.
LEMMA StampKept ==
  ASSUME FileInv, FileInv', StampInv, [Queue!Next]_Queue!vars
  PROVE  StampInv'
<1> USE DEF Queue!Goto, Queue!fields
<1>t. /\ thread \in [Workers -> {"idle", "submit", "put", "poll", "collect", "done"} \cup Held]
      /\ task \in [Workers -> 0..Tasks] /\ Queue!Main \in Workers /\ Queue!Main \notin Threads
      /\ Workers = Threads \cup {Queue!Main}
      /\ status \in [Queue!Task -> {"queued", "running", "completed", "failed"}]
      /\ \A h \in Workers : thread[h] \in Held => task[h] \in Queue!Task
  BY FileAssumption DEF FileInv, FileTypes, Workers, Queue!Main
<1>h. \A t \in Stamped, h \in Workers : thread[h] \in Held => task[h] # t
  BY DEF StampInv, Holds
<1>c. created_at \in [Queue!Task -> 0..Tasks]
  BY DEF StampInv
<1>1. ASSUME NEW h \in Workers, Queue!Take(h)
      PROVE  StampInv'
  <2>1. /\ UNCHANGED <<created_at, completed_at, ended, status>>
        /\ \A g \in Workers : g # h => thread'[g] = thread[g] /\ task'[g] = task[g]
        /\ thread'[h] \in {"start", "idle"}
    BY <1>1, <1>t DEF Queue!Take
  <2>2. \A g \in Workers, t \in Stamped : Holds(g, t)' => Holds(g, t) \/ thread'[g] = "start"
    BY <2>1 DEF Holds, Held
  <2> QED
    BY <1>c, <2>1, <2>2, StampsStay
<1>2. ASSUME NEW h \in Workers, Queue!Start(h) \/ Queue!Run(h) \/ Queue!Settle(h) \/ Queue!Explain(h)
      PROVE  StampInv'
  <2>1. /\ UNCHANGED <<created_at, completed_at, ended, task>> /\ thread[h] \in Held
        /\ \A g \in Workers : g # h => thread'[g] = thread[g]
        /\ \A t \in Queue!Task : t # task[h] => status'[t] = status[t]
    BY <1>2, <1>t DEF Queue!Start, Queue!Run, Queue!Settle, Queue!Explain, Held
  <2>2. \A t \in Stamped : status'[t] = status[t]
    BY <2>1, <1>h DEF Stamped
  <2>3. \A g \in Workers, t \in Stamped : Holds(g, t)' => Holds(g, t) \/ thread'[g] = "start"
    BY <2>1 DEF Holds
  <2> QED
    BY <1>c, <2>1, <2>2, <2>3, StampsStay
<1>3. CASE Queue!Submit \/ Queue!Put \/ Queue!Poll \/ Queue!Collect
  <2>1. /\ UNCHANGED <<completed_at, ended, status>>
        /\ \A g \in Workers : g # Queue!Main => thread'[g] = thread[g] /\ task'[g] = task[g]
        /\ thread'[Queue!Main] \in {"put", "start", "submit", "poll", "collect", "done"}
    BY <1>3, <1>t DEF Queue!Submit, Queue!Put, Queue!Poll, Queue!Collect, Queue!Onward
  <2>2. \A g \in Workers, t \in Stamped : Holds(g, t)' => Holds(g, t) \/ thread'[g] = "start"
    BY <2>1 DEF Holds, Held
  <2>3. created_at' \in [Queue!Task -> 0..Tasks]
    <3>1. created_at' = created_at \/ created_at' = [created_at EXCEPT ![task[Queue!Main]] = ended]
      BY <1>3 DEF Queue!Submit, Queue!Put, Queue!Poll, Queue!Collect
    <3>2. ended \in 0..Tasks
      BY StampsCounted DEF StampInv
    <3> QED
      BY <1>c, <3>1, <3>2
  <2> QED
    BY <2>1, <2>2, <2>3, StampsStay
<1>4. ASSUME NEW h \in Workers, Queue!Stamp(h)
      PROVE  StampInv'
  <2> DEFINE t == task[h]
  <2>1. thread[h] = "stamp" /\ t \in Queue!Task /\ t \notin Stamped /\ status[t] \in Queue!Finished
    BY <1>4, <1>t, <1>h DEF Queue!Stamp, Held, FileInv, HeldInv
  <2>2. /\ UNCHANGED status /\ ended' = ended + 1 /\ completed_at' = [completed_at EXCEPT ![t] = ended + 1]
        /\ \A g \in Workers : g # h => thread'[g] = thread[g] /\ task'[g] = task[g]
        /\ thread'[h] \notin Held
    BY <1>4, <1>t DEF Queue!Stamp, Queue!Onward, Held
  <2>3. ended \in Nat
    BY StampsCounted DEF StampInv
  <2>4. /\ completed_at' \in [Queue!Task -> Nat] /\ completed_at'[t] = ended + 1
        /\ \A x \in Queue!Task : x # t => completed_at'[x] = completed_at[x]
    BY <2>1, <2>2, <2>3 DEF StampInv
  <2>5. Stamped' = Stamped \cup {t}
    BY <2>1, <2>3, <2>4 DEF Stamped
  <2>6. Cardinality(Stamped') = Cardinality(Stamped) + 1
    BY <2>1, <2>5, StampsCounted, FS_AddElement
  <2>7. \A x \in Queue!Task : completed_at'[x] <= ended'
    BY <2>2, <2>3, <2>4 DEF StampInv
  <2>8. ASSUME NEW x \in Stamped', NEW g \in Workers, Holds(g, x)'
        PROVE  FALSE
    <3>1. g # h /\ Holds(g, x)
      BY <2>2, <2>8 DEF Holds
    <3>2. x = t
      BY <3>1, <2>5 DEF StampInv
    <3> QED
      BY <3>1, <3>2, <2>1, <1>t DEF FileInv, HeldInv, Holds, Held
  <2>9. \A x \in Stamped' : status'[x] \in Queue!Finished
    BY <2>1, <2>2, <2>5 DEF StampInv
  <2>10. created_at' = created_at
    BY <1>4 DEF Queue!Stamp
  <2> QED
    BY <1>c, <2>2, <2>4, <2>6, <2>7, <2>8, <2>9, <2>10 DEF StampInv
<1>5. CASE UNCHANGED Queue!vars
  <2>1. UNCHANGED <<created_at, completed_at, ended, status, thread, task>>
    BY <1>5 DEF Queue!vars
  <2>2. \A g \in Workers, t \in Stamped : Holds(g, t)' => Holds(g, t) \/ thread'[g] = "start"
    BY <2>1 DEF Holds
  <2> QED
    BY <1>c, <2>1, <2>2, StampsStay
<1> QED
  BY <1>t, <1>1, <1>2, <1>3, <1>4, <1>5 DEF Queue!Next, Queue!Works

\* No task is stamped at the start.
LEMMA StampStart ==
  ASSUME Queue!Init
  PROVE  StampInv
<1>1. /\ completed_at = [t \in Queue!Task |-> 0] /\ ended = 0
      /\ created_at = [t \in Queue!Task |-> 0] /\ 0 \in 0..Tasks
  BY FileAssumption DEF Queue!Init
<1>2. Stamped = {}
  BY <1>1 DEF Stamped
<1> QED
  BY <1>1, <1>2, FS_EmptySet DEF StampInv

\* InMemoryQueue keeps its types: no more tasks end than there are.
LEMMA FileTyped == FileInv /\ StampInv => Queue!TypeOK
<1> SUFFICES ASSUME FileInv, StampInv PROVE Queue!TypeOK
  OBVIOUS
<1>1. ended \in 0..Tasks
  BY StampsCounted DEF StampInv
<1>2. \A t \in Queue!Task : created_at[t] \in 0..Tasks /\ completed_at[t] \in 0..Tasks
  BY <1>1, FileAssumption DEF StampInv
<1> QED
  BY <1>1, <1>2 DEF FileInv, FileTypes, Queue!TypeOK, Queue!Finished, Workers

-----------------------------------------------------------------------------
(***************************************************************************)
(* The streams of the whole are those StreamSlotsProofs is about.          *)
(***************************************************************************)
Proved == INSTANCE StreamSlotsProofs WITH pc <- slotPc

\* The same steps.
LEMMA SameStreams == Slots!Init /\ [][Slots!Next]_Slots!vars => Proved!Spec
<1>1. Slots!Init => Proved!Init
  BY DEF Slots!Init, Proved!Init, Slots!Fault, Proved!Fault
<1>2. Slots!Next => Proved!Next
  <2>1. /\ Slots!Value = Proved!Value /\ Slots!Busy = Proved!Busy
        /\ Slots!Counted = Proved!Counted /\ Slots!Holders = Proved!Holders
    BY DEF Slots!Value, Proved!Value, Slots!Busy, Proved!Busy, Slots!Counted, Proved!Counted,
       Slots!Holders, Proved!Holders
  <2>2. /\ \A s, to : Slots!Goto(s, to) <=> Proved!Goto(s, to)
        /\ \A f : Slots!Spend(f) <=> Proved!Spend(f)
        /\ \A p : Slots!Free(p) <=> Proved!Free(p)
        /\ \A s : Slots!Punctual(s) <=> Proved!Punctual(s)
        /\ \A s : Slots!Again(s) = Proved!Again(s)
        /\ Slots!NotRun <=> Proved!NotRun
    BY <2>1 DEF Slots!Goto, Proved!Goto, Slots!Spend, Proved!Spend, Slots!Free, Proved!Free,
       Slots!Punctual, Proved!Punctual, Slots!Again, Proved!Again, Slots!NotRun, Proved!NotRun
  <2>3. \A s : /\ Slots!Increment(s) <=> Proved!Increment(s)
               /\ Slots!SetExpiry(s) <=> Proved!SetExpiry(s)
               /\ Slots!Decrement(s) <=> Proved!Decrement(s)
               /\ Slots!SetZero(s) <=> Proved!SetZero(s)
    BY <2>1 DEF Slots!Increment, Proved!Increment, Slots!SetExpiry, Proved!SetExpiry, Slots!Decrement,
       Proved!Decrement, Slots!SetZero, Proved!SetZero
  <2>4. \A s, b : /\ Slots!Leave(s) <=> Proved!Leave(s)
                  /\ Slots!Counting(s, b) <=> Proved!Counting(s, b)
                  /\ Slots!MayRun(s) <=> Proved!MayRun(s)
    BY <2>1, <2>2 DEF Slots!Leave, Proved!Leave, Slots!Counting, Proved!Counting, Slots!MayRun, Proved!MayRun
  <2>5. \A s, b : Slots!Released(s, b) <=> Proved!Released(s, b)
    BY <2>2, <2>4 DEF Slots!Released, Proved!Released
  <2>6. \A s : /\ Slots!Incr(s) <=> Proved!Incr(s)
               /\ Slots!Expire(s) <=> Proved!Expire(s)
               /\ Slots!Undo(s) <=> Proved!Undo(s)
    BY <2>1, <2>2, <2>3, <2>4 DEF Slots!Incr, Proved!Incr, Slots!Expire, Proved!Expire, Slots!Undo, Proved!Undo
  <2>7. \A s : /\ Slots!EnterFails(s) <=> Proved!EnterFails(s)
               /\ Slots!ExitFails(s) <=> Proved!ExitFails(s)
               /\ Slots!Unanswered(s) <=> Proved!Unanswered(s)
    BY <2>1, <2>2, <2>3, <2>4 DEF Slots!EnterFails, Proved!EnterFails, Slots!ExitFails, Proved!ExitFails,
       Slots!Unanswered, Proved!Unanswered
  <2>8. \A s : /\ Slots!Start(s) <=> Proved!Start(s)
               /\ Slots!Abandon(s) <=> Proved!Abandon(s)
               /\ Slots!Exit(s) <=> Proved!Exit(s)
               /\ Slots!Reset(s) <=> Proved!Reset(s)
    BY <2>1, <2>2, <2>3, <2>4, <2>5 DEF Slots!Start, Proved!Start, Slots!Abandon, Proved!Abandon, Slots!Exit,
       Proved!Exit, Slots!Reset, Proved!Reset
  <2>9. \A p : Slots!Kill(p) <=> Proved!Kill(p)
    BY <2>2 DEF Slots!Kill, Proved!Kill
  <2>10. Slots!Lapse <=> Proved!Lapse
    BY <2>1, <2>2 DEF Slots!Lapse, Proved!Lapse, Slots!Cardinality, Proved!Cardinality
  <2>11. Slots!Tick <=> Proved!Tick
    BY <2>2, <2>10 DEF Slots!Tick, Proved!Tick
  <2>12. \A s : Slots!Proceed(s) <=> Proved!Proceed(s)
    BY <2>6, <2>8 DEF Slots!Proceed, Proved!Proceed
  <2> QED
    BY <2>6, <2>7, <2>8, <2>9, <2>11, <2>12 DEF Slots!Next, Proved!Next
<1>3. [Slots!Next]_Slots!vars => [Proved!Next]_Proved!vars
  BY <1>2 DEF Slots!vars, Proved!vars
<1> QED
  BY <1>1, <1>3, PTL DEF Proved!Spec

\* The same types.
LEMMA SameSlotTypes == Proved!TypeOK => Slots!TypeOK
BY DEF Proved!TypeOK, Slots!TypeOK, Proved!StreamPC, Slots!StreamPC, Proved!Fault, Slots!Fault

-----------------------------------------------------------------------------
\* The parts, each by itself.
Apart ==
  /\ Spec
  /\ Polling!Init /\ [][Polling!Next]_Polling!vars
  /\ Slots!Init /\ [][Slots!Next]_Slots!vars
  /\ Live!Init /\ [][Live!Next]_Live!vars
  /\ Queue!Init /\ [][Queue!Next]_Queue!vars

\* Every part of the whole starts and goes on as its module says, whatever the others do; their
\* fairness is ProgressFairness, which nothing here depends on.
THEOREM PartsGoOnAlone == ProgressSpec => Apart
<1>1. ProgressInit => Init /\ Polling!Init /\ Slots!Init /\ Live!Init /\ Queue!Init
  BY DEF ProgressInit
<1>2. ASSUME [ProgressNext]_progressVars
      PROVE  /\ [Next]_vars /\ [Polling!Next]_Polling!vars /\ [Slots!Next]_Slots!vars
             /\ [Live!Next]_Live!vars /\ [Queue!Next]_Queue!vars
  <2>1. /\ UNCHANGED scanVars => UNCHANGED Polling!vars
        /\ UNCHANGED slotVars => UNCHANGED Slots!vars
        /\ UNCHANGED liveVars => UNCHANGED Live!vars
        /\ UNCHANGED queueVars => UNCHANGED Queue!vars
    BY DEF scanVars, Polling!vars, Polling!lists, Polling!local, slotVars, Slots!vars, liveVars, Live!vars,
       queueVars, Queue!vars
  <2>2. CASE Trains(Next)
    BY <2>1, <2>2 DEF Trains
  <2>3. CASE Scans(Polling!Next)
    BY <2>1, <2>3 DEF Scans
  <2>4. CASE Serves(Slots!Next)
    BY <2>1, <2>4 DEF Serves
  <2>5. CASE Reaches(Live!Next)
    BY <2>1, <2>5 DEF Reaches
  <2>6. CASE Waits(Queue!Next)
    BY <2>1, <2>6 DEF Waits
  <2>7. CASE UNCHANGED progressVars
    BY <2>1, <2>7 DEF progressVars
  <2> QED
    BY <1>2, <2>2, <2>3, <2>4, <2>5, <2>6, <2>7 DEF ProgressNext
<1> QED
  BY <1>1, <1>2, PTL DEF ProgressSpec, Apart, Spec

\* The types of all the parts, of the specification that the run checks.
THEOREM ProgressTyped == ProgressSpec => []TypesOK
<1>1. Live!Init => ConsoleInv
  BY ScriptAssumption DEF Live!Init, ConsoleInv
<1>2. Polling!Init => WorkerInv
  <2> SUFFICES ASSUME Polling!Init PROVE WorkerInv
    OBVIOUS
  <2>1. copy \in [Polling!Handler -> [Scan -> Polling!Shown] \cup {None}]
    BY DEF Polling!Init
  <2>2. \A h \in Polling!Handler : handler[h] = "idle"
    BY DEF Polling!Init
  <2> QED
    BY <2>1, <2>2 DEF Polling!Init, WorkerInv, Polling!ScanPC, Polling!PassPC, Polling!Handler
<1>3. Proved!Spec => []Proved!TypeOK
  <2>1. Proved!SlotsAssumption
    BY StreamAssumption DEF Slots!SlotsAssumption, Proved!SlotsAssumption, Slots!Fault, Proved!Fault,
       Slots!IsFiniteSet, Proved!IsFiniteSet
  <2> QED
    BY <2>1, Proved!SlotsTyped, PTL
<1> QED
  BY <1>1, <1>2, <1>3, PartsGoOnAlone, TypesKept, ScanInitial, ScanNext, WorkerKept, WorkerTyped, SameStreams,
     SameSlotTypes, ConsoleKept, ConsoleTyped, FileInitial, FileNext, StampStart, StampKept, FileTyped, PTL
  DEF Apart, TypesOK

\* What is proved of the parts holds of that specification, whatever part a behaviour explores: every
\* invariant of the run over it, for any value of the constants.
THEOREM ProgressIsSafe ==
  ProgressSpec => [](MarkedHasBest /\ OutcomesAreReal /\ StreamShowsRecord /\ EveryFileRan)
<1>1. /\ ScanInv => OutcomesAreReal
      /\ LiveInv => StreamShowsRecord
      /\ FileInv => EveryFileRan
  BY DEF ScanInv, LiveInv, FileInv
<1> QED
  BY <1>1, PartsGoOnAlone, MarkersHonest, ScanInitial, ScanNext, LiveInitial, LiveNext, FileInitial, FileNext, PTL
  DEF Apart
=============================================================================
