------------------------------ MODULE LiveCase -------------------------------
(***************************************************************************)
(* How an operator comes to see a verdict.  The API and the worker write   *)
(* the job record of one case and publish each transition; queue_stream    *)
(* forwards transitions to the console as Server-Sent Events, after an     *)
(* opening snapshot; the console answers an event by fetching the case     *)
(* again, and polls it besides while it shows it as processing.            *)
(* AnalysisQueue says which transitions there are and in what order the    *)
(* pending set is kept; here each writer performs a fixed list of them.    *)
(* That a subscription is in effect when subscribe() returns is assumed.   *)
(***************************************************************************)
EXTENDS Naturals, Sequences

CONSTANTS
  Script,      \* the transitions the API and the worker make, in order
  MaxFaults,   \* publications, requests and connections that fail
  MaxOpens,    \* connections of the browser's EventSource
  None

Writer == DOMAIN Script
Settled == {"succeeded", "failed"}

VARIABLES
  row,        \* the status of the case in SQLite
  record,     \* the state in the job record, or None
  wpc, step,  \* where each writer is in its transition, and which that is
  subscribed, \* whether the stream's subscription is in place
  inbox,      \* publications waiting for get_message
  gap,        \* a publication or a read was lost since the record was last read
  spc,        \* where queue_stream is
  message,    \* the publication it is handling
  live,       \* the last state the stream sent
  source,     \* EventSource: "open", "waiting" to reconnect, or "closed" for good
  page,       \* what the console shows of the case: None, "processing" or "settled"
  limited,    \* the last fetch was answered 429
  reply,      \* the fetch under way: "idle", "sent", or the status the server answered
  opens, faults

vars == <<row, record, wpc, step, subscribed, inbox, gap, spc, message, live, source, page,
          limited, reply, opens, faults>>
writers == <<row, record, wpc, step>>
channel == <<subscribed, inbox, gap>>
stream == <<spc, message, live, source, opens>>
console == <<page, limited, reply>>

Init ==
  /\ row = "processing" /\ record = None
  /\ wpc = [w \in Writer |-> "write"] /\ step = [w \in Writer |-> 1]
  /\ subscribed = FALSE /\ inbox = <<>> /\ gap = FALSE
  /\ spc = "closed" /\ message = None /\ live = None /\ source = "waiting"
  /\ page = None /\ limited = FALSE /\ reply = "sent"
  /\ opens = 0 /\ faults = 0

Fault == faults < MaxFaults /\ faults' = faults + 1

(***************************************************************************)
(* The writers.                                                            *)
(***************************************************************************)
\* _store_success, _store_failure: the verdict is in SQLite before the record says so.
Commit(w) ==
  /\ wpc[w] = "write" /\ step[w] <= Len(Script[w]) /\ Script[w][step[w]] \in Settled
  /\ row = "processing" /\ row' = "settled"
  /\ UNCHANGED <<record, wpc, step, channel, stream, console, faults>>

\* mark_queued, mark_running, mark_retrying, mark_finished.
Write(w) ==
  /\ wpc[w] = "write" /\ step[w] <= Len(Script[w])
  /\ record' = Script[w][step[w]]
  /\ record' \in Settled => row = "settled"
  /\ wpc' = [wpc EXCEPT ![w] = "publish"]
  /\ UNCHANGED <<row, step, channel, stream, console, faults>>

\* _publish; what nobody is subscribed to is gone, and so is what Redis would not take.
Publish(w) ==
  /\ wpc[w] = "publish"
  /\ wpc' = [wpc EXCEPT ![w] = "write"] /\ step' = [step EXCEPT ![w] = @ + 1]
  /\ \/ /\ inbox' = IF subscribed THEN Append(inbox, Script[w][step[w]]) ELSE inbox
        /\ UNCHANGED <<gap, faults>>
     \/ Fault /\ gap' = TRUE /\ UNCHANGED inbox
  /\ UNCHANGED <<row, record, subscribed, stream, console>>

(***************************************************************************)
(* queue_stream and the EventSource.                                       *)
(***************************************************************************)
\* The browser connects; a refusal (429, 503) is an HTTP error, after which it does not try again.
Open ==
  /\ source = "waiting" /\ opens < MaxOpens
  /\ opens' = opens + 1
  /\ \/ source' = "open" /\ spc' = "subscribe" /\ UNCHANGED faults
     \/ source' = "closed" /\ Fault /\ UNCHANGED spc
  /\ UNCHANGED <<writers, channel, message, live, console>>

Hangup ==
  /\ spc' = "closed" /\ source' = "waiting" /\ message' = None
  /\ subscribed' = FALSE /\ inbox' = <<>>

SubscribeFails ==
  /\ spc = "subscribe" /\ Fault /\ Hangup
  /\ UNCHANGED <<writers, gap, live, opens, console>>

Subscribe ==
  /\ spc = "subscribe"
  /\ subscribed' = TRUE /\ inbox' = <<>> /\ spc' = "snapshot"
  /\ UNCHANGED <<writers, gap, message, live, source, opens, console, faults>>

\* The opening snapshot, without a state where the record could not be read.
Snapshot ==
  /\ spc = "snapshot"
  /\ \/ live' = record /\ gap' = FALSE /\ UNCHANGED faults
     \/ Fault /\ live' = None /\ gap' = TRUE
  /\ spc' = "loop"
  /\ UNCHANGED <<writers, subscribed, inbox, message, source, opens, console>>

GetMessage ==
  /\ spc = "loop" /\ inbox # <<>>
  /\ message' = Head(inbox) /\ inbox' = Tail(inbox) /\ spc' = "forward"
  /\ UNCHANGED <<writers, subscribed, gap, live, source, opens, console, faults>>

\* The console forgets the fetch under way, if any, and asks again.
Invalidated == reply' = "sent" /\ UNCHANGED <<page, limited>>

\* Mutant of Forward: what was published is sent, the record is not read again.
ForwardDelta ==
  /\ spc = "forward"
  /\ live' = message /\ gap' = FALSE
  /\ Invalidated
  /\ message' = None /\ spc' = "loop"
  /\ UNCHANGED <<writers, subscribed, inbox, source, opens, faults>>

\* The record is read again; only where it cannot be read is what was published sent instead, which
\* may be older than what the stream showed before.
Forward ==
  /\ spc = "forward"
  /\ \/ live' = record /\ gap' = FALSE /\ UNCHANGED faults
     \/ Fault /\ live' = message /\ gap' = TRUE
  /\ Invalidated
  /\ message' = None /\ spc' = "loop"
  /\ UNCHANGED <<writers, subscribed, inbox, source, opens>>

\* MAX_STREAM_SECONDS, a closed connection, or a Redis error from get_message.
StreamEnds ==
  /\ spc \in {"snapshot", "loop", "forward"} /\ Hangup
  /\ UNCHANGED <<writers, gap, live, opens, console, faults>>

(***************************************************************************)
(* The console.                                                            *)
(***************************************************************************)
\* Mutant of Polls: a 429 ends the polling.
PollsUnlessLimited == page = "processing" /\ ~limited

\* refetchInterval: while the case shows as processing, and after a 429 whatever is shown.
Polls == limited \/ page = "processing"

Poll ==
  /\ reply = "idle" /\ Polls
  /\ reply' = "sent"
  /\ UNCHANGED <<writers, channel, stream, page, limited, faults>>

\* get_case reads the row; the answer arrives later.
Answer ==
  /\ reply = "sent" /\ reply' = row
  /\ UNCHANGED <<writers, channel, stream, page, limited, faults>>

Arrives ==
  /\ reply \in {"processing", "settled"}
  /\ page' = reply /\ limited' = FALSE /\ reply' = "idle"
  /\ UNCHANGED <<writers, channel, stream, faults>>

\* retryUnlessLimited: a 429 is not retried, another failure twice and then given up.
FetchFails ==
  /\ reply # "idle" /\ Fault
  /\ limited' \in BOOLEAN /\ reply' = "idle"
  /\ UNCHANGED <<writers, channel, stream, page>>

Writes == \E w \in Writer : Commit(w) \/ Write(w) \/ Publish(w)
Streams == Subscribe \/ Snapshot \/ GetMessage \/ Forward

Next ==
  \/ Writes \/ Open \/ SubscribeFails \/ Streams \/ StreamEnds
  \/ Poll \/ Answer \/ Arrives \/ FetchFails

\* The worker finishes, requests are answered, intervals pass.
Fairness == WF_vars(Writes) /\ WF_vars(Poll) /\ WF_vars(Answer \/ Arrives)
Spec == Init /\ [][Next]_vars /\ Fairness

-----------------------------------------------------------------------------
\* A stream is subscribed only while it is being served, and shows only states of the record.
TypeOK ==
  /\ row \in {"processing", "settled"} /\ page \in {None, "processing", "settled"}
  /\ spc \in {"closed", "subscribe", "snapshot", "loop", "forward"}
  /\ subscribed => spc \in {"snapshot", "loop", "forward"} /\ source = "open"
  /\ reply \in {"idle", "sent", "processing", "settled"}
  /\ opens \in 0..MaxOpens /\ faults \in 0..MaxFaults

\* A stream that has nothing left to forward shows the state of the job record, wherever the
\* connection fell among the transitions: the snapshot covers what came before the subscription and
\* the second read what came after - unless a publication or a read of the record was lost since.
StreamShowsRecord ==
  spc = "loop" /\ inbox = <<>> /\ ~gap /\ (\A w \in Writer : wpc[w] # "publish") => live = record

\* "a verdict that arrives only on a socket nobody is listening to is a verdict the operator never
\* sees" (api-client.ts:366): once the case was shown, its verdict is shown in the end, whatever
\* happens to the stream, to publications and to single requests.
VerdictSeen == (page = "processing") ~> (page = "settled")
=============================================================================
