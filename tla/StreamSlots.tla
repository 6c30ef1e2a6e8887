----------------------------- MODULE StreamSlots -----------------------------
(***************************************************************************)
(* The cap on concurrent event streams of one client: the counter in Redis *)
(* that StreamSlot keeps (server/app/security/ratelimit.py) and the life   *)
(* of the streams that claim it (queue_stream, server/app/routers/queue.py)*)
(*                                                                         *)
(* One action per Redis command.  Several API processes share the counter; *)
(* within one process the commands of a claim or a release follow each     *)
(* other without an await, so no other stream of that process comes        *)
(* between them.  A command whose answer does not come in time is sent     *)
(* again (retry_on_timeout, redis_client.py): Redis runs it twice.  A      *)
(* stream that was let through without a claim, because Redis failed, has  *)
(* nothing to release and is not followed.                                 *)
(***************************************************************************)
EXTENDS Integers, FiniteSets

CONSTANTS
  Stream,    \* connections one client may open
  Process,   \* API worker processes
  Home,      \* the process that serves each connection
  MAX_CONCURRENT_STREAMS,
  TTL,       \* the counter's expiry, in ticks (3600 seconds)
  LIFETIME,  \* MAX_STREAM_SECONDS, in ticks
  Budget,    \* how many failures of each kind the environment injects
  Absent,    \* the key does not exist
  Never      \* the key has no expiry

\* "acquire", "release": a Redis call of that method fails;  "resend": the answer to
\* a command is late;  "lapse": the counter expires in the middle of a claim;  "kill":
\* a process dies;  "abandon": the client is gone before the response body is started.
Fault == {"acquire", "release", "resend", "lapse", "kill", "abandon"}

ASSUME SlotsAssumption ==
  /\ IsFiniteSet(Stream)
  /\ Home \in [Stream -> Process]
  /\ MAX_CONCURRENT_STREAMS \in Nat
  /\ TTL \in Nat \ {0}
  /\ LIFETIME \in Nat
  /\ Budget \in [Fault -> Nat]
  /\ Absent \notin Int
  /\ Never \notin Int

VARIABLES
  count, \* the counter
  ttl,   \* ticks until Redis drops it
  pc,    \* where each connection is
  seen,  \* what INCR returned to it
  age,   \* ticks since it was opened, or since its release began
  spent, \* failures injected so far
  debt   \* history: decrements run twice, claims the counter expired under, and what the
         \* reset to 0 took off the counter or, when it was negative, gave back to it

vars == <<count, ttl, pc, seen, age, spent, debt>>

\* "claimed", "undone", "released": the first command of the claim, of the refusal and
\* of the release has run unanswered and is sent again.
StreamPC ==
  {"closed", "claimed", "expire", "undo", "undone", "entered", "streaming", "released", "reset"}

\* In the middle of one claim or release.
Busy == {"claimed", "expire", "undo", "undone", "released", "reset"}
Free(p) == \A t \in Stream : Home[t] = p => pc[t] \notin Busy

\* The loop of its process lets the connection go on.
MayRun(s) == pc[s] \in Busy \/ Free(Home[s])

\* The local variables of a connection end with it.
Goto(s, to) == pc' = [pc EXCEPT ![s] = to]
Leave(s) ==
  /\ Goto(s, "closed")
  /\ age' = [age EXCEPT ![s] = 0]
  /\ seen' = [seen EXCEPT ![s] = 0]
Spend(f) == spent[f] < Budget[f] /\ spent' = [spent EXCEPT ![f] = @ + 1]

\* INCR and DECR take a missing key for 0.
Value == IF count = Absent THEN 0 ELSE count

-----------------------------------------------------------------------------
(* What Redis does when it runs the command a connection has sent.         *)

Increment(s) ==
  /\ pc[s] \in {"closed", "claimed"}
  /\ count' = Value + 1
  /\ UNCHANGED <<ttl, debt>>

SetExpiry(s) ==
  /\ pc[s] = "expire"
  /\ ttl' = IF count = Absent THEN ttl ELSE TTL
  /\ UNCHANGED <<count, debt>>

Decrement(s) ==
  /\ pc[s] \in {"undo", "undone", "entered", "streaming", "released"}
  /\ count' = Value - 1
  /\ debt' = IF pc[s] \in {"undone", "released"} THEN debt + 1 ELSE debt
  /\ UNCHANGED ttl

\* SET writes a value without an expiry.
SetZero(s) ==
  /\ pc[s] = "reset"
  /\ count' = 0
  /\ ttl' = Never
  /\ debt' = debt + Value

\* Nothing reaches Redis.
NotRun == UNCHANGED <<count, ttl, debt>>

-----------------------------------------------------------------------------
(* StreamSlot.__enter__                                                    *)

Incr(s) ==
  /\ MayRun(s)
  /\ Increment(s)
  /\ seen' = [seen EXCEPT ![s] = Value + 1]
  /\ Goto(s, "expire")
  /\ UNCHANGED <<age, spent>>

\* The count is compared with the cap, and no longer needed.
Counting(s, over) ==
  /\ Goto(s, IF over THEN "undo" ELSE "entered")
  /\ seen' = [seen EXCEPT ![s] = 0]
  /\ UNCHANGED <<age, spent>>

\* Mutants of Expire: the expiry is not set; one stream too many is let in.
ExpireUnset(s) ==
  /\ pc[s] = "expire"
  /\ NotRun
  /\ Counting(s, seen[s] > MAX_CONCURRENT_STREAMS)
ExpireOffByOne(s) ==
  /\ SetExpiry(s)
  /\ Counting(s, seen[s] > MAX_CONCURRENT_STREAMS + 1)

Expire(s) ==
  /\ SetExpiry(s)
  /\ Counting(s, seen[s] > MAX_CONCURRENT_STREAMS)

\* 429, before any response has started.
Undo(s) ==
  /\ pc[s] \in {"undo", "undone"}
  /\ Decrement(s)
  /\ Leave(s)
  /\ UNCHANGED spent

\* A RedisError in any of the three, whether or not the command was run: the stream
\* is let through, without a claim whatever the commands have done.
EnterFails(s) ==
  /\ pc[s] \in {"closed", "claimed", "expire", "undo", "undone"}
  /\ MayRun(s)
  /\ Spend("acquire")
  /\ NotRun \/ Increment(s) \/ SetExpiry(s) \/ Decrement(s)
  /\ Leave(s)

-----------------------------------------------------------------------------
(* The response: events() in queue_stream.                                 *)

Start(s) ==
  /\ pc[s] = "entered"
  /\ Goto(s, "streaming")
  /\ NotRun
  /\ UNCHANGED <<seen, age, spent>>

\* The client disconnects before the generator is first resumed: its finally
\* clause never runs.
Abandon(s) ==
  /\ pc[s] = "entered"
  /\ Spend("abandon")
  /\ Leave(s)
  /\ NotRun

\* After the DECR of a release.
Released(s, empty) ==
  IF empty THEN /\ Goto(s, "reset")
                /\ age' = [age EXCEPT ![s] = 0]
                /\ UNCHANGED seen
           ELSE Leave(s)

\* Mutant of Exit: the counter is reset when it reaches zero.
ExitAtZero(s) ==
  /\ pc[s] \in {"entered", "streaming", "released"}
  /\ MayRun(s)
  /\ Decrement(s)
  /\ Released(s, Value - 1 <= 0)
  /\ UNCHANGED spent

\* StreamSlot.__exit__, when the subscription fails, or on any way out of the loop:
\* disconnection, cancellation, the end of the stream's lifetime.
Exit(s) ==
  /\ pc[s] \in {"entered", "streaming", "released"}
  /\ MayRun(s)
  /\ Decrement(s)
  /\ Released(s, Value - 1 < 0)
  /\ UNCHANGED spent

Reset(s) ==
  /\ SetZero(s)
  /\ Leave(s)
  /\ UNCHANGED spent

\* A RedisError in __exit__ is logged.
ExitFails(s) ==
  /\ pc[s] \in {"entered", "streaming", "released", "reset"}
  /\ MayRun(s)
  /\ Spend("release")
  /\ NotRun \/ Decrement(s) \/ SetZero(s)
  /\ Leave(s)

-----------------------------------------------------------------------------
\* Where a connection is when its command is about to be sent again.
Again(s) ==
  IF pc[s] \in {"closed", "claimed"} THEN "claimed"
  ELSE IF pc[s] \in {"undo", "undone"} THEN "undone"
  ELSE IF pc[s] \in {"entered", "streaming", "released"} THEN "released"
  ELSE pc[s]

\* Redis runs the command, and its answer does not come in time.
Unanswered(s) ==
  /\ MayRun(s)
  /\ Spend("resend")
  /\ Increment(s) \/ SetExpiry(s) \/ Decrement(s) \/ SetZero(s)
  /\ Goto(s, Again(s))
  /\ age' = IF pc[s] \in Busy THEN age ELSE [age EXCEPT ![s] = 0]
  /\ UNCHANGED seen

\* A killed process runs no finally clause.
Kill(p) ==
  /\ \E s \in Stream : Home[s] = p /\ pc[s] # "closed"
  /\ Spend("kill")
  /\ pc' = [s \in Stream |-> IF Home[s] = p THEN "closed" ELSE pc[s]]
  /\ seen' = [s \in Stream |-> IF Home[s] = p THEN 0 ELSE seen[s]]
  /\ age' = [s \in Stream |-> IF Home[s] = p THEN 0 ELSE age[s]]
  /\ NotRun

-----------------------------------------------------------------------------
Holders == {s \in Stream : pc[s] \in {"entered", "streaming"}}

\* The claims that were counted and not yet given back.
Counted == {s \in Stream : pc[s] \in {"claimed", "expire", "undo", "entered", "streaming"}}

\* A stream ends itself when its lifetime is over, and one claim or release takes less
\* than a tick: it is in progress over one at most.
Punctual(s) ==
  /\ pc[s] \in {"entered", "streaming"} => age[s] < LIFETIME
  /\ pc[s] \in Busy => age[s] = 0

\* Redis drops the counter when its expiry is reached.
Lapse ==
  /\ count' = Absent
  /\ ttl' = Never
  /\ debt' = Cardinality(Counted \ Holders)
  /\ IF Counted \subseteq Holders THEN UNCHANGED spent ELSE Spend("lapse")

\* Time passes.
Tick ==
  /\ \A s \in Stream : Punctual(s)
  /\ age' = [s \in Stream |-> IF pc[s] = "closed" THEN 0 ELSE age[s] + 1]
  /\ IF ttl = 1
       THEN Lapse
       ELSE /\ ttl' = IF ttl = Never THEN Never ELSE ttl - 1
            /\ UNCHANGED <<count, debt, spent>>
  /\ UNCHANGED <<pc, seen>>

Init ==
  /\ count = Absent
  /\ ttl = Never
  /\ pc = [s \in Stream |-> "closed"]
  /\ seen = [s \in Stream |-> 0]
  /\ age = [s \in Stream |-> 0]
  /\ spent = [f \in Fault |-> 0]
  /\ debt = 0

\* What a connection does once its first command has been sent.
Proceed(s) ==
  \/ pc[s] = "claimed" /\ Incr(s)
  \/ Expire(s) \/ Undo(s) \/ Start(s) \/ Exit(s) \/ Reset(s)

Next ==
  \/ Tick
  \/ \E s \in Stream :
       \/ Incr(s) \/ Proceed(s) \/ EnterFails(s) \/ Abandon(s) \/ ExitFails(s)
       \/ Unanswered(s)
  \/ \E p \in Process : Kill(p)

Spec == Init /\ [][Next]_vars

\* The event loop finishes what it started, a stream ends, and time passes.  No
\* connection is ever opened by force.
FairSpec == Spec /\ SF_vars(Tick) /\ \A s \in Stream : WF_vars(Proceed(s))

-----------------------------------------------------------------------------
(* Properties.                                                             *)

\* Type invariant.
TypeOK ==
  /\ count \in Int \cup {Absent}
  /\ ttl \in (1 .. TTL) \cup {Never}
  /\ pc \in [Stream -> StreamPC]
  /\ seen \in [Stream -> Int]
  /\ age \in [Stream -> Nat]
  /\ spent \in [Fault -> Nat]
  /\ debt \in Int

\* "How many SSE connections one client may hold open at once", over all API
\* processes: whatever leaks or fails, there is at most one stream too many for every
\* decrement that was run twice, every claim the counter expired under, and every claim
\* that was counted between a DECR below zero and the reset to 0 that follows it and
\* wipes it.
CapHolds == Cardinality(Holders) <= MAX_CONCURRENT_STREAMS + debt

\* The counter falls below zero, and the reset that can erase the claims of other
\* processes is reached, only after a decrement was run twice or the counter expired
\* under a claim: no leak, failed call or killed process leads to it.
ResetNeedsLoss ==
  (\E s \in Stream : pc[s] = "reset") \/ Value < 0 => spent["resend"] + spent["lapse"] > 0

\* "A slot cannot outlive an hour of inactivity even if a release is missed": once
\* the client stays away the counter holds nothing against it, whatever was sent
\* twice, forgotten or reset, unless a claim was cut short between INCR and EXPIRE,
\* which can leave a counter without an expiry.
CutShort == spent["acquire"] + spent["kill"] > 0
IdleHeals ==
  <>[](\A s \in Stream : pc[s] = "closed") => <>[](Value <= 0 \/ (CutShort /\ ttl = Never))

\* "A leaked slot expires rather than permanently costing that client capacity".
Leaked == Value > Cardinality(Counted)
LeakedSlotExpires == Leaked ~> ~Leaked
=============================================================================
