------------------------------ MODULE RateLimit ------------------------------
(***************************************************************************)
(* One bucket of the sliding-window rate limiter                           *)
(* (server/app/security/ratelimit.py): the requests one client makes in    *)
(* one scope, admitted or refused by a script Redis runs atomically.       *)
(*                                                                         *)
(* The script takes the time from the API process that calls it, so a      *)
(* request carries a drift: a fast or slow clock, or a call that waited on *)
(* the network.  Expiry of the bucket follows Redis's own clock.           *)
(***************************************************************************)
EXTENDS RateLimitState

vars == <<now, log, expires, recent, refused>>

Entry == [member : Member, at : Int, score : Int]
Refusal == [at : Int, wait : Nat, drift : Drift]

\* Mutant of Covers: the seconds are rounded down.
CoversFloor(seconds, t) ==
  /\ t < (seconds + 1) * SECOND
  /\ seconds = 1 \/ seconds * SECOND <= t

\* max(1, ceil(retry)): the shortest whole number of seconds that covers t ticks.
Covers(seconds, t) ==
  /\ t <= seconds * SECOND
  /\ seconds = 1 \/ (seconds - 1) * SECOND < t

\* 429: Retry-After says when the oldest entry of the log leaves the window.
Refuse(entries, d) ==
  \E oldest \in entries, seconds \in 1 .. (WINDOW + Spread) :
    /\ \A e \in entries : oldest.score <= e.score
    /\ Covers(seconds, oldest.score + WINDOW - (now + d))
    /\ refused' = [at |-> now, wait |-> seconds * SECOND, drift |-> d]

Fresh(m) == \A e \in log \cup recent : e.member # m

Stamp(m, d) == [member |-> m, at |-> now, score |-> now + d]

\* The script counts a request: ZADD and PEXPIRE.
Count(m, d) ==
  /\ Fresh(m)
  /\ log' = Trimmed(d) \cup {Stamp(m, d)}
  /\ recent' = recent \cup {Stamp(m, d)}
  /\ expires' = now + WINDOW

\* There is room.  A request whose reply was lost passes as well, counted.
Admit(m, d) ==
  /\ Cardinality(Trimmed(d)) < LIMIT
  /\ Count(m, d)
  /\ refused' = NoRefusal
  /\ UNCHANGED now

\* There is none: 429.  The trimmed log stays, and its expiry is pushed back.
Reject(d) ==
  /\ Cardinality(Trimmed(d)) >= LIMIT
  /\ log' = Trimmed(d)
  /\ expires' = now + WINDOW
  /\ Refuse(Trimmed(d), d)
  /\ UNCHANGED <<now, recent>>

\* The client library sends a timed-out call again (retry_on_timeout): the script
\* runs twice for one request, and the second run finds the last place taken by
\* the first.
AdmitThenReject(m, d) ==
  /\ Cardinality(Trimmed(d)) = LIMIT - 1
  /\ Count(m, d)
  /\ Refuse(Trimmed(d) \cup {Stamp(m, d)}, d)
  /\ UNCHANGED now

\* Time passes, and with it the bucket's expiry.
Tick ==
  /\ now' = now + 1
  /\ log' = IF expires <= now' THEN {} ELSE log
  /\ recent' = {e \in recent : e.at > now' - (WINDOW + Spread)}
  /\ UNCHANGED <<expires, refused>>

Init ==
  /\ now = 0
  /\ log = {}
  /\ expires = 0
  /\ recent = {}
  /\ refused = NoRefusal

Next ==
  \/ Tick
  \/ \E d \in Drift :
       \/ Reject(d)
       \/ \E m \in Member : Admit(m, d) \/ AdmitThenReject(m, d)

Spec == Init /\ [][Next]_vars

-----------------------------------------------------------------------------
(* Properties.                                                             *)

\* Type invariant.
TypeOK ==
  /\ now \in Nat
  /\ log \subseteq Entry
  /\ expires \in Nat
  /\ recent \subseteq Entry
  /\ refused \in Refusal \cup {NoRefusal}
=============================================================================
