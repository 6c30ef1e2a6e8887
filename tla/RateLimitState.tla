--------------------------- MODULE RateLimitState ---------------------------
(***************************************************************************)
(* The state of RateLimit and what must be true of it, apart from the      *)
(* steps, so that a module can hold this state beside another's.           *)
(***************************************************************************)
EXTENDS Integers, FiniteSets

CONSTANTS
  LIMIT,    \* requests admitted per window
  WINDOW,   \* length of the window, in ticks
  SECOND,   \* ticks in a second, the unit of Retry-After
  Slow,     \* how far behind Redis's clock a request's time may be
  Fast,     \* ... and how far ahead
  Member,   \* the unique names given to requests
  NoRefusal \* nobody has been refused

ASSUME LimitAssumption ==
  /\ LIMIT \in Nat \ {0}
  /\ WINDOW \in Nat \ {0}
  /\ SECOND \in Nat \ {0}
  /\ Slow \in Nat
  /\ Fast \in Nat

VARIABLES
  now,     \* Redis's clock
  log,     \* the sorted set: entries by score
  expires, \* when Redis drops the sorted set
  recent,  \* every request the script has counted and a window could still hold
  refused  \* the last refusal, until the log grows again

Drift == (-Slow) .. Fast
Spread == Slow + Fast

\* Mutants of Trimmed: an entry leaves a tick early; no entry ever leaves.
TrimmedEarly(d) == {e \in log : e.score > now + d - WINDOW + 1}
TrimmedNever(d) == {e \in log : d \in Drift}

\* ZREMRANGEBYSCORE bucket 0 (now - window): what is left of the log.
Trimmed(d) == {e \in log : e.score > now + d - WINDOW}

-----------------------------------------------------------------------------
(* Properties.                                                             *)

\* The counted requests of the last `w` ticks.
CountedWithin(w) == {e \in recent : e.at > now - w}

\* "The sliding window has no such boundary": whatever instant a window ends at,
\* at most LIMIT requests were counted in it.  Clocks that disagree shorten the
\* window by as much as they disagree, and by no more.
RateBound == Cardinality(CountedWithin(WINDOW - Spread)) <= LIMIT

\* A client refused with Retry-After finds room when it comes back to the same
\* process after that long, unless a request was counted in between.
RetryAfterIsEnough ==
  (refused # NoRefusal /\ now >= refused.at + refused.wait) =>
    Cardinality(Trimmed(refused.drift)) < LIMIT

\* Nobody is refused for requests older than a window, as far as the clocks agree:
\* at the time of a refusal LIMIT requests were counted within it.
RefusedOnlyWhenFull ==
  (refused # NoRefusal /\ refused.at = now) =>
    Cardinality(CountedWithin(WINDOW + Spread)) >= LIMIT
=============================================================================
