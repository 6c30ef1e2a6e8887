--------------------------- MODULE RateLimitProofs ---------------------------
(***************************************************************************)
(* Proofs about RateLimit, for every limit, window, second and drift.      *)
(*                                                                         *)
(* The log is the limiter's memory.  It is bounded by LIMIT, and it holds  *)
(* every counted request young enough that no process can have trimmed it  *)
(* and no expiry dropped it; both together bound the requests counted.     *)
(***************************************************************************)
EXTENDS RateLimit, FiniteSetTheorems, TLAPS

\* Where entries and refusals are in time.
TimeInv ==
  /\ \A e \in log \cup recent :
       /\ e.at <= now
       /\ e.at - Slow <= e.score
       /\ e.score <= e.at + Fast
  /\ \A e \in log : e.at + WINDOW <= expires
  /\ refused # NoRefusal => refused.at <= now

\* The log is no longer than the limit, and only so much is recent.
LogInv == IsFiniteSet(log) /\ Cardinality(log) <= LIMIT /\ IsFiniteSet(recent)

\* What was counted lately is still in the log.
Remembered == \A e \in recent : e.at > now - (WINDOW - Spread) => e \in log

\* ... and nothing else that recent is in it.
Accounted == \A e \in log : e.at > now - (WINDOW + Spread) => e \in recent

\* When a refused client may come back the oldest entry has left the window.
RetryInv ==
  (refused # NoRefusal /\ log # {}) =>
    \E e \in log : e.score + WINDOW <= refused.at + refused.wait + refused.drift

Inv == TypeOK /\ TimeInv /\ LogInv /\ Remembered /\ Accounted /\ RetryInv

-----------------------------------------------------------------------------
\* Trimming only removes entries, and never one that is still remembered.
LEMMA TrimmedFacts ==
  ASSUME NEW d \in Drift, Inv
  PROVE  /\ Trimmed(d) \subseteq log
         /\ IsFiniteSet(Trimmed(d))
         /\ Cardinality(Trimmed(d)) \in Nat
         /\ \A e \in recent : e.at > now - (WINDOW - Spread) => e \in Trimmed(d)
<1>1. Trimmed(d) \subseteq log
  BY DEF Trimmed
<1>2. IsFiniteSet(Trimmed(d)) /\ Cardinality(Trimmed(d)) \in Nat
  BY <1>1, FS_Subset, FS_CardinalityType DEF Inv, LogInv
<1>3. ASSUME NEW e \in recent, e.at > now - (WINDOW - Spread)
      PROVE  e \in Trimmed(d)
  <2>1. e \in log
    BY <1>3 DEF Inv, Remembered
  <2>2. e.score > now + d - WINDOW
    BY <1>3, LimitAssumption
    DEF Inv, TypeOK, TimeInv, Entry, Drift, Spread
  <2>3. QED
    BY <2>1, <2>2 DEF Trimmed
<1>4. QED
  BY <1>1, <1>2, <1>3

\* A stamp is an entry.
LEMMA StampType ==
  ASSUME NEW d \in Drift, NEW m \in Member, TypeOK
  PROVE  /\ Stamp(m, d) \in Entry
         /\ Stamp(m, d).at = now
         /\ Stamp(m, d).score = now + d
BY LimitAssumption DEF Stamp, Entry, TypeOK, Drift

\* What a refusal records, and why it is late enough.
LEMMA RefuseFacts ==
  ASSUME NEW d \in Drift, NEW S \in SUBSET Entry, TypeOK, Refuse(S, d)
  PROVE  /\ refused' \in Refusal
         /\ refused'.at = now
         /\ \E e \in S : e.score + WINDOW <= refused'.at + refused'.wait + refused'.drift
<1>1. PICK oldest \in S, seconds \in 1 .. (WINDOW + Spread) :
        /\ Covers(seconds, oldest.score + WINDOW - (now + d))
        /\ refused' = [at |-> now, wait |-> seconds * SECOND, drift |-> d]
  BY DEF Refuse
<1>2. seconds \in Nat /\ d \in Int
  BY LimitAssumption DEF Drift, Spread
<1>3. seconds * SECOND \in Nat
  BY <1>2, LimitAssumption
<1>4. oldest.score + WINDOW - (now + d) <= seconds * SECOND
  BY <1>1 DEF Covers
<1>5. now \in Nat /\ oldest.score \in Int
  BY DEF TypeOK, Entry
<1>6. refused' \in Refusal
  BY <1>1, <1>3, <1>5 DEF Refusal
<1>7. oldest.score + WINDOW <= now + seconds * SECOND + d
  BY <1>2, <1>3, <1>4, <1>5, LimitAssumption
<1>8. QED
  BY <1>1, <1>6, <1>7

\* Counting a request adds one entry to a log with room for it.
LEMMA CountStep ==
  ASSUME NEW d \in Drift, NEW m \in Member, Inv, Count(m, d), UNCHANGED now,
         Cardinality(Trimmed(d)) < LIMIT,
         refused' # NoRefusal => refused'.at <= now
  PROVE  /\ now' \in Nat /\ log' \subseteq Entry /\ expires' \in Nat /\ recent' \subseteq Entry
         /\ TimeInv'
         /\ LogInv'
         /\ Remembered'
         /\ Accounted'
<1>1. /\ now \in Nat /\ log \subseteq Entry /\ expires \in Nat /\ recent \subseteq Entry
      /\ Trimmed(d) \subseteq log
      /\ Stamp(m, d) \in Entry
      /\ Stamp(m, d).at = now
      /\ Stamp(m, d).score = now + d
  BY TrimmedFacts, StampType DEF Inv, TypeOK
<1>2. /\ log' = Trimmed(d) \cup {Stamp(m, d)}
      /\ recent' = recent \cup {Stamp(m, d)}
      /\ expires' = now + WINDOW
      /\ now' = now
  BY DEF Count
<1>3. now' \in Nat /\ log' \subseteq Entry /\ expires' \in Nat /\ recent' \subseteq Entry
  BY <1>1, <1>2, LimitAssumption
<1>4. TimeInv'
  <2>1. \A e \in log' \cup recent' :
          e.at <= now' /\ e.at - Slow <= e.score /\ e.score <= e.at + Fast
    BY <1>1, <1>2, LimitAssumption DEF Inv, TimeInv, Drift
  <2>2. \A e \in log' : e.at + WINDOW <= expires'
    BY <1>1, <1>2, <2>1, LimitAssumption DEF Entry
  <2>3. QED
    BY <2>1, <2>2, <1>2 DEF TimeInv
<1>5. LogInv'
  <2>1. IsFiniteSet(log') /\ Cardinality(log') <= Cardinality(Trimmed(d)) + 1
    <3>1. IsFiniteSet(Trimmed(d)) /\ Cardinality(Trimmed(d)) \in Nat
      BY TrimmedFacts
    <3>2. Stamp(m, d) \notin Trimmed(d)
      BY <1>1 DEF Count, Fresh, Stamp
    <3>3. /\ IsFiniteSet(Trimmed(d) \cup {Stamp(m, d)})
          /\ Cardinality(Trimmed(d) \cup {Stamp(m, d)}) = Cardinality(Trimmed(d)) + 1
      BY <3>1, <3>2, FS_AddElement
    <3>4. QED
      BY <1>2, <3>1, <3>3
  <2>2. Cardinality(Trimmed(d)) \in Nat /\ Cardinality(log') \in Nat
    BY <2>1, TrimmedFacts, FS_CardinalityType
  <2>3. IsFiniteSet(recent')
    BY <1>2, FS_AddElement DEF Inv, LogInv
  <2>4. QED
    BY <2>1, <2>2, <2>3, TrimmedFacts, LimitAssumption DEF LogInv
<1>6. Remembered'
  BY <1>2, TrimmedFacts DEF Remembered
<1>7. Accounted'
  BY <1>1, <1>2 DEF Inv, Accounted
<1>8. QED
  BY <1>3, <1>4, <1>5, <1>6, <1>7

\* The inductive invariant.
LEMMA Inductive == Spec => []Inv
<1>1. Init => Inv
  <2>1. ASSUME Init PROVE Cardinality(log) = 0 /\ IsFiniteSet(log)
    BY <2>1, FS_EmptySet DEF Init
  <2>2. QED
    BY <2>1, LimitAssumption
    DEF Init, Inv, TypeOK, TimeInv, LogInv, Remembered, Accounted, RetryInv
<1>2. ASSUME Inv, [Next]_vars
      PROVE  Inv'
  <2> USE <1>2
  <2>t. now \in Nat /\ log \subseteq Entry /\ expires \in Nat /\ recent \subseteq Entry
    BY DEF Inv, TypeOK
  <2>1. CASE Tick
    <3>1. /\ now' = now + 1 /\ expires' = expires /\ refused' = refused
          /\ recent' \subseteq recent /\ log' \subseteq log
          /\ recent' = {e \in recent : e.at > now' - (WINDOW + Spread)}
          /\ log' = IF expires <= now' THEN {} ELSE log
      BY <2>1 DEF Tick
    <3>2. TypeOK'
      BY <3>1, <2>t DEF Inv, TypeOK
    <3>3. TimeInv'
      <4>1. \A e \in log \cup recent : e.at \in Int
        BY <2>t DEF Entry
      <4>2. \A e \in log' \cup recent' :
              e.at <= now' /\ e.at - Slow <= e.score /\ e.score <= e.at + Fast
        BY <3>1, <4>1, <2>t DEF Inv, TimeInv
      <4>3. refused' # NoRefusal => refused'.at <= now'
        BY <3>1, <2>t DEF Inv, TypeOK, TimeInv, Refusal
      <4>4. QED
        BY <4>2, <4>3, <3>1 DEF Inv, TimeInv
    <3>4. LogInv'
      <4>1. IsFiniteSet(log') /\ Cardinality(log') <= LIMIT
        BY <3>1, FS_EmptySet, LimitAssumption DEF Inv, LogInv
      <4>2. IsFiniteSet(recent')
        BY <3>1, FS_Subset DEF Inv, LogInv
      <4>3. QED
        BY <4>1, <4>2 DEF LogInv
    <3>5. Remembered'
      <4>1. ASSUME NEW e \in recent', e.at > now' - (WINDOW - Spread)
            PROVE  e \in log'
        <5>1. e \in recent /\ e.at \in Int
          BY <3>1, <2>t DEF Entry
        <5>2. e.at > now - (WINDOW - Spread)
          BY <5>1, <4>1, <3>1, <2>t, LimitAssumption DEF Spread
        <5>3. e \in log
          BY <5>1, <5>2 DEF Inv, Remembered
        <5>4. e.at + WINDOW <= expires
          BY <5>3 DEF Inv, TimeInv
        <5>5. ~(expires <= now')
          BY <5>1, <5>4, <4>1, <3>1, <2>t, LimitAssumption DEF Spread
        <5>6. QED
          BY <5>3, <5>5, <3>1
      <4>2. QED
        BY <4>1 DEF Remembered
    <3>6. Accounted'
      <4>1. ASSUME NEW e \in log', e.at > now' - (WINDOW + Spread)
            PROVE  e \in recent'
        <5>1. e \in log /\ e.at \in Int
          BY <3>1, <2>t DEF Entry
        <5>2. e.at > now - (WINDOW + Spread)
          BY <5>1, <4>1, <3>1, <2>t, LimitAssumption DEF Spread
        <5>3. QED
          BY <5>1, <5>2, <4>1, <3>1 DEF Inv, Accounted
      <4>2. QED
        BY <4>1 DEF Accounted
    <3>7. RetryInv'
      BY <3>1 DEF Inv, RetryInv
    <3>8. QED
      BY <3>2, <3>3, <3>4, <3>5, <3>6, <3>7 DEF Inv
  <2>2. ASSUME NEW d \in Drift, Reject(d)
        PROVE  Inv'
    <3>1. /\ now' = now /\ recent' = recent /\ expires' = now + WINDOW
          /\ log' = Trimmed(d)
          /\ Refuse(Trimmed(d), d)
      BY <2>2 DEF Reject
    <3>2. /\ Trimmed(d) \subseteq log /\ IsFiniteSet(Trimmed(d))
          /\ Cardinality(Trimmed(d)) \in Nat
          /\ \A e \in recent : e.at > now - (WINDOW - Spread) => e \in Trimmed(d)
      BY TrimmedFacts
    <3>3. /\ refused' \in Refusal /\ refused'.at = now
          /\ \E e \in Trimmed(d) : e.score + WINDOW <= refused'.at + refused'.wait + refused'.drift
      BY <3>1, <3>2, <2>t, RefuseFacts DEF Inv
    <3>4. TypeOK'
      BY <3>1, <3>2, <3>3, <2>t, LimitAssumption DEF TypeOK
    <3>5. TimeInv'
      <4>1. \A e \in log' : e.at + WINDOW <= expires'
        BY <3>1, <3>2, <2>t, LimitAssumption DEF Inv, TimeInv, Entry
      <4>2. QED
        BY <4>1, <3>1, <3>2, <3>3, <2>t DEF Inv, TimeInv
    <3>6. LogInv'
      <4>1. Cardinality(Trimmed(d)) <= Cardinality(log) /\ Cardinality(log) \in Nat
        BY <3>2, FS_Subset, FS_CardinalityType DEF Inv, LogInv
      <4>2. QED
        BY <4>1, <3>1, <3>2, LimitAssumption DEF Inv, LogInv
    <3>7. Remembered' /\ Accounted'
      BY <3>1, <3>2 DEF Inv, Remembered, Accounted
    <3>8. RetryInv'
      BY <3>1, <3>3 DEF RetryInv
    <3>9. QED
      BY <3>4, <3>5, <3>6, <3>7, <3>8 DEF Inv
  <2>3. ASSUME NEW d \in Drift, NEW m \in Member, Admit(m, d)
        PROVE  Inv'
    <3>1. Count(m, d) /\ now' = now /\ refused' = NoRefusal /\ Cardinality(Trimmed(d)) < LIMIT
      BY <2>3 DEF Admit
    <3>2. QED
      BY <3>1, CountStep DEF Inv, TypeOK, RetryInv
  <2>4. ASSUME NEW d \in Drift, NEW m \in Member, AdmitThenReject(m, d)
        PROVE  Inv'
    <3>1. /\ Count(m, d) /\ now' = now
          /\ Refuse(Trimmed(d) \cup {Stamp(m, d)}, d)
          /\ log' = Trimmed(d) \cup {Stamp(m, d)}
      BY <2>4 DEF AdmitThenReject, Count
    <3>2. Cardinality(Trimmed(d)) < LIMIT
      BY <2>4, LimitAssumption DEF AdmitThenReject
    <3>3. Trimmed(d) \cup {Stamp(m, d)} \in SUBSET Entry
      BY TrimmedFacts, StampType, <2>t DEF Inv
    <3>4. /\ refused' \in Refusal /\ refused'.at = now
          /\ \E e \in log' : e.score + WINDOW <= refused'.at + refused'.wait + refused'.drift
      BY <3>1, <3>3, RefuseFacts DEF Inv
    <3>5. refused'.at <= now
      BY <3>4, <2>t
    <3>6. QED
      BY <3>1, <3>2, <3>4, <3>5, CountStep DEF Inv, TypeOK, RetryInv
  <2>5. CASE UNCHANGED vars
    BY <2>5
    DEF vars, Inv, TypeOK, TimeInv, LogInv, Remembered, Accounted, RetryInv
  <2>6. QED
    BY <2>1, <2>2, <2>3, <2>4, <2>5 DEF Next
<1>3. QED
  BY <1>1, <1>2, PTL DEF Spec

\* At most LIMIT requests are counted in any window, shortened by the drift of
\* the clocks (ratelimit.py, _ADMIT_LUA).
THEOREM WindowBounded == Spec => []RateBound
<1>1. Inv => RateBound
  <2> SUFFICES ASSUME Inv PROVE RateBound
    OBVIOUS
  <2>1. CountedWithin(WINDOW - Spread) \subseteq log
    BY DEF Inv, Remembered, CountedWithin
  <2>2. /\ Cardinality(CountedWithin(WINDOW - Spread)) <= Cardinality(log)
        /\ Cardinality(CountedWithin(WINDOW - Spread)) \in Nat
        /\ Cardinality(log) \in Nat
    BY <2>1, FS_Subset, FS_CardinalityType DEF Inv, LogInv
  <2>3. QED
    BY <2>2, LimitAssumption DEF Inv, LogInv, RateBound
<1>2. QED
  BY <1>1, Inductive, PTL

\* A refused client that waits for its Retry-After finds room, unless somebody
\* was counted in between (ratelimit.py, the rejection branch and __call__).
THEOREM RetryAfterHonest == Spec => []RetryAfterIsEnough
<1>1. Inv => RetryAfterIsEnough
  <2> SUFFICES ASSUME Inv, refused # NoRefusal, now >= refused.at + refused.wait
               PROVE  Cardinality(Trimmed(refused.drift)) < LIMIT
    BY DEF RetryAfterIsEnough
  <2> DEFINE d == refused.drift
  <2>1. /\ refused \in Refusal /\ d \in Drift /\ now \in Nat
        /\ log \subseteq Entry
    BY DEF Inv, TypeOK, Refusal
  <2>2. /\ Trimmed(d) \subseteq log /\ Cardinality(Trimmed(d)) \in Nat
        /\ Cardinality(log) \in Nat /\ Cardinality(log) <= LIMIT
    BY <2>1, TrimmedFacts, FS_CardinalityType DEF Inv, LogInv
  <2>3. CASE log = {}
    BY <2>3, <2>2, FS_EmptySet, LimitAssumption
  <2>4. CASE log # {}
    <3>1. PICK e \in log : e.score + WINDOW <= refused.at + refused.wait + d
      BY <2>4 DEF Inv, RetryInv
    <3>2. ~(e.score > now + d - WINDOW)
      BY <3>1, <2>1, LimitAssumption DEF Refusal, Entry, Drift
    <3>3. Trimmed(d) # log
      BY <3>1, <3>2 DEF Trimmed
    <3>4. Cardinality(Trimmed(d)) < Cardinality(log)
      BY <2>2, <3>3, FS_Subset DEF Inv, LogInv
    <3>5. QED
      BY <3>4, <2>2, LimitAssumption
  <2>5. QED
    BY <2>3, <2>4
<1>2. QED
  BY <1>1, Inductive, PTL

\* A client is refused only when LIMIT requests were counted within the window,
\* stretched by the drift of the clocks (ratelimit.py, _ADMIT_LUA).
THEOREM NoFalseRefusal == Spec => []RefusedOnlyWhenFull
<1>1. Init => RefusedOnlyWhenFull
  BY DEF Init, RefusedOnlyWhenFull
<1>2. ASSUME Inv, Inv', RefusedOnlyWhenFull, [Next]_vars
      PROVE  RefusedOnlyWhenFull'
  <2> USE <1>2
  <2>0. SUFFICES ASSUME refused' # NoRefusal, refused'.at = now'
                 PROVE  Cardinality(CountedWithin(WINDOW + Spread)') >= LIMIT
    BY DEF RefusedOnlyWhenFull
  <2>t. now \in Nat /\ log \subseteq Entry /\ recent \subseteq Entry
    BY DEF Inv, TypeOK
  <2>d. \A d \in Drift : \A e \in Trimmed(d) :
          e \in log /\ e \in Entry /\ e.at > now - (WINDOW + Spread)
    BY <2>t, LimitAssumption DEF Inv, TimeInv, Trimmed, Entry, Drift, Spread
  <2>f. IsFiniteSet(CountedWithin(WINDOW + Spread)')
    <3>1. CountedWithin(WINDOW + Spread)' \subseteq recent'
      BY DEF CountedWithin
    <3>2. QED
      BY <3>1, FS_Subset DEF Inv, LogInv
  <2>1. CASE Tick
    BY <2>1, <2>0, <2>t DEF Tick, Inv, TypeOK, TimeInv, Refusal
  <2>2. ASSUME NEW d \in Drift, Reject(d)
        PROVE  Cardinality(CountedWithin(WINDOW + Spread)') >= LIMIT
    <3>1. Trimmed(d) \subseteq CountedWithin(WINDOW + Spread)'
      BY <2>2, <2>d DEF Reject, CountedWithin, Inv, Accounted
    <3>2. /\ Cardinality(Trimmed(d)) <= Cardinality(CountedWithin(WINDOW + Spread)')
          /\ Cardinality(Trimmed(d)) \in Nat
          /\ Cardinality(CountedWithin(WINDOW + Spread)') \in Nat
      BY <3>1, <2>f, FS_Subset, FS_CardinalityType, TrimmedFacts
    <3>3. QED
      BY <3>2, <2>2, LimitAssumption DEF Reject
  <2>3. ASSUME NEW d \in Drift, NEW m \in Member, Admit(m, d)
        PROVE  FALSE
    BY <2>3, <2>0 DEF Admit
  <2>4. ASSUME NEW d \in Drift, NEW m \in Member, AdmitThenReject(m, d)
        PROVE  Cardinality(CountedWithin(WINDOW + Spread)') >= LIMIT
    <3> DEFINE s == Stamp(m, d)
    <3>1. /\ s \notin log /\ s.at = now /\ s \in Entry
          /\ now' = now /\ recent' = recent \cup {s}
      BY <2>4, StampType DEF AdmitThenReject, Count, Fresh, Stamp, Inv
    <3>2. Trimmed(d) \subseteq CountedWithin(WINDOW + Spread)'
      BY <3>1, <2>d DEF CountedWithin, Inv, Accounted
    <3>3. s \in CountedWithin(WINDOW + Spread)'
      BY <3>1, <2>t, LimitAssumption DEF CountedWithin, Spread
    <3>4. s \notin Trimmed(d) /\ IsFiniteSet(Trimmed(d)) /\ Cardinality(Trimmed(d)) \in Nat
      BY <3>1, TrimmedFacts
    <3>5. Cardinality(Trimmed(d) \cup {s}) = Cardinality(Trimmed(d)) + 1
      BY <3>4, FS_AddElement
    <3>6. Cardinality(Trimmed(d) \cup {s}) <= Cardinality(CountedWithin(WINDOW + Spread)')
      BY <3>2, <3>3, <2>f, FS_Subset
    <3>7. QED
      BY <3>4, <3>5, <3>6, <2>4, <2>f, FS_CardinalityType, LimitAssumption
      DEF AdmitThenReject
  <2>5. CASE UNCHANGED vars
    BY <2>5, <2>0 DEF vars, RefusedOnlyWhenFull, CountedWithin
  <2>6. QED
    BY <2>1, <2>2, <2>3, <2>4, <2>5 DEF Next
<1>3. QED
  BY <1>1, <1>2, Inductive, PTL DEF Spec
=============================================================================
