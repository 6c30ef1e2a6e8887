-------------------------- MODULE StreamSlotsProofs --------------------------
(***************************************************************************)
(* Proofs about StreamSlots, for any number of connections, processes,     *)
(* failed calls and calls sent twice, as long as streams end before the    *)
(* counter's expiry.                                                       *)
(*                                                                         *)
(* The counter and its debt together never fall below the number of claims *)
(* they stand for: a decrement gives up one claim or adds to the debt, an  *)
(* expiry leaves the debt of the claims in progress, and the reset keeps   *)
(* the sum.                                                                *)
(***************************************************************************)
EXTENDS StreamSlots, FiniteSetTheorems, TLAPS

\* The claims whose INCR came back within the cap.
Granted == Holders \cup {s \in Stream : pc[s] = "expire" /\ seen[s] <= MAX_CONCURRENT_STREAMS}

\* The counter and its debt cover the claims.
Covered == Cardinality(Counted) <= Value + debt

\* No more claims were granted than the cap and the debt allow.
GrantInv == Cardinality(Granted) <= MAX_CONCURRENT_STREAMS + debt

\* An open stream is younger than the counter's expiry is old, if it has one.
AgeInv ==
  /\ \A s \in Holders : ttl = Never \/ TTL <= ttl + age[s]
  /\ count = Absent => ttl = Never

\* Until a command is sent twice or the counter expires under a claim it owes nothing.
LossInv ==
  spent["resend"] = 0 /\ spent["lapse"] = 0 =>
    debt = 0 /\ \A s \in Stream : pc[s] \notin {"undone", "released", "reset"}

Inv == TypeOK /\ Covered /\ GrantInv /\ AgeInv /\ LossInv

\* Redis runs the command a connection has sent, or nothing reaches it.
Command(s) == NotRun \/ Increment(s) \/ SetExpiry(s) \/ Decrement(s) \/ SetZero(s)

-----------------------------------------------------------------------------
(* Types.                                                                  *)

\* A fault leaves the counts of faults numbers, none of them smaller.
LEMMA SpendType ==
  ASSUME TypeOK, NEW f \in Fault, Spend(f)
  PROVE  /\ spent' \in [Fault -> Nat] /\ spent'[f] > 0
         /\ \A g \in Fault : spent[g] <= spent'[g]
BY DEF TypeOK, Spend

\* Claims are finitely many.
LEMMA FiniteClaims ==
  /\ IsFiniteSet(Counted) /\ Cardinality(Counted) \in Nat
  /\ IsFiniteSet(Granted) /\ Cardinality(Granted) \in Nat
  /\ IsFiniteSet(Counted \ Holders) /\ Cardinality(Counted \ Holders) \in Nat
  /\ Granted \subseteq Counted
<1>1. /\ Counted \subseteq Stream /\ Granted \subseteq Counted
      /\ Counted \ Holders \subseteq Stream
  BY DEF Counted, Granted, Holders
<1>2. QED
  BY <1>1, FS_Subset, FS_CardinalityType, SlotsAssumption

\* A command leaves the counter, its expiry and its debt what they may be.
LEMMA CommandType ==
  ASSUME TypeOK, NEW s \in Stream, Command(s)
  PROVE  count' \in Int \cup {Absent} /\ ttl' \in (1 .. TTL) \cup {Never} /\ debt' \in Int
<1>1. Value \in Int /\ debt \in Int /\ TTL \in 1 .. TTL
  BY SlotsAssumption DEF TypeOK, Value
<1>2. CASE NotRun
  BY <1>2 DEF NotRun, TypeOK
<1>3. CASE Increment(s)
  BY <1>1, <1>3 DEF Increment, TypeOK
<1>4. CASE SetExpiry(s)
  BY <1>1, <1>4 DEF SetExpiry, TypeOK
<1>5. CASE Decrement(s)
  BY <1>1, <1>5 DEF Decrement, TypeOK
<1>6. CASE SetZero(s)
  BY <1>1, <1>6 DEF SetZero, TypeOK
<1> QED
  BY <1>2, <1>3, <1>4, <1>5, <1>6 DEF Command

-----------------------------------------------------------------------------
(* The counter.                                                            *)

\* The claims stay covered when none is new, when one is given up for a decrement, and when
\* one is new for an increment.
LEMMA CoverKept ==
  ASSUME TypeOK, Covered, TypeOK', NEW s \in Stream,
         \/ Counted' \subseteq Counted /\ Value' + debt' = Value + debt
         \/ s \in Counted /\ Counted' \subseteq Counted \ {s} /\ Value' + debt' = Value + debt - 1
         \/ Counted' \subseteq Counted \cup {s} /\ Value' + debt' = Value + debt + 1
  PROVE  Covered'
<1>1. /\ IsFiniteSet(Counted) /\ Cardinality(Counted) \in Nat
      /\ Value \in Int /\ debt \in Int /\ Value' \in Int /\ debt' \in Int
  BY FiniteClaims, SlotsAssumption DEF TypeOK, Value
<1>2. CASE Counted' \subseteq Counted /\ Value' + debt' = Value + debt
  <2>1. Cardinality(Counted') <= Cardinality(Counted) /\ Cardinality(Counted') \in Nat
    BY <1>1, <1>2, FS_Subset, FS_CardinalityType
  <2>5. Cardinality(Counted') <= Value + debt
    BY <1>1, <2>1 DEF Covered
  <2>6. Value' + debt' = Value + debt
    BY <1>2
  <2> QED
    BY <2>5, <2>6 DEF Covered
<1>3. CASE s \in Counted /\ Counted' \subseteq Counted \ {s} /\ Value' + debt' = Value + debt - 1
  <2>1. /\ IsFiniteSet(Counted \ {s})
        /\ Cardinality(Counted \ {s}) = Cardinality(Counted) - 1
    BY <1>1, <1>3, FS_RemoveElement
  <2>2. /\ Cardinality(Counted') <= Cardinality(Counted \ {s})
        /\ Cardinality(Counted') \in Nat
    BY <1>3, <2>1, FS_Subset, FS_CardinalityType
  <2>5. Cardinality(Counted') <= Value + debt - 1
    BY <1>1, <2>1, <2>2 DEF Covered
  <2>6. Value' + debt' = Value + debt - 1
    BY <1>3
  <2> QED
    BY <2>5, <2>6 DEF Covered
<1>4. CASE Counted' \subseteq Counted \cup {s} /\ Value' + debt' = Value + debt + 1
  <2>1. /\ IsFiniteSet(Counted \cup {s})
        /\ Cardinality(Counted \cup {s}) \in Nat
        /\ Cardinality(Counted \cup {s}) <= Cardinality(Counted) + 1
    <3>1. /\ IsFiniteSet(Counted \cup {s})
          /\ \/ Cardinality(Counted \cup {s}) = Cardinality(Counted)
             \/ Cardinality(Counted \cup {s}) = Cardinality(Counted) + 1
      BY <1>1, FS_AddElement
    <3> QED
      BY <1>1, <3>1
  <2>2. /\ Cardinality(Counted') <= Cardinality(Counted \cup {s})
        /\ Cardinality(Counted') \in Nat
    BY <1>4, <2>1, FS_Subset, FS_CardinalityType
  <2>5. Cardinality(Counted') <= Value + debt + 1
    BY <1>1, <2>1, <2>2 DEF Covered
  <2>6. Value' + debt' = Value + debt + 1
    BY <1>4
  <2> QED
    BY <2>5, <2>6 DEF Covered
<1> QED
  BY <1>2, <1>3, <1>4

\* The grants stay bounded when none is new and the debt is no smaller, and when the
\* counter itself is within the cap.
LEMMA GrantKept ==
  ASSUME TypeOK, GrantInv, TypeOK', Covered',
         \/ Granted' \subseteq Granted /\ debt <= debt'
         \/ Value' <= MAX_CONCURRENT_STREAMS
  PROVE  GrantInv'
<1>1. /\ IsFiniteSet(Granted) /\ Cardinality(Granted) \in Nat
      /\ debt \in Int /\ Value' \in Int /\ debt' \in Int /\ MAX_CONCURRENT_STREAMS \in Nat
  BY FiniteClaims, SlotsAssumption DEF TypeOK, Value
<1>2. CASE Granted' \subseteq Granted /\ debt <= debt'
  <2>1. Cardinality(Granted') <= Cardinality(Granted) /\ Cardinality(Granted') \in Nat
    BY <1>1, <1>2, FS_Subset, FS_CardinalityType
  <2> QED
    BY <1>1, <1>2, <2>1 DEF GrantInv
<1>3. CASE Value' <= MAX_CONCURRENT_STREAMS
  <2>1. Counted' \subseteq Stream /\ Granted' \subseteq Counted'
    BY DEF Counted, Granted, Holders
  <2>2. /\ Cardinality(Counted') \in Nat /\ Cardinality(Granted') \in Nat
        /\ Cardinality(Granted') <= Cardinality(Counted')
    BY <2>1, FS_Subset, FS_CardinalityType, SlotsAssumption
  <2> QED
    BY <1>1, <1>3, <2>2 DEF GrantInv, Covered
<1> QED
  BY <1>2, <1>3

\* A command and the step of its connection, and of no other, keep the invariant, if the
\* connection claims what it has counted, is granted what the cap allows, and reaches the
\* reset by a counter below zero.
LEMMA CommandStep ==
  ASSUME Inv, TypeOK', NEW s \in Stream, NEW to \in StreamPC, Command(s),
         pc' = [pc EXCEPT ![s] = to],
         \A t \in Stream \ {s} : seen'[t] = seen[t] /\ age'[t] = age[t],
         to \in {"claimed", "expire", "undo", "entered", "streaming"} =>
           Increment(s) \/ (s \in Counted /\ (NotRun \/ SetExpiry(s))),
         to \in {"entered", "streaming"} =>
           s \in Granted /\ (SetExpiry(s) \/ (s \in Holders /\ age'[s] = age[s])),
         to = "expire" => (seen'[s] <= MAX_CONCURRENT_STREAMS =>
           s \in Granted \/ (Increment(s) /\ Value' <= MAX_CONCURRENT_STREAMS)),
         spent["resend"] <= spent'["resend"], spent["lapse"] <= spent'["lapse"],
         to \in {"undone", "released"} => spent'["resend"] > 0,
         to = "reset" => pc[s] = "reset" \/ Value' < 0
  PROVE  Inv'
<1>t. /\ pc \in [Stream -> StreamPC] /\ count \in Int \cup {Absent} /\ Absent \notin Int
      /\ Value \in Int /\ debt \in Int /\ Value' \in Int /\ debt' \in Int
      /\ MAX_CONCURRENT_STREAMS \in Nat /\ Never \notin Int /\ TTL \in Nat \ {0}
      /\ age' \in [Stream -> Nat] /\ spent \in [Fault -> Nat] /\ spent' \in [Fault -> Nat]
      /\ "resend" \in Fault /\ "lapse" \in Fault
  BY SlotsAssumption DEF Inv, TypeOK, Value, Fault
<1>c. /\ Counted' \subseteq Counted \cup {s}
      /\ s \in Counted' => to \in {"claimed", "expire", "undo", "entered", "streaming"}
  BY <1>t DEF Counted
<1>1. Covered'
  <2>1. CASE NotRun
    <3>1. Counted' \subseteq Counted
      BY <1>c, <2>1, <1>t DEF NotRun, Increment, Value
    <3> QED
      BY <2>1, <3>1, CoverKept DEF NotRun, Inv, Value
  <2>2. CASE Increment(s)
    <3>1. Value' + debt' = Value + debt + 1
      BY <2>2, <1>t DEF Increment, Value
    <3> QED
      BY <3>1, <1>c, CoverKept DEF Inv
  <2>3. CASE SetExpiry(s)
    <3>1. Counted' \subseteq Counted
      BY <1>c, <2>3 DEF SetExpiry, Increment
    <3> QED
      BY <2>3, <3>1, CoverKept DEF SetExpiry, Inv, Value
  <2>4. CASE Decrement(s)
    <3>1. Counted' \subseteq Counted \ {s}
      BY <1>c, <2>4, <1>t DEF Decrement, Increment, NotRun, SetExpiry, Value
    <3>2. CASE s \in Counted
      <4>1. Value' + debt' = Value + debt - 1
        BY <2>4, <3>2, <1>t DEF Decrement, Value, Counted
      <4> QED
        BY <3>1, <3>2, <4>1, CoverKept DEF Inv
    <3>3. CASE s \notin Counted
      <4>1. Value' + debt' = Value + debt
        BY <2>4, <3>3, <1>t DEF Decrement, Value, Counted
      <4> QED
        BY <3>1, <4>1, CoverKept DEF Inv
    <3> QED
      BY <3>2, <3>3
  <2>5. CASE SetZero(s)
    <3>1. Counted' \subseteq Counted
      BY <1>c, <2>5 DEF SetZero, Increment, Counted
    <3>2. Value' + debt' = Value + debt
      BY <2>5, <1>t DEF SetZero, Value
    <3> QED
      BY <3>1, <3>2, CoverKept DEF Inv
  <2> QED
    BY <2>1, <2>2, <2>3, <2>4, <2>5 DEF Command
<1>2. GrantInv'
  <2>1. CASE Value' <= MAX_CONCURRENT_STREAMS
    BY <2>1, <1>1, GrantKept DEF Inv
  <2>2. CASE ~(Value' <= MAX_CONCURRENT_STREAMS)
    <3>1. debt <= debt'
      BY <2>2, <1>t DEF Command, NotRun, Increment, SetExpiry, Decrement, SetZero, Value
    <3>2. Granted' \subseteq Granted
      BY <2>2, <1>t DEF Granted, Holders
    <3> QED
      BY <1>1, <3>1, <3>2, GrantKept DEF Inv
  <2> QED
    BY <2>1, <2>2
<1>3. AgeInv'
  <2>1. CASE SetExpiry(s)
    <3>1. count' = count /\ ttl' = IF count = Absent THEN ttl ELSE TTL
      BY <2>1 DEF SetExpiry
    <3>2. \A t \in Holders' : TTL <= TTL + age'[t]
      BY <1>t DEF Holders
    <3> QED
      BY <3>1, <3>2, <1>t DEF Inv, AgeInv
  <2>2. CASE SetZero(s)
    BY <2>2 DEF SetZero, AgeInv
  <2>3. CASE ~SetExpiry(s) /\ ~SetZero(s)
    <3>1. NotRun \/ Increment(s) \/ Decrement(s)
      BY <2>3 DEF Command
    <3>2. ttl' = ttl /\ (count' = Absent => count = Absent)
      BY <3>1, <1>t DEF NotRun, Increment, Decrement
    <3>3. \A t \in Holders' : t \in Holders /\ age'[t] = age[t]
      BY <2>3, <1>t DEF Holders
    <3>4. \A t \in Holders' : ttl' = Never \/ TTL <= ttl' + age'[t]
      BY <3>2, <3>3 DEF Inv, AgeInv
    <3> QED
      BY <3>2, <3>4 DEF Inv, AgeInv
  <2> QED
    BY <2>1, <2>2, <2>3
<1>4. LossInv'
  <2> SUFFICES ASSUME spent'["resend"] = 0 /\ spent'["lapse"] = 0
               PROVE  debt' = 0 /\ \A t \in Stream : pc'[t] \notin {"undone", "released", "reset"}
    BY DEF LossInv
  <2>1. debt = 0 /\ \A t \in Stream : pc[t] \notin {"undone", "released", "reset"}
    BY <1>t DEF Inv, LossInv
  <2>2. debt' = 0
    BY <2>1 DEF Command, NotRun, Increment, SetExpiry, Decrement, SetZero
  <2>3. Value' >= 0
    <3>1. Counted' \subseteq Stream
      BY DEF Counted
    <3>2. Cardinality(Counted') \in Nat
      BY <3>1, FS_Subset, FS_CardinalityType, SlotsAssumption
    <3> QED
      BY <1>1, <2>2, <1>t, <3>2 DEF Covered
  <2>4. to \notin {"undone", "released", "reset"}
    BY <2>1, <2>3, <1>t
  <2> QED
    BY <2>1, <2>2, <2>4, <1>t
<1> QED
  BY <1>1, <1>2, <1>3, <1>4 DEF Inv

\* A process that dies gives up its claims and keeps its decrements.
LEMMA KillStep ==
  ASSUME Inv, TypeOK', NEW p \in Process, Kill(p)
  PROVE  Inv'
<1>t. /\ pc \in [Stream -> StreamPC] /\ spent \in [Fault -> Nat]
      /\ "resend" \in Fault /\ "lapse" \in Fault /\ "kill" \in Fault
  BY DEF Inv, TypeOK, Fault
<1>1. /\ count' = count /\ ttl' = ttl /\ debt' = debt /\ Value' = Value
      /\ \A s \in Stream : pc'[s] = "closed" \/ (pc'[s] = pc[s] /\ seen'[s] = seen[s] /\ age'[s] = age[s])
  BY <1>t DEF Kill, NotRun, Value, Inv, TypeOK
<1>2. /\ Counted' \subseteq Counted /\ Holders' \subseteq Holders /\ Granted' \subseteq Granted
      /\ \A s \in Holders' : age'[s] = age[s]
  BY <1>1 DEF Counted, Holders, Granted
<1>3. Covered'
  <2>1. CASE Stream = {}
    <3>1. Counted' = {} /\ Counted = {}
      BY <2>1 DEF Counted
    <3> QED
      BY <1>1, <3>1, FS_EmptySet DEF Inv, Covered
  <2>2. CASE Stream # {}
    <3>1. PICK s \in Stream : TRUE
      BY <2>2
    <3> QED
      BY <1>1, <1>2, CoverKept DEF Inv
  <2> QED
    BY <2>1, <2>2
<1>4. GrantInv'
  <2>1. debt <= debt'
    BY <1>1 DEF Inv, TypeOK
  <2> QED
    BY <1>2, <1>3, <2>1, GrantKept DEF Inv
<1>5. AgeInv'
  BY <1>1, <1>2 DEF Inv, AgeInv
<1>6. LossInv'
  <2>1. spent'["resend"] = spent["resend"] /\ spent'["lapse"] = spent["lapse"]
    BY <1>t DEF Kill, Spend
  <2> QED
    BY <1>1, <2>1 DEF Inv, LossInv
<1> QED
  BY <1>3, <1>4, <1>5, <1>6 DEF Inv

\* Time passes.  With every open stream younger than LIFETIME < TTL the counter can only expire
\* when no stream is open: it owes the claims in progress.
LEMMA TickStep ==
  ASSUME Inv, TypeOK', Tick, LIFETIME < TTL
  PROVE  Inv'
<1>t. /\ pc \in [Stream -> StreamPC] /\ age \in [Stream -> Nat] /\ spent \in [Fault -> Nat]
      /\ ttl \in (1 .. TTL) \cup {Never} /\ TTL \in Nat \ {0} /\ LIFETIME \in Nat
      /\ Never \notin Int /\ MAX_CONCURRENT_STREAMS \in Nat
      /\ "resend" \in Fault /\ "lapse" \in Fault
  BY SlotsAssumption DEF Inv, TypeOK, Fault
<1>1. /\ pc' = pc /\ seen' = seen
      /\ age' = [s \in Stream |-> IF pc[s] = "closed" THEN 0 ELSE age[s] + 1]
      /\ \A s \in Holders : age[s] < LIFETIME /\ age'[s] = age[s] + 1
  BY <1>t DEF Tick, Punctual, Holders
<1>2. Counted' = Counted /\ Holders' = Holders /\ Granted' = Granted
  BY <1>1 DEF Counted, Holders, Granted
<1>3. CASE ttl = 1
  <2>1. /\ count' = Absent /\ ttl' = Never /\ debt' = Cardinality(Counted \ Holders)
        /\ IF Counted \subseteq Holders THEN spent' = spent ELSE Spend("lapse")
    BY <1>3 DEF Tick, Lapse
  <2>2. \A s \in Holders : TTL <= 1 + age[s] /\ age[s] < LIFETIME /\ age[s] \in Nat
    BY <1>1, <1>3, <1>t DEF Inv, AgeInv, Holders
  <2>3. Holders = {}
    BY <2>2, <1>t
  <2>4. Value' = 0 /\ debt' = Cardinality(Counted)
    BY <2>1, <2>3 DEF Value
  <2>5. Covered'
    BY <2>4, <1>2, FiniteClaims DEF Covered
  <2>6. GrantInv'
    BY <2>4, <2>5, <1>t, GrantKept DEF Inv
  <2>7. AgeInv'
    BY <2>1 DEF AgeInv
  <2>8. LossInv'
    <3>1. CASE Counted \subseteq Holders
      <4>1. Cardinality(Counted) = 0
        BY <3>1, <2>3, FS_EmptySet
      <4> QED
        BY <3>1, <4>1, <2>1, <2>4, <1>1 DEF Inv, LossInv
    <3>2. CASE ~(Counted \subseteq Holders)
      <4>1. spent'["lapse"] > 0
        BY <3>2, <2>1, <1>t DEF Spend
      <4> QED
        BY <4>1 DEF LossInv
    <3> QED
      BY <3>1, <3>2
  <2> QED
    BY <2>5, <2>6, <2>7, <2>8 DEF Inv
<1>4. CASE ttl # 1
  <2>1. /\ ttl' = (IF ttl = Never THEN Never ELSE ttl - 1)
        /\ count' = count /\ debt' = debt /\ spent' = spent /\ Value' = Value
    BY <1>4 DEF Tick, Value
  <2>2. Covered'
    BY <2>1, <1>2 DEF Inv, Covered
  <2>3. GrantInv'
    BY <2>1, <1>2 DEF Inv, GrantInv
  <2>4. AgeInv'
    <3>1. ASSUME NEW s \in Holders, ttl # Never
          PROVE  TTL <= ttl' + age'[s]
      <4>1. TTL <= ttl + age[s] /\ age[s] \in Nat /\ ttl \in Nat
        BY <3>1, <1>t DEF Inv, AgeInv, Holders
      <4> QED
        BY <4>1, <3>1, <2>1, <1>1, <1>t
    <3> QED
      BY <3>1, <2>1, <1>2 DEF Inv, AgeInv
  <2>5. LossInv'
    BY <2>1, <1>1 DEF Inv, LossInv
  <2> QED
    BY <2>2, <2>3, <2>4, <2>5 DEF Inv
<1> QED
  BY <1>3, <1>4

-----------------------------------------------------------------------------
\* Each step leaves every variable what it may be.
LEMMA TypeStep ==
  ASSUME TypeOK, [Next]_vars
  PROVE  TypeOK'
<1>t. /\ pc \in [Stream -> StreamPC] /\ seen \in [Stream -> Int] /\ age \in [Stream -> Nat]
      /\ count \in Int \cup {Absent} /\ ttl \in (1 .. TTL) \cup {Never} /\ Value \in Int
      /\ spent \in [Fault -> Nat] /\ debt \in Int /\ TTL \in Nat \ {0} /\ Never \notin Int
      /\ {"acquire", "release", "resend", "lapse", "kill", "abandon"} \subseteq Fault
  BY SlotsAssumption DEF TypeOK, Value, Fault
<1>c. ASSUME NEW s \in Stream, Command(s)
      PROVE  count' \in Int \cup {Absent} /\ ttl' \in (1 .. TTL) \cup {Never} /\ debt' \in Int
  BY <1>c, CommandType
<1>g. ASSUME NEW s \in Stream, NEW to \in StreamPC, Goto(s, to)
      PROVE  pc' \in [Stream -> StreamPC]
  BY <1>g, <1>t DEF Goto
<1>l. ASSUME NEW s \in Stream, Leave(s)
      PROVE  pc' \in [Stream -> StreamPC] /\ seen' \in [Stream -> Int] /\ age' \in [Stream -> Nat]
  BY <1>l, <1>t DEF Leave, Goto, StreamPC
<1>1. ASSUME NEW s \in Stream, Incr(s)
      PROVE  TypeOK'
  <2>1. pc' \in [Stream -> StreamPC] /\ seen' \in [Stream -> Int]
    BY <1>1, <1>g, <1>t DEF Incr, StreamPC
  <2> QED
    BY <1>1, <1>c, <1>t, <2>1 DEF Incr, Command, TypeOK
<1>2. ASSUME NEW s \in Stream, Expire(s)
      PROVE  TypeOK'
  <2>1. pc' \in [Stream -> StreamPC] /\ seen' \in [Stream -> Int] /\ age' = age /\ spent' = spent
    BY <1>2, <1>g, <1>t DEF Expire, Counting, StreamPC
  <2> QED
    BY <1>2, <1>c, <1>t, <2>1 DEF Expire, Command, TypeOK
<1>3. ASSUME NEW s \in Stream, Undo(s)
      PROVE  TypeOK'
  BY <1>3, <1>c, <1>l, <1>t DEF Undo, Command, TypeOK
<1>4. ASSUME NEW s \in Stream, EnterFails(s)
      PROVE  TypeOK'
  BY <1>4, <1>c, <1>l, <1>t, SpendType DEF EnterFails, Command, TypeOK
<1>5. ASSUME NEW s \in Stream, Start(s)
      PROVE  TypeOK'
  <2>1. pc' \in [Stream -> StreamPC]
    BY <1>5, <1>g DEF Start, StreamPC
  <2> QED
    BY <1>5, <1>c, <1>t, <2>1 DEF Start, Command, TypeOK
<1>6. ASSUME NEW s \in Stream, Abandon(s)
      PROVE  TypeOK'
  BY <1>6, <1>c, <1>l, <1>t, SpendType DEF Abandon, Command, TypeOK
<1>7. ASSUME NEW s \in Stream, Exit(s)
      PROVE  TypeOK'
  <2>1. pc' \in [Stream -> StreamPC] /\ seen' \in [Stream -> Int] /\ age' \in [Stream -> Nat]
    BY <1>7, <1>g, <1>l, <1>t DEF Exit, Released, StreamPC
  <2> QED
    BY <1>7, <1>c, <1>t, <2>1 DEF Exit, Command, TypeOK
<1>8. ASSUME NEW s \in Stream, Reset(s)
      PROVE  TypeOK'
  BY <1>8, <1>c, <1>l, <1>t DEF Reset, Command, TypeOK
<1>9. ASSUME NEW s \in Stream, ExitFails(s)
      PROVE  TypeOK'
  BY <1>9, <1>c, <1>l, <1>t, SpendType DEF ExitFails, Command, TypeOK
<1>10. ASSUME NEW s \in Stream, Unanswered(s)
       PROVE  TypeOK'
  <2>1. Again(s) \in StreamPC
    BY <1>t DEF Again, StreamPC
  <2>2. pc' \in [Stream -> StreamPC] /\ age' \in [Stream -> Nat]
    BY <1>10, <1>g, <1>t, <2>1 DEF Unanswered
  <2> QED
    BY <1>10, <1>c, <1>t, <2>2, SpendType DEF Unanswered, Command, TypeOK
<1>11. ASSUME NEW p \in Process, Kill(p)
       PROVE  TypeOK'
  <2>1. pc' \in [Stream -> StreamPC] /\ seen' \in [Stream -> Int] /\ age' \in [Stream -> Nat]
    BY <1>11, <1>t DEF Kill, StreamPC
  <2> QED
    BY <1>11, <1>t, <2>1, SpendType DEF Kill, NotRun, TypeOK
<1>12. CASE Tick
  <2>1. age' \in [Stream -> Nat]
    BY <1>12, <1>t DEF Tick
  <2>2. CASE ttl = 1
    BY <1>12, <1>t, <2>1, <2>2, FiniteClaims, SpendType DEF Tick, Lapse, TypeOK
  <2>3. CASE ttl # 1
    BY <1>12, <1>t, <2>1, <2>3 DEF Tick, TypeOK
  <2> QED
    BY <2>2, <2>3
<1>13. CASE UNCHANGED vars
  BY <1>13 DEF vars, TypeOK
<1> QED
  BY <1>1, <1>2, <1>3, <1>4, <1>5, <1>6, <1>7, <1>8, <1>9, <1>10, <1>11, <1>12, <1>13 DEF Next, Proceed

\* Each step keeps the invariant.
LEMMA InvStep ==
  ASSUME Inv, [Next]_vars, LIFETIME < TTL
  PROVE  Inv'
<1>y. TypeOK'
  BY TypeStep DEF Inv
<1>t. /\ pc \in [Stream -> StreamPC] /\ seen \in [Stream -> Int] /\ age \in [Stream -> Nat]
      /\ count \in Int \cup {Absent} /\ Absent \notin Int /\ Value \in Int
      /\ spent \in [Fault -> Nat] /\ MAX_CONCURRENT_STREAMS \in Nat
      /\ {"acquire", "release", "resend", "lapse", "kill", "abandon"} \subseteq Fault
  BY SlotsAssumption DEF Inv, TypeOK, Value, Fault
<1>s. ASSUME NEW f \in Fault, Spend(f)
      PROVE  /\ spent["resend"] <= spent'["resend"] /\ spent["lapse"] <= spent'["lapse"]
             /\ spent'[f] > 0
  BY <1>s, <1>t, SpendType DEF Inv
<1>l. ASSUME NEW s \in Stream, Leave(s), Command(s),
             spent["resend"] <= spent'["resend"], spent["lapse"] <= spent'["lapse"]
      PROVE  Inv'
  <2>1. /\ pc' = [pc EXCEPT ![s] = "closed"] /\ "closed" \in StreamPC
        /\ \A t \in Stream \ {s} : seen'[t] = seen[t] /\ age'[t] = age[t]
    BY <1>l, <1>t DEF Leave, Goto, StreamPC
  <2> QED
    BY <1>l, <1>y, <2>1, CommandStep
<1>1. ASSUME NEW s \in Stream, Incr(s)
      PROVE  Inv'
  <2>1. /\ pc' = [pc EXCEPT ![s] = "expire"] /\ "expire" \in StreamPC /\ Increment(s)
        /\ seen'[s] = Value + 1 /\ count' = Value + 1 /\ Value' = Value + 1
        /\ \A t \in Stream \ {s} : seen'[t] = seen[t] /\ age'[t] = age[t]
        /\ spent' = spent
    BY <1>1, <1>t DEF Incr, Increment, Goto, StreamPC, Value
  <2>2. spent["resend"] <= spent'["resend"] /\ spent["lapse"] <= spent'["lapse"]
    BY <2>1, <1>t
  <2> QED
    BY <1>y, <2>1, <2>2, CommandStep DEF Command
<1>2. ASSUME NEW s \in Stream, Expire(s)
      PROVE  Inv'
  <2> DEFINE to == IF seen[s] > MAX_CONCURRENT_STREAMS THEN "undo" ELSE "entered"
  <2>1. /\ pc' = [pc EXCEPT ![s] = to] /\ to \in StreamPC /\ SetExpiry(s) /\ s \in Counted
        /\ \A t \in Stream \ {s} : seen'[t] = seen[t] /\ age'[t] = age[t]
        /\ spent["resend"] <= spent'["resend"] /\ spent["lapse"] <= spent'["lapse"]
    BY <1>2, <1>t DEF Expire, SetExpiry, Counting, Goto, StreamPC, Counted
  <2>2. to = "entered" => s \in Granted
    BY <1>2, <1>t DEF Expire, SetExpiry, Granted
  <2> QED
    BY <1>y, <2>1, <2>2, CommandStep DEF Command
<1>3. ASSUME NEW s \in Stream, Undo(s)
      PROVE  Inv'
  BY <1>3, <1>l, <1>t DEF Undo, Command
<1>4. ASSUME NEW s \in Stream, EnterFails(s)
      PROVE  Inv'
  BY <1>4, <1>l, <1>s, <1>t DEF EnterFails, Command
<1>5. ASSUME NEW s \in Stream, Start(s)
      PROVE  Inv'
  <2>1. /\ pc' = [pc EXCEPT ![s] = "streaming"] /\ "streaming" \in StreamPC /\ NotRun
        /\ s \in Counted /\ s \in Granted /\ s \in Holders /\ age' = age /\ seen' = seen
        /\ spent["resend"] <= spent'["resend"] /\ spent["lapse"] <= spent'["lapse"]
    BY <1>5, <1>t DEF Start, Goto, StreamPC, Counted, Granted, Holders
  <2> QED
    BY <1>y, <2>1, CommandStep DEF Command
<1>6. ASSUME NEW s \in Stream, Abandon(s)
      PROVE  Inv'
  BY <1>6, <1>l, <1>s, <1>t DEF Abandon, Command
<1>7. ASSUME NEW s \in Stream, Exit(s)
      PROVE  Inv'
  <2>1. /\ Decrement(s) /\ Value' = Value - 1
        /\ spent["resend"] <= spent'["resend"] /\ spent["lapse"] <= spent'["lapse"]
    BY <1>7, <1>t DEF Exit, Decrement, Value
  <2>2. CASE Value - 1 < 0
    <3>1. /\ pc' = [pc EXCEPT ![s] = "reset"] /\ "reset" \in StreamPC /\ Value' < 0
          /\ \A t \in Stream \ {s} : seen'[t] = seen[t] /\ age'[t] = age[t]
      BY <1>7, <1>t, <2>1, <2>2 DEF Exit, Released, Goto, StreamPC
    <3> QED
      BY <1>y, <2>1, <3>1, CommandStep DEF Command
  <2>3. CASE ~(Value - 1 < 0)
    BY <1>7, <1>l, <2>1, <2>3 DEF Exit, Released, Command
  <2> QED
    BY <2>2, <2>3
<1>8. ASSUME NEW s \in Stream, Reset(s)
      PROVE  Inv'
  BY <1>8, <1>l, <1>t DEF Reset, Command
<1>9. ASSUME NEW s \in Stream, ExitFails(s)
      PROVE  Inv'
  BY <1>9, <1>l, <1>s, <1>t DEF ExitFails, Command
<1>10. ASSUME NEW s \in Stream, Unanswered(s)
       PROVE  Inv'
  <2>1. /\ pc' = [pc EXCEPT ![s] = Again(s)] /\ Again(s) \in StreamPC
        /\ seen' = seen /\ \A t \in Stream \ {s} : age'[t] = age[t]
        /\ Increment(s) \/ SetExpiry(s) \/ Decrement(s) \/ SetZero(s)
        /\ spent["resend"] <= spent'["resend"] /\ spent["lapse"] <= spent'["lapse"]
        /\ spent'["resend"] > 0
    BY <1>10, <1>s, <1>t DEF Unanswered, Goto, Again, StreamPC
  <2>2. CASE Increment(s)
    <3>1. Again(s) = "claimed"
      BY <2>2 DEF Increment, Again
    <3> QED
      BY <1>y, <2>1, <2>2, <3>1, CommandStep DEF Command
  <2>3. CASE SetExpiry(s)
    <3>1. Again(s) = "expire" /\ s \in Counted /\ (seen'[s] <= MAX_CONCURRENT_STREAMS => s \in Granted)
      BY <2>1, <2>3 DEF SetExpiry, Again, Counted, Granted
    <3> QED
      BY <1>y, <2>1, <2>3, <3>1, CommandStep DEF Command
  <2>4. CASE Decrement(s)
    <3>1. Again(s) \in {"undone", "released"}
      BY <2>4 DEF Decrement, Again
    <3> QED
      BY <1>y, <2>1, <2>4, <3>1, CommandStep DEF Command
  <2>5. CASE SetZero(s)
    <3>1. Again(s) = "reset" /\ pc[s] = "reset"
      BY <2>5 DEF SetZero, Again
    <3> QED
      BY <1>y, <2>1, <2>5, <3>1, CommandStep DEF Command
  <2> QED
    BY <2>1, <2>2, <2>3, <2>4, <2>5
<1>11. CASE UNCHANGED vars
  <2>1. /\ Counted' = Counted /\ Holders' = Holders /\ Granted' = Granted /\ Value' = Value
    BY <1>11 DEF vars, Counted, Holders, Granted, Value
  <2> QED
    BY <1>11, <1>y, <2>1 DEF Inv, vars, Covered, GrantInv, AgeInv, LossInv
<1> QED
  BY <1>y, <1>1, <1>2, <1>3, <1>4, <1>5, <1>6, <1>7, <1>8, <1>9, <1>10, <1>11, KillStep, TickStep
  DEF Next, Proceed

LEMMA Inductive ==
  ASSUME LIFETIME < TTL
  PROVE  Spec => []Inv
<1>1. Init => Inv
  <2> SUFFICES ASSUME Init PROVE Inv
    OBVIOUS
  <2>1. Counted = {} /\ Holders = {} /\ Granted = {}
    BY DEF Init, Counted, Holders, Granted
  <2>2. Cardinality({}) = 0
    BY FS_EmptySet
  <2>3. TypeOK
    BY SlotsAssumption DEF Init, TypeOK, StreamPC
  <2> QED
    BY <2>1, <2>2, <2>3, SlotsAssumption
    DEF Init, Inv, Covered, GrantInv, AgeInv, LossInv, Value
<1>2. Inv /\ [Next]_vars => Inv'
  BY InvStep
<1> QED
  BY <1>1, <1>2, PTL DEF Spec

-----------------------------------------------------------------------------
\* A client never holds more streams open than the cap, whatever is sent twice, lost or left
\* behind, but for one more for each decrement that was run twice, each claim the counter
\* expired under and each claim a reset wiped, as long as a stream ends before the counter's
\* expiry would.
THEOREM CapIsBounded ==
  ASSUME LIFETIME < TTL
  PROVE  Spec => []CapHolds
<1>1. Inv => CapHolds
  <2> SUFFICES ASSUME Inv PROVE CapHolds
    OBVIOUS
  <2>1. Holders \subseteq Granted
    BY DEF Granted
  <2>2. Cardinality(Holders) <= Cardinality(Granted) /\ Cardinality(Holders) \in Nat
    BY <2>1, FiniteClaims, FS_Subset, FS_CardinalityType
  <2>3. debt \in Int /\ MAX_CONCURRENT_STREAMS \in Nat
    BY SlotsAssumption DEF Inv, TypeOK
  <2> QED
    BY <2>2, <2>3, FiniteClaims DEF Inv, GrantInv, CapHolds
<1> QED
  BY <1>1, Inductive, PTL

\* The counter goes below zero, and the reset to 0 is reached, only after a decrement was run
\* twice or the counter expired under a claim.
THEOREM ResetIsExplained ==
  ASSUME LIFETIME < TTL
  PROVE  Spec => []ResetNeedsLoss
<1>1. Inv => ResetNeedsLoss
  <2> SUFFICES ASSUME Inv PROVE ResetNeedsLoss
    OBVIOUS
  <2>1. spent["resend"] \in Nat /\ spent["lapse"] \in Nat /\ Value \in Int
    BY SlotsAssumption DEF Inv, TypeOK, Value, Fault
  <2>2. CASE spent["resend"] = 0 /\ spent["lapse"] = 0
    <3>1. debt = 0 /\ \A s \in Stream : pc[s] # "reset"
      BY <2>2 DEF Inv, LossInv
    <3>2. Value >= 0
      BY <2>1, <3>1, FiniteClaims DEF Inv, Covered
    <3> QED
      BY <2>1, <3>1, <3>2 DEF ResetNeedsLoss
  <2>3. CASE ~(spent["resend"] = 0 /\ spent["lapse"] = 0)
    BY <2>1, <2>3 DEF ResetNeedsLoss
  <2> QED
    BY <2>2, <2>3
<1> QED
  BY <1>1, Inductive, PTL

\* The type invariant needs no hypothesis about lifetimes.
THEOREM SlotsTyped == Spec => []TypeOK
<1>1. Init => TypeOK
  BY SlotsAssumption DEF Init, TypeOK, StreamPC
<1>2. QED
  BY <1>1, TypeStep, PTL DEF Spec
=============================================================================
